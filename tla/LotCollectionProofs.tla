-------------------------- MODULE LotCollectionProofs --------------------------
(***************************************************************************)
(* Proofs about LotCollection, for any lots, jobs, executions and bids.    *)
(* IInv is preserved because most steps of an execution only move it: they *)
(* leave the table alone and take no lock (Move) or give all of them up    *)
(* (GiveUp).  The steps that matter have a lemma each: Take, ReadPrev,     *)
(* Upsert, Authorize, the two commits, and those of the live reader.       *)
(***************************************************************************)
EXTENDS LotCollection, TLAPS

Early  == {"taken", "collecting", "collected"}
Locked == {"writing", "upserting", "committing"}
After  == {"posting", "finishing", "failing", "unwinding", "ended"}

LEMMA InitIInv == Init => IInv
  <1> SUFFICES ASSUME Init PROVE IInv  OBVIOUS
  <1> USE AbsentAssumption, NoOneAssumption, MaxBidAssumption DEF Init
  <1>1. 0 \in Bids /\ Blank \in [Lots -> Bids \cup {Absent}] 
    BY DEF Bids, Blank, AtRest
  <1>2. history \in [Lots -> [Bids -> Nat]]
    OBVIOUS
  <1>3. TypeOK              BY <1>1, <1>2 DEF TypeOK, Places
  <1>4. JobsAreHeld         BY DEF JobsAreHeld
  <1>5. RowsAreLocked       BY DEF RowsAreLocked
  <1>6. BidsAreRecorded
    <2>1. ASSUME NEW l \in Lots, row[l] # Absent PROVE Recorded(l, row[l])
      <3>1. row[l] \in Bids /\ row[l] \in Nat
        BY <2>1 DEF Bids
      <3>2. row[l] > 0 => history[l][row[l]] = 1
        BY <3>1
      <3>3. QED BY <3>1, <3>2 DEF Recorded
    <2>2. QED BY <2>1 DEF BidsAreRecorded
  <1>7. CommitsAreKnown     BY DEF CommitsAreKnown
  <1>8. RunTellsTruth       BY DEF RunTellsTruth
  <1>9. NovosAreNew         BY DEF NovosAreNew
  <1>10. NewLotsAreAnnounced BY DEF NewLotsAreAnnounced
  <1>11. QED BY <1>3, <1>4, <1>5, <1>6, <1>7, <1>8, <1>9, <1>10 DEF IInv

-----------------------------------------------------------------------------
(* Types.                                                                    *)

LEMMA ConstantTypes ==
  /\ 0 \in Bids
  /\ Absent \notin Bids
  /\ Blank \in [Lots -> Bids \cup {Absent}]
  /\ \A l \in Lots, b \in Bids : [lot |-> l, bid |-> b] # AtRest
  BY AbsentAssumption, NoOneAssumption, MaxBidAssumption DEF Bids, Blank, AtRest

LEMMA QueueTypes ==
  ASSUME TypeOK, (\E j \in Jobs : Lapse(j)) \/ (\E e \in Execs, j \in Jobs : Take(e, j))
  PROVE  TypeOK'
  <1>1. ASSUME NEW j \in Jobs, Lapse(j) PROVE TypeOK'
    BY <1>1 DEF TypeOK, Lapse, runs, batch, table, reader
  <1>2. ASSUME NEW e \in Execs, NEW j \in Jobs, Take(e, j) PROVE TypeOK'
    BY <1>2 DEF TypeOK, Take, Go, Places, runs, batch, table, reader
  <1>3. QED BY <1>1, <1>2

LEMMA CloseTypes ==
  ASSUME TypeOK, NEW e \in Execs, Close(e)
  PROVE  /\ lock' \in [Jobs -> Execs \cup {NoOne, "closed"}]
         /\ job' = job /\ before' = before
         /\ pc' \in [Execs -> Places]
         /\ pc' = [pc EXCEPT ![e] = "ended"]
         /\ \A j \in Jobs : lock'[j] \in Execs => lock'[j] = lock[j]
  <1>1. lock' \in [Jobs -> Execs \cup {NoOne, "closed"}]
    BY DEF Close, TypeOK
  <1>2. \A j \in Jobs : lock'[j] \in Execs => lock'[j] = lock[j]
    BY ClosedAssumption DEF Close, TypeOK
  <1>3. QED BY <1>1, <1>2 DEF Close, Go, TypeOK, Places

LEMMA BreakTypes ==
  ASSUME TypeOK, NEW e \in Execs, RollBack(e)
  PROVE  /\ page'  \in [Execs -> [Lots -> Bids \cup {Absent}]]
         /\ lot'   \in [Execs -> Lots \cup {NoOne}]
         /\ prev'  \in [Execs -> Bids \cup {Absent}]
         /\ wrote' \in [Execs -> SUBSET Lots]
         /\ noted' \in [Execs -> SUBSET Lots]
         /\ novos' \in [Execs -> SUBSET Lots]
  BY ConstantTypes DEF RollBack, TypeOK

LEMMA ApplyTypes ==
  ASSUME TypeOK, NEW e \in Execs, Apply(e)
  PROVE  /\ row'       \in [Lots -> Bids \cup {Absent}]
         /\ writer'    \in [Lots -> Execs \cup {NoOne}]
         /\ history'   \in [Lots -> [Bids -> Nat]]
         /\ committed' \in SUBSET Execs
         /\ page'      \in [Execs -> [Lots -> Bids \cup {Absent}]]
         /\ wrote'     \in [Execs -> SUBSET Lots]
         /\ noted'     \in [Execs -> SUBSET Lots]
         /\ lot' = lot /\ prev' = prev
  <1>1. row' \in [Lots -> Bids \cup {Absent}]
    <2>1. \A l \in Lots : page[e][l] \in Bids \cup {Absent}  BY DEF TypeOK
    <2>2. QED BY <2>1 DEF Apply, TypeOK
  <1>2. history' \in [Lots -> [Bids -> Nat]]
    <2>1. \A l \in Lots, b \in Bids : history[l][b] \in Nat /\ history[l][b] + 1 \in Nat
      BY DEF TypeOK
    <2>2. QED BY <2>1 DEF Apply
  <1>3. QED BY <1>1, <1>2, ConstantTypes DEF Apply, TypeOK

LEMMA ExecuteTypes ==
  ASSUME TypeOK, NEW e \in Execs, Execute(e), pc[e] = "upserting" => lot[e] \in Lots
  PROVE  TypeOK'
  <1> USE DEF queue, runs, batch, table, reader
  <1>1. CASE StartRun(e) \/ Begin(e) \/ Authorize(e) \/ ObserverFails(e)
    <2>1. CASE StartRun(e)
      BY <2>1 DEF TypeOK, StartRun, Go, Places
    <2>2. CASE Begin(e) \/ Authorize(e) \/ ObserverFails(e)
      <3>1. \E p \in Places : Go(e, p)
        BY <2>2 DEF Begin, Authorize, ObserverFails, Places
      <3>2. UNCHANGED <<queue, runs, batch, table, alert, reader>>
        BY <2>2 DEF Begin, Authorize, ObserverFails
      <3>3. QED BY <3>1, <3>2 DEF TypeOK, Go
    <2>3. QED BY <1>1, <2>1, <2>2
  <1>2. CASE Refuse(e) \/ FinishRun(e) \/ LeaveOpen(e) \/ FailRun(e)
    <2>1. Close(e)
      BY <1>2 DEF Refuse, FinishRun, LeaveOpen, FailRun
    <2>2. run' \in [Execs -> {"none", "open", "ok", "failed"}] /\ counted' \in [Execs -> BOOLEAN]
      BY <1>2 DEF TypeOK, Refuse, FinishRun, LeaveOpen, FailRun
    <2>3. UNCHANGED <<batch, table, alert, reader>>
      BY <1>2 DEF Refuse, FinishRun, LeaveOpen, FailRun
    <2>4. QED BY <2>1, <2>2, <2>3, CloseTypes DEF TypeOK
  <1>3. CASE Collect(e)
    BY <1>3 DEF TypeOK, Collect, Go, Places
  <1>4. ASSUME NEW l \in Lots, ReadPrev(e, l) PROVE TypeOK'
    BY <1>4 DEF TypeOK, ReadPrev, Go, Places
  <1>5. CASE Upsert(e)
    <2>1. lot[e] \in Lots  BY <1>5 DEF Upsert
    <2>2. wrote' \in [Execs -> SUBSET Lots] /\ noted' \in [Execs -> SUBSET Lots] /\ novos' \in [Execs -> SUBSET Lots]
      BY <1>5, <2>1 DEF TypeOK, Upsert
    <2>3. QED BY <1>5, <2>2 DEF TypeOK, Upsert, Go, Places
  <1>6. CASE Commit(e)
    BY <1>6, ApplyTypes DEF TypeOK, Commit, Go, Places
  <1>7. CASE CommitUnheard(e)
    BY <1>7, ApplyTypes DEF TypeOK, CommitUnheard, Drop, Go, Places
  <1>8. CASE PostCollect(e)
    BY <1>8 DEF TypeOK, PostCollect, Drop, Go, Places
  <1>9. CASE Deadline(e) \/ Cancel(e) \/ Refused(e) \/ WaitTooLong(e) \/ Dispossessed(e)
    <2>1. Break(e)
      BY <1>9 DEF Deadline, Cancel, Refused, WaitTooLong, Dispossessed
    <2>2. QED BY <2>1, BreakTypes DEF TypeOK, Break, Give, Go, Places
  <1>10. CASE Crash(e)
    BY <1>10, BreakTypes DEF TypeOK, Crash, Drop, Go, Places
  <1>11. QED
    BY <1>1, <1>2, <1>3, <1>4, <1>5, <1>6, <1>7, <1>8, <1>9, <1>10
    DEF Execute, Write, Conclude, Fail

LEMMA LiveTypes ==
  ASSUME TypeOK, ReadLiveBids
  PROVE  TypeOK'
  <1> USE ConstantTypes DEF queue, runs, batch, table, reader
  <1>1. ASSUME NEW l \in Lots, UpdateLive(l) PROVE TypeOK'
    BY <1>1 DEF TypeOK, UpdateLive
  <1>2. CASE RecordLive
    <2>1. live.lot \in Lots /\ live.bid \in Bids  BY <1>2 DEF RecordLive, TypeOK
    <2>2. history' \in [Lots -> [Bids -> Nat]]    BY <1>2, <2>1 DEF RecordLive, TypeOK
    <2>3. QED BY <1>2, <2>2 DEF TypeOK, RecordLive
  <1>3. CASE AbandonLive
    BY <1>3 DEF TypeOK, AbandonLive
  <1>4. QED BY <1>1, <1>2, <1>3 DEF ReadLiveBids

-----------------------------------------------------------------------------
(* Steps that only move an execution.                                        *)

(* The queue may take locks back, but gives none.                            *)
LEMMA JobsKept ==
  ASSUME IInv,
         UNCHANGED <<job, before>>,
         \A j \in Jobs : lock'[j] \in Execs => lock'[j] = lock[j],
         \A e \in Execs : pc'[e] = "idle" <=> pc[e] = "idle"
  PROVE  JobsAreHeld'
  BY DEF IInv, JobsAreHeld

(* The variables of the other executions.                                    *)
OthersKept(e) ==
  \A f \in Execs : f # e =>
    /\ pc'[f] = pc[f] /\ run'[f] = run[f] /\ counted'[f] = counted[f]
    /\ page'[f] = page[f] /\ lot'[f] = lot[f] /\ prev'[f] = prev[f]
    /\ wrote'[f] = wrote[f] /\ noted'[f] = noted[f] /\ novos'[f] = novos[f]

(* Execution e goes to a place where it has no rows locked, and the truth of *)
(* its run and of its alerts is preserved.                                   *)
LEMMA QuietStep ==
  ASSUME IInv, TypeOK', NEW e \in Execs,
         UNCHANGED <<job, before, table, reader>>,
         \A j \in Jobs : lock'[j] \in Execs => lock'[j] = lock[j],
         OthersKept(e),
         pc[e] # "idle", pc'[e] \notin {"idle", "upserting", "committing"},
         wrote'[e] = {},
         pc'[e] \in {"posting", "finishing", "unwinding"} => e \in committed,
         run'[e] = "ok" \/ counted'[e] => e \in committed,
         e \in committed => pc'[e] \in After,
         NewLotsAreAnnounced'
  PROVE  IInv'
  <1> USE DEF OthersKept, table, reader
  <1>1. JobsAreHeld'
    BY JobsKept
  <1>2. RowsAreLocked'
    <2>1. committed \subseteq Execs /\ RowsAreLocked
      BY DEF IInv, TypeOK
    <2>2. \A f \in Execs : wrote'[f] \subseteq wrote[f] /\ (pc'[f] = "committing" => pc[f] = "committing")
      OBVIOUS
    <2>3. \A f \in Execs : wrote'[f] # {} => pc'[f] \in Locked
      BY <2>1 DEF RowsAreLocked, Locked
    <2>4. \A f, g \in Execs : f # g => wrote'[f] \cap wrote'[g] = {}
      BY <2>1, <2>2 DEF RowsAreLocked
    <2>5. \A f \in committed : pc'[f] \in After
      BY <2>1 DEF RowsAreLocked, After
    <2>6. QED BY <2>1, <2>2, <2>3, <2>4, <2>5 DEF RowsAreLocked, Locked, After
  <1>3. \A l, b : Recorded(l, b)' <=> Recorded(l, b)
    BY DEF Recorded
  <1>4. BidsAreRecorded'
    BY <1>3 DEF IInv, BidsAreRecorded
  <1>5. CommitsAreKnown' /\ RunTellsTruth'
    BY DEF IInv, CommitsAreKnown, RunTellsTruth
  <1>6. NovosAreNew'
    BY DEF IInv, NovosAreNew
  <1>7. QED BY <1>1, <1>2, <1>4, <1>5, <1>6 DEF IInv

(* Alerts of an execution that is not posting are as they were.              *)
LEMMA AlertsKept ==
  ASSUME IInv, NEW e \in Execs, OthersKept(e), row' = row, alert' = alert, pc[e] # "posting"
  PROVE  NewLotsAreAnnounced'
  BY DEF IInv, NewLotsAreAnnounced, OthersKept

LEMMA StartIInv ==
  ASSUME IInv, TypeOK', NEW e \in Execs, StartRun(e) \/ Collect(e) \/ Begin(e) \/ ObserverFails(e)
  PROVE  IInv'
  <1> USE DEF queue, runs, batch, table, reader
  <1>1. OthersKept(e)
    BY DEF StartRun, Collect, Begin, ObserverFails, Go, IInv, TypeOK, OthersKept
  <1>2. /\ UNCHANGED <<lock, job, before, table, reader, row, alert>>
        /\ pc[e] \in {"taken", "collecting", "collected", "finishing"}
        /\ pc'[e] \in {"collecting", "collected", "writing", "unwinding"}
        /\ pc'[e] = "unwinding" => pc[e] = "finishing"
        /\ pc[e] = "finishing" => pc'[e] = "unwinding"
        /\ wrote'[e] = wrote[e] /\ counted'[e] = counted[e] /\ run'[e] \in {run[e], "open"}
    BY DEF StartRun, Collect, Begin, ObserverFails, Go, IInv, TypeOK
  <1>3. NewLotsAreAnnounced'
    BY <1>1, <1>2, AlertsKept
  <1>4. wrote[e] = {} /\ (e \in committed => pc[e] = "finishing")
    BY <1>2 DEF IInv, RowsAreLocked
  <1>5. e \in committed \/ (run[e] # "ok" /\ ~counted[e])
    BY DEF IInv, RunTellsTruth
  <1>6. pc[e] = "finishing" => e \in committed
    BY DEF IInv, CommitsAreKnown
  <1>7. QED BY <1>1, <1>2, <1>3, <1>4, <1>5, <1>6, QuietStep DEF After

LEMMA EndIInv ==
  ASSUME IInv, TypeOK', NEW e \in Execs, Refuse(e) \/ FinishRun(e) \/ LeaveOpen(e) \/ FailRun(e)
  PROVE  IInv'
  <1> USE DEF queue, runs, batch, table, reader
  <1>1. Close(e) /\ UNCHANGED <<batch, table, alert, reader>>
    BY DEF Refuse, FinishRun, LeaveOpen, FailRun
  <1>2. /\ job' = job /\ before' = before
        /\ pc' = [pc EXCEPT ![e] = "ended"]
        /\ \A j \in Jobs : lock'[j] \in Execs => lock'[j] = lock[j]
    BY <1>1, CloseTypes DEF IInv
  <1>3. OthersKept(e) /\ pc'[e] = "ended"
    BY <1>1, <1>2 DEF Refuse, FinishRun, LeaveOpen, FailRun, IInv, TypeOK, OthersKept
  <1>4. /\ pc[e] \in {"taken", "finishing", "failing", "unwinding"}
        /\ run'[e] = "ok" => run[e] = "ok" \/ pc[e] = "finishing"
        /\ counted'[e] => counted[e] \/ pc[e] \in {"finishing", "unwinding"}
    BY DEF Refuse, FinishRun, LeaveOpen, FailRun, IInv, TypeOK
  <1>5. run'[e] = "ok" \/ counted'[e] => e \in committed
    BY <1>4 DEF IInv, CommitsAreKnown, RunTellsTruth
  <1>6. wrote'[e] = {}
    BY <1>1, <1>4 DEF IInv, RowsAreLocked
  <1>7. NewLotsAreAnnounced'
    BY <1>1, <1>3, <1>4, AlertsKept
  <1>8. QED BY <1>1, <1>2, <1>3, <1>4, <1>5, <1>6, <1>7, QuietStep DEF After

LEMMA PostIInv ==
  ASSUME IInv, TypeOK', NEW e \in Execs, PostCollect(e)
  PROVE  IInv'
  <1> USE DEF queue, runs, batch, table, reader
  <1>1. OthersKept(e) /\ pc[e] = "posting" /\ pc'[e] = "finishing"
    BY DEF PostCollect, Go, IInv, TypeOK, OthersKept
  <1>2. wrote'[e] = {} /\ e \in committed
    BY <1>1 DEF PostCollect, IInv, RowsAreLocked, CommitsAreKnown
  <1>3. \A l \in Lots : (alert[l] # "none" \/ l \in novos[e]) => alert'[l] # "none"
    BY DEF PostCollect, Drop
  <1>4. NewLotsAreAnnounced'
    BY <1>1, <1>3 DEF PostCollect, IInv, NewLotsAreAnnounced, OthersKept
  <1>5. QED BY <1>1, <1>2, <1>4, QuietStep DEF PostCollect, After

LEMMA BreakIInv ==
  ASSUME IInv, TypeOK', NEW e \in Execs,
         Deadline(e) \/ Cancel(e) \/ Refused(e) \/ WaitTooLong(e) \/ Dispossessed(e) \/ Crash(e)
  PROVE  IInv'
  <1> USE DEF queue, runs, batch, table, reader
  <1>1. /\ RollBack(e) /\ UNCHANGED <<queue, runs, table, reader>>
        /\ pc' = [pc EXCEPT ![e] = "failing"] \/ pc' = [pc EXCEPT ![e] = "ended"]
        /\ pc[e] # "idle"
    BY DEF Deadline, Cancel, Refused, WaitTooLong, Dispossessed, Crash, Break, Give, Go
  <1>2. OthersKept(e) /\ pc'[e] \in {"failing", "ended"} /\ wrote'[e] = {}
    BY <1>1 DEF RollBack, IInv, TypeOK, OthersKept
  <1>3. NewLotsAreAnnounced'
    <2>1. \A l \in Lots : alert[l] # "none" => alert'[l] # "none"
      BY DEF Deadline, Cancel, Refused, WaitTooLong, Dispossessed, Crash, Break, Drop
    <2>2. \A l \in Lots : pc[e] = "posting" /\ l \in novos[e] => alert'[l] # "none"
      BY DEF Deadline, Cancel, Refused, WaitTooLong, Dispossessed, Crash, Break, Drop
    <2>3. QED BY <1>1, <1>2, <2>1, <2>2 DEF IInv, NewLotsAreAnnounced, OthersKept
  <1>4. run'[e] = "ok" \/ counted'[e] => e \in committed
    BY <1>1 DEF IInv, RunTellsTruth
  <1>5. QED BY <1>1, <1>2, <1>3, <1>4, QuietStep DEF After

-----------------------------------------------------------------------------
(* The queue.                                                                *)

LEMMA LapseIInv ==
  ASSUME IInv, TypeOK', NEW j \in Jobs, Lapse(j)
  PROVE  IInv'
  <1> USE DEF runs, batch, table, reader
  <1>1. /\ UNCHANGED <<job, before, pc, runs, batch, table, alert, reader>>
        /\ \A k \in Jobs : lock'[k] \in Execs => lock'[k] = lock[k]
    BY NoOneAssumption DEF Lapse, IInv, TypeOK
  <1>2. JobsAreHeld'
    BY <1>1, JobsKept
  <1>3. \A l, b : Recorded(l, b)' <=> Recorded(l, b)
    BY <1>1 DEF Recorded
  <1>4. BidsAreRecorded'
    BY <1>1, <1>3 DEF IInv, BidsAreRecorded
  <1>5. RowsAreLocked' /\ CommitsAreKnown' /\ RunTellsTruth' /\ NovosAreNew' /\ NewLotsAreAnnounced'
    BY <1>1 DEF IInv, RowsAreLocked, CommitsAreKnown, RunTellsTruth, NovosAreNew, NewLotsAreAnnounced
  <1>6. QED BY <1>2, <1>4, <1>5 DEF IInv

(* An execution that takes a job has written nothing its predecessors could  *)
(* overwrite.                                                                *)
LEMMA TakeIInv ==
  ASSUME IInv, TypeOK', NEW e \in Execs, NEW j \in Jobs, Take(e, j)
  PROVE  IInv'
  <1> USE DEF runs, batch, table, reader
  <1>1. /\ UNCHANGED <<runs, batch, table, alert, reader>>
        /\ pc[e] = "idle" /\ lock[j] = NoOne /\ job[e] = NoOne
        /\ pc'[e] = "taken" /\ job'[e] = j /\ lock'[j] = e
        /\ \A f \in Execs : f # e => pc'[f] = pc[f] /\ job'[f] = job[f]
        /\ \A k \in Jobs : k # j => lock'[k] = lock[k]
    BY DEF Take, Go, IInv, TypeOK, JobsAreHeld
  <1>2. \A f, g \in Execs : f \in before'[g] <=> IF g = e THEN job[f] = j ELSE f \in before[g]
    BY DEF Take, IInv, TypeOK
  <1>3. NoOne \notin Jobs /\ NoOne \notin Execs
    BY NoOneAssumption
  <1>4. JobsAreHeld'
    <2> USE DEF IInv, JobsAreHeld
    <2>1. \A f \in Execs : e \notin before'[f]
      BY <1>1, <1>2, <1>3
    <2>2. \A f \in Execs : pc'[f] = "idle" <=> job'[f] = NoOne
      BY <1>1, <1>3
    <2>3. ASSUME NEW k \in Jobs, k # j, lock[k] \in Execs
          PROVE  job'[lock[k]] = k /\ \A f \in Execs : lock[k] \notin before'[f]
      <3>1. job[lock[k]] = k /\ lock[k] # e /\ \A f \in Execs : lock[k] \notin before[f]
        BY <2>3, <1>1, <1>3
      <3>2. QED BY <3>1, <2>3, <1>1, <1>2
    <2>4. \A f, g \in Execs : f \in before'[g] => job'[f] # NoOne
      BY <1>1, <1>2, <1>3
    <2>5. QED BY <2>1, <2>2, <2>3, <2>4, <1>1
  <1>5. e \notin committed /\ wrote[e] = {}
    BY <1>1 DEF IInv, RowsAreLocked
  <1>6. RowsAreLocked'
    <2>1. committed \subseteq Execs /\ \A l \in Lots : writer[l] # e
      BY <1>3, <1>5 DEF IInv, TypeOK, RowsAreLocked
    <2>2. ASSUME NEW f \in Execs, NEW g \in Execs, NEW l \in Lots,
                 pc'[f] = "committing", f \in before'[g], l \in wrote[f]
          PROVE  writer[l] # g
      BY <2>1, <2>2, <1>1, <1>2 DEF IInv, RowsAreLocked
    <2>3. \A f \in Execs : wrote[f] # {} => pc'[f] \in {"writing", "upserting", "committing"}
      BY <1>1, <1>5 DEF IInv, RowsAreLocked
    <2>4. \A f \in committed : pc'[f] \in {"posting", "finishing", "failing", "unwinding", "ended"}
      BY <1>1, <1>5, <2>1 DEF IInv, RowsAreLocked
    <2>5. QED BY <1>1, <2>2, <2>3, <2>4 DEF IInv, RowsAreLocked
  <1>7. \A l, b : Recorded(l, b)' <=> Recorded(l, b)
    BY <1>1 DEF Recorded
  <1>8. BidsAreRecorded'
    BY <1>1, <1>7 DEF IInv, BidsAreRecorded
  <1>9. CommitsAreKnown' /\ RunTellsTruth' /\ NovosAreNew' /\ NewLotsAreAnnounced'
    BY <1>1 DEF IInv, CommitsAreKnown, RunTellsTruth, NovosAreNew, NewLotsAreAnnounced
  <1>10. QED BY <1>4, <1>6, <1>8, <1>9 DEF IInv

-----------------------------------------------------------------------------
(* The transaction.                                                          *)

LEMMA ReadPrevIInv ==
  ASSUME IInv, TypeOK', NEW e \in Execs, NEW l \in Lots, ReadPrev(e, l)
  PROVE  IInv'
  <1> USE DEF queue, runs, table, reader
  <1>1. /\ UNCHANGED <<queue, runs, page, wrote, noted, novos, table, alert, reader>>
        /\ pc[e] = "writing" /\ pc'[e] = "upserting"
        /\ page[e][l] # Absent /\ lot'[e] = l /\ prev'[e] = row[l]
        /\ \A f \in Execs : f # e => pc'[f] = pc[f] /\ lot'[f] = lot[f] /\ prev'[f] = prev[f]
    BY DEF ReadPrev, Go, IInv, TypeOK
  <1>2. JobsAreHeld'
    BY <1>1, JobsKept
  <1>3. RowsAreLocked'
    <2>1. committed \subseteq Execs /\ e \notin committed
      BY <1>1 DEF IInv, TypeOK, RowsAreLocked
    <2>2. QED BY <1>1, <2>1 DEF IInv, RowsAreLocked
  <1>4. \A k, b : Recorded(k, b)' <=> Recorded(k, b)
    BY <1>1 DEF Recorded
  <1>5. BidsAreRecorded'
    BY <1>1, <1>4 DEF IInv, BidsAreRecorded
  <1>6. CommitsAreKnown' /\ RunTellsTruth' /\ NovosAreNew' /\ NewLotsAreAnnounced'
    BY <1>1 DEF IInv, CommitsAreKnown, RunTellsTruth, NovosAreNew, NewLotsAreAnnounced
  <1>7. QED BY <1>2, <1>3, <1>5, <1>6 DEF IInv

LEMMA UpsertIInv ==
  ASSUME IInv, TypeOK', NEW e \in Execs, Upsert(e)
  PROVE  IInv'
  <1> USE DEF queue, runs, table, reader
  <1>1. /\ UNCHANGED <<queue, runs, page, table, alert, reader>>
        /\ pc[e] = "upserting" /\ pc'[e] = "writing"
        /\ wrote'[e] = wrote[e] \cup {lot[e]}
        /\ \A f \in Execs : lot[e] \notin wrote[f]
        /\ noted[e] \subseteq noted'[e] /\ (Changes(e) => lot[e] \in noted'[e])
        /\ novos[e] \subseteq novos'[e] /\ (IsNew(e) => lot[e] \in novos'[e])
        /\ \A f \in Execs : f # e =>
             /\ pc'[f] = pc[f] /\ wrote'[f] = wrote[f] /\ noted'[f] = noted[f]
             /\ novos'[f] = novos[f] /\ lot'[f] = lot[f] /\ prev'[f] = prev[f]
    BY DEF Upsert, RowIsFree, Go, IInv, TypeOK
  <1>2. lot[e] \in Lots /\ page[e][lot[e]] # Absent
    BY <1>1 DEF IInv, BidsAreRecorded
  <1>3. JobsAreHeld'
    BY <1>1, JobsKept
  <1>4. RowsAreLocked'
    <2>1. committed \subseteq Execs /\ e \notin committed
      BY <1>1 DEF IInv, TypeOK, RowsAreLocked
    <2>2. \A f, g \in Execs : f # g => wrote'[f] \cap wrote'[g] = {}
      BY <1>1 DEF IInv, RowsAreLocked
    <2>3. QED BY <1>1, <2>1, <2>2 DEF IInv, RowsAreLocked
  <1>5. \A k, b : Recorded(k, b)' <=> Recorded(k, b)
    BY <1>1 DEF Recorded
  <1>6. lot[e] \in noted'[e] \/ Recorded(lot[e], page[e][lot[e]])
    <2>1. CASE prev[e] = Absent
      BY <2>1, <1>1 DEF Changes, Recorded
    <2>2. CASE prev[e] # Absent
      BY <2>2, <1>1 DEF Changes, Recorded, IInv, BidsAreRecorded
    <2>3. QED BY <2>1, <2>2
  <1>7. BidsAreRecorded'
    <2>1. \A f \in Execs : \A k \in wrote'[f] :
            page[f][k] # Absent /\ (k \in noted'[f] \/ Recorded(k, page[f][k]))
      BY <1>1, <1>2, <1>6 DEF IInv, BidsAreRecorded
    <2>2. QED BY <1>1, <1>5, <2>1 DEF IInv, BidsAreRecorded
  <1>8. NovosAreNew'
    <2>1. lot[e] \in novos'[e] \/ row[lot[e]] # Absent
      BY <1>1 DEF IsNew, IInv, NovosAreNew
    <2>2. QED BY <1>1, <2>1 DEF IInv, NovosAreNew
  <1>9. CommitsAreKnown' /\ RunTellsTruth' /\ NewLotsAreAnnounced'
    BY <1>1 DEF IInv, CommitsAreKnown, RunTellsTruth, NewLotsAreAnnounced
  <1>10. QED BY <1>3, <1>4, <1>7, <1>8, <1>9 DEF IInv

(* The holder of the job has no successor yet.                               *)
LEMMA AuthorizeIInv ==
  ASSUME IInv, TypeOK', NEW e \in Execs, Authorize(e)
  PROVE  IInv'
  <1> USE DEF queue, runs, batch, table, reader
  <1>1. /\ UNCHANGED <<queue, runs, batch, table, alert, reader>>
        /\ pc[e] = "writing" /\ pc'[e] = "committing" /\ Holds(e)
        /\ \A f \in Execs : f # e => pc'[f] = pc[f]
    BY DEF Authorize, Go, IInv, TypeOK
  <1>2. \A f \in Execs : e \notin before[f]
    <2>1. job[e] \in Jobs
      BY <1>1 DEF IInv, TypeOK, JobsAreHeld
    <2>2. QED BY <1>1, <2>1 DEF Holds, IInv, JobsAreHeld
  <1>3. JobsAreHeld'
    BY <1>1, JobsKept
  <1>4. RowsAreLocked'
    <2>1. committed \subseteq Execs /\ e \notin committed
      BY <1>1 DEF IInv, TypeOK, RowsAreLocked
    <2>2. QED BY <1>1, <1>2, <2>1 DEF IInv, RowsAreLocked
  <1>5. \A k, b : Recorded(k, b)' <=> Recorded(k, b)
    BY <1>1 DEF Recorded
  <1>6. BidsAreRecorded'
    BY <1>1, <1>5 DEF IInv, BidsAreRecorded
  <1>7. CommitsAreKnown' /\ RunTellsTruth' /\ NovosAreNew' /\ NewLotsAreAnnounced'
    BY <1>1 DEF IInv, CommitsAreKnown, RunTellsTruth, NovosAreNew, NewLotsAreAnnounced
  <1>8. QED BY <1>3, <1>4, <1>6, <1>7 DEF IInv

(* The commit: nobody else has a lock on the rows that change, and what was  *)
(* seen without one is still true of them.                                   *)
LEMMA CommitIInv ==
  ASSUME IInv, TypeOK', NEW e \in Execs, Commit(e) \/ CommitUnheard(e)
  PROVE  IInv'
  <1> USE DEF queue, runs, table, reader
  <1>1. /\ Apply(e) /\ UNCHANGED <<queue, runs, reader, lot, prev>>
        /\ pc[e] = "committing" /\ pc'[e] \in {"posting", "failing"}
        /\ \A f \in Execs : f # e => pc'[f] = pc[f] /\ novos'[f] = novos[f]
    BY DEF Commit, CommitUnheard, Apply, Go, IInv, TypeOK
  <1>2. /\ committed' = committed \cup {e}
        /\ wrote'[e] = {}
        /\ \A f \in Execs : f # e => wrote'[f] = wrote[f] /\ noted'[f] = noted[f] /\ page'[f] = page[f]
        /\ \A l \in Lots : l \in wrote[e] => row'[l] = page[e][l] /\ writer'[l] = e
        /\ \A l \in Lots : l \notin wrote[e] => row'[l] = row[l] /\ writer'[l] = writer[l]
    BY <1>1 DEF Apply, IInv, TypeOK
  <1>3. \A l \in Lots, b \in Bids : history[l][b] > 0 => history'[l][b] > 0
    BY <1>1 DEF Apply, IInv, TypeOK
  <1>4. \A l \in Lots : l \in noted[e] /\ page[e][l] \in Bids => history'[l][page[e][l]] > 0
    BY <1>1 DEF Apply, IInv, TypeOK
  <1>5. \A l \in Lots, b \in Bids : Recorded(l, b) => Recorded(l, b)'
    BY <1>1, <1>3 DEF Recorded
  <1>6. wrote[e] \subseteq Lots /\ committed \subseteq Execs /\ e \notin committed
    BY <1>1 DEF IInv, TypeOK, RowsAreLocked
  <1>7. \A l \in Lots : row[l] # Absent => row'[l] # Absent
    BY <1>2 DEF IInv, BidsAreRecorded
  <1>8. JobsAreHeld'
    BY <1>1, JobsKept
  <1>9. RowsAreLocked'
    <2>1. ASSUME NEW f \in Execs, NEW g \in Execs, NEW l \in Lots,
                 pc'[f] = "committing", f \in before[g], l \in wrote'[f]
          PROVE  writer'[l] # g
      <3>1. f # e /\ pc[f] = "committing" /\ l \in wrote[f] /\ l \notin wrote[e]
        BY <2>1, <1>1, <1>2 DEF IInv, RowsAreLocked
      <3>2. QED BY <2>1, <3>1, <1>2 DEF IInv, RowsAreLocked
    <2>2. \A l \in Lots : writer'[l] # NoOne => writer'[l] \in committed'
      BY <1>2 DEF IInv, RowsAreLocked
    <2>3. \A f \in committed' : pc'[f] \in {"posting", "finishing", "failing", "unwinding", "ended"}
      BY <1>1, <1>2, <1>6 DEF IInv, RowsAreLocked
    <2>4. /\ \A f \in Execs : wrote'[f] # {} => pc'[f] \in {"writing", "upserting", "committing"}
          /\ \A f, g \in Execs : f # g => wrote'[f] \cap wrote'[g] = {}
      BY <1>1, <1>2 DEF IInv, RowsAreLocked
    <2>5. before' = before
      BY <1>1
    <2>6. QED BY <2>1, <2>2, <2>3, <2>4, <2>5 DEF RowsAreLocked
  <1>10. BidsAreRecorded'
    <2>1. ASSUME NEW l \in Lots, row'[l] # Absent PROVE Recorded(l, row[l])'
      <3>1. CASE l \in wrote[e]
        <4>1. row'[l] = page[e][l] /\ page[e][l] \in Bids
          BY <3>1, <2>1, <1>2 DEF IInv, TypeOK
        <4>2. l \in noted[e] \/ Recorded(l, page[e][l])
          BY <3>1 DEF IInv, BidsAreRecorded
        <4>3. CASE l \in noted[e]
          BY <4>1, <4>3, <1>4 DEF Recorded
        <4>4. CASE Recorded(l, page[e][l])
          <5>1. \A b \in Bids : Recorded(l, b) /\ b = row'[l] => Recorded(l, row[l])'
            BY <1>5 DEF Recorded
          <5>2. QED BY <4>1, <4>4, <5>1
        <4>5. QED BY <4>2, <4>3, <4>4
      <3>2. CASE l \notin wrote[e]
        <4>1. row'[l] = row[l] /\ row[l] \in Bids /\ Recorded(l, row[l])
          BY <3>2, <2>1, <1>2 DEF IInv, TypeOK, BidsAreRecorded
        <4>2. \A b \in Bids : Recorded(l, b) /\ b = row'[l] => Recorded(l, row[l])'
          BY <1>5 DEF Recorded
        <4>3. QED BY <4>1, <4>2
      <3>3. QED BY <3>1, <3>2
    <2>2. ASSUME NEW f \in Execs, pc'[f] = "upserting"
          PROVE  /\ lot'[f] \in Lots /\ page'[f][lot'[f]] # Absent
                 /\ prev'[f] # Absent => Recorded(lot[f], prev[f])'
      <3>1. f # e /\ pc[f] = "upserting" /\ lot'[f] = lot[f] /\ prev'[f] = prev[f] /\ page'[f] = page[f]
        BY <2>2, <1>1, <1>2
      <3>2. lot[f] \in Lots /\ page[f][lot[f]] # Absent /\ (prev[f] # Absent => Recorded(lot[f], prev[f]))
        BY <3>1 DEF IInv, BidsAreRecorded
      <3>3. ASSUME prev[f] # Absent PROVE Recorded(lot[f], prev[f])'
        <4>1. prev[f] \in Bids
          BY <3>3 DEF IInv, TypeOK
        <4>2. \A l \in Lots, b \in Bids : Recorded(l, b) /\ l = lot'[f] /\ b = prev'[f] => Recorded(lot[f], prev[f])'
          BY <1>5 DEF Recorded
        <4>3. QED BY <3>1, <3>2, <3>3, <4>1, <4>2
      <3>4. QED BY <3>1, <3>2, <3>3
    <2>3. ASSUME NEW f \in Execs, NEW l \in wrote'[f]
          PROVE  page'[f][l] # Absent /\ (l \in noted'[f] \/ Recorded(l, page[f][l])')
      <3>1. f # e /\ l \in wrote[f] /\ l \in Lots /\ page'[f] = page[f] /\ noted'[f] = noted[f]
        BY <2>3, <1>2 DEF IInv, TypeOK
      <3>2. page[f][l] # Absent /\ page[f][l] \in Bids /\ (l \in noted[f] \/ Recorded(l, page[f][l]))
        BY <3>1 DEF IInv, BidsAreRecorded, TypeOK
      <3>3. \A b \in Bids : Recorded(l, b) /\ b = page'[f][l] => Recorded(l, page[f][l])'
        BY <3>1, <1>5 DEF Recorded
      <3>4. QED BY <3>1, <3>2, <3>3
    <2>4. QED BY <2>1, <2>2, <2>3 DEF BidsAreRecorded
  <1>11. CommitsAreKnown' /\ RunTellsTruth'
    BY <1>1, <1>2 DEF IInv, CommitsAreKnown, RunTellsTruth
  <1>12. NovosAreNew'
    <2>1. \A f \in Execs : pc'[f] = "upserting" /\ prev'[f] # Absent => row'[lot'[f]] # Absent
      BY <1>1, <1>7 DEF IInv, NovosAreNew, BidsAreRecorded
    <2>2. \A f \in Execs : \A l \in wrote'[f] : l \in novos'[f] \/ row'[l] # Absent
      BY <1>1, <1>2, <1>7 DEF IInv, NovosAreNew, TypeOK
    <2>3. QED BY <2>1, <2>2 DEF NovosAreNew
  <1>13. NewLotsAreAnnounced'
    <2>1. ASSUME NEW l \in Lots, row'[l] # Absent, alert'[l] = "none"
          PROVE  \E f \in Execs : pc'[f] = "posting" /\ l \in novos'[f]
      <3>1. alert[l] = "none"
        BY <1>1, <2>1 DEF Commit, CommitUnheard, Drop
      <3>2. CASE row[l] # Absent
        <4>1. PICK f \in Execs : pc[f] = "posting" /\ l \in novos[f]
          BY <3>1, <3>2 DEF IInv, NewLotsAreAnnounced
        <4>2. f # e
          BY <1>1, <4>1
        <4>3. QED BY <1>1, <4>1, <4>2
      <3>3. CASE row[l] = Absent
        <4>1. l \in wrote[e]
          BY <2>1, <3>3, <1>2
        <4>2. l \in novos[e]
          BY <3>3, <4>1 DEF IInv, NovosAreNew
        <4>3. pc'[e] = "posting" /\ novos'[e] = novos[e]
          BY <2>1, <3>1, <4>2 DEF Commit, CommitUnheard, Drop, Go, IInv, TypeOK
        <4>4. QED BY <4>2, <4>3
      <3>4. QED BY <3>2, <3>3
    <2>2. QED BY <2>1 DEF NewLotsAreAnnounced
  <1>14. QED BY <1>8, <1>9, <1>10, <1>11, <1>12, <1>13 DEF IInv

-----------------------------------------------------------------------------
(* The live reader.                                                          *)

(* What batches in progress have seen stays recorded if every bid does.      *)
LEMMA BatchesKept ==
  ASSUME IInv, UNCHANGED <<pc, batch>>,
         \A l \in Lots, b \in Bids : Recorded(l, b) => Recorded(l, b)',
         \A l \in Lots : row'[l] # Absent => Recorded(l, row[l])'
  PROVE  BidsAreRecorded'
  <1> USE DEF batch
  <1>1. ASSUME NEW f \in Execs, pc'[f] = "upserting"
        PROVE  /\ lot'[f] \in Lots /\ page'[f][lot'[f]] # Absent
               /\ prev'[f] # Absent => Recorded(lot[f], prev[f])'
    <2>1. lot[f] \in Lots /\ page[f][lot[f]] # Absent /\ (prev[f] # Absent => Recorded(lot[f], prev[f]))
      BY <1>1 DEF IInv, BidsAreRecorded
    <2>2. prev[f] # Absent => prev[f] \in Bids
      BY DEF IInv, TypeOK
    <2>3. QED BY <2>1, <2>2 DEF Recorded
  <1>2. ASSUME NEW f \in Execs, NEW k \in wrote'[f]
        PROVE  page'[f][k] # Absent /\ (k \in noted'[f] \/ Recorded(k, page[f][k])')
    <2>1. k \in Lots /\ page[f][k] # Absent /\ page[f][k] \in Bids /\ (k \in noted[f] \/ Recorded(k, page[f][k]))
      BY <1>2 DEF IInv, BidsAreRecorded, TypeOK
    <2>2. QED BY <2>1 DEF Recorded
  <1>3. QED BY <1>1, <1>2 DEF BidsAreRecorded

(* It is the first of its statements that may leave a bid unrecorded, and    *)
(* `live' says so; no transaction has the row locked.                        *)
LEMMA UpdateLiveIInv ==
  ASSUME IInv, TypeOK', NEW l \in Lots, UpdateLive(l)
  PROVE  IInv'
  <1> USE ConstantTypes DEF queue, runs, batch
  <1>1. PICK b \in Bids \ {0, row[l]} :
          live' = [lot |-> l, bid |-> b] /\ row' = [row EXCEPT ![l] = b]
    BY DEF UpdateLive
  <1>2. /\ UNCHANGED <<queue, pc, runs, batch, history, committed, alert, lost>>
        /\ live = AtRest /\ row[l] # Absent
        /\ writer' = [writer EXCEPT ![l] = NoOne]
    BY DEF UpdateLive
  <1>3. \A k \in Lots : row'[k] = IF k = l THEN b ELSE row[k]
    BY <1>1 DEF IInv, TypeOK
  <1>4. \A k \in Lots : writer'[k] = IF k = l THEN NoOne ELSE writer[k]
    BY <1>2 DEF IInv, TypeOK
  <1>5. JobsAreHeld'
    BY <1>2, JobsKept
  <1>6. RowsAreLocked'
    BY <1>2, <1>4, NoOneAssumption DEF IInv, RowsAreLocked
  <1>7. \A k \in Lots, c \in Bids : Recorded(k, c) => Recorded(k, c)'
    BY <1>2 DEF Recorded
  <1>8. BidsAreRecorded'
    <2>1. ASSUME NEW k \in Lots, row'[k] # Absent PROVE Recorded(k, row[k])'
      <3>1. CASE k = l
        BY <3>1, <1>1, <1>3 DEF Recorded
      <3>2. CASE k # l
        <4>1. row'[k] = row[k] /\ row[k] \in Bids /\ Recorded(k, row[k])
          BY <3>2, <2>1, <1>3 DEF IInv, TypeOK, BidsAreRecorded
        <4>2. QED BY <4>1, <1>7 DEF Recorded
      <3>3. QED BY <3>1, <3>2
    <2>2. QED BY <2>1, <1>2, <1>7, BatchesKept
  <1>9. CommitsAreKnown' /\ RunTellsTruth'
    BY <1>2 DEF IInv, CommitsAreKnown, RunTellsTruth
  <1>10. NovosAreNew'
    BY <1>2, <1>3 DEF IInv, NovosAreNew, BidsAreRecorded, TypeOK
  <1>11. NewLotsAreAnnounced'
    BY <1>2, <1>3 DEF IInv, NewLotsAreAnnounced
  <1>12. QED BY <1>5, <1>6, <1>8, <1>9, <1>10, <1>11 DEF IInv

(* What was live is from then on in the history, or among the lost.          *)
LEMMA EndLiveIInv ==
  ASSUME IInv, TypeOK', RecordLive \/ AbandonLive
  PROVE  IInv'
  <1> USE ConstantTypes DEF queue, runs, batch, table
  <1>1. /\ UNCHANGED <<queue, pc, runs, batch, row, writer, committed, alert>>
        /\ live \in [lot : Lots, bid : Bids]
    BY DEF RecordLive, AbandonLive, IInv, TypeOK
  <1>2. \A l \in Lots, b \in Bids : Recorded(l, b) => Recorded(l, b)'
    <2>1. CASE RecordLive
      <3>1. \A l \in Lots, b \in Bids :
              /\ history[l][b] > 0 => history'[l][b] > 0
              /\ l = live.lot /\ b = live.bid => history'[l][b] > 0
        BY <2>1, <1>1 DEF RecordLive, IInv, TypeOK
      <3>2. QED BY <2>1, <3>1, <1>1 DEF RecordLive, Recorded
    <2>2. CASE AbandonLive
      BY <2>2 DEF AbandonLive, Recorded
    <2>3. QED BY <2>1, <2>2
  <1>3. JobsAreHeld'
    BY <1>1, JobsKept
  <1>4. BidsAreRecorded'
    <2>1. ASSUME NEW k \in Lots, row'[k] # Absent PROVE Recorded(k, row[k])'
      <3>1. row[k] \in Bids /\ Recorded(k, row[k])
        BY <2>1, <1>1 DEF IInv, TypeOK, BidsAreRecorded
      <3>2. QED BY <3>1, <1>1, <1>2 DEF Recorded
    <2>2. QED BY <2>1, <1>1, <1>2, BatchesKept
  <1>5. RowsAreLocked' /\ CommitsAreKnown' /\ RunTellsTruth' /\ NovosAreNew' /\ NewLotsAreAnnounced'
    BY <1>1 DEF IInv, RowsAreLocked, CommitsAreKnown, RunTellsTruth, NovosAreNew, NewLotsAreAnnounced
  <1>6. QED BY <1>3, <1>4, <1>5 DEF IInv

-----------------------------------------------------------------------------
(* The invariant, and what follows from it.                                  *)

LEMMA NextTypes ==
  ASSUME IInv, Next
  PROVE  TypeOK'
  <1>1. ASSUME NEW e \in Execs, Execute(e) PROVE TypeOK'
    <2>1. pc[e] = "upserting" => lot[e] \in Lots
      BY DEF IInv, BidsAreRecorded
    <2>2. QED BY <1>1, <2>1, ExecuteTypes DEF IInv
  <1>2. QED BY <1>1, QueueTypes, LiveTypes DEF Next, IInv

LEMMA NextIInv ==
  ASSUME IInv, Next
  PROVE  IInv'
  <1>1. TypeOK'
    BY NextTypes
  <1>2. ASSUME NEW j \in Jobs, Lapse(j) PROVE IInv'
    BY <1>1, <1>2, LapseIInv
  <1>3. ASSUME NEW e \in Execs, NEW j \in Jobs, Take(e, j) PROVE IInv'
    BY <1>1, <1>3, TakeIInv
  <1>4. ASSUME NEW e \in Execs, Execute(e) PROVE IInv'
    <2>1. CASE StartRun(e) \/ Collect(e) \/ Begin(e) \/ ObserverFails(e)
      BY <1>1, <2>1, StartIInv
    <2>2. CASE \E l \in Lots : ReadPrev(e, l)
      BY <1>1, <2>2, ReadPrevIInv
    <2>3. CASE Upsert(e)
      BY <1>1, <2>3, UpsertIInv
    <2>4. CASE Authorize(e)
      BY <1>1, <2>4, AuthorizeIInv
    <2>5. CASE Commit(e) \/ CommitUnheard(e)
      BY <1>1, <2>5, CommitIInv
    <2>6. CASE PostCollect(e)
      BY <1>1, <2>6, PostIInv
    <2>7. CASE Refuse(e) \/ FinishRun(e) \/ LeaveOpen(e) \/ FailRun(e)
      BY <1>1, <2>7, EndIInv
    <2>8. CASE Deadline(e) \/ Cancel(e) \/ Refused(e) \/ WaitTooLong(e) \/ Dispossessed(e) \/ Crash(e)
      BY <1>1, <2>8, BreakIInv
    <2>9. QED
      BY <1>4, <2>1, <2>2, <2>3, <2>4, <2>5, <2>6, <2>7, <2>8 DEF Execute, Write, Conclude, Fail
  <1>5. CASE ReadLiveBids
    BY <1>1, <1>5, UpdateLiveIInv, EndLiveIInv DEF ReadLiveBids
  <1>6. QED BY <1>2, <1>3, <1>4, <1>5 DEF Next

LEMMA StutterIInv == IInv /\ UNCHANGED vars => IInv'
  BY DEF IInv, vars, queue, runs, batch, table, reader, TypeOK, JobsAreHeld, RowsAreLocked,
         BidsAreRecorded, Recorded, CommitsAreKnown, RunTellsTruth, NovosAreNew, NewLotsAreAnnounced

(* The inductive invariant: locks of jobs and of rows, what batches in       *)
(* progress have seen, and the properties they serve hold in every state.    *)
THEOREM Invariance == Spec => []IInv
  <1>1. Init => IInv
    BY InitIInv
  <1>2. IInv /\ [Next]_vars => IInv'
    BY NextIInv, StutterIInv
  <1>3. QED BY <1>1, <1>2, PTL DEF Spec

(* Every variable stays within the values the code gives it.                 *)
THEOREM TypeCorrect == Spec => []TypeOK
  <1>1. IInv => TypeOK
    BY DEF IInv
  <1>2. QED BY <1>1, Invariance, PTL

(* The bid in a row is 0, in the row's history, or one whose history a live  *)
(* reader owes or died owing, however batches and live readings overlap.     *)
THEOREM BidsStayRecorded == Spec => []CurrentBidRecorded
  <1>1. IInv => CurrentBidRecorded
    <2>1. \A l \in Lots, b \in Bids : live = [lot |-> l, bid |-> b] => live.lot = l
      OBVIOUS
    <2>2. IInv => \A l \in Lots : row[l] # Absent => row[l] \in Bids
      BY DEF IInv, TypeOK
    <2>3. QED BY <2>1, <2>2 DEF IInv, BidsAreRecorded, Recorded, CurrentBidRecorded
  <1>2. QED BY <1>1, Invariance, PTL

(* No run of collection_runs claims a batch that is not in the table.        *)
THEOREM RunsTellTruth == Spec => []RunTellsTruth
  <1>1. IInv => RunTellsTruth
    BY DEF IInv
  <1>2. QED BY <1>1, Invariance, PTL

(* No lot slips into the table unseen by the alerts because two executions   *)
(* brought it at once.                                                       *)
THEOREM LotsAreAnnounced == Spec => []NewLotsAreAnnounced
  <1>1. IInv => NewLotsAreAnnounced
    BY DEF IInv
  <1>2. QED BY <1>1, Invariance, PTL

(* The unfenced commit of a worker that lost its job never replaces what a   *)
(* later worker of the job has committed, for any number of jobs, workers    *)
(* and lots: asking for the job's lock with the rows locked is enough.       *)
THEOREM SuccessorPrevails == Spec => SuccessorWins
  <1>1. IInv /\ Next => \A l \in Lots, e, f \in Execs :
          writer[l] = f /\ writer'[l] = e /\ e # f => e \notin before[f]
    <2> SUFFICES ASSUME IInv, Next, NEW l \in Lots, NEW e \in Execs, NEW f \in Execs,
                        writer[l] = f, writer'[l] = e, e # f
                 PROVE  e \notin before[f]
      OBVIOUS
    <2> USE DEF table
    <2>1. PICK g \in Execs : Commit(g) \/ CommitUnheard(g)
      <3>1. ASSUME NEW k \in Lots, UpdateLive(k) PROVE FALSE
        BY <3>1, NoOneAssumption DEF UpdateLive, IInv, TypeOK
      <3>2. CASE ReadLiveBids
        BY <3>1, <3>2 DEF ReadLiveBids, RecordLive, AbandonLive
      <3>3. ASSUME NEW g \in Execs, Execute(g) PROVE Commit(g) \/ CommitUnheard(g)
        BY <3>3 DEF Execute, Write, Conclude, Fail, StartRun, Collect, Begin, ReadPrev, Upsert, Authorize,
             PostCollect, FinishRun, FailRun, Deadline, WaitTooLong, Dispossessed, Refuse, LeaveOpen,
             ObserverFails, Cancel, Refused, Crash, Break
      <3>4. QED BY <3>2, <3>3 DEF Next, Lapse, Take
    <2>2. pc[g] = "committing" /\ g = e /\ l \in wrote[e]
      BY <2>1 DEF Commit, CommitUnheard, Apply, IInv, TypeOK
    <2>3. QED BY <2>2 DEF IInv, RowsAreLocked
  <1>2. IInv /\ [Next]_vars => [\A l \in Lots, e, f \in Execs :
          writer[l] = f /\ writer'[l] = e /\ e # f => e \notin before[f]]_vars
    BY <1>1
  <1>3. QED BY <1>2, Invariance, PTL DEF Spec, SuccessorWins
================================================================================
