------------------------- MODULE CollectionQueueProofs -------------------------
(***************************************************************************)
(* Proofs about CollectionQueue, for any jobs, sources and slots, serial   *)
(* or not, whatever hangs, fails or dies.  The gate is exclusive because   *)
(* the chain is in order (ChainInOrder): JoinsChain says what chaining an  *)
(* operation does to it, PassesChain what an operation that moves on does. *)
(* JobsInGate says which operation a job may move.                         *)
(*                                                                         *)
(* The brake bounds the failures because those it has not let go of yet    *)
(* are bounded where they ask: EngagedBound counts the callers at once,    *)
(* TriesShrink says that no other step than a permission adds a try.       *)
(***************************************************************************)
EXTENDS CollectionQueue, FiniteSetTheorems, TLAPS

ChainTypeOK ==
  /\ gate   \in [Jobs -> {"out", "waiting", "in", "done", "threw"}]
  /\ ticket \in [Jobs -> Nat]
  /\ tail   \in Nat

LEMMA JoinsChain ==
  ASSUME ChainTypeOK, ChainInOrder, NEW j \in Jobs, gate[j] = "out", Join(j)
  PROVE  ChainTypeOK' /\ ChainInOrder'
  <1> USE DEF ChainTypeOK, ChainInOrder
  <1>1. /\ gate'   = [gate EXCEPT ![j] = "waiting"]
        /\ ticket' = [ticket EXCEPT ![j] = tail + 1]
        /\ tail'   = tail + 1
    BY DEF Join
  <1>2. ChainTypeOK'
    BY <1>1
  <1>3. /\ ticket[j] = 0 /\ ticket'[j] = tail + 1 /\ gate'[j] = "waiting"
        /\ \A k \in Jobs : k # j => ticket'[k] = ticket[k] /\ gate'[k] = gate[k]
        /\ \A k \in Jobs : ticket[k] \in Nat /\ ticket[k] <= tail
    BY <1>1
  <1>4. \A k \in Jobs : (gate'[k] = "out" <=> ticket'[k] = 0) /\ ticket'[k] <= tail'
    BY <1>1, <1>3
  <1>5. \A n \in 1..tail' : \E k \in Jobs : ticket'[k] = n
    <2> SUFFICES ASSUME NEW n \in 1..tail' PROVE \E k \in Jobs : ticket'[k] = n
      OBVIOUS
    <2>1. CASE n = tail + 1
      BY <1>3, <2>1
    <2>2. CASE n \in 1..tail
      <3>1. PICK k \in Jobs : ticket[k] = n  BY <2>2
      <3>2. k # j  BY <1>3, <2>2, <3>1
      <3>3. QED BY <1>3, <3>1, <3>2
    <2>3. QED BY <1>1, <2>1, <2>2
  <1>6. \A k, m \in Jobs : ticket'[k] = ticket'[m] /\ ticket'[k] > 0 => k = m
    <2> SUFFICES ASSUME NEW k \in Jobs, NEW m \in Jobs, ticket'[k] = ticket'[m], ticket'[k] > 0
                 PROVE  k = m
      OBVIOUS
    <2>1. CASE k # j /\ m # j  BY <1>3, <2>1
    <2>2. CASE k = j \/ m = j  BY <1>3, <2>2
    <2>3. QED BY <2>1, <2>2
  <1>7. \A k, m \in Jobs :
          0 < ticket'[k] /\ ticket'[k] < ticket'[m] /\ gate'[m] # "waiting"
            => gate'[k] \in {"done", "threw"}
    <2> SUFFICES ASSUME NEW k \in Jobs, NEW m \in Jobs,
                        0 < ticket'[k], ticket'[k] < ticket'[m], gate'[m] # "waiting"
                 PROVE  gate'[k] \in {"done", "threw"}
      OBVIOUS
    <2>1. m # j  BY <1>3
    <2>2. k # j  BY <1>3, <2>1
    <2>3. QED BY <1>3, <2>1, <2>2
  <1>8. QED BY <1>2, <1>4, <1>5, <1>6, <1>7

(* All that are chained before an operation inside, or at its turn, have     *)
(* settled: the one before it has, and all before that one had.              *)
LEMMA SettledBefore ==
  ASSUME ChainTypeOK, ChainInOrder, NEW j \in Jobs, gate[j] = "in" \/ Turn(j)
  PROVE  \A k \in Jobs : 0 < ticket[k] /\ ticket[k] < ticket[j] => gate[k] \in {"done", "threw"}
  <1> USE DEF ChainTypeOK, ChainInOrder
  <1> SUFFICES ASSUME NEW k \in Jobs, 0 < ticket[k], ticket[k] < ticket[j]
               PROVE  gate[k] \in {"done", "threw"}
    OBVIOUS
  <1>1. CASE gate[j] = "in"
    BY <1>1
  <1>2. CASE Turn(j)
    <2>1. ticket[j] - 1 \in 1..tail
      <3>1. ticket[j] \in Nat /\ ticket[k] \in Nat /\ ticket[j] <= tail  OBVIOUS
      <3>2. QED BY <3>1
    <2>2. PICK m \in Jobs : ticket[m] = ticket[j] - 1
      BY <2>1
    <2>3. m \in Before(j)
      BY <2>1, <2>2 DEF Before
    <2>4. gate[m] \in {"done", "threw"}
      BY <1>2, <2>3 DEF Turn
    <2>5. CASE k = m
      BY <2>4, <2>5
    <2>6. CASE k # m
      <3>1. ticket[k] # ticket[m]
        BY <2>6
      <3>2. ticket[k] < ticket[m]
        <4>1. ticket[k] \in Nat /\ ticket[j] \in Nat /\ ticket[m] \in Nat  OBVIOUS
        <4>2. QED BY <2>2, <3>1, <4>1
      <3>3. QED BY <2>4, <3>2
    <2>7. QED BY <2>5, <2>6
  <1>3. QED BY <1>1, <1>2

(* The operation of j enters, leaves, or is refused at its turn.             *)
Passes(j, place) ==
  /\ gate' = [gate EXCEPT ![j] = place]
  /\ UNCHANGED <<ticket, tail>>
  /\ place \in {"in", "done", "threw"}
  /\ gate[j] = "in" \/ Turn(j)

LEMMA PassesChain ==
  ASSUME ChainTypeOK, ChainInOrder, NEW j \in Jobs,
         NEW place \in {"in", "done", "threw"}, Passes(j, place)
  PROVE  ChainTypeOK' /\ ChainInOrder'
  <1> USE DEF ChainTypeOK, ChainInOrder
  <1>1. /\ gate'[j] = place /\ gate[j] \in {"waiting", "in"}
        /\ \A k \in Jobs : k # j => gate'[k] = gate[k]
        /\ UNCHANGED <<ticket, tail>>
    BY DEF Passes, Turn
  <1>2. ChainTypeOK'
    BY DEF Passes
  <1>3. ticket[j] > 0
    BY <1>1
  <1>4. \A k \in Jobs : 0 < ticket[k] /\ ticket[k] < ticket[j] => gate[k] \in {"done", "threw"}
    BY SettledBefore DEF Passes
  <1>5. \A k \in Jobs : ticket[j] < ticket[k] => gate[k] = "waiting"
    BY <1>1, <1>3
  <1>6. \A k, m \in Jobs :
          0 < ticket'[k] /\ ticket'[k] < ticket'[m] /\ gate'[m] # "waiting"
            => gate'[k] \in {"done", "threw"}
    <2> SUFFICES ASSUME NEW k \in Jobs, NEW m \in Jobs,
                        0 < ticket[k], ticket[k] < ticket[m], gate'[m] # "waiting"
                 PROVE  gate'[k] \in {"done", "threw"}
      BY <1>1
    <2>1. ticket[k] \in Nat /\ ticket[m] \in Nat
      OBVIOUS
    <2>2. CASE m = j
      <3>1. k # j  BY <2>1, <2>2
      <3>2. QED BY <1>1, <1>4, <2>2, <3>1
    <2>3. CASE m # j
      <3>1. gate[m] # "waiting"  BY <1>1, <2>3
      <3>2. k # j  BY <1>5, <3>1
      <3>3. QED BY <1>1, <3>1, <3>2
    <2>4. QED BY <2>2, <2>3
  <1>7. \A k \in Jobs : gate'[k] = "out" <=> ticket'[k] = 0
    BY <1>1, <1>3
  <1>8. QED BY <1>1, <1>2, <1>6, <1>7

-----------------------------------------------------------------------------
LEMMA InitIInv == Init => IInv
  <1> SUFFICES ASSUME Init PROVE IInv  OBVIOUS
  <1> USE BoundAssumption, GroupAssumption DEF Init
  <1>1. TypeOK        BY DEF TypeOK
  <1>2. ChainInOrder  BY DEF ChainInOrder
  <1>3. JobsInGate    BY DEF JobsInGate, Gated
  <1>4. QED BY <1>1, <1>2, <1>3 DEF IInv

(* A job waits its turn and is let in, or refused.                           *)
LEMMA TakeIInv ==
  ASSUME IInv, NEW j \in Jobs, Take(j)
  PROVE  IInv'
  <1> USE DEF IInv, TypeOK
  <1>1. /\ pc[j] = "queued" /\ gate[j] = "out"
        /\ pc' = [pc EXCEPT ![j] = "taken"]
        /\ UNCHANGED <<serial, now, crashes, busy, runs>>
    BY DEF Take, Go, JobsInGate
  <1>2. CASE Gated(j) /\ Join(j)
    <2>1. ChainTypeOK' /\ ChainInOrder'
      BY <1>1, <1>2, JoinsChain DEF ChainTypeOK
    <2>2. TypeOK'
      BY <1>1, <2>1 DEF ChainTypeOK, runs
    <2>3. gate' = [gate EXCEPT ![j] = "waiting"]
      BY <1>2 DEF Join
    <2>4. JobsInGate'
      BY <1>1, <1>2, <2>3, GroupAssumption DEF JobsInGate, Gated, runs
    <2>5. QED BY <2>1, <2>2, <2>4
  <1>3. CASE ~Gated(j) /\ UNCHANGED chain
    <2>1. TypeOK'        BY <1>1, <1>3 DEF chain, runs
    <2>2. ChainInOrder'  BY <1>3 DEF ChainInOrder, chain
    <2>3. JobsInGate'
      BY <1>1, <1>3 DEF JobsInGate, Gated, chain, runs
    <2>4. QED BY <2>1, <2>2, <2>3
  <1>4. QED BY <1>2, <1>3 DEF Take

LEMMA EnterIInv ==
  ASSUME IInv, NEW j \in Jobs, Enter(j)
  PROVE  IInv'
  <1> USE DEF IInv, TypeOK
  <1>1. /\ pc[j] = "taken" /\ KindOf[j] # "daily" /\ (serial => Turn(j))
        /\ pc' = [pc EXCEPT ![j] = "entered"]
        /\ gate' = [gate EXCEPT ![j] = IF serial THEN "in" ELSE gate[j]]
        /\ UNCHANGED <<serial, now, crashes, busy, ticket, tail, runs>>
    BY DEF Enter, Enters, Go
  <1>2. ChainTypeOK' /\ ChainInOrder'
    <2>1. CASE serial
      BY <1>1, <2>1, PassesChain DEF Passes, ChainTypeOK
    <2>2. CASE ~serial
      BY <1>1, <2>2 DEF ChainTypeOK, ChainInOrder
    <2>3. QED BY <2>1, <2>2
  <1>3. TypeOK'
    BY <1>1, <1>2 DEF ChainTypeOK, runs
  <1>4. JobsInGate'
    BY <1>1, GroupAssumption DEF JobsInGate, Gated, runs
  <1>5. QED BY <1>2, <1>3, <1>4

(* The end of a job: what it does to its run is said apart.                  *)
LEMMA EndsIInv ==
  ASSUME IInv, NEW j \in Jobs, NEW result \in {"done", "threw"}, Ends(j, result),
         pc[j] \notin {"queued", "ended"},
         Gated(j) => gate[j] = "in" \/ Turn(j),
         pc[j] = "running" => ok'[j] # "null",
         ok' \in [Jobs -> {"none", "null", "ok", "failed"}],
         \A k \in Jobs : k # j \/ KindOf[k] = "daily" => ok'[k] = ok[k],
         pc[j] # "running" => ok'[j] = ok[j],
         UNCHANGED <<busy, at, nth, started>>
  PROVE  IInv'
  <1> USE DEF IInv, TypeOK
  <1>1. /\ pc' = [pc EXCEPT ![j] = "ended"]
        /\ gate' = [gate EXCEPT ![j] = IF Gated(j) THEN result ELSE gate[j]]
        /\ UNCHANGED <<serial, now, crashes, ticket, tail>>
    BY DEF Ends, Go
  <1>2. ChainTypeOK' /\ ChainInOrder'
    <2>1. CASE Gated(j)
      BY <1>1, <2>1, PassesChain DEF Passes, ChainTypeOK
    <2>2. CASE ~Gated(j)
      BY <1>1, <2>2 DEF ChainTypeOK, ChainInOrder
    <2>3. QED BY <2>1, <2>2
  <1>3. TypeOK'
    BY <1>1, <1>2 DEF ChainTypeOK
  <1>4. JobsInGate'
    BY <1>1, GroupAssumption DEF JobsInGate, Gated
  <1>5. QED BY <1>2, <1>3, <1>4

LEMMA EndingsIInv ==
  ASSUME IInv, NEW j \in Jobs, Refuse(j) \/ Freado(j) \/ Breaks(j)
  PROVE  IInv'
  <1>1. PICK result \in {"done", "threw"} : Ends(j, result) /\ UNCHANGED <<busy, runs>>
    BY DEF Refuse, Freado, Breaks
  <1>2. pc[j] \in {"taken", "entered", "allowed"} /\ (Gated(j) => gate[j] = "in" \/ Turn(j))
    BY DEF Refuse, Enters, Freado, Breaks, IInv, JobsInGate, Gated
  <1>3. QED BY <1>1, <1>2, EndsIInv DEF runs, IInv, TypeOK

LEMMA AbandonIInv ==
  ASSUME IInv, NEW j \in Jobs, Abandon(j)
  PROVE  IInv'
  <1>1. /\ pc[j] = "running" /\ Ends(j, "threw") /\ UNCHANGED <<busy, at, nth, started>>
        /\ ok' = [ok EXCEPT ![j] = IF KindOf[j] = "daily" THEN ok[j] ELSE "failed"]
    BY DEF Abandon, Finish
  <1>2. Gated(j) => gate[j] = "in"
    BY <1>1 DEF IInv, JobsInGate
  <1>3. ok'[j] # "null"
    BY <1>1 DEF IInv, TypeOK, JobsInGate
  <1>4. ok' \in [Jobs -> {"none", "null", "ok", "failed"}]
    BY <1>1 DEF IInv, TypeOK
  <1>5. \A k \in Jobs : k # j \/ KindOf[k] = "daily" => ok'[k] = ok[k]
    BY <1>1 DEF IInv, TypeOK
  <1>6. QED BY <1>1, <1>2, <1>3, <1>4, <1>5, EndsIInv

LEMMA ConsultaFreioIInv ==
  ASSUME IInv, NEW j \in Jobs, ConsultaFreio(j)
  PROVE  IInv'
  <1> USE DEF IInv, TypeOK, ConsultaFreio, Go, chain, runs
  <1>1. TypeOK'        OBVIOUS
  <1>2. ChainInOrder'  BY DEF ChainInOrder
  <1>3. JobsInGate'    BY DEF JobsInGate, Gated
  <1>4. QED BY <1>1, <1>2, <1>3

LEMMA StartRunIInv ==
  ASSUME IInv, NEW j \in Jobs, StartRun(j)
  PROVE  IInv'
  <1> USE DEF IInv, TypeOK
  <1>1. /\ pc[j] = IF KindOf[j] = "daily" THEN "taken" ELSE "allowed"
        /\ pc' = [pc EXCEPT ![j] = "running"]
        /\ busy' = [busy EXCEPT ![j] = j \notin Browser]
        /\ UNCHANGED <<serial, now, crashes>>
    BY DEF StartRun, Go
  <1>2. /\ ok' \in [Jobs -> {"none", "null", "ok", "failed"}]
        /\ at' \in [Jobs -> 0..MaxTime] /\ nth' \in [Jobs -> Nat] /\ started' \in Nat
        /\ \A k \in Jobs : k # j \/ KindOf[k] = "daily" => ok'[k] = ok[k]
    BY DEF StartRun, runs
  <1>3. ChainTypeOK' /\ ChainInOrder'
    <2>1. CASE j \in Browser
      <3>1. gate[j] = "out"
        BY <1>1, <2>1, GroupAssumption DEF JobsInGate
      <3>2. Join(j)
        BY <2>1 DEF StartRun
      <3>3. QED BY <3>1, <3>2, JoinsChain DEF ChainTypeOK
    <2>2. CASE j \notin Browser
      BY <2>2 DEF StartRun, chain, ChainTypeOK, ChainInOrder
    <2>3. QED BY <2>1, <2>2
  <1>4. TypeOK'
    BY <1>1, <1>2, <1>3 DEF ChainTypeOK
  <1>5. \A k \in Jobs : k # j \/ k \notin Browser => gate'[k] = gate[k]
    BY DEF StartRun, chain, Join
  <1>6. JobsInGate'
    BY <1>1, <1>2, <1>5, GroupAssumption DEF JobsInGate, Gated
  <1>7. QED BY <1>3, <1>4, <1>6

LEMMA OpenBrowserIInv ==
  ASSUME IInv, NEW j \in Jobs, OpenBrowser(j)
  PROVE  IInv'
  <1> USE DEF IInv, TypeOK
  <1> DEFINE place == IF pc[j] = "running" THEN "in" ELSE "threw"
  <1>1. /\ j \in Browser /\ Turn(j)
        /\ gate' = [gate EXCEPT ![j] = place]
        /\ busy' = [busy EXCEPT ![j] = pc[j] = "running"]
        /\ UNCHANGED <<serial, now, crashes, pc, ticket, tail, runs>>
    BY DEF OpenBrowser
  <1>2. ChainTypeOK' /\ ChainInOrder'
    BY <1>1, PassesChain DEF Passes, ChainTypeOK
  <1>3. TypeOK'
    BY <1>1, <1>2 DEF ChainTypeOK, runs
  <1>4. KindOf[j] = "daily" /\ pc[j] # "taken" /\ pc[j] # "queued"
    BY <1>1, GroupAssumption DEF Turn, JobsInGate
  <1>5. JobsInGate'
    BY <1>1, <1>4 DEF JobsInGate, Gated, runs
  <1>6. QED BY <1>2, <1>3, <1>5

LEMMA SettleIInv ==
  ASSUME IInv, NEW j \in Jobs, Settle(j)
  PROVE  IInv'
  <1> USE DEF IInv, TypeOK
  <1>1. PICK result \in {"done", "threw"}, outcome \in {"ok", "failed"} :
          /\ gate' = [gate EXCEPT ![j] = IF gate[j] = "in" THEN result ELSE gate[j]]
          /\ IF pc[j] = "running" THEN Finish(j, outcome) /\ Go(j, "ended") ELSE UNCHANGED <<pc, ok>>
    BY DEF Settle
  <1>2. /\ busy' = [busy EXCEPT ![j] = FALSE]
        /\ UNCHANGED <<serial, now, crashes, ticket, tail, at, nth, started>>
    BY DEF Settle
  <1>3. ChainTypeOK' /\ ChainInOrder'
    <2>1. CASE gate[j] = "in"
      BY <1>1, <1>2, <2>1, PassesChain DEF Passes, ChainTypeOK
    <2>2. CASE gate[j] # "in"
      BY <1>1, <1>2, <2>2 DEF ChainTypeOK, ChainInOrder
    <2>3. QED BY <2>1, <2>2
  <1>4. /\ pc' \in [Jobs -> {"queued", "taken", "entered", "allowed", "running", "ended"}]
        /\ ok' \in [Jobs -> {"none", "null", "ok", "failed"}]
        /\ \A k \in Jobs : k # j => pc'[k] = pc[k]
        /\ \A k \in Jobs : k # j \/ KindOf[k] = "daily" => ok'[k] = ok[k]
        /\ pc[j] = "running" => pc'[j] = "ended" /\ ok'[j] # "null"
        /\ pc[j] # "running" => pc'[j] = pc[j] /\ ok'[j] = ok[j]
    <2>1. CASE pc[j] = "running"
      <3>1. /\ pc' = [pc EXCEPT ![j] = "ended"]
            /\ ok' = [ok EXCEPT ![j] = IF KindOf[j] = "daily" THEN ok[j] ELSE outcome]
        BY <1>1, <2>1 DEF Finish, Go
      <3>2. KindOf[j] = "daily" => ok[j] = "none"
        BY DEF JobsInGate
      <3>3. ok' \in [Jobs -> {"none", "null", "ok", "failed"}]
        BY <3>1
      <3>4. pc' \in [Jobs -> {"queued", "taken", "entered", "allowed", "running", "ended"}]
        BY <3>1
      <3>5. QED BY <2>1, <3>1, <3>2, <3>3, <3>4
    <2>2. CASE pc[j] # "running"
      BY <1>1, <2>2
    <2>3. QED BY <2>1, <2>2
  <1>5. TypeOK'
    BY <1>2, <1>3, <1>4 DEF ChainTypeOK
  <1>6. \A k \in Jobs : /\ k # j => gate'[k] = gate[k]
                        /\ gate[k] # "in" => gate'[k] = gate[k]
    BY <1>1
  <1>7. JobsInGate'
    <2>1. Gated(j) /\ pc[j] \in {"entered", "allowed"} => gate'[j] = "in"
      BY DEF Settle, JobsInGate
    <2>2. QED BY <1>2, <1>4, <1>6, <2>1 DEF JobsInGate, Gated
  <1>8. QED BY <1>3, <1>5, <1>7

LEMMA CrashIInv == ASSUME IInv, Crash PROVE IInv'
  <1> USE DEF IInv, TypeOK
  <1>1. crashes' = crashes + 1 /\ crashes' \in 0..MaxCrashes
    BY BoundAssumption DEF Crash
  <1>2. /\ busy'   = [j \in Jobs |-> FALSE]
        /\ gate'   = [j \in Jobs |-> "out"]
        /\ ticket' = [j \in Jobs |-> 0]
        /\ tail'   = 0
        /\ UNCHANGED <<serial, now, runs>>
    BY DEF Crash
  <1>3. PICK S \in SUBSET {j \in Jobs : Active(j)} :
          pc' = [j \in Jobs |-> IF j \in S THEN "queued" ELSE IF Active(j) THEN "ended" ELSE pc[j]]
    BY DEF Crash
  <1>4. \A j \in Jobs : pc'[j] \in {"queued", "ended"}
    BY <1>3 DEF Active
  <1>5. pc' \in [Jobs -> {"queued", "taken", "entered", "allowed", "running", "ended"}]
    BY <1>3
  <1>6. TypeOK'        BY <1>1, <1>2, <1>5 DEF runs
  <1>7. ChainInOrder'  BY <1>2 DEF ChainInOrder
  <1>8. JobsInGate'    BY <1>2, <1>4 DEF JobsInGate, runs
  <1>9. QED BY <1>6, <1>7, <1>8

LEMMA NextIInv == IInv /\ [Next]_vars => IInv'
  <1> SUFFICES ASSUME IInv, [Next]_vars PROVE IInv'  OBVIOUS
  <1>1. CASE Tick
    <2>1. now' \in 0..MaxTime /\ now' = now + 1 /\ UNCHANGED <<serial, crashes, work, chain, runs>>
      BY <1>1, BoundAssumption DEF Tick, IInv, TypeOK
    <2>2. QED BY <2>1 DEF work, chain, runs, IInv, TypeOK, ChainInOrder, JobsInGate, Gated
  <1>2. CASE UNCHANGED vars
    BY <1>2 DEF vars, work, chain, runs, IInv, TypeOK, ChainInOrder, JobsInGate, Gated
  <1>3. QED
    BY <1>1, <1>2, CrashIInv, TakeIInv, EnterIInv, EndingsIInv, ConsultaFreioIInv, StartRunIInv,
       OpenBrowserIInv, SettleIInv, AbandonIInv
    DEF Next, RunCollect

THEOREM InductiveInvariant == Spec => []IInv
  <1>1. QED BY InitIInv, NextIInv, PTL DEF Spec

(* Types are kept, and a run has no end only while it runs or because the    *)
(* process died.                                                             *)
THEOREM TypeCorrect == Spec => []TypeOK
  <1>1. IInv => TypeOK  BY DEF IInv
  <1>2. QED BY <1>1, InductiveInvariant, PTL

(* At most one operation is in the gate, and the browser of a daily site     *)
(* keeps it closed until it is gone.                                         *)
THEOREM GateExcludes == Spec => []GateIsExclusive
  <1>1. IInv => GateIsExclusive
    <2> SUFFICES ASSUME IInv PROVE GateIsExclusive  OBVIOUS
    <2>1. ASSUME NEW j \in Jobs, NEW k \in Jobs, gate[j] = "in", gate[k] = "in" PROVE j = k
      <3>1. ticket[j] \in Nat /\ ticket[k] \in Nat /\ ticket[j] # 0 /\ ticket[k] # 0
        BY <2>1 DEF IInv, TypeOK, ChainInOrder
      <3>2. ~(ticket[j] < ticket[k]) /\ ~(ticket[k] < ticket[j])
        BY <2>1, <3>1 DEF IInv, ChainInOrder
      <3>3. QED BY <3>1, <3>2 DEF IInv, ChainInOrder
    <2>2. \A j \in Browser : busy[j] => gate[j] = "in"
      BY GroupAssumption DEF IInv, JobsInGate
    <2>3. QED BY <2>1, <2>2 DEF GateIsExclusive
  <1>2. QED BY <1>1, InductiveInvariant, PTL

-----------------------------------------------------------------------------
(* The brake.                                                                *)

Activity(kind) == {k \in Jobs : KindOf[k] = kind /\ Active(k)}

Engaged(s) ==
  {j \in Jobs : KindOf[j] # "daily" /\ SourceOf[j] = s /\ pc[j] \in {"entered", "allowed", "running"}}

LEMMA UnionBound ==
  ASSUME NEW S, NEW T, IsFiniteSet(S), IsFiniteSet(T), NEW m \in Nat, NEW n \in Nat,
         Cardinality(S) <= m, Cardinality(T) <= n
  PROVE  IsFiniteSet(S \cup T) /\ Cardinality(S \cup T) <= m + n
  <1>1. /\ IsFiniteSet(S \cup T)
        /\ Cardinality(S \cup T) = Cardinality(S) + Cardinality(T) - Cardinality(S \cap T)
    BY FS_Union
  <1>2. IsFiniteSet(S \cap T)
    BY FS_Intersection
  <1>3. Cardinality(S) \in Nat /\ Cardinality(T) \in Nat /\ Cardinality(S \cap T) \in Nat
    BY <1>2, FS_CardinalityType
  <1>4. QED BY <1>1, <1>3

LEMMA Finite ==
  ASSUME IsFiniteSet(Touched), NEW S, S \subseteq Touched
  PROVE  IsFiniteSet(S) /\ Cardinality(S) \in Nat
  <1>1. QED BY FS_Subset, FS_CardinalityType

(* As many ask at once as the mode and the slots admit.                      *)
LEMMA EngagedBound ==
  ASSUME IInv, IsFiniteSet(Touched), SlotsHold, NEW s
  PROVE  /\ IsFiniteSet(Engaged(s))
         /\ Cardinality(Engaged(s)) <= Callers
         /\ Callers \in Nat
  <1>1. Engaged(s) \subseteq Touched
    BY DEF Engaged, Touched
  <1>2. Slots["collect"] \in Nat /\ Slots["refresh"] \in Nat
    BY SlotsAssumption DEF Kinds
  <1>3. CASE serial
    <2>1. \A j, k \in Engaged(s) : j = k
      <3>1. SUFFICES ASSUME NEW j \in Engaged(s), NEW k \in Engaged(s) PROVE j = k
        OBVIOUS
      <3>2. j \in Jobs /\ k \in Jobs /\ gate[j] = "in" /\ gate[k] = "in"
        BY <1>3 DEF Engaged, IInv, JobsInGate, Gated
      <3>3. ticket[j] \in Nat /\ ticket[k] \in Nat /\ ticket[j] # 0 /\ ticket[k] # 0
        BY <3>2 DEF IInv, TypeOK, ChainInOrder
      <3>4. ~(ticket[j] < ticket[k]) /\ ~(ticket[k] < ticket[j])
        BY <3>2, <3>3 DEF IInv, ChainInOrder
      <3>5. QED BY <3>2, <3>3, <3>4 DEF IInv, ChainInOrder
    <2>2. CASE Engaged(s) = {}
      BY <1>1, <1>3, <2>2, Finite, FS_EmptySet DEF Callers
    <2>3. CASE \E j : j \in Engaged(s)
      <3>1. PICK j : j \in Engaged(s)  BY <2>3
      <3>2. Engaged(s) = {j}            BY <2>1, <3>1
      <3>3. QED BY <1>3, <3>2, FS_Singleton DEF Callers
    <2>4. QED BY <2>2, <2>3
  <1>4. CASE ~serial
    <2>1. /\ Activity("collect") \subseteq Touched
          /\ Activity("refresh") \subseteq Touched
      BY DEF Activity, Active, Touched
    <2>2. /\ Cardinality(Activity("collect")) <= Slots["collect"]
          /\ Cardinality(Activity("refresh")) <= Slots["refresh"]
      BY DEF SlotsHold, Activity, Kinds
    <2>3. IsFiniteSet(Activity("collect")) /\ IsFiniteSet(Activity("refresh"))
      BY <2>1, Finite
    <2>4. /\ IsFiniteSet(Activity("collect") \cup Activity("refresh"))
          /\ Cardinality(Activity("collect") \cup Activity("refresh")) <= Slots["collect"] + Slots["refresh"]
      BY <1>2, <2>2, <2>3, UnionBound
    <2>5. Engaged(s) \subseteq Activity("collect") \cup Activity("refresh")
      BY JobsAssumption DEF Engaged, Activity, Active, Kinds
    <2>6. /\ IsFiniteSet(Engaged(s))
          /\ Cardinality(Engaged(s)) <= Cardinality(Activity("collect") \cup Activity("refresh"))
      BY <2>4, <2>5, FS_Subset
    <2>7. QED BY <1>2, <1>4, <2>4, <2>6, FS_CardinalityType DEF Callers
  <1>5. QED BY <1>3, <1>4

(* A step after which nobody is pending who was not, and only what was       *)
(* pending has failed, adds no try: for no success is lost to the count.     *)
LEMMA TriesShrink ==
  ASSUME IInv, now \in Nat /\ now' \in Nat /\ now <= now',
         \A k \in Jobs : pc'[k] \in {"allowed", "running"} => pc[k] \in {"allowed", "running"},
         \A k \in Jobs : ok[k] = "ok" => ok'[k] = "ok" /\ nth'[k] = nth[k],
         \A k \in Jobs : ok'[k] = "failed" =>
           \/ ok[k] = "failed" /\ at'[k] = at[k] /\ nth'[k] = nth[k]
           \/ pc[k] \in {"allowed", "running"},
         NEW s
  PROVE  Pending(s)' \cup Unrested(s)' \subseteq Pending(s) \cup Unrested(s)
  <1>1. Pending(s)' \subseteq Pending(s)
    BY DEF Pending
  <1>2. ASSUME NEW x \in Unrested(s)'
        PROVE  x \in Pending(s) \cup Unrested(s)
    <2>1. /\ x \in Jobs /\ KindOf[x] # "daily" /\ SourceOf[x] = s /\ ok'[x] = "failed"
          /\ \A k \in Counted(s)' : ok'[k] = "ok" => nth'[k] < nth'[x]
          /\ at'[x] + Descanso > now'
      BY <1>2 DEF Unrested, Seguidas, Counted
    <2>2. CASE pc[x] \in {"allowed", "running"}
      BY <2>1, <2>2 DEF Pending
    <2>3. CASE ok[x] = "failed" /\ at'[x] = at[x] /\ nth'[x] = nth[x]
      <3>1. x \in Counted(s)
        BY <2>1, <2>3 DEF Counted
      <3>2. ASSUME NEW k \in Counted(s), ok[k] = "ok" PROVE nth[k] < nth[x]
        <4>1. k \in Jobs /\ ok'[k] = "ok" /\ nth'[k] = nth[k]
          BY <3>2 DEF Counted
        <4>2. k \in Counted(s)'
          BY <3>2, <4>1 DEF Counted
        <4>3. QED BY <2>1, <2>3, <4>1, <4>2
      <3>3. x \in Seguidas(s)
        BY <2>3, <3>1, <3>2 DEF Seguidas
      <3>4. at[x] \in Nat /\ Descanso \in Nat
        BY <2>1, BoundAssumption, BrakeAssumption DEF IInv, TypeOK
      <3>5. at[x] + Descanso > now
        BY <2>1, <2>3, <3>4
      <3>6. QED BY <3>3, <3>5 DEF Unrested
    <2>4. QED BY <2>1, <2>2, <2>3
  <1>3. QED BY <1>1, <1>2

LEMMA PendingFinite ==
  ASSUME IsFiniteSet(Touched), NEW s
  PROVE  IsFiniteSet(Pending(s) \cup Unrested(s)) /\ Cardinality(Pending(s) \cup Unrested(s)) \in Nat
  <1>1. Pending(s) \cup Unrested(s) \subseteq Touched
    BY DEF Pending, Unrested, Seguidas, Counted, Touched
  <1>2. QED BY <1>1, Finite

(* A step that lets nobody begin keeps the invariant, if it keeps the runs   *)
(* in order and adds no try.                                                 *)
LEMMA QuietBrake ==
  ASSUME IInv, BrakeInv, serial' = serial, Touched' \subseteq Touched,
         \A k \in Jobs : pc'[k] \notin {"queued", "ended"} => pc[k] \notin {"queued", "ended"},
         \A s \in Sources : Pending(s)' \cup Unrested(s)' \subseteq Pending(s) \cup Unrested(s),
         RunsInOrder'
  PROVE  BrakeInv'
  <1> USE DEF BrakeInv
  <1>1. IsFiniteSet(Touched')
    BY FS_Subset
  <1>2. SlotsHold'
    <2> SUFFICES ASSUME NEW kind \in Kinds PROVE Cardinality(Activity(kind)') <= Slots[kind]
      BY DEF SlotsHold, Activity
    <2>1. Activity(kind)' \subseteq Activity(kind)
      BY DEF Activity, Active
    <2>2. Activity(kind) \subseteq Touched
      BY DEF Activity, Active, Touched
    <2>3. IsFiniteSet(Activity(kind)) /\ Cardinality(Activity(kind)) \in Nat
      BY <2>2, Finite
    <2>4. Cardinality(Activity(kind)') <= Cardinality(Activity(kind)) /\ Cardinality(Activity(kind)') \in Nat
      BY <2>1, <2>3, FS_Subset, FS_CardinalityType
    <2>5. Cardinality(Activity(kind)) <= Slots[kind] /\ Slots[kind] \in Nat
      BY SlotsAssumption DEF SlotsHold, Activity
    <2>6. QED BY <2>3, <2>4, <2>5
  <1>3. TriesBounded'
    <2> SUFFICES ASSUME NEW s \in Sources
                 PROVE  Cardinality(Pending(s)' \cup Unrested(s)') < (Falhas + Callers)'
      BY DEF TriesBounded
    <2>1. /\ IsFiniteSet(Pending(s) \cup Unrested(s))
          /\ Cardinality(Pending(s) \cup Unrested(s)) \in Nat
      BY PendingFinite
    <2>2. /\ Cardinality(Pending(s)' \cup Unrested(s)') <= Cardinality(Pending(s) \cup Unrested(s))
          /\ Cardinality(Pending(s)' \cup Unrested(s)') \in Nat
      BY <2>1, FS_Subset, FS_CardinalityType
    <2>3. (Falhas + Callers)' = Falhas + Callers /\ Callers \in Nat /\ Falhas \in Nat
      BY SlotsAssumption, BrakeAssumption DEF Callers, Kinds
    <2>4. Cardinality(Pending(s) \cup Unrested(s)) < Falhas + Callers
      BY DEF TriesBounded
    <2>5. QED BY <2>1, <2>2, <2>3, <2>4
  <1>4. QED BY <1>1, <1>2, <1>3

LEMMA InitBrake == Init => BrakeInv
  <1> SUFFICES ASSUME Init PROVE BrakeInv  OBVIOUS
  <1>1. /\ \A j \in Jobs : pc[j] = "queued" /\ ok[j] = "none" /\ at[j] = 0 /\ nth[j] = 0
        /\ now = 0 /\ started = 0
    BY DEF Init
  <1>2. Touched = {} /\ (\A kind \in Kinds : Activity(kind) = {})
    BY <1>1 DEF Touched, Activity, Active
  <1>3. IsFiniteSet(Touched)
    BY <1>2, FS_EmptySet
  <1>4. SlotsHold
    BY <1>2, FS_EmptySet, SlotsAssumption DEF SlotsHold, Activity
  <1>5. RunsInOrder
    BY <1>1 DEF RunsInOrder
  <1>6. TriesBounded
    <2> SUFFICES ASSUME NEW s \in Sources
                 PROVE  Cardinality(Pending(s) \cup Unrested(s)) < Falhas + Callers
      BY DEF TriesBounded
    <2>1. Pending(s) \cup Unrested(s) = {}
      BY <1>1 DEF Pending, Unrested, Seguidas, Counted
    <2>2. Falhas + Callers > 0
      BY SlotsAssumption, BrakeAssumption DEF Callers, Kinds
    <2>3. QED BY <2>1, <2>2, FS_EmptySet
  <1>7. QED BY <1>3, <1>4, <1>5, <1>6 DEF BrakeInv

(* Whatever leaves the runs alone and only takes jobs further or back.       *)
LEMMA SameRunsBrake ==
  ASSUME IInv, BrakeInv, UNCHANGED <<serial, now, runs>>,
         \A k \in Jobs :
           /\ pc'[k] # "queued" => pc[k] # "queued"
           /\ pc'[k] \notin {"queued", "ended"} => pc[k] \notin {"queued", "ended"}
           /\ pc'[k] \in {"allowed", "running"} => pc[k] \in {"allowed", "running"}
           /\ pc[k] = "ended" => pc'[k] = "ended"
  PROVE  BrakeInv'
  <1>1. now \in Nat
    BY BoundAssumption DEF IInv, TypeOK
  <1>2. Touched' \subseteq Touched
    BY DEF Touched, runs
  <1>3. RunsInOrder'
    BY DEF BrakeInv, RunsInOrder, runs
  <1>4. ASSUME NEW s \in Sources
        PROVE  Pending(s)' \cup Unrested(s)' \subseteq Pending(s) \cup Unrested(s)
    BY <1>1, TriesShrink DEF runs
  <1>5. QED BY <1>2, <1>3, <1>4, QuietBrake

(* Who waits, is refused, finds no permission or is interrupted tries        *)
(* nothing, and the death of the process only takes tries away.              *)
LEMMA IdleBrake ==
  ASSUME IInv, BrakeInv, NEW j \in Jobs,
         Enter(j) \/ Refuse(j) \/ Freado(j) \/ Breaks(j) \/ OpenBrowser(j)
  PROVE  BrakeInv'
  <1>1. UNCHANGED <<serial, now, runs>>
    BY DEF Enter, Refuse, Freado, Breaks, OpenBrowser, Ends
  <1>2. \/ pc' = pc
        \/ pc[j] \in {"taken", "entered", "allowed"} /\ pc' = [pc EXCEPT ![j] = "ended"]
        \/ pc[j] = "taken" /\ pc' = [pc EXCEPT ![j] = "entered"]
    BY DEF Enter, Enters, Refuse, Freado, Breaks, OpenBrowser, Ends, Go
  <1>3. \A k \in Jobs :
          /\ pc'[k] # "queued" => pc[k] # "queued"
          /\ pc'[k] \notin {"queued", "ended"} => pc[k] \notin {"queued", "ended"}
          /\ pc'[k] \in {"allowed", "running"} => pc[k] \in {"allowed", "running"}
          /\ pc[k] = "ended" => pc'[k] = "ended"
    BY <1>2 DEF IInv, TypeOK
  <1>4. QED BY <1>1, <1>3, SameRunsBrake

LEMMA CrashBrake == ASSUME IInv, BrakeInv, Crash PROVE BrakeInv'
  <1>1. UNCHANGED <<serial, now, runs>>
    BY DEF Crash
  <1>2. PICK S \in SUBSET {j \in Jobs : Active(j)} :
          pc' = [j \in Jobs |-> IF j \in S THEN "queued" ELSE IF Active(j) THEN "ended" ELSE pc[j]]
    BY DEF Crash
  <1>3. \A k \in Jobs :
          /\ pc'[k] # "queued" => pc[k] # "queued"
          /\ pc'[k] \in {"queued", "ended"}
          /\ pc[k] = "ended" => pc'[k] = "ended"
    BY <1>2 DEF Active
  <1>4. QED BY <1>1, <1>3, SameRunsBrake

LEMMA TickBrake == ASSUME IInv, BrakeInv, Tick PROVE BrakeInv'
  <1>1. /\ now \in Nat /\ now' = now + 1 /\ UNCHANGED <<serial, work, chain, runs>>
    BY BoundAssumption DEF Tick, IInv, TypeOK
  <1>2. Touched' \subseteq Touched
    BY <1>1 DEF Touched, runs, work
  <1>3. RunsInOrder'
    <2>1. \A j \in Jobs : at[j] \in Nat /\ at[j] <= now
      BY BoundAssumption DEF BrakeInv, RunsInOrder, IInv, TypeOK
    <2>2. QED BY <1>1, <2>1 DEF BrakeInv, RunsInOrder, runs, work
  <1>4. ASSUME NEW s \in Sources
        PROVE  Pending(s)' \cup Unrested(s)' \subseteq Pending(s) \cup Unrested(s)
    BY <1>1, TriesShrink DEF runs, work
  <1>5. QED BY <1>1, <1>2, <1>3, <1>4, QuietBrake DEF work

LEMMA TakeBrake ==
  ASSUME IInv, BrakeInv, NEW j \in Jobs, Take(j)
  PROVE  BrakeInv'
  <1>1. /\ pc[j] = "queued" /\ pc' = [pc EXCEPT ![j] = "taken"]
        /\ Cardinality(Activity(KindOf[j])) < Slots[KindOf[j]]
        /\ UNCHANGED <<serial, now, runs>>
    BY DEF Take, Go, Activity
  <1>2. \A k \in Jobs : k # j => pc'[k] = pc[k]
    BY <1>1 DEF IInv, TypeOK
  <1>3. pc'[j] = "taken"
    BY <1>1 DEF IInv, TypeOK
  <1>4. IsFiniteSet(Touched')
    <2>1. Touched' \subseteq Touched \cup {j}
      BY <1>1, <1>2 DEF Touched, runs
    <2>2. QED BY <2>1, FS_AddElement, FS_Subset DEF BrakeInv
  <1>5. SlotsHold'
    <2> SUFFICES ASSUME NEW kind \in Kinds PROVE Cardinality(Activity(kind)') <= Slots[kind]
      BY DEF SlotsHold, Activity
    <2>1. Activity(kind) \subseteq Touched
      BY DEF Activity, Active, Touched
    <2>2. IsFiniteSet(Activity(kind)) /\ Cardinality(Activity(kind)) \in Nat /\ Slots[kind] \in Nat
      BY <2>1, Finite, SlotsAssumption DEF BrakeInv
    <2>3. CASE kind = KindOf[j]
      <3>1. Activity(kind)' = Activity(kind) \cup {j} /\ j \notin Activity(kind)
        BY <1>1, <1>2, <1>3, <2>3 DEF Activity, Active
      <3>2. Cardinality(Activity(kind) \cup {j}) = Cardinality(Activity(kind)) + 1
        BY <2>2, <3>1, FS_AddElement
      <3>3. QED BY <1>1, <2>2, <2>3, <3>1, <3>2
    <2>4. CASE kind # KindOf[j]
      <3>1. Activity(kind)' = Activity(kind)
        BY <1>2, <2>4 DEF Activity, Active
      <3>2. QED BY <3>1 DEF BrakeInv, SlotsHold, Activity
    <2>5. QED BY <2>3, <2>4
  <1>6. RunsInOrder'
    BY <1>1, <1>2 DEF BrakeInv, RunsInOrder, runs
  <1>7. TriesBounded'
    <2> SUFFICES ASSUME NEW s \in Sources
                 PROVE  Cardinality(Pending(s)' \cup Unrested(s)') < (Falhas + Callers)'
      BY DEF TriesBounded
    <2>1. Pending(s)' \cup Unrested(s)' = Pending(s) \cup Unrested(s)
      BY <1>1, <1>2, <1>3 DEF Pending, Unrested, Seguidas, Counted, runs
    <2>2. (Falhas + Callers)' = Falhas + Callers
      BY <1>1 DEF Callers
    <2>3. QED BY <2>1, <2>2 DEF BrakeInv, TriesBounded
  <1>8. QED BY <1>4, <1>5, <1>6, <1>7 DEF BrakeInv

(* A permission: fewer failures than close the brake, or all of them had     *)
(* their rest; and with whoever asks there are no more than the callers.     *)
LEMMA ConsultaFreioBrake ==
  ASSUME IInv, BrakeInv, NEW j \in Jobs, ConsultaFreio(j)
  PROVE  BrakeInv'
  <1>1. /\ pc[j] = "entered" /\ pc' = [pc EXCEPT ![j] = "allowed"] /\ Permite(SourceOf[j])
        /\ UNCHANGED <<serial, now, runs>>
    BY DEF ConsultaFreio, Go
  <1>2. \A k \in Jobs : k # j => pc'[k] = pc[k]
    BY <1>1 DEF IInv, TypeOK
  <1>3. pc'[j] = "allowed"
    BY <1>1 DEF IInv, TypeOK
  <1>4. Touched' = Touched
    BY <1>1, <1>2, <1>3 DEF Touched, runs
  <1>5. \A kind \in Kinds : Activity(kind)' = Activity(kind)
    BY <1>1, <1>2, <1>3 DEF Activity, Active
  <1>6. SlotsHold'
    BY <1>5 DEF BrakeInv, SlotsHold, Activity
  <1>7. RunsInOrder'
    BY <1>1, <1>2, <1>3 DEF BrakeInv, RunsInOrder, runs
  <1>8. ASSUME NEW s \in Sources
        PROVE  Cardinality(Pending(s)' \cup Unrested(s)') < (Falhas + Callers)'
    <2>1. Unrested(s)' = Unrested(s)
      BY <1>1 DEF Unrested, Seguidas, Counted, runs
    <2>2. (Falhas + Callers)' = Falhas + Callers /\ Falhas \in Nat \ {0}
      BY <1>1, BrakeAssumption DEF Callers
    <2>3. CASE s # SourceOf[j]
      <3>1. Pending(s)' = Pending(s)
        BY <1>2, <2>3 DEF Pending
      <3>2. QED BY <2>1, <2>2, <3>1 DEF BrakeInv, TriesBounded
    <2>4. CASE s = SourceOf[j]
      <3>1. /\ IsFiniteSet(Engaged(s)) /\ Cardinality(Engaged(s)) <= Callers /\ Callers \in Nat
            /\ Pending(s)' \subseteq Engaged(s)
        <4>1. Pending(s)' \subseteq Engaged(s)
          BY <1>1, <1>2 DEF Pending, Engaged
        <4>2. QED BY <4>1, EngagedBound DEF BrakeInv
      <3>2. IsFiniteSet(Pending(s)') /\ Cardinality(Pending(s)') <= Callers
        <4>1. IsFiniteSet(Pending(s)') /\ Cardinality(Pending(s)') <= Cardinality(Engaged(s))
          BY <3>1, FS_Subset
        <4>2. Cardinality(Pending(s)') \in Nat /\ Cardinality(Engaged(s)) \in Nat
          BY <3>1, <4>1, FS_CardinalityType
        <4>3. QED BY <3>1, <4>1, <4>2
      <3>3. IsFiniteSet(Unrested(s)) /\ Cardinality(Unrested(s)) <= Falhas - 1
        <4>1. IsFiniteSet(Seguidas(s)) /\ Cardinality(Seguidas(s)) \in Nat
          <5>1. Seguidas(s) \subseteq Touched
            BY DEF Seguidas, Counted, Touched
          <5>2. QED BY <5>1, Finite DEF BrakeInv
        <4>2. CASE Cardinality(Seguidas(s)) < Falhas
          <5>1. Unrested(s) \subseteq Seguidas(s)
            BY DEF Unrested
          <5>2. IsFiniteSet(Unrested(s)) /\ Cardinality(Unrested(s)) <= Cardinality(Seguidas(s))
            BY <4>1, <5>1, FS_Subset
          <5>3. Cardinality(Unrested(s)) \in Nat
            BY <5>2, FS_CardinalityType
          <5>4. QED BY <2>2, <4>1, <4>2, <5>2, <5>3
        <4>3. CASE \A k \in Seguidas(s) : now >= at[k] + Descanso
          <5>1. \A k \in Seguidas(s) : at[k] + Descanso \in Nat
            BY BoundAssumption, BrakeAssumption DEF Seguidas, Counted, IInv, TypeOK
          <5>2. now \in Nat
            BY BoundAssumption DEF IInv, TypeOK
          <5>3. Unrested(s) = {}
            BY <4>3, <5>1, <5>2 DEF Unrested
          <5>4. QED BY <2>2, <5>3, FS_EmptySet
        <4>4. QED BY <1>1, <2>4, <4>2, <4>3 DEF Permite
      <3>4. Cardinality(Pending(s)' \cup Unrested(s)) <= Callers + (Falhas - 1)
        <4>1. Falhas - 1 \in Nat
          BY <2>2
        <4>2. QED BY <3>1, <3>2, <3>3, <4>1, UnionBound
      <3>5. IsFiniteSet(Pending(s)' \cup Unrested(s))
        BY <3>2, <3>3, FS_Union
      <3>6. Cardinality(Pending(s)' \cup Unrested(s)) \in Nat
        BY <3>5, FS_CardinalityType
      <3>7. QED BY <2>1, <2>2, <3>1, <3>4, <3>6
    <2>5. QED BY <2>3, <2>4
  <1>9. QED BY <1>4, <1>6, <1>7, <1>8 DEF BrakeInv, TriesBounded

LEMMA StartRunBrake ==
  ASSUME IInv, BrakeInv, NEW j \in Jobs, StartRun(j)
  PROVE  BrakeInv'
  <1>1. /\ pc[j] = IF KindOf[j] = "daily" THEN "taken" ELSE "allowed"
        /\ pc' = [pc EXCEPT ![j] = "running"]
        /\ UNCHANGED <<serial, now>>
    BY DEF StartRun, Go
  <1>2. /\ \A k \in Jobs : k # j => pc'[k] = pc[k]
        /\ pc'[j] = "running"
    BY <1>1 DEF IInv, TypeOK
  <1>3. /\ now \in Nat /\ started \in Nat
        /\ \A k \in Jobs : at[k] \in Nat /\ nth[k] \in Nat
    BY BoundAssumption DEF IInv, TypeOK
  <1>4. \/ UNCHANGED runs
        \/ /\ ok'      = [ok EXCEPT ![j] = "null"]
           /\ at'      = [at EXCEPT ![j] = now]
           /\ nth'     = [nth EXCEPT ![j] = started + 1]
           /\ started' = started + 1
    BY DEF StartRun
  <1>5. /\ \A k \in Jobs : k # j => ok'[k] = ok[k] /\ at'[k] = at[k] /\ nth'[k] = nth[k]
        /\ \/ ok'[j] = ok[j] /\ at'[j] = at[j] /\ nth'[j] = nth[j] /\ started' = started
           \/ ok'[j] = "null" /\ at'[j] = now /\ nth'[j] = started + 1 /\ started' = started + 1
    BY <1>4 DEF runs, IInv, TypeOK
  <1>6. ok[j] \notin {"ok", "failed"}
    BY <1>1 DEF BrakeInv, RunsInOrder
  <1>7. Touched' \subseteq Touched
    <2>1. pc[j] # "queued"
      BY <1>1
    <2>2. QED BY <1>2, <1>5, <2>1 DEF Touched
  <1>8. RunsInOrder'
    <2>1. \A k \in Jobs : at'[k] <= now' /\ nth'[k] <= started'
      BY <1>1, <1>3, <1>5 DEF BrakeInv, RunsInOrder
    <2>2. \A k \in Jobs : ok'[k] \in {"ok", "failed"} => pc'[k] = "ended"
      BY <1>2, <1>5, <1>6 DEF BrakeInv, RunsInOrder
    <2>3. ASSUME NEW k \in Jobs, NEW m \in Jobs, at'[k] < at'[m] PROVE nth'[k] < nth'[m]
      <3>1. /\ at[k] <= now /\ nth[k] <= started /\ at[m] <= now /\ nth[m] <= started
            /\ at[k] < at[m] => nth[k] < nth[m]
        BY DEF BrakeInv, RunsInOrder
      <3>2. QED BY <1>3, <1>5, <2>3, <3>1
    <2>4. QED BY <2>1, <2>2, <2>3 DEF RunsInOrder
  <1>9. ASSUME NEW s \in Sources
        PROVE  Pending(s)' \cup Unrested(s)' \subseteq Pending(s) \cup Unrested(s)
    <2>1. CASE KindOf[j] = "daily"
      <3>1. UNCHANGED runs
        BY <2>1 DEF StartRun
      <3>2. QED BY <1>1, <1>2, <2>1, <3>1 DEF Pending, Unrested, Seguidas, Counted, runs
    <2>2. CASE KindOf[j] # "daily"
      <3>1. \A k \in Jobs : pc'[k] \in {"allowed", "running"} => pc[k] \in {"allowed", "running"}
        BY <1>1, <1>2, <2>2
      <3>2. QED BY <1>1, <1>3, <1>5, <1>6, <3>1, TriesShrink
    <2>3. QED BY <2>1, <2>2
  <1>10. \A k \in Jobs : pc'[k] \notin {"queued", "ended"} => pc[k] \notin {"queued", "ended"}
    BY <1>1, <1>2
  <1>11. QED BY <1>1, <1>7, <1>8, <1>9, <1>10, QuietBrake

(* A run that ends is one that was pending.                                  *)
LEMMA EndOfRunBrake ==
  ASSUME IInv, BrakeInv, NEW j \in Jobs, Settle(j) \/ Abandon(j)
  PROVE  BrakeInv'
  <1>1. UNCHANGED <<serial, now, at, nth, started>>
    BY DEF Settle, Abandon, Ends
  <1>2. CASE UNCHANGED <<pc, ok>>
    BY <1>1, <1>2, SameRunsBrake DEF runs
  <1>3. CASE \E outcome \in {"ok", "failed"} : pc[j] = "running" /\ Finish(j, outcome) /\ Go(j, "ended")
    <2>1. PICK outcome \in {"ok", "failed"} :
            /\ pc[j] = "running" /\ pc' = [pc EXCEPT ![j] = "ended"]
            /\ ok' = [ok EXCEPT ![j] = IF KindOf[j] = "daily" THEN ok[j] ELSE outcome]
      BY <1>3 DEF Finish, Go
    <2>2. /\ \A k \in Jobs : k # j => pc'[k] = pc[k] /\ ok'[k] = ok[k]
          /\ pc'[j] = "ended" /\ ok[j] \notin {"ok", "failed"}
      BY <2>1 DEF IInv, TypeOK, BrakeInv, RunsInOrder
    <2>3. Touched' \subseteq Touched
      BY <2>1, <2>2 DEF Touched
    <2>4. RunsInOrder'
      BY <1>1, <2>2 DEF BrakeInv, RunsInOrder
    <2>5. now \in Nat
      BY BoundAssumption DEF IInv, TypeOK
    <2>6. ASSUME NEW s \in Sources
          PROVE  Pending(s)' \cup Unrested(s)' \subseteq Pending(s) \cup Unrested(s)
      BY <1>1, <2>1, <2>2, <2>5, TriesShrink
    <2>7. QED BY <1>1, <2>2, <2>3, <2>4, <2>6, QuietBrake
  <1>4. QED BY <1>2, <1>3 DEF Settle, Abandon, Ends

LEMMA NextBrake == IInv /\ BrakeInv /\ [Next]_vars => BrakeInv'
  <1> SUFFICES ASSUME IInv, BrakeInv, [Next]_vars PROVE BrakeInv'  OBVIOUS
  <1>1. CASE UNCHANGED vars
    BY <1>1, SameRunsBrake DEF vars, work
  <1>2. QED
    BY <1>1, TickBrake, CrashBrake, TakeBrake, IdleBrake, ConsultaFreioBrake, StartRunBrake,
       EndOfRunBrake
    DEF Next, RunCollect

THEOREM BrakeInvariant == Spec => []BrakeInv
  <1>1. QED BY InductiveInvariant, InitBrake, NextBrake, PTL DEF Spec

(* The worker never has more jobs of a kind at once than it has slots for.   *)
THEOREM SlotsAreKept == Spec => []SlotsHold
  <1>1. BrakeInv => SlotsHold  BY DEF BrakeInv
  <1>2. QED BY <1>1, BrakeInvariant, PTL

(* A source that only fails is not tried more often within its rest than     *)
(* failures close the brake, give or take those that asked at once.          *)
THEOREM FailuresAreBounded == Spec => []BrakeBoundsFailures
  <1>1. IInv /\ BrakeInv => BrakeBoundsFailures
    <2> SUFFICES ASSUME IInv, BrakeInv, NEW s \in Sources
                 PROVE  LET recent == {j \in Counted(s) : /\ at[j] + Descanso > now
                                                          /\ ok[j] = "null" => pc[j] = "running"}
                        IN  (\A j \in recent : ok[j] # "ok") => Cardinality(recent) < Falhas + Callers
      BY DEF BrakeBoundsFailures
    <2> DEFINE recent == {j \in Counted(s) : at[j] + Descanso > now /\ (ok[j] = "null" => pc[j] = "running")}
    <2> SUFFICES ASSUME \A j \in recent : ok[j] # "ok"
                 PROVE  Cardinality(recent) < Falhas + Callers
      OBVIOUS
    <2>1. /\ now \in Nat /\ Descanso \in Nat
          /\ \A j \in Jobs : at[j] \in Nat /\ nth[j] \in Nat /\ ok[j] \in {"none", "null", "ok", "failed"}
      BY BoundAssumption, BrakeAssumption DEF IInv, TypeOK
    <2>2. ASSUME NEW j \in recent PROVE j \in Pending(s) \cup Unrested(s)
      <3>1. j \in Counted(s) /\ at[j] + Descanso > now /\ (ok[j] = "null" => pc[j] = "running")
        BY <2>2
      <3>2. CASE ok[j] = "null"
        BY <3>1, <3>2 DEF Counted, Pending
      <3>3. CASE ok[j] = "failed"
        <4>1. ASSUME NEW k \in Counted(s), ok[k] = "ok" PROVE nth[k] < nth[j]
          <5>1. ~(at[k] + Descanso > now)
            BY <4>1
          <5>2. at[k] < at[j]
            BY <2>1, <3>1, <4>1, <5>1 DEF Counted
          <5>3. QED BY <3>1, <5>2 DEF Counted, BrakeInv, RunsInOrder
        <4>2. QED BY <3>1, <3>3, <4>1 DEF Unrested, Seguidas
      <3>4. QED BY <2>1, <2>2, <3>1, <3>2, <3>3 DEF Counted
    <2>3. recent \subseteq Pending(s) \cup Unrested(s)
      BY <2>2
    <2>4. /\ IsFiniteSet(Pending(s) \cup Unrested(s))
          /\ Cardinality(Pending(s) \cup Unrested(s)) \in Nat
          /\ Cardinality(Pending(s) \cup Unrested(s)) < Falhas + Callers
      BY PendingFinite DEF BrakeInv, TriesBounded
    <2>5. Cardinality(recent) <= Cardinality(Pending(s) \cup Unrested(s)) /\ Cardinality(recent) \in Nat
      BY <2>3, <2>4, FS_Subset, FS_CardinalityType
    <2>6. Falhas + Callers \in Nat
      BY SlotsAssumption, BrakeAssumption DEF Callers, Kinds
    <2>7. HIDE DEF recent
    <2>8. QED BY <2>4, <2>5, <2>6
  <1>2. QED BY <1>1, InductiveInvariant, BrakeInvariant, PTL

-----------------------------------------------------------------------------
(* The gate keeps its promise: each step of the chain is one of GatePromise  *)
(* or leaves it alone.                                                       *)

LEMMA JoinsAsks ==
  ASSUME ChainTypeOK, ChainInOrder, NEW j \in Jobs, gate[j] = "out", Join(j)
  PROVE  Promise!Ask(j)
  <1> USE DEF ChainTypeOK, ChainInOrder
  <1>1. /\ ticket[j] = 0 /\ ticket'[j] = tail + 1 /\ gate'[j] = "waiting"
        /\ \A k \in Jobs : k # j => ticket'[k] = ticket[k] /\ gate'[k] = gate[k]
        /\ \A k \in Jobs : ticket[k] \in Nat /\ ticket[k] <= tail
        /\ tail \in Nat
    BY DEF Join
  <1>2. stage[j] = "out" /\ stage' = [stage EXCEPT ![j] = "waiting"]
    BY <1>1 DEF stage
  <1>3. ahead'[j] = {k \in Jobs : stage[k] \in {"waiting", "in"}}
    <2>1. \A k \in Jobs : gate'[k] \in {"waiting", "in"} /\ ticket'[k] < ticket'[j]
                            <=> gate[k] \in {"waiting", "in"}
      BY <1>1
    <2>2. QED BY <1>1, <2>1 DEF ahead, stage
  <1>4. ASSUME NEW m \in Jobs, m # j PROVE ahead'[m] = ahead[m]
    <2>1. ~(ticket'[j] < ticket'[m])
      BY <1>1, <1>4
    <2>2. \A k \in Jobs : gate'[k] \in {"waiting", "in"} /\ ticket'[k] < ticket'[m]
                            <=> gate[k] \in {"waiting", "in"} /\ ticket[k] < ticket[m]
      BY <1>1, <1>4, <2>1
    <2>3. QED BY <1>1, <1>4, <2>2 DEF ahead
  <1>5. ahead' = [ahead EXCEPT ![j] = {k \in Jobs : stage[k] \in {"waiting", "in"}}]
    BY <1>3, <1>4 DEF ahead
  <1>6. QED BY <1>2, <1>5 DEF Promise!Ask

LEMMA PassesPromise ==
  ASSUME ChainTypeOK, ChainInOrder, NEW j \in Jobs,
         NEW place \in {"in", "done", "threw"}, Passes(j, place), gate[j] = "in" => place # "in"
  PROVE  Promise!GNext
  <1> USE DEF ChainTypeOK, ChainInOrder
  <1>1. /\ gate'[j] = place /\ gate[j] \in {"waiting", "in"}
        /\ \A k \in Jobs : k # j => gate'[k] = gate[k]
        /\ UNCHANGED <<ticket, tail>>
    BY DEF Passes, Turn
  <1>2. \A k \in Jobs : gate[k] \in {"waiting", "in"} => ~(ticket[k] < ticket[j])
    <2>1. \A k \in Jobs : 0 < ticket[k] /\ ticket[k] < ticket[j] => gate[k] \in {"done", "threw"}
      BY SettledBefore DEF Passes
    <2>2. QED BY <2>1
  <1>3. ahead[j] = {}
    BY <1>2 DEF ahead
  <1>4. CASE place = "in"
    <2>1. gate[j] = "waiting" /\ stage[j] = "waiting" /\ stage' = [stage EXCEPT ![j] = "in"]
      <3>1. gate[j] = "waiting" /\ gate'[j] = "in"
        BY <1>1, <1>4
      <3>2. stage[j] = "waiting" /\ stage'[j] = "in"
        BY <3>1 DEF stage
      <3>3. \A k \in Jobs : k # j => stage'[k] = stage[k]
        BY <1>1 DEF stage
      <3>4. DOMAIN stage = Jobs /\ stage = [k \in Jobs |-> stage[k]] /\ stage' = [k \in Jobs |-> stage'[k]]
        BY DEF stage
      <3>5. QED BY <3>1, <3>2, <3>3, <3>4
    <2>2. ASSUME NEW p \in Jobs PROVE stage[p] # "in"
      <3>1. ASSUME gate[p] = "in" PROVE FALSE
        <4>1. ticket[p] \in Nat /\ ticket[j] \in Nat /\ ticket[p] # 0 /\ ticket[j] # 0 /\ p # j
          BY <2>1, <3>1
        <4>2. ~(ticket[p] < ticket[j])
          BY <1>2, <3>1
        <4>3. ~(ticket[j] < ticket[p])
          BY <2>1, <3>1, <4>1
        <4>4. QED BY <4>1, <4>2, <4>3
      <3>2. QED BY <3>1 DEF stage
    <2>3. ASSUME NEW m \in Jobs PROVE ahead'[m] = ahead[m]
      <3>1. CASE m = j
        BY <1>1, <1>3, <1>4, <3>1 DEF ahead
      <3>2. CASE m # j
        <4>1. \A k \in Jobs : gate'[k] \in {"waiting", "in"} <=> gate[k] \in {"waiting", "in"}
          BY <1>1, <1>4
        <4>2. QED BY <1>1, <3>2, <4>1 DEF ahead
      <3>3. QED BY <3>1, <3>2
    <2>4. ahead' = ahead
      BY <2>3 DEF ahead
    <2>5. QED BY <1>3, <2>1, <2>2, <2>4 DEF Promise!Admit, Promise!GNext
  <1>5. CASE place \in {"done", "threw"}
    <2>1. /\ stage[j] \in {"in", "waiting"}
          /\ stage' = [stage EXCEPT ![j] = "left"]
      BY <1>1, <1>5 DEF stage
    <2>2. ASSUME NEW m \in Jobs PROVE ahead'[m] = ahead[m] \ {j}
      <3>1. CASE m = j
        BY <1>1, <1>3, <1>5, <3>1 DEF ahead
      <3>2. CASE m # j
        <4>1. \A k \in Jobs : gate'[k] \in {"waiting", "in"} <=> k # j /\ gate[k] \in {"waiting", "in"}
          BY <1>1, <1>5
        <4>2. QED BY <1>1, <3>2, <4>1 DEF ahead
      <3>3. QED BY <3>1, <3>2
    <2>3. ahead' = [m \in Jobs |-> ahead[m] \ {j}]
      BY <2>2 DEF ahead
    <2>4. QED BY <1>3, <2>1, <2>3 DEF Promise!Leave, Promise!GNext
  <1>6. QED BY <1>4, <1>5

(* Every step of the jobs is a step of the gate or leaves it alone.          *)
THEOREM StepKeepsGatePromise ==
  ASSUME IInv, [Next]_vars
  PROVE  [Promise!GNext]_Promise!gvars
  <1> USE DEF IInv, TypeOK
  <1> DEFINE Still == gate' = gate /\ ticket' = ticket
  <1>0. Still => [Promise!GNext]_Promise!gvars
    BY DEF Promise!gvars, stage, ahead
  <1> HIDE DEF Still
  <1>1. ChainTypeOK /\ ChainInOrder
    BY DEF ChainTypeOK
  <1>2. ASSUME NEW j \in Jobs, NEW result \in {"done", "threw"}, Ends(j, result),
               Gated(j) => gate[j] = "in" \/ Turn(j)
        PROVE  Promise!GNext \/ Still
    <2>1. gate' = [gate EXCEPT ![j] = IF Gated(j) THEN result ELSE gate[j]] /\ UNCHANGED <<ticket, tail>>
      BY <1>2 DEF Ends
    <2>2. CASE Gated(j)
      BY <1>1, <1>2, <2>1, <2>2, PassesPromise DEF Passes
    <2>3. CASE ~Gated(j)
      BY <2>1, <2>3 DEF Still
    <2>4. QED BY <2>2, <2>3
  <1>3. ASSUME NEW j \in Jobs, Take(j)
        PROVE  Promise!GNext \/ Still
    <2>1. CASE Gated(j)
      <3>1. gate[j] = "out" /\ Join(j)
        BY <1>3, <2>1 DEF Take, JobsInGate
      <3>2. QED BY <1>1, <3>1, JoinsAsks DEF Promise!GNext
    <2>2. CASE ~Gated(j)
      BY <1>3, <2>2 DEF Take, chain, Still
    <2>3. QED BY <2>1, <2>2
  <1>4. ASSUME NEW j \in Jobs, Enter(j)
        PROVE  Promise!GNext \/ Still
    <2>1. /\ serial => Turn(j)
          /\ gate' = [gate EXCEPT ![j] = IF serial THEN "in" ELSE gate[j]] /\ UNCHANGED <<ticket, tail>>
      BY <1>4 DEF Enter, Enters
    <2>2. CASE serial
      <3>1. gate[j] = "waiting" /\ Passes(j, "in")
        BY <2>1, <2>2 DEF Passes, Turn
      <3>2. QED BY <1>1, <3>1, PassesPromise
    <2>3. CASE ~serial
      BY <2>1, <2>3 DEF Still
    <2>4. QED BY <2>2, <2>3
  <1>5. ASSUME NEW j \in Jobs, Refuse(j) \/ Freado(j) \/ Breaks(j) \/ Abandon(j)
        PROVE  Promise!GNext \/ Still
    <2>1. PICK result \in {"done", "threw"} : Ends(j, result)
      BY <1>5 DEF Refuse, Freado, Breaks, Abandon
    <2>2. Gated(j) => gate[j] = "in" \/ Turn(j)
      BY <1>5 DEF Refuse, Enters, Freado, Breaks, Abandon, JobsInGate, Gated
    <2>3. QED BY <1>2, <2>1, <2>2
  <1>6. ASSUME NEW j \in Jobs, StartRun(j)
        PROVE  Promise!GNext \/ Still
    <2>1. CASE j \in Browser
      <3>1. gate[j] = "out" /\ Join(j)
        BY <1>6, <2>1, GroupAssumption DEF StartRun, JobsInGate
      <3>2. QED BY <1>1, <3>1, JoinsAsks DEF Promise!GNext
    <2>2. CASE j \notin Browser
      BY <1>6, <2>2 DEF StartRun, chain, Still
    <2>3. QED BY <2>1, <2>2
  <1>7. ASSUME NEW j \in Jobs, OpenBrowser(j)
        PROVE  Promise!GNext
    <2> DEFINE place == IF pc[j] = "running" THEN "in" ELSE "threw"
    <2>1. Turn(j) /\ gate' = [gate EXCEPT ![j] = place] /\ UNCHANGED <<ticket, tail>>
      BY <1>7 DEF OpenBrowser
    <2>2. gate[j] = "waiting" /\ Passes(j, place)
      BY <2>1 DEF Passes, Turn
    <2>3. QED BY <1>1, <2>2, PassesPromise
  <1>8. ASSUME NEW j \in Jobs, Settle(j)
        PROVE  Promise!GNext \/ Still
    <2>1. UNCHANGED <<ticket, tail>>
      BY <1>8 DEF Settle
    <2>2. PICK result \in {"done", "threw"} :
            gate' = [gate EXCEPT ![j] = IF gate[j] = "in" THEN result ELSE gate[j]]
      BY <1>8 DEF Settle
    <2>3. CASE gate[j] = "in"
      BY <1>1, <2>1, <2>2, <2>3, PassesPromise DEF Passes
    <2>4. CASE gate[j] # "in"
      BY <2>1, <2>2, <2>4 DEF Still
    <2>5. QED BY <2>3, <2>4
  <1>9. ASSUME Crash PROVE Promise!GNext
    BY <1>9 DEF Crash, Promise!GNext, Promise!Restart, stage, ahead
  <1>10. ASSUME Tick \/ UNCHANGED vars \/ \E j \in Jobs : ConsultaFreio(j)
         PROVE  Still
    BY <1>10 DEF Tick, ConsultaFreio, vars, chain, Still
  <1>11. QED
    BY <1>0, <1>3, <1>4, <1>5, <1>6, <1>7, <1>8, <1>9, <1>10 DEF Next, RunCollect

(* Nobody is in the gate beside another, and nobody overtakes.               *)
THEOREM GateKeepsPromise == Spec => KeepsGatePromise
  <1>1. Init => Promise!GInit
    BY DEF Init, Promise!GInit, stage, ahead
  <1>2. IInv /\ [Next]_vars => [Promise!GNext]_Promise!gvars
    BY StepKeepsGatePromise
  <1>3. QED
    BY <1>1, <1>2, InductiveInvariant, PTL DEF Spec, KeepsGatePromise, Promise!GSpec
================================================================================
