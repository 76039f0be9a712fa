---------------------------- MODULE LotClosureProofs ----------------------------
(***************************************************************************)
(* Proofs about LotClosure, for any lots, pages, kinds of source and        *)
(* times.  The end of a row needs no strengthening but its type: whoever    *)
(* writes an end also says whose it is (EndsMove).                          *)
(***************************************************************************)
EXTENDS LotClosure, TLAPS

RowTypeOK ==
  /\ status \in [Lots -> {None, "aberto", "sem_data", "encerrado"}]
  /\ start  \in [Lots -> Starts \cup {None}]
  /\ end    \in [Lots -> Ends]
  /\ endOf  \in [Lots -> Starts \cup {None, Reader}]

HandsTypeOK ==
  /\ missed  \in [Lots -> 0..Cycles]
  /\ page    \in [Lots -> Pages \cup {None}]
  /\ verdict \in [Lots -> Verdicts \cup {None}]
  /\ live    \in [Lots -> Ends]

LEMMA TypeParts ==
  TypeOK <=> /\ now \in 0..MaxTime /\ source \in [Lots -> Sources] /\ site \in [Lots -> Pages]
             /\ RowTypeOK /\ HandsTypeOK
  <1>1. QED BY DEF TypeOK, RowTypeOK, HandsTypeOK

(* What a listed page says has the type of what a row keeps.                 *)
LEMMA ListedPages ==
  ASSUME NEW p \in Listed
  PROVE  /\ p.shows \in {"aberto", "sem_data", "encerrado"}
         /\ p.start \in Starts /\ p.end \in Ends
  <1>1. QED BY DEF Listed

LEMMA InitTypeOK == Init => TypeOK /\ CollectedEndIsOfAuction
  <1> SUFFICES ASSUME Init PROVE TypeOK /\ CollectedEndIsOfAuction  OBVIOUS
  <1>1. TypeOK
    BY NoneAssumption, BoundsAssumption DEF Init, TypeOK
  <1>2. CollectedEndIsOfAuction
    BY DEF Init, CollectedEndIsOfAuction
  <1>3. QED BY <1>1, <1>2

(* What a writer may do to the end of lot l.                                 *)
EndsMove(l) ==
  /\ RowTypeOK'
  /\ \A k \in Lots : k # l => UNCHANGED <<start[k], end[k], endOf[k]>>
  /\ \/ endOf'[l] = Reader
     \/ end'[l] = None
     \/ endOf'[l] = start'[l]
     \/ UNCHANGED <<start[l], end[l], endOf[l]>>

LEMMA EndsMoveCollected ==
  ASSUME CollectedEndIsOfAuction, NEW l \in Lots, EndsMove(l)
  PROVE  CollectedEndIsOfAuction'
  <1>1. QED BY DEF EndsMove, CollectedEndIsOfAuction

LEMMA UpsertMoves ==
  ASSUME TypeOK, CollectedEndIsOfAuction, NEW l \in Lots, Upsert(l)
  PROVE  EndsMove(l) /\ missed' \in [Lots -> 0..Cycles]
  <1> DEFINE p == page[l]
  <1>1. p \in Listed /\ p.shows \in {"aberto", "sem_data", "encerrado"} /\ p.start \in Starts /\ p.end \in Ends
    BY ListedPages DEF Upsert
  <1>2. /\ status' = [status EXCEPT ![l] = p.shows]
        /\ start'  = [start EXCEPT ![l] = p.start]
        /\ end'    = [end EXCEPT ![l] = EndAfter(l, p)]
        /\ endOf'  = [endOf EXCEPT ![l] = IF EndAfter(l, p) = None THEN None
                                          ELSE IF p.end # None THEN p.start ELSE endOf[l]]
        /\ missed' = [missed EXCEPT ![l] = 0]
    BY DEF Upsert, StatusAfter
  <1>3. EndAfter(l, p) \in Ends
    BY <1>1, NoneAssumption DEF EndAfter, TypeOK
  <1>4. RowTypeOK'
    BY <1>1, <1>2, <1>3 DEF TypeOK, RowTypeOK
  <1>5. /\ start'[l] = p.start /\ end'[l] = EndAfter(l, p)
        /\ endOf'[l] = IF EndAfter(l, p) = None THEN None
                       ELSE IF p.end # None THEN p.start ELSE endOf[l]
        /\ \A k \in Lots : k # l => UNCHANGED <<start[k], end[k], endOf[k]>>
    BY <1>2 DEF TypeOK
  <1>6. \/ endOf'[l] = Reader \/ end'[l] = None \/ endOf'[l] = start'[l]
    <2>1. CASE p.end # None
      BY <1>5, <2>1 DEF EndAfter
    <2>2. CASE p.end = None /\ p.start = start[l] /\ end[l] # None
      BY <1>5, <2>2 DEF EndAfter, CollectedEndIsOfAuction
    <2>3. CASE p.end = None /\ ~(p.start = start[l] /\ end[l] # None)
      BY <1>5, <2>3 DEF EndAfter
    <2>4. QED BY <2>1, <2>2, <2>3
  <1>7. missed' \in [Lots -> 0..Cycles]
    BY <1>2, BoundsAssumption DEF TypeOK
  <1>8. QED BY <1>4, <1>5, <1>6, <1>7 DEF EndsMove

(* Sweeps that miss a lot.                                                   *)
LEMMA OverlookType ==
  ASSUME TypeOK, NEW l \in Lots, Overlook(l)
  PROVE  missed' \in [Lots -> 0..Cycles]
  <1>1. QED BY BoundsAssumption DEF Overlook, TypeOK

LEMMA WriteInv ==
  ASSUME TypeOK, CollectedEndIsOfAuction, NEW l \in Lots, Write(l)
  PROVE  TypeOK' /\ CollectedEndIsOfAuction'
  <1>1. Written(l)
    BY DEF Write, Upsert, CloseOutOfScope, SweepMissed
  <1>2. EndsMove(l) /\ missed' \in [Lots -> 0..Cycles]
    <2>1. CASE Upsert(l)
      BY <2>1, UpsertMoves
    <2>2. CASE CloseOutOfScope(l)
      BY <2>2, OverlookType DEF CloseOutOfScope, EndsMove, RowTypeOK, TypeOK
    <2>3. CASE SweepMissed(l)
      BY <2>3, OverlookType DEF SweepMissed, EndsMove, RowTypeOK, TypeOK, row
    <2>4. QED BY <2>1, <2>2, <2>3 DEF Write
  <1>3. page' \in [Lots -> Pages \cup {None}] /\ UNCHANGED <<now, source, site, verdict, live>>
    BY <1>1 DEF Written, TypeOK
  <1>4. QED BY <1>2, <1>3, EndsMoveCollected, TypeParts DEF EndsMove, RowTypeOK, TypeOK

LEMMA ClosesInv ==
  ASSUME TypeOK, CollectedEndIsOfAuction, EncerrarPorPrazo \/ EncerrarPorAusencia
  PROVE  TypeOK' /\ CollectedEndIsOfAuction'
  <1>1. PICK S \in SUBSET Lots : Closes(S)
    BY DEF EncerrarPorPrazo, EncerrarPorAusencia
  <1>2. status' \in [Lots -> {None, "aberto", "sem_data", "encerrado"}]
    BY <1>1 DEF Closes, TypeOK
  <1>3. UNCHANGED <<now, source, site, start, end, endOf, missed, page, verdict, live>>
    BY <1>1 DEF Closes, hands
  <1>4. TypeOK'
    BY <1>2, <1>3 DEF TypeOK
  <1>5. CollectedEndIsOfAuction'
    BY <1>3 DEF CollectedEndIsOfAuction
  <1>6. QED BY <1>4, <1>5

(* The steps of the verification.                                            *)
LEMMA VerificationInv ==
  ASSUME TypeOK, CollectedEndIsOfAuction, NEW l \in Lots,
         Answer(l) \/ NoAnswer(l) \/ Apply(l) \/ AbandonVerification(l)
  PROVE  TypeOK' /\ CollectedEndIsOfAuction'
  <1>1. EndsMove(l)
    <2>1. CASE Answer(l) \/ NoAnswer(l) \/ AbandonVerification(l)
      BY <2>1 DEF Answer, NoAnswer, AbandonVerification, row, EndsMove, RowTypeOK, TypeOK
    <2>2. CASE AplicarVereditos(l)
      BY <2>2 DEF AplicarVereditos, EndsMove, RowTypeOK, TypeOK
    <2>3. CASE CorrigirPrazo(l)
      <3>1. verdict[l].end \in Ends
        BY <2>3 DEF CorrigirPrazo, TypeOK, Verdicts
      <3>2. QED BY <2>3, <3>1 DEF CorrigirPrazo, EndsMove, RowTypeOK, TypeOK
    <2>4. QED BY <2>1, <2>2, <2>3 DEF Apply
  <1>2. PICK v \in Verdicts \cup {None} : Verifies(l, v)
    <2>1. CASE Answer(l)
      <3>1. PICK e \in {None} \cup (IF site[l] \in Listed THEN {site[l].end} ELSE {}) :
              Verifies(l, [step |-> "judged", dead |-> site[l].shows \notin {"aberto", "sem_data"}, end |-> e])
        BY <2>1 DEF Answer
      <3>2. e \in Ends
        BY NoneAssumption, ListedPages
      <3>3. [step |-> "judged", dead |-> site[l].shows \notin {"aberto", "sem_data"}, end |-> e] \in Verdicts
        BY <3>2 DEF Verdicts
      <3>4. QED BY <3>1, <3>3
    <2>2. CASE NoAnswer(l)
      BY <2>2, NoneAssumption DEF NoAnswer, Verdicts
    <2>3. CASE AplicarVereditos(l)
      <3>1. verdict[l] \in Verdicts
        BY <2>3 DEF AplicarVereditos, Judged, TypeOK
      <3>2. [verdict[l] EXCEPT !.step = "applied", !.dead = FALSE] \in Verdicts
        BY <3>1 DEF Verdicts
      <3>3. QED BY <2>3, <3>2 DEF AplicarVereditos
    <2>4. CASE CorrigirPrazo(l) \/ AbandonVerification(l)
      BY <2>4 DEF CorrigirPrazo, AbandonVerification
    <2>5. QED BY <2>1, <2>2, <2>3, <2>4 DEF Apply
  <1>3. verdict' \in [Lots -> Verdicts \cup {None}] /\ UNCHANGED <<now, source, site, missed, page, live>>
    BY <1>2 DEF Verifies, TypeOK
  <1>4. QED BY <1>1, <1>3, EndsMoveCollected DEF EndsMove, RowTypeOK, TypeOK

(* The reader of live bids.                                                  *)
LEMMA LiveInv ==
  ASSUME TypeOK, CollectedEndIsOfAuction, NEW l \in Lots, ReadLive(l) \/ RecordLive(l)
  PROVE  TypeOK' /\ CollectedEndIsOfAuction'
  <1>1. CASE ReadLive(l)
    <2>1. site[l].end \in Ends
      BY <1>1, ListedPages DEF ReadLive
    <2>2. TypeOK'
      BY <1>1, <2>1 DEF ReadLive, TypeOK, row
    <2>3. CollectedEndIsOfAuction'
      BY <1>1 DEF ReadLive, CollectedEndIsOfAuction, row
    <2>4. QED BY <2>2, <2>3
  <1>2. CASE RecordLive(l)
    <2>1. EndsMove(l)
      BY <1>2 DEF RecordLive, EndsMove, RowTypeOK, TypeOK
    <2>2. live' \in [Lots -> Ends] /\ UNCHANGED <<now, source, site, missed, page, verdict>>
      BY <1>2, NoneAssumption DEF RecordLive, TypeOK
    <2>3. QED BY <2>1, <2>2, EndsMoveCollected DEF EndsMove, RowTypeOK, TypeOK
  <1>3. QED BY <1>1, <1>2

(* The site and the reading of its pages.                                    *)
LEMMA SiteInv ==
  ASSUME TypeOK, CollectedEndIsOfAuction, NEW l \in Lots, Change(l) \/ Read(l) \/ Miss(l)
  PROVE  TypeOK' /\ CollectedEndIsOfAuction'
  <1>1. site' \in [Lots -> Pages] /\ page' \in [Lots -> Pages \cup {None}]
    BY PagesAssumption DEF Change, Read, Miss, Reads, TypeOK, hands
  <1>2. UNCHANGED <<now, source, row, missed, verdict, live>>
    BY DEF Change, Read, Miss, Reads, hands
  <1>3. TypeOK'
    BY <1>1, <1>2 DEF TypeOK, row
  <1>4. CollectedEndIsOfAuction'
    BY <1>2 DEF CollectedEndIsOfAuction, row
  <1>5. QED BY <1>3, <1>4

LEMMA NextInv ==
  TypeOK /\ CollectedEndIsOfAuction /\ [Next]_vars => TypeOK' /\ CollectedEndIsOfAuction'
  <1> SUFFICES ASSUME TypeOK, CollectedEndIsOfAuction, [Next]_vars
               PROVE  TypeOK' /\ CollectedEndIsOfAuction'
    OBVIOUS
  <1>1. CASE Tick
    <2>1. now' \in 0..MaxTime /\ UNCHANGED <<source, site, row, missed, hands>>
      BY <1>1, BoundsAssumption DEF Tick, TypeOK
    <2>2. QED BY <2>1 DEF TypeOK, CollectedEndIsOfAuction, row, hands
  <1>2. CASE UNCHANGED vars
    BY <1>2 DEF vars, row, hands, TypeOK, CollectedEndIsOfAuction
  <1>3. QED BY <1>1, <1>2, WriteInv, ClosesInv, VerificationInv, LiveInv, SiteInv DEF Next

(* Types are kept: no writer, stale or not, leaves a row that the others     *)
(* could not read.                                                           *)
THEOREM TypeCorrect == Spec => []TypeOK
  <1>1. QED BY InitTypeOK, NextInv, PTL DEF Spec

(* The end of a row that a collection wrote is of the auction the row is in. *)
THEOREM EndsFollowTheAuction == Spec => []CollectedEndIsOfAuction
  <1>1. QED BY InitTypeOK, NextInv, PTL DEF Spec
================================================================================
