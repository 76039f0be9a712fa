------------------------------- MODULE LotClosure -------------------------------
(***************************************************************************)
(* How a lot of the index opens, closes and opens again.                   *)
(*                                                                         *)
(* Five writers of one row: the collection, which writes what a page said; *)
(* the clock, once a minute; the absence rule, off by default; the         *)
(* verification, which asks the site about lots the last sweep missed and  *)
(* applies the answer by id; and the reader of live bids, which moves the  *)
(* end forward.  Each statement is atomic; between what a writer read from *)
(* the site and what it writes, the site and the row may have changed.     *)
(*                                                                         *)
(* An auction of a lot is known by its start: a lot sold at a second       *)
(* auction keeps its id and gets another start.  A sold lot counts as      *)
(* closed, a scheduled one as open.  How a batch of a collection is        *)
(* written is LotCollection's matter: here a lot is read and written, and  *)
(* a collection that fails is one that did not read.                       *)
(*                                                                         *)
(* A name with an underscore and a suffix is the definition before the     *)
(* underscore with a plausible mistake in it; no behaviour uses it.        *)
(***************************************************************************)
EXTENDS Naturals

CONSTANTS
  Lots,
  Starts, Ends, (* auction_start_utc and auction_end_utc, None among them    *)
  Pages,        (* what a site may show of a lot                             *)
  Sources,      (* kinds of lot: closed by timers of their own, or at the    *)
                (* start of the auction; with a verifier, or without; closed *)
                (* by absence, or not                                        *)
  MaxTime,      (* bound on the clock                                        *)
  Cycles,       (* full sweeps that miss a lot before absence closes it      *)
  None,         (* NULL; nothing read, nothing in hand                       *)
  Reader        (* who wrote an end, when not a collection                   *)

ASSUME NoneAssumption    == {None, Reader} \cap Nat = {} /\ None # Reader /\ None \in Ends
ASSUME TimesAssumption   == Starts \subseteq Nat \cup {None} /\ Ends \subseteq Nat \cup {None}
ASSUME BoundsAssumption  == MaxTime \in Nat /\ Cycles \in Nat \ {0}
ASSUME SourcesAssumption == Sources \subseteq [timed : BOOLEAN, verified : BOOLEAN, absence : BOOLEAN]

VARIABLES
  now,
  source,      (* the kind of each lot, which stays                          *)
  site,        (* what the site shows                                        *)
  page,        (* what a collection has read and has yet to write            *)
  status, start, end,  (* the row of the lot                                 *)
  endOf,       (* the start of the auction the end was collected with        *)
  missed,      (* full sweeps since the lot was last collected               *)
  verdict,     (* the verification of the lot                                *)
  live         (* an end read by the live reader                             *)

row     == <<status, start, end, endOf>>
hands   == <<page, verdict, live>>
vars    == <<now, source, site, row, missed, hands>>

Listed == [shows : {"aberto", "sem_data", "encerrado"}, start : Starts, end : Ends]
Hidden == [shows : {"outro", "gone"}]

Verdicts == [step : {"judged", "applied"}, dead : BOOLEAN, end : Ends]

ASSUME PagesAssumption == Pages \subseteq Listed \cup Hidden /\ [shows |-> "gone"] \in Pages

TypeOK ==
  /\ now      \in 0..MaxTime
  /\ source   \in [Lots -> Sources]
  /\ site     \in [Lots -> Pages]
  /\ page     \in [Lots -> Pages \cup {None}]
  /\ status   \in [Lots -> {None, "aberto", "sem_data", "encerrado"}]
  /\ start    \in [Lots -> Starts \cup {None}]
  /\ end      \in [Lots -> Ends]
  /\ endOf    \in [Lots -> Starts \cup {None, Reader}]
  /\ missed   \in [Lots -> 0..Cycles]
  /\ verdict  \in [Lots -> Verdicts \cup {None}]
  /\ live     \in [Lots -> Ends]

Init ==
  /\ now      = 0
  /\ source   \in [Lots -> Sources]
  /\ \A l, k \in Lots : source[l].absence = source[k].absence (* ENCERRAR_POR_AUSENCIA *)
  /\ site     \in [Lots -> Pages]
  /\ page     = [l \in Lots |-> None]
  /\ status   = [l \in Lots |-> None]
  /\ start    = [l \in Lots |-> None]
  /\ end      = [l \in Lots |-> None]
  /\ endOf    = [l \in Lots |-> None]
  /\ missed   = [l \in Lots |-> 0]
  /\ verdict  = [l \in Lots |-> None]
  /\ live     = [l \in Lots |-> None]

-----------------------------------------------------------------------------
Tick ==
  /\ now < MaxTime
  /\ now' = now + 1
  /\ UNCHANGED <<source, site, row, missed, hands>>

(* The site relists, closes, hides or reclassifies the lot, or publishes and *)
(* withdraws its end.                                                        *)
Change(l) ==
  /\ \E p \in Pages : site' = [site EXCEPT ![l] = p]
  /\ UNCHANGED <<now, source, row, missed, hands>>

-----------------------------------------------------------------------------
(* Collection.                                                               *)

Reads(l, p) ==
  /\ page[l] = None
  /\ page' = [page EXCEPT ![l] = p]
  /\ UNCHANGED <<now, source, site, row, missed, verdict, live>>

Read(l) == Reads(l, site[l])

(* A full sweep that was cut short, or lost the lot to a failed request.     *)
Miss(l) == Reads(l, [shows |-> "gone"])

Written(l) ==
  /\ page' = [page EXCEPT ![l] = None]
  /\ UNCHANGED <<now, source, site, verdict, live>>

(* More sweeps than closes a lot are not told apart.                         *)
Overlook(l) == missed' = [missed EXCEPT ![l] = IF @ < Cycles THEN @ + 1 ELSE @]

Open(l) == status[l] = "aberto"

EndAfter_Overwritten(l, p) == p.end

EndAfter_AnyAuction(l, p) == IF p.end # None THEN p.end ELSE end[l]

(* An end the source withholds is kept as long as the auction is the same.   *)
EndAfter(l, p) ==
  IF p.end # None THEN p.end
  ELSE IF p.start = start[l] THEN end[l] ELSE None

StatusAfter_ClosedStays(l, p) == IF status[l] = "encerrado" THEN "encerrado" ELSE p.shows

(* What the source says replaces whatever the row was.                       *)
StatusAfter(l, p) == p.shows

Upsert(l) ==
  /\ page[l] \in Listed
  /\ LET p == page[l] IN
       /\ status' = [status EXCEPT ![l] = StatusAfter(l, p)]
       /\ start'  = [start EXCEPT ![l] = p.start]
       /\ end'    = [end EXCEPT ![l] = EndAfter(l, p)]
       /\ endOf'  = [endOf EXCEPT ![l] = IF EndAfter(l, p) = None THEN None
                                         ELSE IF p.end # None THEN p.start ELSE @]
  /\ missed' = [missed EXCEPT ![l] = 0]
  /\ Written(l)

(* The lot turns out to be neither a property nor a vehicle.                 *)
CloseOutOfScope(l) ==
  /\ page[l] = [shows |-> "outro"]
  /\ status' = [status EXCEPT ![l] = IF Open(l) THEN "encerrado" ELSE @]
  /\ Overlook(l)
  /\ UNCHANGED <<start, end, endOf>>
  /\ Written(l)

(* A full sweep ends without the lot.                                        *)
SweepMissed(l) ==
  /\ page[l] = [shows |-> "gone"]
  /\ Overlook(l)
  /\ UNCHANGED row
  /\ Written(l)

-----------------------------------------------------------------------------
(* The clock, and absence.                                                   *)

Vencido(l) == IF source[l].timed THEN end[l] # None /\ end[l] < now
                          ELSE start[l] # None /\ start[l] <= now

Closes(S) ==
  /\ S # {}
  /\ status' = [l \in Lots |-> IF l \in S THEN "encerrado" ELSE status[l]]
  /\ UNCHANGED <<now, source, site, start, end, endOf, missed, hands>>

EncerrarPorPrazo == Closes({l \in Lots : Open(l) /\ Vencido(l)})

EncerrarPorAusencia == Closes({l \in Lots : Open(l) /\ source[l].absence /\ missed[l] = Cycles})

-----------------------------------------------------------------------------
(* Verification at the source.  Which of the candidates a round takes, and   *)
(* how long it leaves alone those it has asked about, is left open.          *)

Candidato(l) ==
  /\ status[l] \in {"aberto", "sem_data"}
  /\ missed[l] > 0 \/ (status[l] = "sem_data" /\ start[l] # None /\ start[l] < now)

Verifies(l, v) ==
  /\ verdict' = [verdict EXCEPT ![l] = v]
  /\ UNCHANGED <<now, source, site, missed, page, live>>

Asks(l) == source[l].verified /\ verdict[l] = None /\ Candidato(l)

(* The site answers; some sources give the end of the auction as well.       *)
Answer(l) ==
  /\ Asks(l)
  /\ \E e \in {None} \cup (IF site[l] \in Listed THEN {site[l].end} ELSE {}) :
       Verifies(l, [step |-> "judged", dead |-> site[l].shows \notin {"aberto", "sem_data"}, end |-> e])
  /\ UNCHANGED row

(* The host fails, or the page cannot be read: the lot is left as it is.     *)
NoAnswer(l) ==
  /\ Asks(l)
  /\ Verifies(l, [step |-> "judged", dead |-> FALSE, end |-> None])
  /\ UNCHANGED row

Judged(l) == verdict[l] # None /\ verdict[l].step = "judged"

(* UPDATE ... WHERE id: whatever the row has become.                         *)
AplicarVereditos(l) ==
  /\ Judged(l)
  /\ status' = [status EXCEPT ![l] = IF verdict[l].dead THEN "encerrado" ELSE @]
  /\ Verifies(l, IF verdict[l].end = None THEN None
                 ELSE [verdict[l] EXCEPT !.step = "applied", !.dead = FALSE])
  /\ UNCHANGED <<start, end, endOf>>

CorrigirPrazo(l) ==
  /\ verdict[l] # None /\ verdict[l].step = "applied"
  /\ IF verdict[l].end = end[l]
     THEN UNCHANGED <<end, endOf>>
     ELSE /\ end'   = [end EXCEPT ![l] = verdict[l].end]
          /\ endOf' = [endOf EXCEPT ![l] = Reader]
  /\ Verifies(l, None)
  /\ UNCHANGED <<status, start>>

(* A statement fails, or the worker dies.                                    *)
AbandonVerification(l) ==
  /\ verdict[l] # None
  /\ Verifies(l, None)
  /\ UNCHANGED row

-----------------------------------------------------------------------------
(* The live reader.                                                          *)

ReadLive(l) ==
  /\ Open(l) /\ end[l] # None
  /\ live[l] = None
  /\ site[l] \in Listed
  /\ live' = [live EXCEPT ![l] = site[l].end]
  /\ UNCHANGED <<now, source, site, row, missed, page, verdict>>

(* The end only moves forward.                                               *)
RecordLive(l) ==
  /\ live[l] # None
  /\ live' = [live EXCEPT ![l] = None]
  /\ IF end[l] # None /\ end[l] < live[l]
     THEN /\ end'   = [end EXCEPT ![l] = live[l]]
          /\ endOf' = [endOf EXCEPT ![l] = Reader]
     ELSE UNCHANGED <<end, endOf>>
  /\ UNCHANGED <<now, source, site, status, start, missed, page, verdict>>

-----------------------------------------------------------------------------
Write(l)  == Upsert(l) \/ CloseOutOfScope(l) \/ SweepMissed(l)

Apply(l)  == AplicarVereditos(l) \/ CorrigirPrazo(l)

Next ==
  \/ Tick \/ EncerrarPorPrazo \/ EncerrarPorAusencia
  \/ \E l \in Lots :
       \/ Change(l) \/ Read(l) \/ Miss(l) \/ Write(l)
       \/ Answer(l) \/ NoAnswer(l) \/ Apply(l) \/ AbandonVerification(l)
       \/ ReadLive(l) \/ RecordLive(l)

(* Sweeps, the minute's closure and the rounds of verification are repeated  *)
(* for ever by timers and the queue.  A sweep now and then reads the lot as  *)
(* it is, and now and then the site answers and a lot found gone is closed.   *)
Fairness ==
  /\ WF_vars(Tick) /\ WF_vars(EncerrarPorPrazo) /\ WF_vars(EncerrarPorAusencia)
  /\ \A l \in Lots :
       /\ SF_vars(Read(l)) /\ WF_vars(Write(l))
       /\ SF_vars(Answer(l)) /\ WF_vars(Apply(l))
       /\ SF_vars(Judged(l) /\ verdict[l].dead /\ AplicarVereditos(l))

Spec == Init /\ [][Next]_vars /\ Fairness

-----------------------------------------------------------------------------
(* The end of a row is of the auction the row is in, unless a verification   *)
(* or a live reading wrote it: collections never leave an old end on a new   *)
(* auction, which would be closed at once, nor on a row without a start      *)
(* (the upsert's COALESCE and its guard on the start).                       *)
CollectedEndIsOfAuction ==
  \A l \in Lots : end[l] # None => endOf[l] \in {start[l], Reader}

(* What can close an open lot once it left the site: its own clock, absence, *)
(* or a verifier.  A page read before it left may still take its deadline.   *)
HasWayOut(l) ==
  \/ source[l].verified \/ source[l].absence
  \/ /\ IF source[l].timed THEN end[l] # None ELSE start[l] # None
     /\ page[l] \in Listed => page[l].start = start[l]

(* A lot that left the site does not stay open for ever, although the source *)
(* withdraws the end before, verifications fail and pages are stale          *)
(* (encerrarPorPrazo, verificarCandidatos, and the end the upsert keeps).    *)
GoneLotsClose ==
  \A l \in Lots :
    Open(l) /\ site[l] = [shows |-> "gone"] /\ HasWayOut(l)
      ~> ~Open(l) \/ site[l] # [shows |-> "gone"]

(* A lot the site lists as open is open in the index again and again,        *)
(* whatever stale verdict or deadline closed it (the upsert's status).       *)
ListedLotsReopen ==
  \A l \in Lots : site[l].shows = "aberto" ~> Open(l) \/ site[l].shows # "aberto"
=================================================================================
