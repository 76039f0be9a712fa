----------------------------- MODULE NoticePromise -----------------------------
(***************************************************************************)
(* What the alerts promise to a subscriber, without executions, devices or *)
(* the order in which channels are served.  A match is found once.  On     *)
(* each channel a notice tells of matches of one alert that were not told  *)
(* before, and are marked after it.  While the channel is closed by an     *)
(* earlier notice a match may be left out, and where the transport does    *)
(* not work it may be lost: both are for good, no later notice brings it.  *)
(***************************************************************************)
EXTENDS Naturals

CONSTANTS Alerts, Lots, Channels, Window, Absent

VARIABLES
  clock,
  since,     (* when a match was found                                       *)
  told,      (* copies of it that a transport took, by channel               *)
  marked,    (* matches marked as notified, by channel; ...                  *)
  leftOut,   (* ... left out because the channel was closed; ...             *)
  lost       (* ... and given up                                             *)

nvars == <<clock, since, told, marked, leftOut, lost>>

Matches == Alerts \X Lots

NInit ==
  /\ clock   = 0
  /\ since   = [m \in Matches |-> Absent]
  /\ told    = [ch \in Channels |-> [m \in Matches |-> 0]]
  /\ marked  = [ch \in Channels |-> {}]
  /\ leftOut = [ch \in Channels |-> {}]
  /\ lost    = [ch \in Channels |-> {}]

Pass ==
  /\ clock' = clock + 1
  /\ UNCHANGED <<since, told, marked, leftOut, lost>>

Find(S) ==
  /\ \A m \in S : since[m] = Absent
  /\ since' = [m \in Matches |-> IF m \in S THEN clock ELSE since[m]]
  /\ UNCHANGED <<clock, told, marked, leftOut, lost>>

(* A match that was found, and of which nothing is known on the channel.     *)
Due(ch, m) ==
  /\ since[m] # Absent
  /\ told[ch][m] = 0
  /\ m \notin marked[ch] \cup leftOut[ch] \cup lost[ch]

OfOneAlert(S) == \E a \in Alerts : S \subseteq {a} \X Lots

(* The transport may throw although it took the notice.                      *)
Notice(ch, S) ==
  /\ OfOneAlert(S)
  /\ \A m \in S : Due(ch, m)
  /\ told' = [told EXCEPT ![ch] = [m \in Matches |-> @[m] + (IF m \in S THEN 1 ELSE 0)]]
  /\ lost' = lost \/ lost' = [lost EXCEPT ![ch] = @ \cup S]
  /\ UNCHANGED <<clock, since, marked, leftOut>>

MarkTold(ch, m) ==
  /\ told[ch][m] = 1
  /\ m \notin leftOut[ch] \cup lost[ch]
  /\ marked' = [marked EXCEPT ![ch] = @ \cup {m}]
  /\ UNCHANGED <<clock, since, told, leftOut, lost>>

(* A notice of the alert on that very channel is not older than the window.  *)
LeaveOut(ch, a, S) ==
  /\ S \subseteq {a} \X Lots
  /\ \A m \in S : Due(ch, m)
  /\ \E m \in marked[ch] : m[1] = a /\ clock < since[m] + Window[ch]
  /\ leftOut' = [leftOut EXCEPT ![ch] = @ \cup S]
  /\ UNCHANGED <<clock, since, told, marked, lost>>

Lose(ch, S) ==
  /\ OfOneAlert(S)
  /\ \A m \in S : since[m] # Absent /\ m \notin marked[ch] \cup leftOut[ch] \cup lost[ch]
  /\ lost' = [lost EXCEPT ![ch] = @ \cup S]
  /\ UNCHANGED <<clock, since, told, marked, leftOut>>

NNext ==
  \/ Pass
  \/ \E S \in SUBSET Matches :
       \/ Find(S)
       \/ \E ch \in Channels : Notice(ch, S) \/ Lose(ch, S)
       \/ \E ch \in Channels, a \in Alerts : LeaveOut(ch, a, S)
  \/ \E ch \in Channels, m \in Matches : MarkTold(ch, m)

NSpec == NInit /\ [][NNext]_nvars
================================================================================
