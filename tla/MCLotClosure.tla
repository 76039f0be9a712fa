------------------------------ MODULE MCLotClosure ------------------------------
(***************************************************************************)
(* One lot: lots do not interact.  Lots with a timer, with and without a   *)
(* verifier, and lots that close at the start, with absence off and on.    *)
(* An auction without a start and one at 1; ends at 0 and 1, and a clock   *)
(* that runs past both.                                                    *)
(***************************************************************************)
EXTENDS LotClosure

MCSources == [timed : {TRUE}, verified : BOOLEAN, absence : {FALSE}]
        \cup [timed : {FALSE}, verified : {FALSE}, absence : BOOLEAN]

Shown(s, starts, ends) == [shows : {s}, start : starts, end : ends]

MCPages == Hidden \cup Shown("aberto", {1}, Ends) \cup Shown("aberto", {None}, {None, 1})
                  \cup Shown("sem_data", {1}, {None}) \cup Shown("encerrado", {1}, {1})
=================================================================================
