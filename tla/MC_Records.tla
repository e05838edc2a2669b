----------------------------- MODULE MC_Records -----------------------------
(***************************************************************************)
(* Instance of Capture and of History for TLC.  They have no state in       *)
(* common, so a behaviour of either one with the other at rest shows all    *)
(* there is of it.                                                          *)
(***************************************************************************)
EXTENDS Capture, History

CONSTANTS web

VARIABLE record    \* which of the two moves: "traffic" or "history"

RecordsInit == Init /\ HistoryInit /\ record \in {"traffic", "history"}
               /\ (record = "traffic" => printed = <<>>)
RecordsNext ==
  /\ UNCHANGED record
  /\ \/ record = "traffic" /\ Next /\ UNCHANGED historyVars
     \/ record = "history" /\ HistoryNext /\ UNCHANGED vars
RecordsSpec == RecordsInit /\ [][RecordsNext]_<<record, vars, historyVars>> /\ Fairness
=============================================================================
