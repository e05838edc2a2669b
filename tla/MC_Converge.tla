---------------------------- MODULE MC_Converge ----------------------------
(***************************************************************************)
(* Instances of Converge for TLC: an app that can't start without a        *)
(* database, alone or next to each other, and a flow of the database only. *)
(***************************************************************************)
EXTENDS Converge

CONSTANTS app, db, dbOnly

MCNode == {app, db}
MCFlow == {dbOnly}
MCFlowNodes == [f \in MCFlow |-> {db}]

NoFlowNodes == [f \in {} |-> {}]

\* The app needs the database, or the two have nothing to do with each other.
AppNeedsDb == {<<app, db>>}
Independent == {}

AllFaults == Fault
StartFaults == {"resolve", "start"}

=============================================================================
