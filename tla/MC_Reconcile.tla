---------------------------- MODULE MC_Reconcile ----------------------------
(***************************************************************************)
(* Instances of Reconcile for TLC: one node or two, with a backoff of one  *)
(* tick, then two, capped at two or three.                                 *)
(***************************************************************************)
EXTENDS Reconcile

CONSTANTS app, db

OneNode == {db}
TwoNodes == {app, db}

=============================================================================
