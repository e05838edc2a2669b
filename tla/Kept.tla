-------------------------------- MODULE Kept --------------------------------
(***************************************************************************)
(* What a workspace's store promises, apart from how fghjd keeps it: the   *)
(* state that is published runs ahead of the one that is kept, saving      *)
(* catches up with some state published since, and losing the published    *)
(* state (a crash, or a removal) falls back on the kept one.  States are   *)
(* known by the number of changes that led to them.  Nothing is promised   *)
(* of a disputed workspace, one that two wires have set up at once.        *)
(***************************************************************************)
EXTENDS Naturals

CONSTANT Paths

VARIABLES told,       \* workspace |-> the state published
          kept,       \* workspace |-> the state in its store
          disputed    \* workspaces with more than one writer

Init ==
  /\ told \in [Paths -> Nat] /\ kept = told /\ disputed = {}

Change(p) ==
  /\ told' = [told EXCEPT ![p] = @ + 1] /\ UNCHANGED <<kept, disputed>>

(* A save may skip states, and never goes back. *)
Save(p) ==
  /\ \E v \in kept[p] + 1 .. told[p] : kept' = [kept EXCEPT ![p] = v]
  /\ UNCHANGED <<told, disputed>>

FallBack ==
  /\ told' \in [Paths -> Nat] /\ \A p \in Paths \ disputed : told'[p] \in {told[p], kept[p]}
  /\ UNCHANGED <<kept, disputed>>

Dispute ==
  /\ disputed \subseteq disputed' /\ disputed' \subseteq Paths
  /\ \A p \in Paths \ disputed' : kept'[p] = kept[p] /\ told'[p] \in {told[p], kept[p]}

Next == FallBack \/ Dispute \/ \E p \in Paths : Change(p) \/ Save(p)

Spec == Init /\ [][Next]_<<told, kept, disputed>>
=============================================================================
