----------------------------- MODULE Activities -----------------------------
(***************************************************************************)
(* src/src/activity.rs: the record of what fghjd does in the background.    *)
(* An ActivityLog is its counter and its items by id; a handle is an id,    *)
(* which may outlive its item.  Each operator is one hold of the lock.      *)
(***************************************************************************)
EXTENDS Naturals, FiniteSets, FiniteSetsExt, Sequences, SequencesExt, TLC

CONSTANT None

\* None is not an id.
ASSUME NoneAssumption == None \notin Nat

ActivityStatus == {"queued", "running", "done", "error", "cancelled"}
is_open(status) == status \in {"queued", "running"}

\* An id no job has: ids start at 1.
DETACHED == 0
EmptyLog == [next_id |-> 1, items |-> <<>>]
Activity(parent, key) == [parent |-> parent, key |-> key, status |-> "running"]

status_of(log, id) == IF id \in DOMAIN log.items THEN log.items[id].status ELSE None
\* The roots and everything under them; no job has more than two generations under it.
tree(log, roots) ==
  LET down(S) == S \cup {c \in DOMAIN log.items : log.items[c].parent \in S}
  IN  down(down(roots \cap DOMAIN log.items))
push(log, parent, key) ==
  [next_id |-> log.next_id + 1,
   items |-> [i \in DOMAIN log.items \cup {log.next_id} |-> IF i = log.next_id THEN Activity(parent, key) ELSE log.items[i]]]
remove_tree(log, roots) ==
  [log EXCEPT !.items = [i \in DOMAIN log.items \ tree(log, roots) |-> log.items[i]]]
\* Each job keeps one record: at most one.
find_top(log, key) == {i \in DOMAIN log.items : log.items[i].parent = None /\ log.items[i].key = key}

\* A second start of a running job is handed that one.
joins(log, key) == \E i \in find_top(log, key) : log.items[i].status = "running"
\* A finished one is replaced, children and all.  The new handle is the log's next id.
start(log, key) == push(remove_tree(log, find_top(log, key)), None, key)

\* A bug to look for: the children are left as they are.
finish_alone(log, ids, status) ==
  [log EXCEPT !.items = [i \in DOMAIN @ |-> IF i \in ids /\ is_open(@[i].status) THEN [@[i] EXCEPT !.status = status] ELSE @[i]]]
\* Settles what is open of `ids`, each before what it is under; what else is under them is
\* called off.
finish(log, ids, status) ==
  [log EXCEPT !.items =
     [i \in DOMAIN @ |-> IF i \in tree(log, ids) /\ is_open(@[i].status)
                         THEN [@[i] EXCEPT !.status = IF i \in ids THEN status ELSE "cancelled"] ELSE @[i]]]
settle(log, ids, ok) == finish(log, ids, IF ok THEN "done" ELSE "error")
cancel(log, ids) == finish(log, ids, "cancelled")
start_superseding(log, key) == start(cancel(log, find_top(log, key)), key)

\* Under a job replaced since, nothing is recorded and the handle is DETACHED.
child_of_kind(log, id, key) == IF id \in DOMAIN log.items THEN push(log, id, key) ELSE log
child_handle(log, id) == IF id \in DOMAIN log.items THEN log.next_id ELSE DETACHED
\* A child for each key that waits, queued, until `begin`.
queued_child(log, id, keys) ==
  LET added == log.next_id .. log.next_id + Len(keys) - 1
      queued(c) == [Activity(id, <<keys[c - log.next_id + 1]>>) EXCEPT !.status = "queued"]
  IN  IF id \notin DOMAIN log.items THEN log
      ELSE [next_id |-> log.next_id + Len(keys),
            items |-> [c \in DOMAIN log.items \cup added |-> IF c \in added THEN queued(c) ELSE log.items[c]]]
begin(log, id) ==
  IF status_of(log, id) = "queued" THEN [log EXCEPT !.items[id].status = "running"] ELSE log
=============================================================================
