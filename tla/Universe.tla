------------------------------ MODULE Universe ------------------------------
(***************************************************************************)
(* resolve_universe_async: the UI's polls, the config-sync loop and starts   *)
(* share one resolve of a workspace at a time, while its files are edited   *)
(* and repositories come and go.  A resolve reads folder after folder, so   *)
(* what it resolves may be a state the disk was never in.                   *)
(***************************************************************************)
EXTENDS Resolver

CONSTANTS
  Caller,
  InitialDisks, \* the workspaces to start from
  Edits,        \* <<folder, entry>>: what a folder may be turned into
  MaxEdits, MaxAsks

VARIABLES
  disk,         \* what is in each folder, and which revision of it
  TICKETS,
  turn,         \* those that wait for shared.running, its holder first
  last,         \* shared.last: the ticket and the result of the last resolve
  caller

vars == <<disk, TICKETS, turn, last, caller>>

Nothing == [file |-> "nothing", rev |-> 0]
Idle == [pc |-> "idle", asked |-> 0, since |-> <<>>, began |-> 0, read |-> <<>>, got |-> None]
Revisions(d) == [p \in DOMAIN d |-> d[p].rev]

Init == /\ disk \in InitialDisks
        /\ TICKETS = 1
        /\ turn = <<>>
        /\ last = None
        /\ caller = [c \in Caller |-> Idle]

\* A file is edited, a repository cloned, renamed or removed.
Edit == \E e \in Edits :
  /\ \A p \in DOMAIN disk : disk[p].rev < MaxEdits
  /\ e[1] \in DOMAIN disk
  /\ disk' = [disk EXCEPT ![e[1]] = e[2] @@ [rev |-> disk[e[1]].rev + 1]]
  /\ UNCHANGED <<TICKETS, turn, last, caller>>

\* The ticket is taken before the turn is waited for.
Ask(c) ==
  /\ caller[c].pc \in {"idle", "answered"} /\ TICKETS <= MaxAsks
  /\ TICKETS' = TICKETS + 1
  /\ turn' = Append(turn, c)
  /\ caller' = [caller EXCEPT ![c] = [Idle EXCEPT !.pc = "waiting", !.asked = TICKETS, !.since = Revisions(disk)]]
  /\ UNCHANGED <<disk, last>>

Holds(c) == turn # <<>> /\ Head(turn) = c
Answer(c, of) == caller' = [caller EXCEPT ![c] = [Idle EXCEPT !.pc = "answered", !.since = caller[c].since, !.got = of]]

\* A bug to look for: any finished resolve is good enough.
Fresh_any(c) == last # None
\* A resolve that began after this caller asked is as good as its own.
Fresh(c) == last # None /\ last.began > caller[c].asked

Share(c) ==
  /\ Holds(c) /\ caller[c].pc = "waiting" /\ Fresh(c)
  /\ Answer(c, last.of)
  /\ turn' = Tail(turn)
  /\ UNCHANGED <<disk, TICKETS, last>>

Begin(c) ==
  /\ Holds(c) /\ caller[c].pc = "waiting" /\ ~Fresh(c)
  /\ TICKETS' = TICKETS + 1
  /\ caller' = [caller EXCEPT ![c].pc = "resolving", ![c].began = TICKETS]
  /\ UNCHANGED <<disk, turn, last>>

\* One folder: its .fghj.yaml and its git facts.
Read(c) == \E p \in DOMAIN disk \ DOMAIN caller[c].read :
  /\ caller[c].pc = "resolving"
  /\ caller' = [caller EXCEPT ![c].read = @ @@ (p :> disk[p])]
  /\ UNCHANGED <<disk, TICKETS, turn, last>>

Finish(c) ==
  /\ caller[c].pc = "resolving" /\ DOMAIN caller[c].read = DOMAIN disk
  /\ last' = [began |-> caller[c].began, of |-> Revisions(caller[c].read), graph |-> resolve_universe(caller[c].read)]
  /\ Answer(c, Revisions(caller[c].read))
  /\ turn' = Tail(turn)
  /\ UNCHANGED <<disk, TICKETS>>

\* The caller's request is dropped: it leaves its place, and its result is not shared.
CallOff(c) ==
  /\ caller[c].pc \in {"waiting", "resolving"}
  /\ turn' = SelectSeq(turn, LAMBDA x : x # c)
  /\ caller' = [caller EXCEPT ![c] = Idle]
  /\ UNCHANGED <<disk, TICKETS, last>>

Work(c) == Share(c) \/ Begin(c) \/ Read(c) \/ Finish(c)
Next == Edit \/ \E c \in Caller : Ask(c) \/ Work(c) \/ CallOff(c)
Spec == Init /\ [][Next]_vars
---------------------------------------------------------------------------

TypeOK ==
  /\ TICKETS \in Nat
  /\ turn \in Seq(Caller) /\ IsInjective(turn)
  /\ \A c \in Caller : /\ caller[c].pc \in {"idle", "waiting", "resolving", "answered"}
                       /\ caller[c].pc = "resolving" => Holds(c)
                       /\ c \in Range(turn) <=> caller[c].pc \in {"waiting", "resolving"}
  /\ last # None => \A e \in last.graph.edges : {e.from, e.to} \subseteq DOMAIN last.graph.nodes

\* universe.rs:17: a caller gets the result of a resolve that began after it asked, never
\* an older one: no folder is as it was before the question.
FreshResult ==
  \A c \in Caller : caller[c].pc = "answered" =>
    \A p \in DOMAIN caller[c].since : caller[c].got[p] >= caller[c].since[p]

---------------------------------------------------------------------------
(* What the graphs are worth, whatever the files say.                      *)

Starts(g) == {start_ids(g, f) : f \in DOMAIN g.flows \cup {None}}
Before(order, x, y) == \E i, j \in DOMAIN order : i < j /\ order[i] = x /\ order[j] = y

\* orchestrate.rs starts in topological_start_order what refuse_if_blocked lets through: every
\* node after all it needs, each exactly once.
Startable ==
  last # None /\ ~refuse_if_blocked(last.graph) =>
    \A ids \in Starts(last.graph) :
      LET order == topological_start_order(ids, last.graph.edges) IN
      /\ Range(order) = ids /\ IsInjective(order)
      /\ \A e \in Needed(last.graph.edges) : {e.from, e.to} \subseteq ids => Before(order, e.to, e.from)

\* cycles.rs: the depth-first walk reports a cycle exactly when there is one: some nodes
\* that each need another of them.
CyclesFound ==
  last # None =>
    (blocking("dependency cycle") \in last.graph.warnings <=>
       \E S \in SUBSET DOMAIN last.graph.nodes \ {{}} :
         \A x \in S : \E e \in Needed(last.graph.edges) : e.from = x /\ e.to \in S)

Closed(g, S) ==
  /\ \A e \in Needed(g.edges) : e.from \in S => e.to \in S
  /\ \A m \in DOMAIN g.nodes : g.nodes[m].migrates \in S => m \in S
  /\ \A p \in g.pulled : p[1] \in S => p[2] \in S
\* flows.rs: a flow starts all that its members need, the migrations of every store among
\* them and the seeds they pull in; adding one kind never leaves another incomplete.
FlowsClosed == last # None => \A f \in DOMAIN last.graph.flows : Closed(last.graph, last.graph.flows[f])

\* visit.rs:341: whatever waits on a store waits on its migration, in every start.  (Not a node
\* that names the migration itself as a dependency that is not required: see the README.)
MigratedFirst ==
  last # None /\ ~refuse_if_blocked(last.graph) =>
    \A ids \in Starts(last.graph) : \A e \in Needed(last.graph.edges) : \A m \in DOMAIN last.graph.nodes :
      /\ e.from \in ids /\ last.graph.nodes[m].migrates = e.to /\ m # e.from
      /\ ~\E x \in last.graph.edges : x.from = e.from /\ x.to = m /\ ~x.required
      => Before(topological_start_order(ids, last.graph.edges), m, e.from)

\* Whoever gives up, joins or holds the lock, an answer is as new as its question.
FreshAnswers == TypeOK /\ FreshResult

\* A graph that is let through can be started in order, and one that cannot is
\* refused for its cycle.
OrderFound == CyclesFound /\ Startable

\* A flow or a node's start lacks nothing that its members need, and migrates a
\* store before anything that waits on it.
FlowsWhole == FlowsClosed /\ MigratedFirst
=============================================================================
