----------------------------- MODULE Workspace -----------------------------
(***************************************************************************)
(* The state of one workspace's environment and the reducer that is the    *)
(* only writer of it (src/src/reducer, src/src/state).  The workspace      *)
(* actor applies one Action at a time and publishes the result, so every   *)
(* operator below is one atomic step of the actor; the modules that extend *)
(* this one decide who dispatches which Action when.                       *)
(*                                                                         *)
(* A request that the reducer rejects leaves the state alone: its guard is *)
(* a conjunct of the action.  A report is never rejected.                  *)
(***************************************************************************)
EXTENDS Naturals, FiniteSets, Sequences

CONSTANTS
  Node,      \* the nodes of the workspace's graph
  Flow,      \* the flows an environment can be switched to
  Absent,    \* no entry for a node in EnvState::containers
  NoCreate,  \* EnvState::pending_create is None
  Failed     \* an Err(_) outcome that carries no container or environment

VARIABLES
  env,             \* WorkspaceState::env is Some(_)
  pending_create,  \* EnvState::pending_create
  containers       \* EnvState::containers, Absent where there is no entry

actorVars == <<env, pending_create, containers>>

(***************************************************************************)
(* EnvSpec::Flow(f) is f, EnvSpec::Node(n) is n.                           *)
(***************************************************************************)
EnvSpec == Flow \cup Node

PendingAction == {"starting", "restarting", "stopping", "removing"}
Mark == PendingAction \cup {"none"}

Status == {"", "running", "restarting", "paused", "exited", "removed"}
ExitCode == {"none", "zero", "nonzero"}

\* What Docker last reported; ports and the drift check's fields are left out.
ContainerObserved ==
  [status : Status, exit_code : ExitCode, interrupted : BOOLEAN, unseen : BOOLEAN]

\* `named' stands for a container_name that is not empty.
ContainerInfo ==
  [running : BOOLEAN, named : BOOLEAN, debug_wait : BOOLEAN, terminating : BOOLEAN,
   observed : ContainerObserved, pending : Mark]

Entry == ContainerInfo \cup {Absent}

ASSUME SpecAssumption == Flow \cap Node = {} /\ NoCreate \notin EnvSpec
ASSUME EntryAssumption ==
  /\ Absent \notin ContainerInfo
  /\ Failed \notin Entry
  /\ Failed \notin [Node -> Entry]

WorkspaceTypeOK ==
  /\ env \in BOOLEAN
  /\ pending_create \in EnvSpec \cup {NoCreate}
  /\ containers \in [Node -> Entry]

-----------------------------------------------------------------------------
(* Readings *)

DefaultObserved ==
  [status |-> "", exit_code |-> "none", interrupted |-> FALSE, unseen |-> FALSE]

starting_placeholder ==
  [running |-> TRUE, named |-> FALSE, debug_wait |-> FALSE, terminating |-> FALSE,
   observed |-> DefaultObserved, pending |-> "starting"]

is_placeholder(c) == ~c.named

\* The action in flight on a node, "none" also where there is no entry.
MarkIn(cs, n) == IF cs[n] = Absent THEN "none" ELSE cs[n].pending
MarkOf(n) == MarkIn(containers, n)

is_up(o) == o.status \in {"running", "restarting", "paused"}

\* Mutant: the next reading of a container that is still down forgets why.
settle_interruption_forgets(o, went_unwatched) ==
  [o EXCEPT !.interrupted = IF is_up(o) THEN FALSE ELSE went_unwatched]

settle_interruption(o, went_unwatched) ==
  [o EXCEPT !.interrupted = IF is_up(o) THEN FALSE ELSE went_unwatched \/ o.interrupted]

condition(c) ==
  LET status == c.observed.status
      exit == c.observed.exit_code
  IN CASE c.observed.unseen -> "unknown"
       [] ~c.observed.unseen /\ status = "removed" -> "missing"
       [] ~c.observed.unseen /\ status # "removed" /\ c.terminating ->
            (CASE status = "running" -> "running"
               [] status # "running" /\ exit = "zero" -> "completed"
               [] status # "running" /\ exit = "nonzero" -> "failed"
               [] status # "running" /\ exit = "none" -> "finishing")
       [] OTHER ->
            IF is_up(c.observed) THEN status
            ELSE IF ~c.running THEN "stopped"
            ELSE IF c.observed.interrupted THEN "interrupted" ELSE "crashed"

-----------------------------------------------------------------------------
(* Requests: reducer/env.rs *)

WorkspaceInit(known) ==
  /\ env = (\E n \in Node : known[n] # Absent)
  /\ pending_create = NoCreate
  /\ containers = known

\* Mutant: a plan replaces the create in flight.
EnvPlanned_unguarded(plan) ==
  /\ env' = TRUE
  /\ pending_create' = plan
  /\ UNCHANGED containers

EnvPlanned(plan) ==
  /\ pending_create = NoCreate
  /\ env' = TRUE
  /\ pending_create' = plan
  /\ UNCHANGED containers

\* Start must work without an entry: it is how a deleted node comes back.
NodeStartRequested(n) ==
  \/ /\ ~env
     /\ env' = TRUE
     /\ pending_create' = n
     /\ UNCHANGED containers
  \/ /\ env
     /\ pending_create = NoCreate
     /\ MarkOf(n) = "none"
     /\ containers' =
          [containers EXCEPT ![n] =
             IF @ = Absent THEN starting_placeholder
             ELSE [@ EXCEPT !.running = TRUE, !.pending = "starting"]]
     /\ UNCHANGED <<env, pending_create>>

\* The code checks the node's mark and not `pending_create'.
NodeDebugWaitRequested(n, wait) ==
  /\ env
  /\ containers[n] # Absent
  /\ MarkOf(n) = "none"
  /\ containers' =
       [containers EXCEPT ![n] =
          [@ EXCEPT !.debug_wait = wait, !.running = TRUE, !.pending = "starting"]]
  /\ UNCHANGED <<env, pending_create>>

\* Stop and Delete: they take over from a start, and a start that has no
\* container yet just loses its entry.
set_pending(n, action, running) ==
  /\ env
  /\ pending_create = NoCreate
  /\ containers[n] # Absent
  /\ MarkOf(n) \in {"none", "starting"}
  /\ containers' =
       [containers EXCEPT ![n] =
          IF MarkOf(n) = "starting" /\ is_placeholder(@) THEN Absent
          ELSE [@ EXCEPT !.running = running, !.pending = action]]
  /\ UNCHANGED <<env, pending_create>>

NodeStopRequested(n) == set_pending(n, "stopping", FALSE)

NodeDeleteRequested(n) == set_pending(n, "removing", containers[n].running)

-----------------------------------------------------------------------------
(* Reports: reducer/observation.rs *)

\* Mutant: a reading against an unseen one is taken for an older one.
ObservedIn_seen(c, reading, based_on) ==
  IF c.pending # "none" \/ c.observed # based_on \/ c.observed.unseen THEN c
  ELSE IF reading.unseen THEN [c EXCEPT !.observed.unseen = TRUE]
  ELSE [c EXCEPT !.observed =
          settle_interruption([reading EXCEPT !.interrupted = c.observed.interrupted],
                              c.observed.unseen)]

\* `reading' is what Docker answered, `based_on' what the snapshot held when it
\* was asked; `unseen' in the reading means that Docker did not answer.
ObservedIn(c, reading, based_on) ==
  IF c.pending # "none" \/ c.observed # based_on THEN c
  ELSE IF reading.unseen THEN [c EXCEPT !.observed.unseen = TRUE]
  ELSE [c EXCEPT !.observed =
          settle_interruption([reading EXCEPT !.interrupted = c.observed.interrupted],
                              c.observed.unseen)]

ContainerObservedReport(n, reading, based_on) ==
  /\ containers' =
       [containers EXCEPT ![n] = IF @ = Absent THEN @ ELSE ObservedIn(@, reading, based_on)]
  /\ UNCHANGED <<env, pending_create>>

\* Mutant: a settle is applied whatever the node has moved on to.
ContainerActionSettled_any(n, of, result) ==
  /\ containers' =
       IF ~env THEN containers
       ELSE [containers EXCEPT ![n] =
               IF result = Failed
               THEN IF @ = Absent THEN @ ELSE [@ EXCEPT !.pending = "none"]
               ELSE IF result = Absent THEN Absent
               ELSE [result EXCEPT !.pending = "none"]]
  /\ UNCHANGED <<env, pending_create>>

\* `of' is the action that settles, "none" for a node another action touched.
\* `result' is a ContainerInfo (up or stopped), Absent (deleted) or Failed.
ContainerActionSettled(n, of, result) ==
  /\ containers' =
       IF ~env \/ (of # "none" /\ of # MarkOf(n)) THEN containers
       ELSE [containers EXCEPT ![n] =
               IF result = Failed
               THEN IF @ = Absent THEN @ ELSE [@ EXCEPT !.pending = "none"]
               ELSE IF result = Absent THEN Absent
               ELSE [result EXCEPT !.pending = "none"]]
  /\ UNCHANGED <<env, pending_create>>

clear_create_marks(cs) ==
  [n \in Node |-> IF cs[n] = Absent THEN Absent
                  ELSE IF is_placeholder(cs[n]) THEN Absent
                  ELSE [cs[n] EXCEPT !.pending = "none"]]

\* `result' is the environment the create built, complete or partial, or Failed.
EnvCreateSettled(result) ==
  /\ containers' =
       IF ~env THEN containers
       ELSE clear_create_marks(IF result = Failed THEN containers ELSE result)
  /\ pending_create' = NoCreate
  /\ UNCHANGED env

\* A run is about to work on n, or (mark = "none") gave up on it.
EnvCreateWorking(n, mark) ==
  /\ containers' =
       IF ~env THEN containers
       ELSE [containers EXCEPT ![n] =
               IF mark # "none"
               THEN IF @ = Absent THEN starting_placeholder ELSE [@ EXCEPT !.pending = mark]
               ELSE IF @ = Absent THEN @
               ELSE IF is_placeholder(@) THEN Absent
               ELSE [@ EXCEPT !.pending = "none"]]
  /\ UNCHANGED <<env, pending_create>>

EnvCreateProgress(n, info) ==
  /\ containers' =
       IF ~env THEN containers
       ELSE [containers EXCEPT ![n] = [info EXCEPT !.pending = "none"]]
  /\ UNCHANGED <<env, pending_create>>

=============================================================================
