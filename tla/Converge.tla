------------------------------ MODULE Converge ------------------------------
(***************************************************************************)
(* The converge effect (src/src/effects/docker/converge.rs) driving Docker *)
(* off the workspace actor's marks, and the jobs it spawns: one task per   *)
(* start, stop or delete, one per create, each with a progress queue and a *)
(* drain task that forwards it to the actor.                               *)
(*                                                                         *)
(* Everything that runs concurrently in the daemon is an action of its own *)
(* here: the user, the effect loop (it reads the published state, plans,   *)
(* then spawns task after task), every job, every drain, every late settle *)
(* report.  All nodes are services: what bring_up does for tasks and seeds *)
(* is left to a module of its own.                                         *)
(***************************************************************************)
EXTENDS Workspace

CONSTANTS
  Requires,     \* pairs <<n, r>>: n can't start without r (Edge::needed_to_start)
  FlowNodes,    \* the nodes of each flow (Graph::start_ids)
  JobId,        \* slots for spawned tasks
  NoJob,        \* no task
  NoSnapshot,   \* the effect has not converged yet
  MaxRequests,  \* bound: requests the user makes
  Faults        \* what may go wrong

VARIABLES
  phase,             \* where the effect loop is: idle, plan or spawn
  snap,              \* the snapshot it extracted
  last,              \* the snapshot it converged last
  spawn,             \* nodes whose entry is still to be spawned
  in_flight,         \* DockerConvergeEffect::in_flight
  create_in_flight,  \* DockerConvergeEffect::create_in_flight
  jobs,              \* the spawned tasks
  lock,              \* Orchestrator::node_locks: the job that holds each
  docker,            \* what Docker has for each node's container
  requests           \* requests made so far

effectVars == <<phase, snap, last, spawn, in_flight, create_in_flight>>
vars == <<actorVars, effectVars, jobs, lock, docker, requests>>

ASSUME RequiresAssumption == Requires \subseteq Node \X Node
ASSUME FlowNodesAssumption == FlowNodes \in [Flow -> SUBSET Node]
ASSUME JobAssumption == NoJob \notin JobId
ASSUME NodeAssumption == IsFiniteSet(Node)
ASSUME BoundAssumption == MaxRequests \in Nat

DockerStatus == {"absent", "running", "exited"}

\* Resolving the graph (or the network or the sidecar) fails, Docker does not
\* answer an inspect, a start or a restart fails, a stop or a removal is refused, a
\* container dies as soon as it is started.
Fault == {"resolve", "inspect", "start", "stop", "crash"}

ASSUME FaultAssumption == Faults \subseteq Fault

\* Outcomes that only that fault has.
Faulty(fault, outcomes) == IF fault \in Faults THEN outcomes ELSE {}

\* What the effect extracts from a published state.
ConvergeSnapshot == [pending : [Node -> Mark], create : EnvSpec \cup {NoCreate}]

ASSUME SnapshotAssumption == NoSnapshot \notin ConvergeSnapshot

-----------------------------------------------------------------------------
(* The graph: orchestrator/order.rs *)

\* Everything reachable from n along R, n itself left out.
closure(n, R) ==
  {m \in Node \ {n} :
     \A S \in SUBSET Node :
       n \in S /\ (\A e \in R : e[1] \in S => e[2] \in S) => m \in S}

requirements_of(n) == closure(n, Requires)
dependents_of(n) == closure(n, {<<e[2], e[1]>> : e \in Requires})

\* Sequences of all of T in which every requirement comes first.
StartOrders(T) ==
  {s \in [1..Cardinality(T) -> T] :
     \A i, j \in 1..Cardinality(T) :
       i < j => s[i] # s[j] /\ <<s[i], s[j]>> \notin Requires}

StopOrders(T) ==
  {[i \in 1..Cardinality(T) |-> s[Cardinality(T) + 1 - i]] : s \in StartOrders(T)}

-----------------------------------------------------------------------------
(* Jobs *)

JobKind == PendingAction \cup {"create", "idle"}
JobPc == {"idle", "resolve", "loop", "lock", "work", "drain", "cascade", "settle", "over"}

\* A progress report: a node's mark, or (info # Absent) that it is done.
Report == [node : Node, mark : Mark, info : Entry]

\* What is left to do: bring a node up, stop it or remove it.
Task == [node : Node, op : {"up", "stop", "remove"}]

Job ==
  [kind : JobKind,                \* PendingEntry::action, or a create
   of : EnvSpec \cup {NoCreate},  \* its node, or the create's plan
   pc : JobPc,
   run : [Node -> Entry],         \* the environment it was spawned with, then its own copy
   todo : Seq(Task),
   act : Mark,                    \* what it is doing to Head(todo)
   bounced : SUBSET Node,         \* recreated or restarted by this run
   failed : SUBSET Node,          \* StartOutcomes: failed or blocked
   others : Seq(Node),            \* cascaded: nodes touched on the way
   queue : Seq(Report),           \* the progress channel
   mine : SUBSET Node,            \* what its drain counts in Driven
   aborted : BOOLEAN,             \* AbortHandle::abort was called before it returned
   built : BOOLEAN,               \* it knows its task list
   result : Entry \cup {Failed}]

idle_job ==
  [kind |-> "idle", of |-> NoCreate, pc |-> "idle", run |-> [n \in Node |-> Absent],
   todo |-> <<>>, act |-> "none", bounced |-> {}, failed |-> {}, others |-> <<>>,
   queue |-> <<>>, mine |-> {}, aborted |-> FALSE, built |-> FALSE,
   result |-> Failed]

\* The task has not returned: its SettleGuard is still held.
Live(j) == jobs[j].pc \in {"resolve", "loop", "lock", "work", "drain", "cascade"}

\* Mutant: the task waits for its drain without dropping `tx' first.
Closed_tx_kept(j) == jobs[j].pc \in {"settle", "over"}

\* `tx' was dropped: the drain ends once its queue is empty.
Closed(j) == jobs[j].pc \in {"drain", "settle", "over"}

Driven(n) == \E j \in JobId : n \in jobs[j].mine

\* A slot nothing refers to any more.
FreeSlot(j) == jobs[j] = idle_job /\ \A n \in Node : in_flight[n].job # j

HasFreeSlot == \E j \in JobId : FreeSlot(j)
FreeJob == CHOOSE j \in JobId : FreeSlot(j)

NotInFlight == [action |-> "none", job |-> NoJob]

-----------------------------------------------------------------------------
TypeOK ==
  /\ WorkspaceTypeOK
  /\ phase \in {"idle", "plan", "spawn"}
  /\ snap \in ConvergeSnapshot \cup {NoSnapshot}
  /\ phase # "idle" => snap # NoSnapshot
  /\ last \in ConvergeSnapshot \cup {NoSnapshot}
  /\ spawn \subseteq Node
  /\ in_flight \in [Node -> [action : Mark, job : JobId \cup {NoJob}]]
  /\ create_in_flight \in BOOLEAN
  /\ jobs \in [JobId -> Job]
  /\ lock \in [Node -> JobId \cup {NoJob}]
  /\ docker \in [Node -> DockerStatus]
  /\ requests \in Nat

\* A service fghj started and Docker runs.
Up == [running |-> TRUE, named |-> TRUE, debug_wait |-> FALSE, terminating |-> FALSE,
       observed |-> [DefaultObserved EXCEPT !.status = "running"], pending |-> "none"]

\* A daemon that has just wired a workspace: a new one, or one with everything up.
Init ==
  /\ \E up \in BOOLEAN :
       /\ WorkspaceInit([n \in Node |-> IF up THEN Up ELSE Absent])
       /\ docker = [n \in Node |-> IF up THEN "running" ELSE "absent"]
  /\ phase = "idle"
  /\ snap = NoSnapshot
  /\ last = NoSnapshot
  /\ spawn = {}
  /\ in_flight = [n \in Node |-> NotInFlight]
  /\ create_in_flight = FALSE
  /\ jobs = [j \in JobId |-> idle_job]
  /\ lock = [n \in Node |-> NoJob]
  /\ requests = 0

-----------------------------------------------------------------------------
(* The user, and the reconciler's healer, through the daemon's API *)

Request ==
  /\ requests < MaxRequests
  /\ requests' = requests + 1
  /\ UNCHANGED <<effectVars, jobs, lock, docker>>

Plan(plan) == Request /\ EnvPlanned(plan)
Start(n) == Request /\ NodeStartRequested(n)
Stop(n) == Request /\ NodeStopRequested(n)
Delete(n) == Request /\ NodeDeleteRequested(n)
DebugWait(n, wait) == Request /\ NodeDebugWaitRequested(n, wait)

-----------------------------------------------------------------------------
(* The effect loop: run_effect and DockerConvergeEffect::converge *)

\* Mutant: the marks of a create's nodes are taken for jobs.
extract_marks == [pending |-> [n \in Node |-> MarkOf(n)], create |-> pending_create]

\* extract_pending is empty while a create is in flight.
extract ==
  [pending |-> [n \in Node |-> IF pending_create # NoCreate THEN "none" ELSE MarkOf(n)],
   create |-> pending_create]

\* The loop wakes when the state was published and skips an unchanged snapshot.
ConvergeExtract ==
  /\ phase = "idle"
  /\ extract # last
  /\ snap' = extract
  /\ phase' = "plan"
  /\ UNCHANGED <<actorVars, last, spawn, in_flight, create_in_flight, jobs, lock, docker, requests>>

\* Start marks that another running action set are its progress, not jobs.
without_progress(n) ==
  IF /\ snap.pending[n] \in {"starting", "restarting"}
     /\ Driven(n)
     /\ in_flight[n] = NotInFlight
  THEN "none" ELSE snap.pending[n]

\* Mutant: a node that is still pending gets a second call.
plan_spawn_again == {n \in Node : without_progress(n) # "none"}

plan_spawn ==
  {n \in Node : without_progress(n) # "none" /\ in_flight[n].action # without_progress(n)}

plan_abort ==
  {n \in Node : /\ in_flight[n] # NotInFlight
                /\ in_flight[n].action # without_progress(n)
                /\ without_progress(n) = "none" => in_flight[n].action = "starting"}

\* The task's future is dropped: what it queued stays for its drain, its guard
\* reports the failure.
Dropped(job) ==
  [job EXCEPT !.pc = "settle", !.aborted = TRUE, !.built = FALSE, !.todo = <<>>, !.act = "none", !.bounced = {}, !.failed = {},
              !.others = <<>>, !.run = [n \in Node |-> Absent], !.result = Failed]

\* abort_start leaves a task that has returned alone.  A task dropped while it
\* works on a container leaves that container in any state.
ConvergePlan ==
  /\ phase = "plan"
  /\ LET aborted == {in_flight[n].job : n \in plan_abort} \cap {j \in JobId : Live(j)}
     IN /\ jobs' = [j \in JobId |-> IF j \in aborted THEN Dropped(jobs[j]) ELSE jobs[j]]
        /\ lock' = [n \in Node |-> IF lock[n] \in aborted THEN NoJob ELSE lock[n]]
        /\ docker' \in {d \in [Node -> DockerStatus] :
                          \A n \in Node : d[n] # docker[n] => lock[n] \in aborted}
  /\ in_flight' = [n \in Node |-> IF n \in plan_abort \/ without_progress(n) = "none"
                                  THEN NotInFlight ELSE in_flight[n]]
  /\ spawn' = plan_spawn
  /\ phase' = "spawn"
  /\ UNCHANGED <<actorVars, snap, last, create_in_flight, requests>>

\* spawn_action reads the actor's state again: it may be newer than the snapshot.
spawn_action(n) ==
  /\ phase = "spawn"
  /\ n \in spawn
  /\ HasFreeSlot
  /\ jobs' = [jobs EXCEPT ![FreeJob] =
                [idle_job EXCEPT !.kind = snap.pending[n], !.of = n, !.pc = "resolve",
                                 !.run = containers]]
  /\ in_flight' = [in_flight EXCEPT ![n] = [action |-> snap.pending[n], job |-> FreeJob]]
  /\ spawn' = spawn \ {n}
  /\ UNCHANGED <<actorVars, phase, snap, last, create_in_flight, lock, docker, requests>>

\* plan_create and spawn_create; the effect then waits for the next change.
ConvergeCreate ==
  /\ phase = "spawn"
  /\ spawn = {}
  /\ IF snap.create # NoCreate /\ ~create_in_flight
     THEN /\ HasFreeSlot
          /\ jobs' = [jobs EXCEPT ![FreeJob] =
                        [idle_job EXCEPT !.kind = "create", !.of = snap.create,
                                         !.pc = "resolve", !.run = containers]]
     ELSE UNCHANGED jobs
  /\ create_in_flight' = (snap.create # NoCreate)
  /\ last' = snap
  /\ snap' = NoSnapshot
  /\ phase' = "idle"
  /\ UNCHANGED <<actorVars, spawn, in_flight, lock, docker, requests>>

-----------------------------------------------------------------------------
(* A job: perform and perform_create, bring_up, stop_container, remove_container *)

jobRest == <<actorVars, effectVars, requests>>

Set(j, job) == jobs' = [jobs EXCEPT ![j] = job]

Tasks(s, op) == [i \in DOMAIN s |-> [node |-> s[i], op |-> op]]

RunsIn(run, n) == run[n] # Absent /\ run[n].observed.status = "running"

\* A Start brings up its requirements, itself and its running dependents.
restart_targets(n, run) ==
  requirements_of(n) \cup {n}
    \cup {d \in dependents_of(n) : RunsIn(run, d) /\ run[d].pending = "none"}

\* Mutant: a flow is taken for a node.
create_targets_node(spec) == requirements_of(spec) \cup {spec}

create_targets(spec) ==
  IF spec \in Flow THEN FlowNodes[spec] ELSE requirements_of(spec) \cup {spec}

\* stop_order: what a switch to a flow stops.
outside(spec, run) ==
  IF spec \in Flow THEN {n \in Node \ FlowNodes[spec] : RunsIn(run, n)} ELSE {}

\* Dependents that the snapshot says are running and idle stop first.
stop_targets(n, run) ==
  {d \in dependents_of(n) : RunsIn(run, d) /\ run[d].pending = "none"}

\* The graph is resolved afresh; a stop goes on alone when that fails.
Resolve(j) ==
  LET job == jobs[j]
      n == job.of
  IN /\ job.pc = "resolve"
     /\ \/ /\ job.kind = "starting"
           /\ \E s \in StartOrders(restart_targets(n, job.run)) :
                Set(j, [job EXCEPT !.pc = "loop", !.built = TRUE, !.todo = Tasks(s, "up")])
        \/ /\ job.kind = "create"
           /\ \E s \in StartOrders(create_targets(n)), t \in StopOrders(outside(n, job.run)) :
                Set(j, [job EXCEPT !.pc = "loop", !.built = TRUE,
                                   !.todo = Tasks(t, "stop") \o Tasks(s, "up")])
        \/ /\ job.kind = "stopping"
           /\ job.run[n] # Absent
           /\ \E T \in {stop_targets(n, job.run)} \cup Faulty("resolve", {{}}) :
              \E s \in StopOrders(T) :
                Set(j, [job EXCEPT !.pc = "loop", !.built = TRUE,
                                   !.todo = Tasks(Append(s, n), "stop")])
        \/ /\ job.kind = "removing"
           /\ job.run[n] # Absent
           /\ Set(j, [job EXCEPT !.pc = "loop", !.built = TRUE, !.todo = Tasks(<<n>>, "remove")])
        \/ /\ \/ job.kind = "restarting"
              \/ job.kind \in {"stopping", "removing"} /\ job.run[n] = Absent
              \/ job.kind \in {"starting", "create"} /\ "resolve" \in Faults
           /\ Set(j, [job EXCEPT !.pc = "drain"])
     /\ UNCHANGED <<jobRest, lock, docker>>

\* The node a container action is for: progress about it is not forwarded, its
\* settle reports it.
Own(job, n) == job.kind # "create" /\ n = job.of

Reported(job, n, mark, info) ==
  IF Own(job, n) THEN job.queue
  ELSE Append(job.queue, [node |-> n, mark |-> mark, info |-> info])

\* The head of todo needs no work, or can't be done.
Skip(job) == [job EXCEPT !.todo = Tail(@)]

\* bring_up's decision about one node: `alive' is what Docker answered, `drifted'
\* whether its configuration differs from the one it was started with.
Decide(j, n, alive, drifted) ==
  LET job == jobs[j]
      existing == job.run[n]
      forced == job.kind = "starting" /\ n = job.of
      busy == job.kind = "starting" /\ ~forced /\ existing # Absent /\ MarkIn(job.run, n) # "none"
      reqs == {r \in Node : <<n, r>> \in Requires}
      restart_for == reqs \cap job.bounced # {}
      may_skip == ~forced /\ ~restart_for /\ alive /\ existing # Absent /\ ~drifted
      blocked == reqs \cap job.failed # {}
      mark == IF alive /\ ~forced /\ restart_for /\ existing # Absent
              THEN "restarting" ELSE "starting"
  IN IF busy \/ may_skip THEN Set(j, Skip(job))
     ELSE IF blocked
     THEN Set(j, [Skip(job) EXCEPT !.failed = IF alive THEN @ ELSE @ \cup {n}])
     ELSE Set(j, [job EXCEPT !.act = mark, !.pc = "lock", !.queue = Reported(job, n, mark, Absent)])

\* The next node of the run, or the end of it: the settle's result is the job's
\* own node if this run started or stopped it.
Loop(j) ==
  LET job == jobs[j]
      task == Head(job.todo)
  IN /\ job.pc = "loop"
     /\ \/ /\ job.todo = <<>>
           /\ Set(j, [job EXCEPT !.pc = "drain"])
        \/ /\ job.todo # <<>> /\ task.op = "up"
           /\ \E alive \in {docker[task.node] = "running"} \cup Faulty("inspect", {FALSE}),
                 drifted \in (IF job.kind = "create" THEN BOOLEAN ELSE {FALSE}) :
                Decide(j, task.node, alive, drifted)
        \/ /\ job.todo # <<>> /\ task.op = "stop"
           /\ Set(j, [job EXCEPT !.act = "stopping", !.pc = "lock",
                        !.queue = IF job.kind = "create"
                                  THEN Reported(job, task.node, "stopping", Absent) ELSE @])
        \/ /\ job.todo # <<>> /\ task.op = "remove"
           /\ Set(j, [job EXCEPT !.act = "removing", !.pc = "lock"])
     /\ UNCHANGED <<jobRest, lock, docker>>

Lock(j) ==
  LET job == jobs[j]
      n == Head(job.todo).node
  IN /\ job.pc = "lock"
     /\ lock[n] = NoJob
     /\ lock' = [lock EXCEPT ![n] = j]
     /\ Set(j, [job EXCEPT !.pc = "work"])
     /\ UNCHANGED <<jobRest, docker>>

\* The node of Head(todo) is done with `info': remember it, report it.
Done(job, n, info) ==
  [Skip(job) EXCEPT
     !.pc = "loop", !.act = "none",
     !.run = [@ EXCEPT ![n] = info],
     !.bounced = IF job.act \in {"starting", "restarting"} THEN @ \cup {n} ELSE @,
     !.others = IF Own(job, n) \/ job.kind = "create" THEN @ ELSE Append(@, n),
     !.queue = IF job.kind = "stopping" THEN @ ELSE Reported(job, n, "none", info),
     !.result = IF Own(job, n) THEN info ELSE @]

\* start_node, restart_in_place, stop_container or remove_container, under the
\* node's lock.  Docker's answer to a stop or a removal is ignored: the code looks
\* at the container afterwards, or not at all.
Work(j) ==
  LET job == jobs[j]
      n == Head(job.todo).node
      existing == job.run[n]
      after(status) == docker' = [docker EXCEPT ![n] = status]
  IN /\ job.pc = "work"
     /\ lock' = [lock EXCEPT ![n] = NoJob]
     /\ \/ /\ job.act = "starting"
           /\ \E status \in {"running"} \cup Faulty("crash", {"exited"}) :
                /\ after(status)
                /\ Set(j, Done(job, n, [Up EXCEPT !.observed.status = status,
                                                  !.debug_wait = existing # Absent
                                                                   /\ existing.debug_wait]))
        \/ /\ job.act = "restarting"
           /\ docker[n] # "absent"
           /\ \E status \in {"running"} \cup Faulty("crash", {"exited"}) :
                /\ after(status)
                /\ Set(j, Done(job, n, [existing EXCEPT !.pending = "none",
                                                        !.observed.status = status]))
        \/ /\ \/ job.act = "starting" /\ (\E status \in Faulty("start", DockerStatus) : after(status))
              \/ job.act = "restarting" /\ docker[n] = "absent" /\ after("absent")
              \/ /\ job.act = "restarting" /\ docker[n] # "absent"
                 /\ \E status \in Faulty("start", {"running", "exited"}) : after(status)
           /\ Set(j, [Skip(job) EXCEPT !.pc = "loop", !.act = "none", !.failed = @ \cup {n},
                                       !.queue = Reported(job, n, "none", Absent)])
        \/ /\ job.act = "stopping"
           /\ \E status \in {IF docker[n] = "running" THEN "exited" ELSE docker[n]}
                              \cup Faulty("stop", {docker[n]}) :
              \E seen \in {IF status = "running" THEN "running" ELSE "exited"}
                            \cup Faulty("inspect", {"exited"}) :
                /\ after(status)
                /\ Set(j, Done(job, n, [existing EXCEPT !.pending = "none", !.running = FALSE,
                                                        !.observed.status = seen]))
        \/ /\ job.act = "removing"
           /\ \E status \in {"absent"}
                              \cup Faulty("stop", IF docker[n] = "absent" THEN {} ELSE {"exited", docker[n]}) :
                after(status)
           /\ Set(j, [Skip(job) EXCEPT !.pc = "loop", !.act = "none", !.result = Absent])
     /\ UNCHANGED jobRest

\* The drain forwards one progress report to the actor; Driven counts a node
\* before its mark is dispatched.
Drain(j) ==
  LET job == jobs[j]
      report == Head(job.queue)
  IN /\ job.queue # <<>>
     /\ Set(j, [job EXCEPT !.queue = Tail(@),
                           !.mine = IF report.mark = "none" THEN @ ELSE @ \cup {report.node}])
     /\ IF report.info = Absent THEN EnvCreateWorking(report.node, report.mark)
                                ELSE EnvCreateProgress(report.node, report.info)
     /\ UNCHANGED <<effectVars, lock, docker, requests>>

\* The channel is closed and empty.  A task that was not aborted waits for this.
DrainEnd(j) ==
  LET job == jobs[j]
  IN /\ Closed(j) /\ job.queue = <<>>
     /\ job.pc \in {"drain", "over"} \/ job.mine # {}
     /\ Set(j, IF job.pc = "over" THEN idle_job
               ELSE [job EXCEPT !.mine = {}, !.pc = IF @ = "drain" THEN "cascade" ELSE @])
     /\ UNCHANGED <<jobRest, lock, docker>>

\* The other nodes the action touched are reported, then the guard is dropped.
Cascade(j) ==
  LET job == jobs[j]
      n == Head(job.others)
  IN /\ job.pc = "cascade"
     /\ IF job.others # <<>>
        THEN /\ ContainerActionSettled(n, "none", job.run[n])
             /\ Set(j, [job EXCEPT !.others = Tail(@)])
        ELSE /\ Set(j, [job EXCEPT !.pc = "settle"])
             /\ UNCHANGED actorVars
     /\ UNCHANGED <<effectVars, lock, docker, requests>>

\* The guard's report reaches the actor; a create that got as far as its first
\* node reports its own copy of the environment, complete or partial.
Settle(j) ==
  LET job == jobs[j]
  IN /\ job.pc = "settle"
     /\ Set(j, IF job.queue = <<>> /\ job.mine = {} THEN idle_job ELSE [job EXCEPT !.pc = "over"])
     /\ IF job.kind = "create" THEN EnvCreateSettled(IF job.built THEN job.run ELSE Failed)
        ELSE ContainerActionSettled(job.of, job.kind, job.result)
     /\ UNCHANGED <<effectVars, lock, docker, requests>>

JobStep(j) ==
  \/ Resolve(j) \/ Loop(j) \/ Lock(j) \/ Work(j)
  \/ Drain(j) \/ DrainEnd(j) \/ Cascade(j) \/ Settle(j)

EffectStep ==
  \/ ConvergeExtract
  \/ ConvergePlan
  \/ \E n \in Node : spawn_action(n)
  \/ ConvergeCreate

UserStep ==
  \/ \E plan \in Flow : Plan(plan)
  \/ \E n \in Node : Start(n) \/ Stop(n) \/ Delete(n)
  \/ \E n \in Node, wait \in BOOLEAN : DebugWait(n, wait)

\* Nothing is left to do until the user asks for something.
Rest ==
  /\ phase = "idle" /\ extract = last
  /\ \A j \in JobId : jobs[j] = idle_job
  /\ UNCHANGED vars

Next == UserStep \/ EffectStep \/ (\E j \in JobId : JobStep(j)) \/ Rest

Spec == Init /\ [][Next]_vars

\* Every task of the runtime gets to run; the user need not ask for anything.
Fairness == WF_vars(EffectStep) /\ \A j \in JobId : WF_vars(JobStep(j))

FairSpec == Spec /\ Fairness

-----------------------------------------------------------------------------
(* Properties *)

StartJob(j) == jobs[j].kind = "starting" /\ Live(j)
CreateJob(j) == jobs[j].kind = "create" /\ jobs[j].pc # "over"

(***************************************************************************)
(* A node never has two start tasks that are still running: both would     *)
(* recreate the container of the same name (plan and abort_start).         *)
(***************************************************************************)
OneStartPerNode ==
  \A i, j \in JobId : StartJob(i) /\ StartJob(j) /\ jobs[i].of = jobs[j].of => i = j

(***************************************************************************)
(* At most one create is under way, and while it is, pending_create says   *)
(* so: that mark is all that keeps node requests out of a create           *)
(* (plan_create, lookup_mut).                                              *)
(***************************************************************************)
OneCreate ==
  /\ \A i, j \in JobId : CreateJob(i) /\ CreateJob(j) => i = j
  /\ \A j \in JobId : CreateJob(j) => pending_create = jobs[j].of

(***************************************************************************)
(* A create takes over from the starts that were under way: while it runs  *)
(* no start task does, so no node is started twice at once                 *)
(* (extract_pending hides the marks, plan aborts what they stood for).     *)
(***************************************************************************)
StartsYieldToCreate ==
  \A i, j \in JobId : CreateJob(i) => ~StartJob(j)

(***************************************************************************)
(* Every task returns: it finds each node's lock free in the end, and its  *)
(* drain forwards the last of its progress (bring_up takes one lock at a   *)
(* time, an aborted task's is dropped with it).                            *)
(***************************************************************************)
JobsEnd == \A j \in JobId : Live(j) ~> ~Live(j)

(***************************************************************************)
(* An accepted Stop holds until the container is down or the task that     *)
(* stops it reports: neither the report of the start it called off nor any *)
(* other action clears the mark first (ContainerActionSettled's `of',      *)
(* set_pending).                                                           *)
(***************************************************************************)
StopSettles(n) ==
  \E j \in JobId : /\ jobs[j].kind = "stopping" /\ jobs[j].of = n
                   /\ jobs[j].pc = "settle" /\ jobs'[j].pc # "settle"

StopTakesHold ==
  [][\A n \in Node : MarkOf(n) = "stopping" /\ MarkOf(n)' # "stopping"
                     => docker'[n] # "running" \/ StopSettles(n)]_vars

(***************************************************************************)
(* No node stays busy for ever (converge.rs, SettleGuard: "so a panic or   *)
(* early return never leaves a node busy forever").  It does not hold: see *)
(* the README, section 4, for this and the next two.                       *)
(***************************************************************************)
MarksClear == \A n \in Node : []<>(MarkOf(n) = "none")

(***************************************************************************)
(* When every task is over and the effect has seen the state, a node that  *)
(* is marked busy is one the effect still has in flight: no mark is left   *)
(* without anyone who would clear it.                                      *)
(***************************************************************************)
NoOrphanMark ==
  phase = "idle" /\ extract = last /\ (\A j \in JobId : jobs[j] = idle_job)
    => \A n \in Node : MarkOf(n) # "none" => in_flight[n] # NotInFlight

(***************************************************************************)
(* The report of a start that was called off changes nothing               *)
(* (abort_start: "whose report the reducer ignores").                      *)
(***************************************************************************)
CalledOffReportIgnored ==
  [][\A j \in JobId :
       jobs[j].aborted /\ jobs[j].pc = "settle" /\ jobs'[j].pc # "settle"
         => containers' = containers]_vars

(***************************************************************************)
(* An entry comes back only with a container behind it: a settled delete   *)
(* is not undone by another report.                                        *)
(***************************************************************************)
DeletedStaysDeleted ==
  [][\A n \in Node :
       containers[n] = Absent /\ containers'[n] # Absent /\ MarkOf(n)' = "none"
         => docker[n] # "absent"]_vars

=============================================================================
