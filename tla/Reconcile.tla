----------------------------- MODULE Reconcile -----------------------------
(***************************************************************************)
(* The reconciler (src/src/daemon/reconcile.rs) of one workspace: it reads *)
(* Docker, reports what it saw to the workspace actor, brings back the     *)
(* sidecar and lets the healer (src/src/daemon/heal.rs) restart one node   *)
(* that is down.  Beside it run the user, Docker and the converge effect,  *)
(* which is reduced here to one task per marked node: module Converge has  *)
(* it in full.                                                             *)
(*                                                                         *)
(* Time is a set of ages that all grow by one at a Tick; nothing else      *)
(* takes a fixed number of ticks, so a start or a turn of the loop may     *)
(* take any time.  All nodes are services and the environment exists.      *)
(***************************************************************************)
EXTENDS Workspace

CONSTANTS
  FIRST_DELAY, MAX_DELAY,  \* the healer's backoff, in ticks
  STABLE,                  \* up this long, a node's backoff starts over
  MAX_ATTEMPTS,            \* restarts before a node is left down
  MaxRequests,             \* bound: requests the user makes
  MaxMishaps               \* bound: what goes wrong in Docker by itself

VARIABLES
  docker,     \* what Docker has for each node's container
  engine,     \* Docker answers
  sidecar,    \* the sidecar is running
  job,        \* the converge effect's task for each node
  active,     \* DaemonControl::is_active
  loop,       \* where the reconciler is, and what it remembers
  tries,      \* Healer::tries, with the age of Tries::last
  before,     \* the order of Tries::last: <<m, n>> when m was tried before n
  requests,   \* requests made so far
  mishaps,    \* mishaps so far
  history     \* for the properties only

external == <<docker, engine, sidecar>>
vars == <<actorVars, external, job, active, loop, tries, before, requests, mishaps, history>>

ASSUME DelayAssumption ==
  /\ FIRST_DELAY \in Nat \ {0}
  /\ MAX_DELAY \in Nat
  /\ STABLE \in Nat
  /\ MAX_ATTEMPTS \in Nat \ {0}
ASSUME BoundAssumption == MaxRequests \in Nat /\ MaxMishaps \in Nat

DockerStatus == {"absent", "running", "exited"}

\* No age beyond this one changes what the healer does.
Horizon == IF MAX_DELAY < STABLE THEN STABLE ELSE MAX_DELAY

Older(age) == IF age < Horizon THEN age + 1 ELSE age

\* count = 0 where the healer has no entry for a node.
Tries == [count : 0..MAX_ATTEMPTS, age : 0..Horizon, given_up : BOOLEAN]
NoTries == [count |-> 0, age |-> 0, given_up |-> FALSE]

\* A task: `base' is the entry it was spawned with; once done it only has to report.
Job == [action : Mark, base : Entry, done : BOOLEAN, result : Entry \cup {Failed}]
idle_job == [action |-> "none", base |-> Absent, done |-> FALSE, result |-> Failed]

\* `env' and `create' are the loop's clone of the environment, `readings' what is
\* still to be reported, `seen' what the listing said of the sidecar.
Loop ==
  [pc : {"idle", "list", "report", "restore", "pick"},
   env : [Node -> Entry],
   create : EnvSpec \cup {NoCreate},
   readings : [Node -> ContainerObserved \cup {Absent}],
   seen : {"running", "down", "unknown"}]

Nothing == [n \in Node |-> Absent]
idle_loop ==
  [pc |-> "idle", env |-> Nothing, create |-> NoCreate, readings |-> Nothing, seen |-> "unknown"]

\* History: `unwatched' nodes went down by themselves, out of the daemon's sight;
\* `up_for' is how long a container has been up; `passed[n][m]' how often the healer
\* preferred m to n, both of which it could have restarted, since it last could not
\* restart n or did, and since it last had nothing on m.
History ==
  [unwatched : SUBSET Node, up_for : [Node -> 0..Horizon], passed : [Node -> [Node -> Nat]]]

never_passed == [n \in Node |-> [m \in Node |-> 0]]

TypeOK ==
  /\ WorkspaceTypeOK
  /\ docker \in [Node -> DockerStatus]
  /\ engine \in BOOLEAN
  /\ sidecar \in BOOLEAN
  /\ job \in [Node -> Job]
  /\ active \in BOOLEAN
  /\ loop \in Loop
  /\ tries \in [Node -> Tries]
  /\ before \in SUBSET (Node \X Node)
  /\ requests \in Nat
  /\ mishaps \in Nat
  /\ history \in History

\* A service fghj started and Docker runs.
Up == [running |-> TRUE, named |-> TRUE, debug_wait |-> FALSE, terminating |-> FALSE,
       observed |-> [DefaultObserved EXCEPT !.status = "running"], pending |-> "none"]

Init ==
  /\ env = TRUE
  /\ pending_create = NoCreate
  /\ containers = [n \in Node |-> Up]
  /\ docker = [n \in Node |-> "running"]
  /\ engine = TRUE
  /\ sidecar = TRUE
  /\ job = [n \in Node |-> idle_job]
  /\ active = TRUE
  /\ loop = idle_loop
  /\ tries = [n \in Node |-> NoTries]
  /\ before = {}
  /\ requests = 0
  /\ mishaps = 0
  /\ history = [unwatched |-> {}, up_for |-> [n \in Node |-> 0], passed |-> never_passed]

\* What someone makes of n's container; `fresh' if it is a new one.
DockerBecomes(n, status, fresh) ==
  /\ docker' = [docker EXCEPT ![n] = status]
  /\ history' = IF ~fresh /\ status = docker[n] THEN history
                ELSE [history EXCEPT !.unwatched = @ \ {n}, !.up_for = [@ EXCEPT ![n] = 0]]

-----------------------------------------------------------------------------
(* The user *)

Request ==
  /\ requests < MaxRequests
  /\ requests' = requests + 1
  /\ UNCHANGED <<external, job, loop, tries, before, mishaps>>

\* History of an entry ends with the entry.
Forgotten(n) ==
  history' = IF containers'[n] = Absent THEN [history EXCEPT !.unwatched = @ \ {n}] ELSE history

Start(n) == Request /\ NodeStartRequested(n) /\ UNCHANGED <<active, history>>
Stop(n) == Request /\ NodeStopRequested(n) /\ Forgotten(n) /\ UNCHANGED active
Delete(n) == Request /\ NodeDeleteRequested(n) /\ Forgotten(n) /\ UNCHANGED active

\* `fghj daemon stop' and `fghj daemon start'.
Switch == Request /\ active' = ~active /\ UNCHANGED <<actorVars, history>>

-----------------------------------------------------------------------------
(* Docker, left to itself *)

Mishap ==
  /\ mishaps < MaxMishaps
  /\ mishaps' = mishaps + 1
  /\ UNCHANGED <<actorVars, job, active, loop, tries, before, requests>>

\* The daemon knows that it can't see n's container, and no answer is on its way.
OutOfSight(n) ==
  /\ ~engine
  /\ containers[n] # Absent /\ containers[n].observed.unseen /\ MarkOf(n) = "none"
  /\ loop.readings[n] # Absent => loop.readings[n].unseen

\* A container crashes, or the engine takes it down.
Dies(n) ==
  /\ Mishap
  /\ docker[n] = "running"
  /\ docker' = [docker EXCEPT ![n] = "exited"]
  /\ history' = [history EXCEPT
                   !.unwatched = IF OutOfSight(n) THEN @ \cup {n} ELSE @,
                   !.up_for = [@ EXCEPT ![n] = 0]]
  /\ UNCHANGED <<engine, sidecar>>

\* docker rm, by hand.
Removed(n) ==
  /\ Mishap
  /\ engine
  /\ docker[n] # "absent"
  /\ DockerBecomes(n, "absent", FALSE)
  /\ UNCHANGED <<engine, sidecar>>

SidecarDies ==
  /\ Mishap
  /\ sidecar /\ sidecar' = FALSE
  /\ UNCHANGED <<docker, engine, history>>

EngineAway ==
  /\ Mishap
  /\ engine /\ engine' = FALSE
  /\ UNCHANGED <<docker, sidecar, history>>

EngineBack ==
  /\ ~engine /\ engine' = TRUE
  /\ UNCHANGED <<actorVars, docker, sidecar, job, active, loop, tries, before, requests, mishaps, history>>

-----------------------------------------------------------------------------
(* The converge effect's tasks *)

jobRest == <<engine, sidecar, active, loop, tries, before, requests, mishaps>>

JobSpawn(n) ==
  /\ job[n] = idle_job
  /\ MarkOf(n) # "none"
  /\ job' = [job EXCEPT ![n] = [idle_job EXCEPT !.action = MarkOf(n), !.base = containers[n]]]
  /\ UNCHANGED <<actorVars, docker, jobRest, history>>

\* The start is aborted: its container is left in any state.
JobCalledOff(n) ==
  /\ job[n].action = "starting"
  /\ MarkOf(n) # "starting"
  /\ job' = [job EXCEPT ![n] = idle_job]
  /\ \E status \in IF engine /\ ~job[n].done THEN DockerStatus ELSE {docker[n]} :
       DockerBecomes(n, status, FALSE)
  /\ UNCHANGED <<actorVars, jobRest>>

\* start_node, stop_container and remove_container.  Only a start can fail: whether
\* Docker carries out a stop or a removal or refuses it, the task reports success.
JobWork(n) ==
  LET base == job[n].base
      finish(result) == job' = [job EXCEPT ![n] = [@ EXCEPT !.done = TRUE, !.result = result]]
  IN /\ job[n].action # "none" /\ ~job[n].done
     /\ \/ /\ job[n].action = "starting" /\ engine
           /\ \E status \in {"running", "exited"} :
                /\ DockerBecomes(n, status, TRUE)
                /\ finish([Up EXCEPT !.observed.status = status, !.debug_wait = base.debug_wait])
        \/ /\ job[n].action = "starting"
           /\ \E status \in IF engine THEN DockerStatus ELSE {docker[n]} :
                DockerBecomes(n, status, FALSE)
           /\ finish(Failed)
        \/ /\ job[n].action = "stopping"
           /\ \E status \in IF engine /\ docker[n] = "running" THEN {"running", "exited"}
                            ELSE {docker[n]} :
                /\ DockerBecomes(n, status, FALSE)
                /\ finish([base EXCEPT !.running = FALSE,
                             !.observed.status =
                                IF engine /\ status # "absent" THEN status ELSE "exited"])
        \/ /\ job[n].action = "removing"
           /\ \E status \in IF engine THEN {"absent", docker[n]} ELSE {docker[n]} :
                DockerBecomes(n, status, FALSE)
           /\ finish(Absent)
     /\ UNCHANGED <<actorVars, jobRest>>

JobSettle(n) ==
  /\ job[n].done
  /\ job[n].action = "starting" => MarkOf(n) = "starting"
  /\ ContainerActionSettled(n, job[n].action, job[n].result)
  /\ job' = [job EXCEPT ![n] = idle_job]
  /\ history' = [history EXCEPT !.unwatched = IF job[n].result = Absent THEN @ \ {n} ELSE @]
  /\ UNCHANGED <<docker, jobRest>>

JobStep(n) == JobSpawn(n) \/ JobCalledOff(n) \/ JobWork(n) \/ JobSettle(n)

-----------------------------------------------------------------------------
(* The reconciler's loop *)

loopRest == <<docker, engine, job, active, requests, mishaps>>

Tick ==
  /\ tries' = [n \in Node |-> IF tries[n] = NoTries THEN NoTries
                              ELSE [tries[n] EXCEPT !.age = Older(@)]]
  /\ history' = [history EXCEPT !.up_for =
                   [n \in Node |-> IF docker[n] = "running" THEN Older(@[n]) ELSE 0]]
  /\ tries' # tries \/ history' # history
  /\ UNCHANGED <<actorVars, external, job, active, loop, before, requests, mishaps>>

\* report clones the environment, then asks Docker.
Snapshot ==
  /\ loop.pc = "idle"
  /\ loop' = [loop EXCEPT !.pc = "list", !.env = containers, !.create = pending_create]
  /\ UNCHANGED <<actorVars, sidecar, tries, before, history, loopRest>>

\* One listing of the project's containers; a container it does not have reads as
\* removed, and when Docker does not answer every last reading stays, unseen.
observe(c, n) ==
  LET listed == c.named /\ docker[n] # "absent"
  IN IF ~engine THEN [c.observed EXCEPT !.unseen = TRUE]
     ELSE [c.observed EXCEPT
             !.unseen = FALSE,
             !.status = IF listed THEN docker[n] ELSE "removed",
             !.exit_code = IF listed /\ docker[n] = "exited" THEN "nonzero" ELSE "none"]

List ==
  /\ loop.pc = "list"
  /\ loop' = [loop EXCEPT
                !.pc = "report",
                !.readings = [n \in Node |-> IF loop.env[n] = Absent THEN Absent
                                             ELSE observe(loop.env[n], n)],
                !.seen = IF ~engine THEN "unknown" ELSE IF sidecar THEN "running" ELSE "down"]
  /\ UNCHANGED <<actorVars, sidecar, tries, before, history, loopRest>>

Report(n) ==
  /\ loop.pc = "report"
  /\ loop.readings[n] # Absent
  /\ ContainerObservedReport(n, loop.readings[n], loop.env[n].observed)
  /\ loop' = [loop EXCEPT !.readings = [@ EXCEPT ![n] = Absent]]
  /\ UNCHANGED <<sidecar, tries, before, history, loopRest>>

\* Everything is reported.  An idle daemon leaves it at that; an active one clones
\* the environment again and works on that copy.
Check ==
  /\ loop.pc = "report"
  /\ loop.readings = Nothing
  /\ loop' = IF ~active THEN idle_loop
             ELSE [loop EXCEPT
                     !.env = containers, !.create = pending_create, !.seen = "unknown",
                     !.pc = IF loop.seen = "down" /\ pending_create = NoCreate
                            THEN "restore" ELSE "pick"]
  /\ UNCHANGED <<actorVars, sidecar, tries, before, history, loopRest>>

\* restore_sidecar: building and starting it takes its time, and may fail.
Restore ==
  /\ loop.pc = "restore"
  /\ sidecar' \in IF engine THEN BOOLEAN ELSE {sidecar}
  /\ loop' = [loop EXCEPT !.pc = "pick"]
  /\ UNCHANGED <<actorVars, tries, before, history, loopRest>>

-----------------------------------------------------------------------------
(* The healer *)

delay(count) ==
  LET doubled == FIRST_DELAY * 2^(IF count - 1 < 16 THEN count - 1 ELSE 16)
  IN IF doubled < MAX_DELAY THEN doubled ELSE MAX_DELAY

due(t) == t.age >= delay(t.count)

\* Busy, as far as the loop's copy of the environment says.
in_flight == loop.create # NoCreate \/ \E n \in Node : MarkIn(loop.env, n) # "none"

\* What is remembered of a node that should be up and has not been for long enough.
retained ==
  [n \in Node |->
     IF /\ loop.env[n] # Absent
        /\ loop.env[n].running
        /\ ~(condition(loop.env[n]) = "running" /\ tries[n].age >= STABLE)
     THEN tries[n] ELSE NoTries]

\* Mutant: what went down out of sight is left alone.
candidates_crashed ==
  {n \in Node : /\ loop.env[n] # Absent
                /\ condition(loop.env[n]) = "crashed"
                /\ retained[n] = NoTries \/ (~retained[n].given_up /\ due(retained[n]))}

candidates ==
  {n \in Node : /\ loop.env[n] # Absent
                /\ condition(loop.env[n]) \in {"crashed", "interrupted"}
                /\ retained[n] = NoTries \/ (~retained[n].given_up /\ due(retained[n]))}

\* Mutant: the first one by name.
oldest_by_name == {n \in candidates : n = CHOOSE m \in candidates : TRUE}

\* A node that was never tried goes first, then the one tried longest ago.
oldest ==
  {n \in candidates :
     \/ retained[n] = NoTries
     \/ \A m \in candidates : retained[m] # NoTries /\ <<m, n>> \notin before}

\* The request may be refused: the node is no longer what the copy says.
Request_restart(n) ==
  \/ NodeStartRequested(n)
  \/ (pending_create # NoCreate \/ MarkOf(n) # "none") /\ UNCHANGED actorVars

remembered == {n \in Node : retained[n] # NoTries}
kept == before \cap (remembered \X remembered)

\* n is tried now, after every other.
moved_last(n) ==
  (kept \cap ((Node \ {n}) \X (Node \ {n}))) \cup ((remembered \ {n}) \X {n})

\* Mutant: the restarts are not counted against MAX_ATTEMPTS.
Restart_uncounted(n) ==
  /\ tries' = [retained EXCEPT ![n] = [count |-> @.count + 1, age |-> 0, given_up |-> FALSE]]
  /\ before' = moved_last(n)
  /\ Request_restart(n)

Restart(n) ==
  IF retained[n].count >= MAX_ATTEMPTS
  THEN /\ tries' = [retained EXCEPT ![n] = [@ EXCEPT !.given_up = TRUE]]
       /\ before' = kept
       /\ UNCHANGED actorVars
  ELSE /\ tries' = [retained EXCEPT ![n] = [count |-> @.count + 1, age |-> 0, given_up |-> FALSE]]
       /\ before' = moved_last(n)
       /\ Request_restart(n)

\* k goes first, before every other candidate.
passed_over(k) ==
  [n \in Node |->
     [m \in Node |->
        IF n \notin candidates \ {k} THEN 0
        ELSE (IF retained[m] = NoTries THEN 0 ELSE history.passed[n][m])
               + (IF m = k THEN 1 ELSE 0)]]

Passed(k) == [history EXCEPT !.passed = passed_over(k)]

\* Healer::pick and what the loop does about it.
Pick ==
  /\ loop.pc = "pick"
  /\ loop' = idle_loop
  /\ \/ /\ in_flight
        /\ UNCHANGED <<actorVars, tries, before, history>>
     \/ /\ ~in_flight /\ candidates = {}
        /\ tries' = retained
        /\ before' = kept
        /\ history' = [history EXCEPT !.passed = never_passed]
        /\ UNCHANGED actorVars
     \/ /\ ~in_flight
        /\ \E n \in oldest : Restart(n) /\ history' = Passed(n)
  /\ UNCHANGED <<sidecar, loopRest>>

LoopStep == Snapshot \/ List \/ (\E n \in Node : Report(n)) \/ Check \/ Restore \/ Pick

UserStep == Switch \/ \E n \in Node : Start(n) \/ Stop(n) \/ Delete(n)

DockerStep ==
  \/ SidecarDies \/ EngineAway \/ EngineBack
  \/ \E n \in Node : Dies(n) \/ Removed(n)

Next == UserStep \/ DockerStep \/ Tick \/ LoopStep \/ \E n \in Node : JobStep(n)

Spec == Init /\ [][Next]_vars

\* The loop's interval fires, time passes and every task runs; neither the user nor
\* Docker has to do anything.
Fairness == WF_vars(LoopStep) /\ WF_vars(Tick) /\ \A n \in Node : WF_vars(JobStep(n))

FairSpec == Spec /\ Fairness

-----------------------------------------------------------------------------
(* Properties *)

(***************************************************************************)
(* A container that went down while the daemon knew it could not see       *)
(* Docker is never shown as crashed, whatever readings, outages and failed *)
(* starts come after (settle_interruption, condition).                     *)
(***************************************************************************)
UnwatchedIsNoCrash ==
  \A n \in history.unwatched : containers[n] # Absent => condition(containers[n]) # "crashed"

(***************************************************************************)
(* A node that keeps failing does not hold up the rest: while the healer   *)
(* could restart a node, it prefers each of the others to it at most once, *)
(* unless that other one was stopped or stayed up and begins anew          *)
(* (Healer::pick, "The node tried longest ago goes first, so one that      *)
(* keeps failing can't hold up the rest").                                 *)
(***************************************************************************)
OldestFirst == \A n, m \in Node : history.passed[n][m] <= 1

(***************************************************************************)
(* The record of a container never stays wrong: as long as Docker answers  *)
(* and no action is in flight, the record says in the end what Docker says *)
(* (report, ContainerObserved's based_on).                                 *)
(***************************************************************************)
Agrees(n) ==
  \/ ~engine \/ containers[n] = Absent \/ MarkOf(n) # "none"
  \/ containers[n].observed = [observe(containers[n], n) EXCEPT !.interrupted =
                                 containers[n].observed.interrupted]

RecordCatchesUp == \A n \in Node : []<>Agrees(n)

(***************************************************************************)
(* No node that should be up stays down unattended: while the daemon is    *)
(* active and Docker answers, it is restarted until it is up or the healer *)
(* has given up on it (Healer::pick).                                      *)
(***************************************************************************)
Attended(n) ==
  \/ ~engine \/ ~active \/ containers[n] = Absent \/ MarkOf(n) # "none" \/ tries[n].given_up
  \/ condition(containers[n]) \notin {"crashed", "interrupted"}

NodesAttended == \A n \in Node : []<>Attended(n)

(***************************************************************************)
(* The healer never starts a node the user stopped or deleted              *)
(* (run-lifecycle-and-registry.md: "`desired.running` moves only when the  *)
(* user starts or stops through fghj").  It does not hold: see the README, *)
(* section 4, for this and the next.                                       *)
(***************************************************************************)
OnlyTheUserStarts ==
  [][loop.pc = "pick" /\ loop'.pc = "idle"
       => \A n \in Node : containers'[n] # containers[n]
                            => containers[n] # Absent /\ containers[n].running]_vars

(***************************************************************************)
(* A node's backoff starts over only when it has been up for STABLE        *)
(* (heal.rs: "Up this long after a restart, a node's backoff starts        *)
(* over.").                                                                *)
(***************************************************************************)
StableBeforeReset ==
  [][\A n \in Node :
       tries[n] # NoTries /\ tries'[n] = NoTries /\ loop.env[n] # Absent /\ loop.env[n].running
         => history.up_for[n] >= STABLE]_vars

=============================================================================
