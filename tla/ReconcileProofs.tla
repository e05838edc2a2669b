-------------------------- MODULE ReconcileProofs --------------------------
(***************************************************************************)
(* Proofs about Reconcile, for every set of nodes, every backoff and any   *)
(* number of requests and mishaps.                                         *)
(***************************************************************************)
EXTENDS Reconcile, TLAPS

-----------------------------------------------------------------------------
(* The reducer's Actions keep the types of the environment.                *)

\* The placeholder of a start is a container entry (starting_placeholder).
LEMMA PlaceholderType == starting_placeholder \in ContainerInfo
BY DEF starting_placeholder, ContainerInfo, ContainerObserved, DefaultObserved, Status,
       ExitCode, Mark, PendingAction

\* Writing the mark, the intent or the debug switch of an entry keeps its type.
LEMMA MarkType ==
  ASSUME NEW c \in ContainerInfo, NEW m \in Mark, NEW r \in BOOLEAN, NEW w \in BOOLEAN
  PROVE  /\ [c EXCEPT !.pending = m] \in ContainerInfo
         /\ [c EXCEPT !.running = r, !.pending = m] \in ContainerInfo
         /\ [c EXCEPT !.debug_wait = w, !.running = r, !.pending = m] \in ContainerInfo
BY DEF ContainerInfo

\* The requests keep the types of the environment (reducer/env.rs).
LEMMA NodeRequestTypes ==
  ASSUME WorkspaceTypeOK, NEW n \in Node, NEW wait \in BOOLEAN,
         \/ NodeStartRequested(n)
         \/ NodeDebugWaitRequested(n, wait)
         \/ NodeStopRequested(n)
         \/ NodeDeleteRequested(n)
  PROVE  WorkspaceTypeOK'
<1>1. "starting" \in Mark /\ "stopping" \in Mark /\ "removing" \in Mark
  BY DEF Mark, PendingAction
<1>2. \A m \in Node : containers[m] # Absent => containers[m] \in ContainerInfo
  BY DEF WorkspaceTypeOK, Entry
<1>4. CASE NodeStartRequested(n)
  <2>1. containers[n] # Absent =>
          [containers[n] EXCEPT !.running = TRUE, !.pending = "starting"] \in ContainerInfo
    BY <1>1, <1>2, MarkType
  <2> QED BY <1>4, <2>1, PlaceholderType DEF NodeStartRequested, WorkspaceTypeOK, EnvSpec, Entry
<1>5. CASE NodeDebugWaitRequested(n, wait)
  <2>1. [containers[n] EXCEPT !.debug_wait = wait, !.running = TRUE, !.pending = "starting"]
          \in ContainerInfo
    BY <1>1, <1>2, <1>5, MarkType DEF NodeDebugWaitRequested
  <2> QED BY <1>5, <2>1 DEF NodeDebugWaitRequested, WorkspaceTypeOK, Entry
<1>6. ASSUME NEW a \in {"stopping", "removing"}, NEW r \in BOOLEAN, set_pending(n, a, r)
      PROVE  WorkspaceTypeOK'
  <2>1. [containers[n] EXCEPT !.running = r, !.pending = a] \in ContainerInfo
    BY <1>1, <1>2, <1>6, MarkType DEF set_pending
  <2> QED BY <1>6, <2>1 DEF set_pending, WorkspaceTypeOK, Entry
<1>7. CASE NodeStopRequested(n)
  BY <1>6, <1>7 DEF NodeStopRequested
<1>8. CASE NodeDeleteRequested(n)
  <2>1. containers[n].running \in BOOLEAN
    BY <1>2, <1>8 DEF NodeDeleteRequested, set_pending, ContainerInfo
  <2> QED BY <1>6, <1>8, <2>1 DEF NodeDeleteRequested
<1> QED BY <1>4, <1>5, <1>7, <1>8

\* The reports keep the types of the environment (reducer/observation.rs).
LEMMA SettledTypes ==
  ASSUME WorkspaceTypeOK, NEW n, NEW of, NEW result \in Entry \cup {Failed},
         ContainerActionSettled(n, of, result)
  PROVE  WorkspaceTypeOK'
<1>1. "none" \in Mark
  BY DEF Mark
<1>2. result \in ContainerInfo => [result EXCEPT !.pending = "none"] \in ContainerInfo
  BY <1>1, MarkType
<1>3. n \in Node /\ containers[n] # Absent =>
        [containers[n] EXCEPT !.pending = "none"] \in ContainerInfo
  BY <1>1, MarkType DEF WorkspaceTypeOK, Entry
<1> QED BY <1>2, <1>3 DEF ContainerActionSettled, WorkspaceTypeOK, Entry

\* A reading keeps the types of the environment (reducer/observation.rs).
LEMMA ObservedTypes ==
  ASSUME WorkspaceTypeOK, NEW n \in Node, NEW reading \in ContainerObserved, NEW based_on,
         ContainerObservedReport(n, reading, based_on)
  PROVE  WorkspaceTypeOK'
<1>1. ASSUME NEW c \in ContainerInfo PROVE ObservedIn(c, reading, based_on) \in ContainerInfo
  BY DEF ObservedIn, settle_interruption, ContainerInfo, ContainerObserved
<1> QED BY <1>1 DEF ContainerObservedReport, WorkspaceTypeOK, Entry

-----------------------------------------------------------------------------
(* Types *)

(***************************************************************************)
(* TypeOK is not inductive: a task needs the entry it was spawned with to  *)
(* report an entry again, and the environment never goes away.             *)
(***************************************************************************)
TypeInv ==
  /\ TypeOK
  /\ env = TRUE
  /\ \A n \in Node : job[n].action # "none" => job[n].base # Absent

\* The initial state has the right types.
LEMMA InitType == Init => TypeInv
<1> SUFFICES ASSUME Init PROVE TypeInv
  OBVIOUS
<1> USE DEF Init
<1>1. Up \in Entry
  BY DEF Up, Entry, ContainerInfo, ContainerObserved, DefaultObserved, Status, ExitCode, Mark
<1>2. WorkspaceTypeOK
  BY <1>1 DEF WorkspaceTypeOK
<1>3. job \in [Node -> Job] /\ \A n \in Node : job[n].action = "none"
  BY DEF idle_job, Job, Mark, Entry
<1>4. loop \in Loop
  BY DEF idle_loop, Loop, Nothing, Entry
<1>5. 0 \in 0..Horizon /\ 0 \in 0..MAX_ATTEMPTS
  BY DelayAssumption DEF Horizon
<1>6. tries \in [Node -> Tries]
  BY <1>5 DEF NoTries, Tries
<1>7. history \in History
  BY <1>5 DEF History, never_passed
<1> QED BY <1>2, <1>3, <1>4, <1>6, <1>7 DEF TypeInv, TypeOK, DockerStatus

\* What the user asks for keeps the types.
LEMMA UserType == TypeInv /\ UserStep => TypeInv'
<1> SUFFICES ASSUME TypeInv, UserStep PROVE TypeInv'
  OBVIOUS
<1> USE DEF TypeInv, TypeOK, Request, external
<1>1. CASE Switch
  BY <1>1 DEF Switch, actorVars, WorkspaceTypeOK
<1>2. ASSUME NEW n \in Node, Start(n) PROVE TypeInv'
  <2>1. WorkspaceTypeOK' /\ env' = TRUE
    BY <1>2, NodeRequestTypes DEF Start, NodeStartRequested
  <2> QED BY <1>2, <2>1 DEF Start
<1>3. ASSUME NEW n \in Node, Stop(n) \/ Delete(n) PROVE TypeInv'
  <2>1. WorkspaceTypeOK' /\ env' = TRUE
    BY <1>3, NodeRequestTypes DEF Stop, Delete, NodeStopRequested, NodeDeleteRequested, set_pending
  <2>2. history' \in History
    BY <1>3 DEF Stop, Delete, Forgotten, History
  <2> QED BY <1>3, <2>1, <2>2 DEF Stop, Delete
<1> QED BY <1>1, <1>2, <1>3 DEF UserStep

\* A container that changes keeps the types of Docker and of the history.
LEMMA BecomesType ==
  ASSUME TypeInv, NEW n \in Node, NEW status \in DockerStatus, NEW fresh,
         DockerBecomes(n, status, fresh)
  PROVE  docker' \in [Node -> DockerStatus] /\ history' \in History
<1>1. 0 \in 0..Horizon
  BY DelayAssumption DEF Horizon
<1> QED BY <1>1 DEF DockerBecomes, TypeInv, TypeOK, History

\* What happens in Docker keeps the types.
LEMMA DockerType == TypeInv /\ DockerStep => TypeInv'
<1> SUFFICES ASSUME TypeInv, DockerStep PROVE TypeInv'
  OBVIOUS
<1> USE DEF TypeInv, TypeOK, WorkspaceTypeOK, actorVars
<1>1. CASE SidecarDies \/ EngineAway
  <2>1. engine' \in BOOLEAN /\ sidecar' \in BOOLEAN
    BY <1>1 DEF SidecarDies, EngineAway
  <2>2. /\ UNCHANGED <<docker, history, env, pending_create, containers>>
        /\ UNCHANGED <<job, active, loop, tries, before, requests>>
        /\ mishaps' = mishaps + 1
    BY <1>1 DEF SidecarDies, EngineAway, Mishap
  <2> QED BY <2>1, <2>2
<1>2. CASE EngineBack
  BY <1>2 DEF EngineBack
<1>3. ASSUME NEW n \in Node, Dies(n) PROVE TypeInv'
  <2>1. 0 \in 0..Horizon
    BY DelayAssumption DEF Horizon
  <2>2. docker' \in [Node -> DockerStatus] /\ history' \in History
    BY <1>3, <2>1 DEF Dies, DockerStatus, History
  <2> QED BY <1>3, <2>2 DEF Dies, Mishap
<1>4. ASSUME NEW n \in Node, Removed(n) PROVE TypeInv'
  <2>1. docker' \in [Node -> DockerStatus] /\ history' \in History
    BY <1>4, BecomesType DEF Removed, DockerStatus
  <2> QED BY <1>4, <2>1 DEF Removed, Mishap
<1> QED BY <1>1, <1>2, <1>3, <1>4 DEF DockerStep

\* What a start and a stop report are entries (start_node, stop_container).
LEMMA ResultType ==
  ASSUME NEW base \in ContainerInfo, NEW status \in {"running", "exited"}
  PROVE  /\ [Up EXCEPT !.observed.status = status, !.debug_wait = base.debug_wait] \in Entry
         /\ [base EXCEPT !.running = FALSE, !.observed.status = status] \in Entry
BY DEF Up, Entry, ContainerInfo, ContainerObserved, DefaultObserved, Status, ExitCode, Mark

\* A task that is done reports a failure, a removal, the container it made anew, or
\* the entry it was spawned with, stopped.
LEMMA JobResult ==
  ASSUME TypeInv, NEW n \in Node, JobWork(n)
  PROVE  \E result \in Entry \cup {Failed} :
           /\ job' = [job EXCEPT ![n] = [@ EXCEPT !.done = TRUE, !.result = result]]
           /\ \/ result \in {Failed, Absent}
              \/ \E status \in DockerStatus : DockerBecomes(n, status, TRUE)
              \/ \E status \in {"running", "exited"} :
                   result = [job[n].base EXCEPT !.running = FALSE, !.observed.status = status]
<1> DEFINE Finish(result) ==
             job' = [job EXCEPT ![n] = [@ EXCEPT !.done = TRUE, !.result = result]]
           Goal == \E result \in Entry \cup {Failed} :
                     /\ Finish(result)
                     /\ \/ result \in {Failed, Absent}
                        \/ \E status \in DockerStatus : DockerBecomes(n, status, TRUE)
                        \/ \E status \in {"running", "exited"} :
                             result = [job[n].base EXCEPT !.running = FALSE,
                                                          !.observed.status = status]
<1>1. job[n] \in Job /\ job[n].base \in ContainerInfo
  BY DEF TypeInv, TypeOK, JobWork, Job, Entry
<1>2. CASE job[n].action = "starting"
  <2>1. \/ Finish(Failed)
        \/ \E status \in {"running", "exited"} :
             /\ DockerBecomes(n, status, TRUE)
             /\ Finish([Up EXCEPT !.observed.status = status,
                                  !.debug_wait = job[n].base.debug_wait])
    BY <1>2 DEF JobWork
  <2> HIDE DEF Finish
  <2>2. Goal
    BY <1>1, <2>1, ResultType DEF DockerStatus
  <2> QED BY <2>2 DEF Finish
<1>3. CASE job[n].action = "stopping"
  <2>1. \E status \in {"running", "exited"} :
          Finish([job[n].base EXCEPT !.running = FALSE, !.observed.status = status])
    BY <1>3 DEF JobWork, DockerStatus, TypeInv, TypeOK
  <2> HIDE DEF Finish
  <2>2. Goal
    BY <1>1, <2>1, ResultType
  <2> QED BY <2>2 DEF Finish
<1>4. CASE job[n].action = "removing"
  <2>1. Finish(Absent) /\ Absent \in Entry
    BY <1>4 DEF JobWork, Entry
  <2> QED BY <2>1
<1> QED BY <1>2, <1>3, <1>4 DEF JobWork

\* The tasks keep the types.
LEMMA JobType == ASSUME TypeInv, NEW n \in Node, JobStep(n) PROVE TypeInv'
<1> USE DEF TypeInv, TypeOK, jobRest
<1>0. idle_job \in Job /\ idle_job.action = "none"
  BY DEF idle_job, Job, Mark, Entry
<1>1. CASE JobSpawn(n)
  <2>1. MarkOf(n) \in Mark /\ containers[n] \in Entry /\ containers[n] # Absent
    BY <1>1 DEF JobSpawn, MarkOf, MarkIn, WorkspaceTypeOK, Entry, ContainerInfo
  <2>2. job' \in [Node -> Job] /\ job'[n].base # Absent
    BY <1>0, <1>1, <2>1 DEF JobSpawn, Job, idle_job
  <2> QED BY <1>1, <2>2 DEF JobSpawn, actorVars, WorkspaceTypeOK
<1>2. CASE JobCalledOff(n)
  <2>1. docker' \in [Node -> DockerStatus] /\ history' \in History
    BY <1>2, BecomesType DEF JobCalledOff
  <2>2. job' \in [Node -> Job] /\ \A m \in Node : job'[m].action # "none" => job'[m].base # Absent
    BY <1>0, <1>2 DEF JobCalledOff
  <2> QED BY <1>2, <2>1, <2>2 DEF JobCalledOff, actorVars, WorkspaceTypeOK
<1>3. CASE JobWork(n)
  <2>1. job[n] \in Job /\ job[n].base \in ContainerInfo
    BY <1>3 DEF JobWork, Job, Entry
  <2>2. \E status \in DockerStatus, fresh \in BOOLEAN : DockerBecomes(n, status, fresh)
    <3>1. docker[n] \in DockerStatus /\ {"running", "exited", "absent"} \subseteq DockerStatus
      BY DEF DockerStatus
    <3> HIDE DEF TypeInv, TypeOK
    <3>2. \E status, fresh : status \in DockerStatus /\ fresh \in BOOLEAN /\ DockerBecomes(n, status, fresh)
      BY <1>3, <3>1 DEF JobWork
    <3> QED BY <3>2
  <2>3. docker' \in [Node -> DockerStatus] /\ history' \in History
    BY <2>2, BecomesType
  <2>4. \E result \in Entry \cup {Failed} :
          job' = [job EXCEPT ![n] = [@ EXCEPT !.done = TRUE, !.result = result]]
    BY <1>3, JobResult
  <2>5. job' \in [Node -> Job] /\ \A m \in Node : job'[m].action # "none" => job'[m].base # Absent
    <3>1. PICK result \in Entry \cup {Failed} :
            job' = [job EXCEPT ![n] = [@ EXCEPT !.done = TRUE, !.result = result]]
      BY <2>4
    <3>2. [job[n] EXCEPT !.done = TRUE, !.result = result] \in Job
      BY <2>1 DEF Job
    <3>3. /\ [job[n] EXCEPT !.done = TRUE, !.result = result].action = job[n].action
          /\ [job[n] EXCEPT !.done = TRUE, !.result = result].base = job[n].base
      BY <2>1 DEF Job
    <3> QED BY <3>1, <3>2, <3>3
  <2> QED BY <1>3, <2>3, <2>5 DEF JobWork, actorVars, WorkspaceTypeOK
<1>4. CASE JobSettle(n)
  <2>1. WorkspaceTypeOK' /\ env' = TRUE
    <3>1. job[n].result \in Entry \cup {Failed} /\ WorkspaceTypeOK
      BY DEF Job
    <3>2. ContainerActionSettled(n, job[n].action, job[n].result)
      BY <1>4 DEF JobSettle
    <3> HIDE DEF TypeOK
    <3> QED BY <3>1, <3>2, SettledTypes DEF ContainerActionSettled
  <2>2. job' \in [Node -> Job] /\ \A m \in Node : job'[m].action # "none" => job'[m].base # Absent
    BY <1>0, <1>4 DEF JobSettle
  <2>3. history' \in History
    BY <1>4 DEF JobSettle, History
  <2> QED BY <1>4, <2>1, <2>2, <2>3 DEF JobSettle
<1> QED BY <1>1, <1>2, <1>3, <1>4 DEF JobStep

\* What the healer remembers keeps its type.
LEMMA RetainedType ==
  ASSUME TypeInv
  PROVE  retained \in [Node -> Tries] /\ NoTries \in Tries
<1>1. 0 \in 0..Horizon /\ 0 \in 0..MAX_ATTEMPTS
  BY DelayAssumption DEF Horizon
<1>2. NoTries \in Tries
  BY <1>1 DEF NoTries, Tries
<1> QED BY <1>2 DEF retained, TypeInv, TypeOK

\* The healer's decision keeps the types (Healer::pick).
LEMMA PickType == TypeInv /\ Pick => TypeInv'
<1> SUFFICES ASSUME TypeInv, Pick PROVE TypeInv'
  OBVIOUS
<1>0. retained \in [Node -> Tries] /\ NoTries \in Tries
  BY RetainedType
<1>1. kept \in SUBSET (Node \X Node) /\ \A n \in Node : moved_last(n) \in SUBSET (Node \X Node)
  BY DEF kept, moved_last, remembered
<1>2. loop' \in Loop
  BY DEF Pick, idle_loop, Loop, Nothing, Entry
<1>3. ASSUME NEW n \in Node, Restart(n)
      PROVE  /\ WorkspaceTypeOK' /\ env' = TRUE
             /\ tries' \in [Node -> Tries]
             /\ before' \in SUBSET (Node \X Node)
  <2>1. CASE retained[n].count >= MAX_ATTEMPTS
    <3>1. [retained[n] EXCEPT !.given_up = TRUE] \in Tries
      BY <1>0 DEF Tries
    <3>2. tries' = [retained EXCEPT ![n] = [@ EXCEPT !.given_up = TRUE]] /\ before' = kept
      BY <1>3, <2>1 DEF Restart
    <3>3. WorkspaceTypeOK' /\ env' = TRUE
      BY <1>3, <2>1 DEF Restart, actorVars, WorkspaceTypeOK, TypeInv, TypeOK
    <3> QED BY <1>0, <1>1, <3>1, <3>2, <3>3
  <2>2. CASE ~(retained[n].count >= MAX_ATTEMPTS)
    <3>1. retained[n].count + 1 \in 0..MAX_ATTEMPTS /\ 0 \in 0..Horizon
      BY <1>0, <2>2, DelayAssumption DEF Tries, Horizon
    <3>2. [count |-> retained[n].count + 1, age |-> 0, given_up |-> FALSE] \in Tries
      BY <3>1 DEF Tries
    <3>3. /\ tries' = [retained EXCEPT ![n] = [count |-> @.count + 1, age |-> 0, given_up |-> FALSE]]
          /\ before' = moved_last(n)
          /\ Request_restart(n)
      BY <1>3, <2>2 DEF Restart
    <3>4. WorkspaceTypeOK' /\ env' = TRUE
      <4>1. CASE NodeStartRequested(n)
        BY <4>1, NodeRequestTypes DEF NodeStartRequested, TypeInv, TypeOK
      <4>2. CASE UNCHANGED actorVars
        BY <4>2 DEF actorVars, WorkspaceTypeOK, TypeInv, TypeOK
      <4> QED BY <3>3, <4>1, <4>2 DEF Request_restart
    <3> QED BY <1>0, <1>1, <3>2, <3>3, <3>4
  <2> QED BY <2>1, <2>2
<1>4. ASSUME NEW n PROVE Passed(n) \in History
  <2>1. passed_over(n) \in [Node -> [Node -> Nat]]
    BY DEF passed_over, History, TypeInv, TypeOK
  <2> QED BY <2>1 DEF Passed, History, TypeInv, TypeOK
<1>5. /\ WorkspaceTypeOK' /\ env' = TRUE
      /\ tries' \in [Node -> Tries]
      /\ before' \in SUBSET (Node \X Node)
      /\ history' \in History
  <2>1. CASE in_flight /\ UNCHANGED <<actorVars, tries, before, history>>
    BY <2>1 DEF actorVars, WorkspaceTypeOK, TypeInv, TypeOK
  <2>2. CASE /\ tries' = retained /\ before' = kept /\ UNCHANGED actorVars
             /\ history' = [history EXCEPT !.passed = never_passed]
    <3>1. history' \in History
      BY <2>2 DEF never_passed, History, TypeInv, TypeOK
    <3> QED BY <1>0, <1>1, <2>2, <3>1 DEF actorVars, WorkspaceTypeOK, TypeInv, TypeOK
  <2>3. CASE \E n \in oldest : Restart(n) /\ history' = Passed(n)
    BY <1>3, <1>4, <2>3 DEF oldest, candidates
  <2> QED BY <2>1, <2>2, <2>3 DEF Pick
<1> QED BY <1>2, <1>5 DEF Pick, loopRest, TypeInv, TypeOK

\* A listing reads every container it was asked about (observe).
LEMMA ObserveType ==
  ASSUME TypeInv, NEW c \in ContainerInfo, NEW n \in Node
  PROVE  observe(c, n) \in ContainerObserved
<1>1. docker[n] \in DockerStatus
  BY DEF TypeInv, TypeOK
<1>2. c.observed \in ContainerObserved
  BY DEF ContainerInfo
<1> QED BY <1>1, <1>2 DEF observe, ContainerObserved, DockerStatus, Status, ExitCode

\* The reconciler's loop keeps the types.
LEMMA LoopType == TypeInv /\ LoopStep => TypeInv'
<1> SUFFICES ASSUME TypeInv, LoopStep PROVE TypeInv'
  OBVIOUS
<1> USE DEF TypeInv, TypeOK, loopRest
<1>1. CASE Snapshot
  BY <1>1 DEF Snapshot, Loop, WorkspaceTypeOK, actorVars
<1>2. CASE List
  <2>1. \A n \in Node : loop.env[n] # Absent => observe(loop.env[n], n) \in ContainerObserved
    BY ObserveType DEF Loop, Entry
  <2>2. loop' \in Loop
    BY <1>2, <2>1 DEF List, Loop
  <2>3. history' \in History
    BY <1>2 DEF List, History
  <2> QED BY <1>2, <2>2, <2>3 DEF List, WorkspaceTypeOK, actorVars
<1>3. ASSUME NEW n \in Node, Report(n) PROVE TypeInv'
  <2>1. loop.readings[n] \in ContainerObserved
    BY <1>3 DEF Report, Loop
  <2>2. WorkspaceTypeOK' /\ env' = TRUE
    BY <1>3, <2>1, ObservedTypes DEF Report, ContainerObservedReport
  <2>3. loop' \in Loop
    BY <1>3 DEF Report, Loop
  <2> QED BY <1>3, <2>2, <2>3 DEF Report
<1>4. CASE Check
  <2>1. loop' \in Loop
    BY <1>4 DEF Check, Loop, WorkspaceTypeOK, idle_loop, Nothing, Entry
  <2> QED BY <1>4, <2>1 DEF Check, WorkspaceTypeOK, actorVars
<1>5. CASE Restore
  <2>1. loop' \in Loop
    BY <1>5 DEF Restore, Loop
  <2>2. sidecar' \in BOOLEAN
    BY <1>5 DEF Restore
  <2> QED BY <1>5, <2>1, <2>2 DEF Restore, WorkspaceTypeOK, actorVars
<1> QED BY <1>1, <1>2, <1>3, <1>4, <1>5, PickType DEF LoopStep

\* Time keeps the types: an age never passes the horizon.
LEMMA TickType == TypeInv /\ Tick => TypeInv'
<1> SUFFICES ASSUME TypeInv, Tick PROVE TypeInv'
  OBVIOUS
<1> USE DEF TypeInv, TypeOK
<1>1. Horizon \in Nat
  BY DelayAssumption DEF Horizon
<1>2. \A age \in 0..Horizon : Older(age) \in 0..Horizon
  BY <1>1 DEF Older
<1>3. tries' \in [Node -> Tries]
  <2>1. \A t \in Tries : [t EXCEPT !.age = Older(@)] \in Tries
    BY <1>2 DEF Tries
  <2> QED BY <2>1, RetainedType DEF Tick
<1>4. history' \in History
  <2>1. 0 \in 0..Horizon
    BY <1>1
  <2> QED BY <1>2, <2>1 DEF Tick, History
<1> QED BY <1>3, <1>4 DEF Tick, external, actorVars, WorkspaceTypeOK

\* Every step keeps the types.
LEMMA TypeStep == TypeInv /\ [Next]_vars => TypeInv'
<1> SUFFICES ASSUME TypeInv, [Next]_vars PROVE TypeInv'
  OBVIOUS
<1>1. CASE UNCHANGED vars
  BY <1>1 DEF vars, actorVars, external, TypeInv, TypeOK, WorkspaceTypeOK
<1>2. CASE \E n \in Node : JobStep(n)
  BY <1>2, JobType
<1> QED BY <1>1, <1>2, UserType, DockerType, TickType, LoopType DEF Next

(***************************************************************************)
(* Every reachable state is well typed; in particular the healer never     *)
(* counts past MAX_ATTEMPTS.                                               *)
(***************************************************************************)
THEOREM TypeCorrect == Spec => []TypeOK
<1>1. Spec => []TypeInv
  BY InitType, TypeStep, PTL DEF Spec
<1>2. TypeInv => TypeOK
  BY DEF TypeInv
<1> QED BY <1>1, <1>2, PTL

-----------------------------------------------------------------------------
(* What went down out of sight is not taken for a crash. *)

\* Either Docker is not seen, or the reading says that it was not.
Excused(o) == o.unseen \/ o.interrupted

\* A task works on an entry only while the entry is marked.
Booked ==
  \A n \in Node : job[n].action # "none" => containers[n] = Absent \/ MarkOf(n) # "none"

(***************************************************************************)
(* UnwatchedIsNoCrash is not inductive: what excuses a node has to survive *)
(* the readings on their way, the copy a task of the node works on and the *)
(* result it has ready.                                                    *)
(***************************************************************************)
ExcusedIn(n) ==
  /\ containers[n] # Absent /\ Excused(containers[n].observed)
  /\ docker[n] = "exited"
  /\ loop.readings[n] # Absent => loop.readings[n].unseen \/ ~is_up(loop.readings[n])
  /\ job[n].action # "none" => Excused(job[n].base.observed)
  /\ job[n].result \in {Failed, Absent} \/ Excused(job[n].result.observed)

UnwatchedExcused == \A n \in history.unwatched : ExcusedIn(n)

\* An idle task has nothing to report.
IdleIsEmpty == \A n \in Node : job[n].action = "none" => job[n] = idle_job

WatchInv == TypeInv /\ Booked /\ IdleIsEmpty /\ UnwatchedExcused

\* It holds at first: nothing has gone down and no task is under way.
LEMMA InitWatch == Init => WatchInv
<1> SUFFICES ASSUME Init PROVE WatchInv
  OBVIOUS
<1>1. TypeInv
  BY InitType
<1>2. \A n \in Node : job[n] = idle_job /\ job[n].action = "none"
  BY DEF Init, idle_job
<1>3. history.unwatched = {}
  BY DEF Init
<1> QED BY <1>1, <1>2, <1>3 DEF WatchInv, Booked, IdleIsEmpty, UnwatchedExcused

\* Only an entry counts as unwatched.
LEMMA UnwatchedNodes == TypeInv => history.unwatched \subseteq Node
BY DEF TypeInv, TypeOK, History

\* A request writes the mark and the intent of one entry, and leaves every reading.
LEMMA RequestReads ==
  ASSUME TypeInv, NEW n \in Node,
         NodeStartRequested(n) \/ NodeStopRequested(n) \/ NodeDeleteRequested(n)
  PROVE  /\ \A m \in Node \ {n} : containers'[m] = containers[m]
         /\ containers'[n] = Absent \/ containers'[n].pending # "none"
         /\ containers[n] # Absent =>
              containers'[n] = Absent \/ containers'[n].observed = containers[n].observed
         /\ NodeStartRequested(n) => containers'[n] # Absent
<1>1. containers[n] # Absent => containers[n] \in ContainerInfo
  BY DEF TypeInv, TypeOK, WorkspaceTypeOK, Entry
<1>2. starting_placeholder # Absent /\ starting_placeholder.pending = "starting"
  BY PlaceholderType, EntryAssumption DEF starting_placeholder
<1>3. ASSUME NEW r \in BOOLEAN, NEW a \in Mark \ {"none"}, containers[n] # Absent
      PROVE  LET c == [containers[n] EXCEPT !.running = r, !.pending = a]
             IN  c # Absent /\ c.pending # "none" /\ c.observed = containers[n].observed
  <2>1. [containers[n] EXCEPT !.running = r, !.pending = a] \in ContainerInfo
    BY <1>1, <1>3, MarkType
  <2> QED BY <1>1, <1>3, <2>1, EntryAssumption DEF ContainerInfo
<1>4. {"starting", "stopping", "removing"} \subseteq Mark \ {"none"}
  BY DEF Mark, PendingAction
<1>5. containers \in [Node -> Entry] /\ env
  BY DEF TypeInv, TypeOK, WorkspaceTypeOK
<1>6. CASE NodeStartRequested(n)
  <2> DEFINE c == [containers[n] EXCEPT !.running = TRUE, !.pending = "starting"]
  <2>1. containers[n] # Absent => c # Absent /\ c.pending # "none" /\ c.observed = containers[n].observed
    BY <1>3, <1>4
  <2>2. containers' = [containers EXCEPT ![n] = IF containers[n] = Absent THEN starting_placeholder ELSE c]
    BY <1>5, <1>6 DEF NodeStartRequested
  <2> HIDE DEF c
  <2>3. /\ containers'[n] = IF containers[n] = Absent THEN starting_placeholder ELSE c
        /\ \A m \in Node \ {n} : containers'[m] = containers[m]
    BY <1>5, <2>2
  <2> QED BY <1>2, <2>1, <2>3
<1>7. CASE NodeStopRequested(n)
  BY <1>3, <1>4, <1>5, <1>7 DEF NodeStopRequested, set_pending, NodeStartRequested, MarkOf, MarkIn
<1>8. CASE NodeDeleteRequested(n)
  <2>1. containers[n] # Absent /\ containers[n].running \in BOOLEAN
    BY <1>1, <1>8 DEF NodeDeleteRequested, set_pending, ContainerInfo
  <2> QED BY <1>3, <1>4, <1>5, <1>8, <2>1
       DEF NodeDeleteRequested, set_pending, NodeStartRequested, MarkOf, MarkIn
<1> QED BY <1>6, <1>7, <1>8

\* A request keeps what excuses a node, whoever makes it.
LEMMA RequestWatch ==
  ASSUME WatchInv, NEW n \in Node,
         NodeStartRequested(n) \/ NodeStopRequested(n) \/ NodeDeleteRequested(n),
         UNCHANGED <<docker, job>>,
         \A m \in Node : loop'.readings[m] \in {Absent, loop.readings[m]},
         history'.unwatched \subseteq history.unwatched,
         containers'[n] = Absent => n \notin history'.unwatched
  PROVE  Booked' /\ IdleIsEmpty' /\ UnwatchedExcused'
<1> USE DEF WatchInv
<1>1. /\ \A m \in Node \ {n} : containers'[m] = containers[m]
      /\ containers'[n] = Absent \/ containers'[n].pending # "none"
      /\ containers[n] # Absent =>
           containers'[n] = Absent \/ containers'[n].observed = containers[n].observed
  BY RequestReads
<1>2. Booked'
  BY <1>1 DEF Booked, MarkOf, MarkIn
<1>3. IdleIsEmpty'
  BY DEF IdleIsEmpty
<1>4. ASSUME NEW m \in history'.unwatched PROVE ExcusedIn(m)'
  <2>1. m \in Node /\ ExcusedIn(m)
    BY UnwatchedNodes DEF UnwatchedExcused
  <2>2. containers'[m] # Absent /\ containers'[m].observed = containers[m].observed
    BY <1>1, <2>1 DEF ExcusedIn
  <2> QED BY <2>1, <2>2 DEF ExcusedIn
<1> QED BY <1>2, <1>3, <1>4 DEF UnwatchedExcused

\* The user's requests.
LEMMA UserWatch == WatchInv /\ UserStep => WatchInv'
<1> SUFFICES ASSUME WatchInv, UserStep PROVE WatchInv'
  OBVIOUS
<1>1. TypeInv'
  BY UserType DEF WatchInv
<1>2. CASE Switch
  BY <1>1, <1>2 DEF WatchInv, Switch, Request, external, actorVars, Booked, MarkOf, MarkIn,
                    IdleIsEmpty, UnwatchedExcused, ExcusedIn
<1>3. ASSUME NEW n \in Node, Start(n) PROVE WatchInv'
  <2>1. containers'[n] # Absent
    BY <1>3, RequestReads DEF Start, WatchInv
  <2> QED BY <1>1, <1>3, <2>1, RequestWatch DEF Start, Request, external, WatchInv
<1>4. ASSUME NEW n \in Node, Stop(n) \/ Delete(n) PROVE WatchInv'
  <2>1. /\ history'.unwatched \subseteq history.unwatched
        /\ containers'[n] = Absent => n \notin history'.unwatched
    BY <1>4 DEF Stop, Delete, Forgotten, WatchInv, TypeInv, TypeOK, History
  <2> QED BY <1>1, <1>4, <2>1, RequestWatch DEF Stop, Delete, Request, external, WatchInv
<1> QED BY <1>2, <1>3, <1>4 DEF UserStep

\* What changes a container ends its excuse; what leaves it alone keeps it.
LEMMA BecomesWatch ==
  ASSUME TypeInv, NEW n \in Node, NEW status, NEW fresh, DockerBecomes(n, status, fresh)
  PROVE  /\ history'.unwatched \subseteq history.unwatched
         /\ \A m \in history'.unwatched : docker'[m] = docker[m]
         /\ fresh => n \notin history'.unwatched
BY UnwatchedNodes DEF DockerBecomes, TypeInv, TypeOK, History

\* What happens in Docker: a container that dies out of sight is excused.
LEMMA DockerWatch == WatchInv /\ DockerStep => WatchInv'
<1> SUFFICES ASSUME WatchInv, DockerStep PROVE WatchInv'
  OBVIOUS
<1>1. TypeInv'
  BY DockerType DEF WatchInv
<1>2. UNCHANGED <<env, pending_create, containers, job, loop>>
  BY DEF DockerStep, SidecarDies, EngineAway, EngineBack, Dies, Removed, Mishap, actorVars
<1>3. Booked' /\ IdleIsEmpty'
  BY <1>2 DEF WatchInv, Booked, IdleIsEmpty, MarkOf, MarkIn
<1>4. ASSUME UNCHANGED <<docker, history>> PROVE UnwatchedExcused'
  BY <1>2, <1>4 DEF WatchInv, UnwatchedExcused, ExcusedIn
<1>5. ASSUME NEW n \in Node, Removed(n) PROVE UnwatchedExcused'
  <2>1. /\ history'.unwatched \subseteq history.unwatched
        /\ \A m \in history'.unwatched : docker'[m] = docker[m]
    BY <1>5, BecomesWatch DEF Removed, WatchInv
  <2> QED BY <1>2, <2>1 DEF WatchInv, UnwatchedExcused, ExcusedIn
<1>6. ASSUME NEW n \in Node, Dies(n) PROVE UnwatchedExcused'
  <2>1. ASSUME NEW m \in history'.unwatched, m \in history.unwatched PROVE ExcusedIn(m)'
    <3>1. m \in Node /\ ExcusedIn(m) /\ m # n
      BY <1>6, <2>1, UnwatchedNodes DEF WatchInv, UnwatchedExcused, ExcusedIn, Dies
    <3>2. docker'[m] = docker[m]
      BY <1>6, <3>1 DEF Dies, WatchInv, TypeInv, TypeOK
    <3> QED BY <1>2, <3>1, <3>2 DEF ExcusedIn
  <2>2. ASSUME NEW m \in history'.unwatched, m \notin history.unwatched PROVE ExcusedIn(m)'
    <3>1. m = n /\ OutOfSight(n)
      BY <1>6, <2>2 DEF Dies, WatchInv, TypeInv, TypeOK, History
    <3>2. job[n] = idle_job
      BY <3>1 DEF OutOfSight, WatchInv, Booked, IdleIsEmpty
    <3>3. docker'[n] = "exited"
      BY <1>6 DEF Dies, WatchInv, TypeInv, TypeOK
    <3> QED BY <1>2, <3>1, <3>2, <3>3 DEF OutOfSight, ExcusedIn, Excused, idle_job
  <2> QED BY <2>1, <2>2 DEF UnwatchedExcused
<1> QED BY <1>1, <1>3, <1>4, <1>5, <1>6
       DEF WatchInv, DockerStep, SidecarDies, EngineAway, EngineBack

\* A task hands on the excuse of the entry it was spawned with.
LEMMA JobWorkWatch == ASSUME WatchInv, NEW n \in Node, JobWork(n) PROVE WatchInv'
<1>1. TypeInv /\ TypeInv'
  BY JobType DEF WatchInv, JobStep
<1>2. job[n] \in Job /\ job[n].base \in ContainerInfo /\ job[n].action # "none"
  BY <1>1 DEF TypeInv, TypeOK, JobWork, Job, Entry
<1>3. UNCHANGED <<env, pending_create, containers, loop>>
  BY DEF JobWork, actorVars, jobRest
<1>4. PICK result :
        /\ job' = [job EXCEPT ![n] = [@ EXCEPT !.done = TRUE, !.result = result]]
        /\ \/ result \in {Failed, Absent}
           \/ \E status \in DockerStatus : DockerBecomes(n, status, TRUE)
           \/ \E status \in {"running", "exited"} :
                result = [job[n].base EXCEPT !.running = FALSE, !.observed.status = status]
  BY <1>1, JobResult
<1>5. /\ history'.unwatched \subseteq history.unwatched
      /\ \A m \in history'.unwatched : docker'[m] = docker[m]
  <2>1. \E status, fresh : DockerBecomes(n, status, fresh)
    BY DEF JobWork
  <2> QED BY <1>1, <2>1, BecomesWatch
<1>6. /\ \A m \in Node \ {n} : job'[m] = job[m]
      /\ job'[n].action = job[n].action /\ job'[n].base = job[n].base
      /\ job'[n].result = result
  BY <1>1, <1>2, <1>4 DEF TypeInv, TypeOK, Job
<1>7. Booked' /\ IdleIsEmpty'
  BY <1>2, <1>3, <1>6 DEF WatchInv, Booked, IdleIsEmpty, MarkOf, MarkIn
<1>8. ASSUME NEW m \in history'.unwatched PROVE ExcusedIn(m)'
  <2>1. m \in Node /\ ExcusedIn(m)
    BY <1>1, <1>5, UnwatchedNodes DEF WatchInv, UnwatchedExcused
  <2>2. m = n => result \in {Failed, Absent} \/ Excused(result.observed)
    <3>1. ASSUME NEW status \in DockerStatus, DockerBecomes(n, status, TRUE) PROVE m # n
      BY <1>1, <3>1, BecomesWatch
    <3>2. ASSUME m = n, NEW status \in {"running", "exited"},
                 result = [job[n].base EXCEPT !.running = FALSE, !.observed.status = status]
          PROVE  Excused(result.observed)
      BY <1>2, <2>1, <3>2 DEF ExcusedIn, Excused, ContainerInfo, ContainerObserved
    <3> QED BY <1>4, <3>1, <3>2
  <2>3. job'[m].action # "none" => Excused(job'[m].base.observed)
    BY <1>6, <2>1 DEF ExcusedIn
  <2>4. job'[m].result \in {Failed, Absent} \/ Excused(job'[m].result.observed)
    BY <1>6, <2>1, <2>2 DEF ExcusedIn
  <2> QED BY <1>3, <1>5, <2>1, <2>3, <2>4 DEF ExcusedIn, Excused
<1> QED BY <1>1, <1>7, <1>8 DEF WatchInv, UnwatchedExcused

\* A task's report leaves its node with the excuse it handed on.
LEMMA JobSettleWatch == ASSUME WatchInv, NEW n \in Node, JobSettle(n) PROVE WatchInv'
<1>1. TypeInv /\ TypeInv'
  BY JobType DEF WatchInv, JobStep
<1>2. UNCHANGED <<docker, loop>>
  BY DEF JobSettle, jobRest
<1>3. job' = [job EXCEPT ![n] = idle_job]
  BY DEF JobSettle
<1>4. \A m \in Node \ {n} : containers'[m] = containers[m]
  BY <1>1 DEF JobSettle, ContainerActionSettled, TypeInv, TypeOK, WorkspaceTypeOK
<1>5. Booked' /\ IdleIsEmpty'
  BY <1>1, <1>3, <1>4 DEF WatchInv, Booked, IdleIsEmpty, MarkOf, MarkIn, TypeInv, TypeOK, idle_job
<1>6. /\ history'.unwatched \subseteq history.unwatched
      /\ job[n].result = Absent => n \notin history'.unwatched
  BY <1>1 DEF JobSettle, TypeInv, TypeOK, History
<1>7. ASSUME n \in history'.unwatched
      PROVE  containers'[n] # Absent /\ Excused(containers'[n].observed)
  <2>1. ExcusedIn(n) /\ job[n].result # Absent
    BY <1>6, <1>7 DEF WatchInv, UnwatchedExcused
  <2>2. containers[n] \in ContainerInfo
    BY <1>1, <2>1 DEF ExcusedIn, TypeInv, TypeOK, WorkspaceTypeOK, Entry
  <2>3. job[n].result # Failed => job[n].result \in ContainerInfo
    BY <1>1, <2>1 DEF TypeInv, TypeOK, Job, Entry
  <2>4. \A c \in ContainerInfo :
          /\ [c EXCEPT !.pending = "none"] # Absent
          /\ [c EXCEPT !.pending = "none"].observed = c.observed
    <3>1. "none" \in Mark
      BY DEF Mark
    <3>2. \A c \in ContainerInfo : [c EXCEPT !.pending = "none"] \in ContainerInfo
      BY <3>1, MarkType
    <3> QED BY <3>2, EntryAssumption DEF ContainerInfo
  <2>5. \/ containers'[n] = containers[n]
        \/ job[n].result = Failed /\ containers'[n] = [containers[n] EXCEPT !.pending = "none"]
        \/ job[n].result # Failed /\ containers'[n] = [job[n].result EXCEPT !.pending = "none"]
    BY <1>1, <2>1 DEF JobSettle, ContainerActionSettled, ExcusedIn, TypeInv, TypeOK, WorkspaceTypeOK
  <2> QED BY <2>1, <2>2, <2>3, <2>4, <2>5 DEF ExcusedIn
<1>8. ASSUME NEW m \in history'.unwatched PROVE ExcusedIn(m)'
  <2>1. m \in Node /\ ExcusedIn(m)
    BY <1>1, <1>6, UnwatchedNodes DEF WatchInv, UnwatchedExcused
  <2>2. job'[m] = IF m = n THEN idle_job ELSE job[m]
    BY <1>1, <1>3, <2>1 DEF TypeInv, TypeOK
  <2> QED BY <1>2, <1>4, <1>7, <2>1, <2>2 DEF ExcusedIn, idle_job
<1> QED BY <1>1, <1>5, <1>8 DEF WatchInv, UnwatchedExcused

\* The tasks keep the invariant.
LEMMA JobWatch == ASSUME WatchInv, NEW n \in Node, JobStep(n) PROVE WatchInv'
<1>1. TypeInv /\ TypeInv'
  BY JobType DEF WatchInv
<1>2. CASE JobSpawn(n)
  <2>1. UNCHANGED <<containers, docker, loop, history>> /\ containers[n] # Absent
    BY <1>2 DEF JobSpawn, actorVars, jobRest, MarkOf, MarkIn
  <2>2. /\ \A m \in Node \ {n} : job'[m] = job[m]
        /\ job'[n].action = MarkOf(n) /\ job'[n].base = containers[n] /\ job'[n].result = Failed
    BY <1>1, <1>2 DEF JobSpawn, TypeInv, TypeOK, idle_job
  <2>3. Booked' /\ IdleIsEmpty'
    BY <1>2, <2>1, <2>2 DEF JobSpawn, WatchInv, Booked, IdleIsEmpty, MarkOf, MarkIn
  <2>4. ASSUME NEW m \in history'.unwatched PROVE ExcusedIn(m)'
    <3>1. m \in Node /\ ExcusedIn(m)
      BY <1>1, <2>1, <2>4, UnwatchedNodes DEF WatchInv, UnwatchedExcused
    <3> QED BY <2>1, <2>2, <3>1 DEF ExcusedIn
  <2> QED BY <1>1, <2>3, <2>4 DEF WatchInv, UnwatchedExcused
<1>3. CASE JobCalledOff(n)
  <2>1. UNCHANGED <<containers, loop>> /\ job' = [job EXCEPT ![n] = idle_job]
    BY <1>3 DEF JobCalledOff, actorVars, jobRest
  <2>2. /\ history'.unwatched \subseteq history.unwatched
        /\ \A m \in history'.unwatched : docker'[m] = docker[m]
    BY <1>1, <1>3, BecomesWatch DEF JobCalledOff
  <2>3. Booked' /\ IdleIsEmpty'
    BY <1>1, <2>1 DEF WatchInv, Booked, IdleIsEmpty, MarkOf, MarkIn, TypeInv, TypeOK, idle_job
  <2>4. ASSUME NEW m \in history'.unwatched PROVE ExcusedIn(m)'
    <3>1. m \in Node /\ ExcusedIn(m)
      BY <1>1, <2>2, <2>4, UnwatchedNodes DEF WatchInv, UnwatchedExcused
    <3>2. job'[m] = IF m = n THEN idle_job ELSE job[m]
      BY <1>1, <2>1, <3>1 DEF TypeInv, TypeOK
    <3> QED BY <2>1, <2>2, <3>1, <3>2 DEF ExcusedIn, idle_job
  <2> QED BY <1>1, <2>3, <2>4 DEF WatchInv, UnwatchedExcused
<1> QED BY <1>2, <1>3, JobWorkWatch, JobSettleWatch DEF JobStep

\* Steps that touch neither an entry nor a task, and at most forget a reading.
LEMMA QuietWatch ==
  ASSUME WatchInv, TypeInv', UNCHANGED <<containers, docker, job>>,
         \A m \in Node : loop'.readings[m] \in {Absent, loop.readings[m]},
         history'.unwatched = history.unwatched
  PROVE  WatchInv'
<1>1. Booked' /\ IdleIsEmpty'
  BY DEF WatchInv, Booked, IdleIsEmpty, MarkOf, MarkIn
<1>2. ASSUME NEW m \in history'.unwatched PROVE ExcusedIn(m)'
  <2>1. m \in Node /\ ExcusedIn(m)
    BY UnwatchedNodes DEF WatchInv, UnwatchedExcused
  <2> QED BY <2>1 DEF ExcusedIn
<1> QED BY <1>1, <1>2 DEF WatchInv, UnwatchedExcused

\* A reading keeps an entry's mark, and an excuse unless it finds the container up.
LEMMA ObservedWatch ==
  ASSUME NEW c \in ContainerInfo, NEW reading \in ContainerObserved, NEW based_on
  PROVE  /\ ObservedIn(c, reading, based_on) # Absent
         /\ ObservedIn(c, reading, based_on).pending = c.pending
         /\ Excused(c.observed) /\ (reading.unseen \/ ~is_up(reading)) =>
              Excused(ObservedIn(c, reading, based_on).observed)
<1>1. ObservedIn(c, reading, based_on) \in ContainerInfo
  BY DEF ObservedIn, settle_interruption, ContainerInfo, ContainerObserved
<1>2. ObservedIn(c, reading, based_on).pending = c.pending
  BY DEF ObservedIn, ContainerInfo
<1>3. ASSUME Excused(c.observed), reading.unseen \/ ~is_up(reading)
      PROVE  Excused(ObservedIn(c, reading, based_on).observed)
  BY <1>3 DEF ObservedIn, settle_interruption, Excused, is_up, ContainerInfo, ContainerObserved
<1> QED BY <1>1, <1>2, <1>3, EntryAssumption

\* The reconciler's loop keeps the invariant.
LEMMA LoopWatch == WatchInv /\ LoopStep => WatchInv'
<1> SUFFICES ASSUME WatchInv, LoopStep PROVE WatchInv'
  OBVIOUS
<1>1. TypeInv /\ TypeInv'
  BY LoopType DEF WatchInv
<1>2. loop \in Loop /\ loop' \in Loop
  BY <1>1 DEF TypeInv, TypeOK
<1>3. CASE Snapshot \/ Check \/ Restore
  <2>1. \A m \in Node : loop'.readings[m] \in {Absent, loop.readings[m]}
    <3>1. CASE Snapshot \/ Restore
      BY <1>2, <3>1 DEF Snapshot, Restore, Loop
    <3>2. CASE Check
      <4>1. CASE loop' = idle_loop
        BY <4>1 DEF idle_loop, Nothing
      <4>2. CASE loop' # idle_loop
        BY <1>2, <3>2, <4>2 DEF Check, Loop
      <4> QED BY <4>1, <4>2
    <3> QED BY <1>3, <3>1, <3>2
  <2>2. UNCHANGED <<containers, docker, job, history>>
    BY <1>3 DEF Snapshot, Check, Restore, actorVars, loopRest
  <2> QED BY <1>1, <2>1, <2>2, QuietWatch
<1>4. CASE List
  <2>1. UNCHANGED <<containers, docker, job>> /\ history'.unwatched = history.unwatched
    BY <1>1, <1>4 DEF List, actorVars, loopRest, TypeInv, TypeOK, History
  <2>2. Booked' /\ IdleIsEmpty'
    BY <2>1 DEF WatchInv, Booked, IdleIsEmpty, MarkOf, MarkIn
  <2>3. ASSUME NEW m \in history'.unwatched PROVE ExcusedIn(m)'
    <3>1. m \in Node /\ ExcusedIn(m)
      BY <1>1, <2>1, UnwatchedNodes DEF WatchInv, UnwatchedExcused
    <3>2. loop'.readings[m] = IF loop.env[m] = Absent THEN Absent ELSE observe(loop.env[m], m)
      BY <1>2, <1>4, <3>1 DEF List, Loop
    <3>3. ASSUME loop.env[m] # Absent
          PROVE  observe(loop.env[m], m).unseen \/ ~is_up(observe(loop.env[m], m))
      <4>1. loop.env[m] \in ContainerInfo /\ docker[m] = "exited"
        BY <1>2, <3>1, <3>3 DEF Loop, Entry, ExcusedIn
      <4> QED BY <4>1 DEF observe, is_up, ContainerInfo, ContainerObserved
    <3> QED BY <2>1, <3>1, <3>2, <3>3 DEF ExcusedIn
  <2> QED BY <1>1, <2>2, <2>3 DEF WatchInv, UnwatchedExcused
<1>5. ASSUME NEW n \in Node, Report(n) PROVE WatchInv'
  <2>1. UNCHANGED <<docker, job, history>>
    BY <1>5 DEF Report, loopRest
  <2>2. /\ loop.readings[n] \in ContainerObserved
        /\ \A m \in Node : loop'.readings[m] \in {Absent, loop.readings[m]}
    BY <1>2, <1>5 DEF Report, Loop
  <2>3. /\ \A m \in Node \ {n} : containers'[m] = containers[m]
        /\ containers'[n] = IF containers[n] = Absent THEN Absent
                            ELSE ObservedIn(containers[n], loop.readings[n], loop.env[n].observed)
    BY <1>1, <1>5 DEF Report, ContainerObservedReport, TypeInv, TypeOK, WorkspaceTypeOK
  <2>4. containers[n] # Absent => containers[n] \in ContainerInfo
    BY <1>1 DEF TypeInv, TypeOK, WorkspaceTypeOK, Entry
  <2>5. Booked' /\ IdleIsEmpty'
    BY <2>1, <2>2, <2>3, <2>4, ObservedWatch DEF WatchInv, Booked, IdleIsEmpty, MarkOf, MarkIn
  <2>6. ASSUME NEW m \in history'.unwatched PROVE ExcusedIn(m)'
    <3>1. m \in Node /\ ExcusedIn(m)
      BY <1>1, <2>1, UnwatchedNodes DEF WatchInv, UnwatchedExcused
    <3>2. containers'[m] # Absent /\ Excused(containers'[m].observed)
      <4>1. CASE m = n
        <5>1. loop.readings[n].unseen \/ ~is_up(loop.readings[n])
          BY <1>5, <3>1, <4>1 DEF Report, ExcusedIn
        <5> QED BY <2>2, <2>3, <2>4, <3>1, <4>1, <5>1, ObservedWatch DEF ExcusedIn
      <4>2. CASE m # n
        BY <2>3, <3>1, <4>2 DEF ExcusedIn
      <4> QED BY <4>1, <4>2
    <3> QED BY <2>1, <2>2, <3>1, <3>2 DEF ExcusedIn
  <2> QED BY <1>1, <2>5, <2>6 DEF WatchInv, UnwatchedExcused
<1>6. CASE Pick
  <2>1. /\ UNCHANGED <<docker, job>>
        /\ \A m \in Node : loop'.readings[m] \in {Absent, loop.readings[m]}
    BY <1>6 DEF Pick, loopRest, idle_loop, Nothing
  <2>2. history'.unwatched = history.unwatched
    BY <1>1, <1>6 DEF Pick, Passed, TypeInv, TypeOK, History
  <2>3. CASE UNCHANGED actorVars
    BY <1>1, <2>1, <2>2, <2>3, QuietWatch DEF actorVars
  <2>4. ASSUME NEW n \in Node, NodeStartRequested(n) PROVE WatchInv'
    <3>1. containers'[n] # Absent
      BY <1>1, <2>4, RequestReads
    <3> QED BY <1>1, <2>1, <2>2, <2>4, <3>1, RequestWatch DEF WatchInv
  <2> QED BY <1>6, <2>3, <2>4
         DEF Pick, Restart, Request_restart, oldest, candidates, actorVars
<1> QED BY <1>3, <1>4, <1>5, <1>6 DEF LoopStep

\* Every step keeps the invariant.
LEMMA WatchStep == WatchInv /\ [Next]_vars => WatchInv'
<1> SUFFICES ASSUME WatchInv, [Next]_vars PROVE WatchInv'
  OBVIOUS
<1>1. TypeInv /\ TypeInv'
  BY TypeStep DEF WatchInv
<1>2. CASE UNCHANGED vars
  <2>1. UNCHANGED <<containers, docker, job, loop, history>>
    BY <1>2 DEF vars, actorVars, external
  <2> QED BY <1>1, <2>1, QuietWatch
<1>3. CASE Tick
  <2>1. UNCHANGED <<containers, docker, job, loop>> /\ history'.unwatched = history.unwatched
    BY <1>1, <1>3 DEF Tick, actorVars, external, TypeInv, TypeOK, History
  <2> QED BY <1>1, <2>1, QuietWatch
<1>4. CASE \E n \in Node : JobStep(n)
  BY <1>4, JobWatch
<1> QED BY <1>2, <1>3, <1>4, UserWatch, DockerWatch, LoopWatch DEF Next

(***************************************************************************)
(* A container that went down while the daemon could not see Docker is     *)
(* never shown as crashed (settle_interruption, condition).                *)
(***************************************************************************)
THEOREM NoFalseCrash == Spec => []UnwatchedIsNoCrash
<1>1. Spec => []WatchInv
  BY InitWatch, WatchStep, PTL DEF Spec
<1>2. WatchInv => UnwatchedIsNoCrash
  <2> SUFFICES ASSUME WatchInv, NEW n \in history.unwatched, containers[n] # Absent
               PROVE  condition(containers[n]) # "crashed"
    BY DEF UnwatchedIsNoCrash
  <2>1. n \in Node /\ Excused(containers[n].observed)
    BY UnwatchedNodes DEF WatchInv, UnwatchedExcused, ExcusedIn
  <2>2. containers[n] \in ContainerInfo
    BY <2>1 DEF WatchInv, TypeInv, TypeOK, WorkspaceTypeOK, Entry
  <2> QED BY <2>1, <2>2
         DEF condition, Excused, is_up, ContainerInfo, ContainerObserved, Status, ExitCode
<1> QED BY <1>1, <1>2, PTL

-----------------------------------------------------------------------------
(* A node that keeps failing does not hold up the rest. *)

(***************************************************************************)
(* OldestFirst is not inductive: the healer must still know that m had its *)
(* turn when it picks again.  It does, and m waits for n: either it has    *)
(* given up on m, or it never tried n, or it tried n before m.             *)
(***************************************************************************)
Waits(n, m) ==
  /\ tries[m] # NoTries
  /\ tries[m].given_up \/ tries[n] = NoTries \/ <<n, m>> \in before

TurnTaken ==
  \A n, m \in Node : history.passed[n][m] # 0 => history.passed[n][m] = 1 /\ Waits(n, m)

TurnInv == TypeInv /\ TurnTaken

\* It holds at first: nobody has been passed over.
LEMMA InitTurn == Init => TurnInv
<1> SUFFICES ASSUME Init PROVE TurnInv
  OBVIOUS
<1>1. history.passed = never_passed
  BY DEF Init
<1> QED BY <1>1, InitType DEF TurnInv, TurnTaken, never_passed

\* Whatever leaves the healer alone keeps the invariant.
LEMMA QuietTurn ==
  ASSUME TurnInv, TypeInv', UNCHANGED <<tries, before>>, history'.passed = history.passed
  PROVE  TurnInv'
BY DEF TurnInv, TurnTaken, Waits

\* So does the passing of time: no try is forgotten for being long ago.
LEMMA TickTurn == TurnInv /\ Tick => TurnInv'
<1> SUFFICES ASSUME TurnInv, Tick PROVE TurnInv'
  OBVIOUS
<1>1. TypeInv /\ TypeInv'
  BY TickType DEF TurnInv
<1>2. Horizon \in Nat
  BY DelayAssumption DEF Horizon
<1>3. before' = before /\ history'.passed = history.passed
  BY <1>1 DEF Tick, TypeInv, TypeOK, History
<1>4. ASSUME NEW t \in Tries, t # NoTries
      PROVE  /\ [t EXCEPT !.age = Older(@)] # NoTries
             /\ [t EXCEPT !.age = Older(@)].given_up = t.given_up
  <2>1. t.age # 0 => Older(t.age) # 0
    BY <1>2 DEF Older, Tries
  <2>2. t.count # 0 \/ t.age # 0 \/ t.given_up # FALSE
    BY <1>4 DEF Tries, NoTries
  <2> QED BY <2>1, <2>2 DEF Tries, NoTries
<1>5. ASSUME NEW m \in Node
      PROVE  /\ tries[m] = NoTries => tries'[m] = NoTries
             /\ tries[m] # NoTries =>
                  tries'[m] # NoTries /\ tries'[m].given_up = tries[m].given_up
  BY <1>1, <1>4 DEF Tick, TypeInv, TypeOK
<1> QED BY <1>1, <1>3, <1>5 DEF TurnInv, TurnTaken, Waits

\* What is remembered of the tries is as it was (Healer::pick's retain).
LEMMA RetainedKeeps ==
  ASSUME NEW m \in Node
  PROVE  retained[m] = tries[m] \/ retained[m] = NoTries
BY DEF retained

\* The healer prefers a node it remembers only to nodes that have had their turn since
\* (Healer::pick's min_by_key).
LEMMA PreferredOnce ==
  ASSUME TurnInv, NEW k \in oldest, NEW n \in candidates, retained[k] # NoTries
  PROVE  history.passed[n][k] = 0
<1>1. k \in Node /\ n \in Node /\ ~retained[k].given_up
  BY DEF oldest, candidates
<1>2. retained[n] # NoTries /\ <<n, k>> \notin before
  BY DEF oldest
<1>3. tries[k] = retained[k] /\ tries[n] = retained[n]
  BY <1>1, <1>2, RetainedKeeps
<1> QED BY <1>1, <1>2, <1>3 DEF TurnInv, TurnTaken, Waits

\* What the healer knows of its tries once it has picked k.
LEMMA RestartTries ==
  ASSUME TypeInv, NEW k \in Node, Restart(k)
  PROVE  /\ tries'[k] # NoTries
         /\ \A m \in Node \ {k} : tries'[m] = retained[m]
         /\ \A n \in remembered \ {k} : tries'[k].given_up \/ <<n, k>> \in before'
         /\ \A p \in kept : p[1] # k /\ p[2] # k => p \in before'
<1>1. retained \in [Node -> Tries]
  BY RetainedType
<1>2. kept \subseteq Node \X Node
  BY DEF kept, remembered
<1>3. CASE retained[k].count >= MAX_ATTEMPTS
  <2>1. tries' = [retained EXCEPT ![k] = [@ EXCEPT !.given_up = TRUE]] /\ before' = kept
    BY <1>3 DEF Restart
  <2>2. tries'[k].given_up
    BY <1>1, <2>1 DEF Tries
  <2> QED BY <1>1, <2>1, <2>2 DEF NoTries
<1>4. CASE ~(retained[k].count >= MAX_ATTEMPTS)
  <2>1. /\ tries' = [retained EXCEPT ![k] = [count |-> @.count + 1, age |-> 0, given_up |-> FALSE]]
        /\ before' = moved_last(k)
    BY <1>4 DEF Restart
  <2>2. retained[k].count + 1 # 0
    BY <1>1 DEF Tries
  <2>3. tries'[k] # NoTries
    BY <1>1, <2>1, <2>2 DEF NoTries
  <2>4. \A n \in remembered \ {k} : <<n, k>> \in before'
    BY <2>1 DEF moved_last
  <2>5. \A p \in kept : p[1] # k /\ p[2] # k => p \in before'
    BY <1>2, <2>1 DEF moved_last
  <2> QED BY <1>1, <2>1, <2>3, <2>4, <2>5
<1> QED BY <1>3, <1>4

\* A pick keeps the invariant.
LEMMA PickedTurn ==
  ASSUME TurnInv, TypeInv', NEW k \in oldest, Restart(k), history' = Passed(k)
  PROVE  TurnInv'
<1>1. k \in Node /\ TypeInv
  BY DEF oldest, candidates, TurnInv
<1>2. history'.passed = passed_over(k)
  BY <1>1 DEF Passed, TypeInv, TypeOK, History
<1> SUFFICES ASSUME NEW n \in Node, NEW m \in Node, history'.passed[n][m] # 0
             PROVE  history'.passed[n][m] = 1 /\ Waits(n, m)'
  BY DEF TurnInv, TurnTaken
<1>3. /\ n \in candidates /\ n # k
      /\ history'.passed[n][m] = (IF retained[m] = NoTries THEN 0 ELSE history.passed[n][m])
                                   + (IF m = k THEN 1 ELSE 0)
  BY <1>2 DEF passed_over
<1>4. history.passed[n][m] \in Nat
  BY <1>1 DEF TypeInv, TypeOK, History
<1>5. retained[n] = NoTries => tries'[n] = NoTries
  BY <1>1, <1>3, RestartTries
<1>6. CASE m = k
  <2>1. history'.passed[n][k] = 1
    BY <1>3, <1>4, <1>6, PreferredOnce
  <2>2. tries'[k] # NoTries
    BY <1>1, RestartTries
  <2>3. retained[n] # NoTries => tries'[k].given_up \/ <<n, k>> \in before'
    BY <1>1, <1>3, RestartTries DEF remembered
  <2> QED BY <1>5, <1>6, <2>1, <2>2, <2>3 DEF Waits
<1>7. CASE m # k
  <2>1. retained[m] # NoTries /\ history'.passed[n][m] = history.passed[n][m]
    BY <1>3, <1>4, <1>7
  <2>2. history.passed[n][m] = 1 /\ Waits(n, m)
    BY <2>1 DEF TurnInv, TurnTaken
  <2>3. tries'[m] = retained[m] /\ tries[m] = retained[m] /\ tries'[n] = retained[n]
    BY <1>1, <1>3, <1>7, <2>1, RestartTries, RetainedKeeps
  <2>4. CASE tries[m].given_up \/ retained[n] = NoTries
    BY <1>5, <2>1, <2>2, <2>3, <2>4 DEF Waits
  <2>5. CASE ~tries[m].given_up /\ retained[n] # NoTries
    <3>1. <<n, m>> \in kept
      BY <2>1, <2>2, <2>3, <2>5, RetainedKeeps DEF Waits, kept, remembered
    <3>2. <<n, m>> \in before'
      BY <1>1, <1>3, <1>7, <3>1, RestartTries
    <3> QED BY <2>1, <2>2, <2>3, <3>2 DEF Waits
  <2> QED BY <2>4, <2>5
<1> QED BY <1>6, <1>7

\* The reconciler's loop keeps the invariant.
LEMMA LoopTurn == TurnInv /\ LoopStep => TurnInv'
<1> SUFFICES ASSUME TurnInv, LoopStep PROVE TurnInv'
  OBVIOUS
<1>1. TypeInv /\ TypeInv'
  BY LoopType DEF TurnInv
<1>2. CASE UNCHANGED <<tries, before, history>>
  BY <1>1, <1>2, QuietTurn
<1>3. CASE history' = [history EXCEPT !.passed = never_passed]
  <2>1. history'.passed = never_passed
    BY <1>1, <1>3 DEF TypeInv, TypeOK, History
  <2> QED BY <1>1, <2>1 DEF TurnInv, TurnTaken, never_passed
<1>4. CASE \E k \in oldest : Restart(k) /\ history' = Passed(k)
  BY <1>1, <1>4, PickedTurn
<1> QED BY <1>2, <1>3, <1>4 DEF LoopStep, Snapshot, List, Report, Check, Restore, Pick

\* Every step keeps the invariant: only the loop and the clock touch the healer.
LEMMA TurnStep == TurnInv /\ [Next]_vars => TurnInv'
<1> SUFFICES ASSUME TurnInv, [Next]_vars PROVE TurnInv'
  OBVIOUS
<1>1. TypeInv /\ TypeInv'
  BY TypeStep DEF TurnInv
<1>2. history \in History
  BY <1>1 DEF TypeInv, TypeOK
<1>3. CASE UNCHANGED vars
  BY <1>1, <1>3, QuietTurn DEF vars
<1>4. CASE UserStep
  <2>1. UNCHANGED <<tries, before>>
    BY <1>4 DEF UserStep, Switch, Start, Stop, Delete, Request
  <2>2. history'.passed = history.passed
    BY <1>2, <1>4 DEF UserStep, Switch, Start, Stop, Delete, Forgotten, History
  <2> QED BY <1>1, <2>1, <2>2, QuietTurn
<1>5. ASSUME NEW n, NEW status, NEW fresh, DockerBecomes(n, status, fresh)
      PROVE  history'.passed = history.passed
  BY <1>2, <1>5 DEF DockerBecomes, History
<1>6. CASE DockerStep
  <2>1. UNCHANGED <<tries, before>>
    BY <1>6 DEF DockerStep, SidecarDies, EngineAway, EngineBack, Dies, Removed, Mishap
  <2>2. history'.passed = history.passed
    <3>1. ASSUME NEW n \in Node, Dies(n) PROVE history'.passed = history.passed
      BY <1>2, <3>1 DEF Dies, History
    <3> QED BY <1>5, <1>6, <3>1 DEF DockerStep, SidecarDies, EngineAway, EngineBack, Removed
  <2> QED BY <1>1, <2>1, <2>2, QuietTurn
<1>7. ASSUME NEW n \in Node, JobStep(n) PROVE TurnInv'
  <2>1. UNCHANGED <<tries, before>>
    BY <1>7 DEF JobStep, JobSpawn, JobCalledOff, JobWork, JobSettle, jobRest
  <2>2. history'.passed = history.passed
    <3>1. CASE JobSettle(n)
      BY <1>2, <3>1 DEF JobSettle, History
    <3>2. CASE JobWork(n)
      BY <1>5, <3>2 DEF JobWork
    <3> QED BY <1>5, <1>7, <3>1, <3>2 DEF JobStep, JobSpawn, JobCalledOff
  <2> QED BY <1>1, <2>1, <2>2, QuietTurn
<1> QED BY <1>3, <1>4, <1>6, <1>7, TickTurn, LoopTurn DEF Next

(***************************************************************************)
(* Among any number of nodes that are down, the healer prefers each other  *)
(* one at most once to a node it could restart (Healer::pick).             *)
(***************************************************************************)
THEOREM NobodyHoldsUpTheRest == Spec => []OldestFirst
<1>1. Spec => []TurnInv
  BY InitTurn, TurnStep, PTL DEF Spec
<1>2. TurnInv => OldestFirst
  <2>1. TurnInv => \A n, m \in Node : history.passed[n][m] \in {0, 1}
    BY DEF TurnInv, TurnTaken
  <2> QED BY <2>1 DEF OldestFirst
<1> QED BY <1>1, <1>2, PTL

=============================================================================
