--------------------------- MODULE ConvergeProofs ---------------------------
(***************************************************************************)
(* Proofs about Converge, for every set of nodes, flows, requirements and  *)
(* job slots and any number of requests.                                   *)
(***************************************************************************)
EXTENDS Converge, FiniteSetTheorems, TLAPS

-----------------------------------------------------------------------------
(* The reducer's Actions keep the types of the environment.                *)

\* The placeholder of a start is a container entry (starting_placeholder).
LEMMA PlaceholderType == starting_placeholder \in ContainerInfo
BY DEF starting_placeholder, ContainerInfo, ContainerObserved, DefaultObserved, Status,
       ExitCode, Mark, PendingAction

\* Writing the mark, the intent or the debug switch of an entry keeps its type.
LEMMA MarkType ==
  ASSUME NEW c \in ContainerInfo, NEW m \in Mark, NEW r \in BOOLEAN, NEW w \in BOOLEAN
  PROVE  /\ [c EXCEPT !.pending = m] \in ContainerInfo
         /\ [c EXCEPT !.running = r, !.pending = m] \in ContainerInfo
         /\ [c EXCEPT !.debug_wait = w, !.running = r, !.pending = m] \in ContainerInfo
BY DEF ContainerInfo

\* The requests keep the types of the environment (reducer/env.rs).
LEMMA NodeRequestTypes ==
  ASSUME WorkspaceTypeOK, NEW n \in Node, NEW wait \in BOOLEAN,
         \/ NodeStartRequested(n)
         \/ NodeDebugWaitRequested(n, wait)
         \/ NodeStopRequested(n)
         \/ NodeDeleteRequested(n)
  PROVE  WorkspaceTypeOK'
<1>1. "starting" \in Mark /\ "stopping" \in Mark /\ "removing" \in Mark
  BY DEF Mark, PendingAction
<1>2. \A m \in Node : containers[m] # Absent => containers[m] \in ContainerInfo
  BY DEF WorkspaceTypeOK, Entry
<1>4. CASE NodeStartRequested(n)
  <2>1. containers[n] # Absent =>
          [containers[n] EXCEPT !.running = TRUE, !.pending = "starting"] \in ContainerInfo
    BY <1>1, <1>2, MarkType
  <2> QED BY <1>4, <2>1, PlaceholderType DEF NodeStartRequested, WorkspaceTypeOK, EnvSpec, Entry
<1>5. CASE NodeDebugWaitRequested(n, wait)
  <2>1. [containers[n] EXCEPT !.debug_wait = wait, !.running = TRUE, !.pending = "starting"]
          \in ContainerInfo
    BY <1>1, <1>2, <1>5, MarkType DEF NodeDebugWaitRequested
  <2> QED BY <1>5, <2>1 DEF NodeDebugWaitRequested, WorkspaceTypeOK, Entry
<1>6. ASSUME NEW a \in {"stopping", "removing"}, NEW r \in BOOLEAN, set_pending(n, a, r)
      PROVE  WorkspaceTypeOK'
  <2>1. [containers[n] EXCEPT !.running = r, !.pending = a] \in ContainerInfo
    BY <1>1, <1>2, <1>6, MarkType DEF set_pending
  <2> QED BY <1>6, <2>1 DEF set_pending, WorkspaceTypeOK, Entry
<1>7. CASE NodeStopRequested(n)
  BY <1>6, <1>7 DEF NodeStopRequested
<1>8. CASE NodeDeleteRequested(n)
  <2>1. containers[n].running \in BOOLEAN
    BY <1>2, <1>8 DEF NodeDeleteRequested, set_pending, ContainerInfo
  <2> QED BY <1>6, <1>8, <2>1 DEF NodeDeleteRequested
<1> QED BY <1>4, <1>5, <1>7, <1>8

\* The reports keep the types of the environment (reducer/observation.rs).
LEMMA SettledTypes ==
  ASSUME WorkspaceTypeOK, NEW n, NEW of, NEW result \in Entry \cup {Failed},
         ContainerActionSettled(n, of, result)
  PROVE  WorkspaceTypeOK'
<1>1. "none" \in Mark
  BY DEF Mark
<1>2. result \in ContainerInfo => [result EXCEPT !.pending = "none"] \in ContainerInfo
  BY <1>1, MarkType
<1>3. n \in Node /\ containers[n] # Absent =>
        [containers[n] EXCEPT !.pending = "none"] \in ContainerInfo
  BY <1>1, MarkType DEF WorkspaceTypeOK, Entry
<1> QED BY <1>2, <1>3 DEF ContainerActionSettled, WorkspaceTypeOK, Entry

LEMMA CreateSettledTypes ==
  ASSUME WorkspaceTypeOK, NEW result \in [Node -> Entry] \cup {Failed}, EnvCreateSettled(result)
  PROVE  WorkspaceTypeOK'
<1>1. ASSUME NEW cs \in [Node -> Entry] PROVE clear_create_marks(cs) \in [Node -> Entry]
  <2>1. ASSUME NEW m \in Node, cs[m] # Absent
        PROVE [cs[m] EXCEPT !.pending = "none"] \in ContainerInfo
    <3>1. "none" \in Mark
      BY DEF Mark
    <3> QED BY <2>1, <3>1, MarkType DEF Entry
  <2> QED BY <2>1 DEF clear_create_marks, Entry
<1> QED BY <1>1, EntryAssumption DEF EnvCreateSettled, WorkspaceTypeOK

LEMMA ProgressTypes ==
  ASSUME WorkspaceTypeOK, NEW n \in Node,
         \/ \E mark \in Mark : EnvCreateWorking(n, mark)
         \/ \E info \in ContainerInfo : EnvCreateProgress(n, info)
  PROVE  WorkspaceTypeOK'
<1>1. "none" \in Mark
  BY DEF Mark
<1>2. CASE \E mark \in Mark : EnvCreateWorking(n, mark)
  <2>1. PICK mark \in Mark : EnvCreateWorking(n, mark)
    BY <1>2
  <2>2. containers[n] # Absent =>
          /\ [containers[n] EXCEPT !.pending = mark] \in ContainerInfo
          /\ [containers[n] EXCEPT !.pending = "none"] \in ContainerInfo
    BY <1>1, MarkType DEF WorkspaceTypeOK, Entry
  <2> QED BY <2>1, <2>2, PlaceholderType DEF EnvCreateWorking, WorkspaceTypeOK, Entry
<1>3. CASE \E info \in ContainerInfo : EnvCreateProgress(n, info)
  <2>1. PICK info \in ContainerInfo : EnvCreateProgress(n, info)
    BY <1>3
  <2>2. [info EXCEPT !.pending = "none"] \in ContainerInfo
    BY <1>1, MarkType
  <2> QED BY <2>1, <2>2 DEF EnvCreateProgress, WorkspaceTypeOK, Entry
<1> QED BY <1>2, <1>3

\* A service that was just started is a container entry (start_node's result).
LEMMA UpType == Up \in ContainerInfo
BY DEF Up, ContainerInfo, ContainerObserved, DefaultObserved, Status, ExitCode, Mark,
       PendingAction

-----------------------------------------------------------------------------
(* Types of the effect and of its jobs. *)

(***************************************************************************)
(* TypeOK is not inductive: a job that restarts or stops a container needs *)
(* an entry for it in its own copy of the environment, so that what it     *)
(* reports is an entry again.  bring_up and perform check for the entry    *)
(* before they take the lock.                                              *)
(***************************************************************************)
JobOK(job) ==
  /\ job.kind \in PendingAction => job.of \in Node
  /\ job.kind = "create" => job.of \in EnvSpec
  /\ job.pc \in {"lock", "work"} =>
       /\ job.todo # <<>>
       /\ job.act \in {"restarting", "stopping"} => job.run[Head(job.todo).node] # Absent
  /\ \A i \in 1..Len(job.todo) :
       job.todo[i].op = "stop" => job.run[job.todo[i].node] # Absent

TypeInv ==
  /\ TypeOK
  /\ \A j \in JobId : JobOK(jobs[j])
  /\ phase = "spawn" => \A n \in spawn : snap.pending[n] # "none"

\* An unused slot is a job, and nothing is left to do in it.
LEMMA IdleJobType == idle_job \in Job /\ JobOK(idle_job)
<1>1. idle_job \in Job
  BY DEF idle_job, Job, JobKind, JobPc, Mark, PendingAction, EnvSpec, Entry, Task, Report
<1>2. JobOK(idle_job)
  BY DEF JobOK, idle_job, PendingAction
<1> QED BY <1>1, <1>2

\* Replacing one job by a well-formed one keeps all of them well-formed.
LEMMA SetType ==
  ASSUME TypeInv, NEW j \in JobId, NEW job \in Job, JobOK(job), Set(j, job)
  PROVE  jobs' \in [JobId -> Job] /\ \A k \in JobId : JobOK(jobs'[k])
BY DEF Set, TypeInv, TypeOK

\* What is left after the first element of a task list (Skip).
LEMMA TailTodo ==
  ASSUME NEW job \in Job, JobOK(job), job.todo # <<>>
  PROVE  /\ Head(job.todo) \in Task
         /\ Tail(job.todo) \in Seq(Task)
         /\ \A i \in 1..Len(Tail(job.todo)) :
              Tail(job.todo)[i].op = "stop" => job.run[Tail(job.todo)[i].node] # Absent
<1>1. job.todo \in Seq(Task)
  BY DEF Job
<1>2. \A i \in 1..Len(Tail(job.todo)) : Tail(job.todo)[i] = job.todo[i+1] /\ i + 1 \in 1..Len(job.todo)
  BY <1>1
<1> QED BY <1>1, <1>2 DEF JobOK

\* The initial states are typed.
LEMMA InitType == Init => TypeInv
<1> SUFFICES ASSUME Init PROVE TypeInv
  OBVIOUS
<1>1. WorkspaceTypeOK
  BY UpType DEF Init, WorkspaceInit, WorkspaceTypeOK, Entry
<1>2. docker \in [Node -> DockerStatus]
  BY DEF Init, DockerStatus
<1>3. in_flight \in [Node -> [action : Mark, job : JobId \cup {NoJob}]]
  BY DEF Init, NotInFlight, Mark
<1>4. jobs \in [JobId -> Job] /\ \A j \in JobId : JobOK(jobs[j])
  BY IdleJobType DEF Init
<1> QED BY <1>1, <1>2, <1>3, <1>4 DEF Init, TypeInv, TypeOK

\* The requests of the user keep the types (reducer/env.rs).
LEMMA UserType == TypeInv /\ UserStep => TypeInv'
<1> SUFFICES ASSUME TypeInv, UserStep PROVE TypeInv'
  OBVIOUS
<1>1. Request /\ WorkspaceTypeOK'
  <2>1. WorkspaceTypeOK
    BY DEF TypeInv, TypeOK
  <2>2. CASE \E plan \in Flow : Plan(plan)
    BY <2>1, <2>2 DEF Plan, EnvPlanned, WorkspaceTypeOK, EnvSpec
  <2>3. CASE \E n \in Node : Start(n) \/ Stop(n) \/ Delete(n)
    <3>1. PICK n \in Node : Start(n) \/ Stop(n) \/ Delete(n)
      BY <2>3
    <3> QED BY <2>1, <3>1, NodeRequestTypes DEF Start, Stop, Delete
  <2>4. CASE \E n \in Node, wait \in BOOLEAN : DebugWait(n, wait)
    <3>1. PICK n \in Node, wait \in BOOLEAN : DebugWait(n, wait)
      BY <2>4
    <3> QED BY <2>1, <3>1, NodeRequestTypes DEF DebugWait
  <2> QED BY <2>2, <2>3, <2>4 DEF UserStep
<1> QED BY <1>1, BoundAssumption DEF Request, effectVars, TypeInv, TypeOK

\* What the effect extracts is a snapshot.
LEMMA ExtractType == TypeInv => extract \in ConvergeSnapshot
<1> SUFFICES ASSUME TypeInv PROVE extract \in ConvergeSnapshot
  OBVIOUS
<1>1. \A n \in Node : MarkOf(n) \in Mark
  BY DEF TypeInv, TypeOK, WorkspaceTypeOK, Entry, ContainerInfo, MarkOf, MarkIn, Mark
<1>2. "none" \in Mark
  BY DEF Mark
<1> QED BY <1>1, <1>2 DEF extract, ConvergeSnapshot, TypeInv, TypeOK, WorkspaceTypeOK

\* A dropped task is still a job: its queue and its drain's count are kept.
LEMMA DroppedType ==
  ASSUME NEW job \in Job, JobOK(job) PROVE Dropped(job) \in Job /\ JobOK(Dropped(job))
<1>1. Dropped(job) \in Job
  <2>1. /\ "settle" \in JobPc /\ "none" \in Mark
        /\ [n \in Node |-> Absent] \in [Node -> Entry]
        /\ <<>> \in Seq(Task) /\ <<>> \in Seq(Node)
    BY DEF JobPc, Mark, Entry
  <2> QED BY <2>1 DEF Dropped, Job
<1>2. /\ Dropped(job).pc = "settle" /\ Dropped(job).todo = <<>>
      /\ Dropped(job).kind = job.kind /\ Dropped(job).of = job.of
  BY DEF Dropped, Job
<1> QED BY <1>1, <1>2 DEF JobOK

\* A free slot is one of the slots, and it is unused.
LEMMA FreeJobSlot == HasFreeSlot => FreeJob \in JobId /\ FreeSlot(FreeJob)
BY DEF HasFreeSlot, FreeJob

\* A task that was just spawned is a job (spawn_action, spawn_create).
LEMMA SpawnedType ==
  ASSUME TypeInv, NEW kind \in JobKind, NEW of \in EnvSpec, kind = "create" \/ of \in Node
  PROVE  LET job == [idle_job EXCEPT !.kind = kind, !.of = of, !.pc = "resolve", !.run = containers]
         IN job \in Job /\ JobOK(job)
<1> DEFINE job == [idle_job EXCEPT !.kind = kind, !.of = of, !.pc = "resolve", !.run = containers]
<1>1. job \in Job
  <2>1. "resolve" \in JobPc /\ containers \in [Node -> Entry]
    BY DEF JobPc, TypeInv, TypeOK, WorkspaceTypeOK
  <2> QED BY <2>1, IdleJobType DEF Job
<1>2. job.pc = "resolve" /\ job.todo = <<>> /\ job.kind = kind /\ job.of = of
  BY DEF idle_job
<1> QED BY <1>1, <1>2 DEF JobOK, PendingAction

\* The effect's steps keep the types (run_effect, converge).
LEMMA EffectType == TypeInv /\ EffectStep => TypeInv'
<1> SUFFICES ASSUME TypeInv, EffectStep PROVE TypeInv'
  OBVIOUS
<1>0. /\ jobs \in [JobId -> Job] /\ \A j \in JobId : JobOK(jobs[j])
      /\ UNCHANGED actorVars => WorkspaceTypeOK'
  BY DEF TypeInv, TypeOK, actorVars, WorkspaceTypeOK
<1>1. CASE ConvergeExtract
  <2>1. extract \in ConvergeSnapshot
    BY ExtractType
  <2> QED BY <1>0, <1>1, <2>1, SnapshotAssumption DEF ConvergeExtract, TypeInv, TypeOK
<1>2. CASE ConvergePlan
  <2>1. \A j \in JobId : Dropped(jobs[j]) \in Job /\ JobOK(Dropped(jobs[j]))
    BY <1>0, DroppedType
  <2>2. jobs' \in [JobId -> Job] /\ \A j \in JobId : JobOK(jobs'[j])
    BY <1>0, <1>2, <2>1 DEF ConvergePlan
  <2>3. lock' \in [Node -> JobId \cup {NoJob}] /\ docker' \in [Node -> DockerStatus]
    BY <1>2 DEF ConvergePlan, TypeInv, TypeOK
  <2>4. in_flight' \in [Node -> [action : Mark, job : JobId \cup {NoJob}]]
    <3>1. NotInFlight \in [action : Mark, job : JobId \cup {NoJob}]
      BY DEF NotInFlight, Mark
    <3> QED BY <1>2, <3>1 DEF ConvergePlan, TypeInv, TypeOK
  <2>5. spawn' \subseteq Node /\ \A n \in spawn' : snap.pending[n] # "none"
    BY <1>2 DEF ConvergePlan, plan_spawn, without_progress
  <2> QED BY <1>0, <1>2, <2>2, <2>3, <2>4, <2>5 DEF ConvergePlan, TypeInv, TypeOK
<1>3. ASSUME NEW n \in Node, spawn_action(n) PROVE TypeInv'
  <2>1. snap \in ConvergeSnapshot /\ snap.pending[n] \in Mark
    BY <1>3 DEF spawn_action, TypeInv, TypeOK, ConvergeSnapshot
  <2>2. FreeJob \in JobId
    BY <1>3, FreeJobSlot DEF spawn_action
  <2> DEFINE job == [idle_job EXCEPT !.kind = snap.pending[n], !.of = n, !.pc = "resolve",
                                     !.run = containers]
  <2>3. snap.pending[n] = "none" \/ (job \in Job /\ JobOK(job))
    BY <2>1, SpawnedType DEF Mark, JobKind, EnvSpec
  <2>4. snap.pending[n] # "none"
    BY <1>3 DEF spawn_action, TypeInv, TypeOK
  <2>5. jobs' \in [JobId -> Job] /\ \A k \in JobId : JobOK(jobs'[k])
    BY <1>3, <2>2, <2>3, <2>4, SetType DEF spawn_action, Set
  <2>6. in_flight' \in [Node -> [action : Mark, job : JobId \cup {NoJob}]]
    BY <1>3, <2>1, <2>2 DEF spawn_action, TypeInv, TypeOK
  <2> QED BY <1>0, <1>3, <2>5, <2>6 DEF spawn_action, TypeInv, TypeOK
<1>4. CASE ConvergeCreate
  <2>1. snap \in ConvergeSnapshot
    BY <1>4 DEF ConvergeCreate, TypeInv, TypeOK
  <2>2. CASE snap.create # NoCreate /\ ~create_in_flight
    <3>1. FreeJob \in JobId
      BY <1>4, <2>2, FreeJobSlot DEF ConvergeCreate
    <3>2. snap.create \in EnvSpec /\ "create" \in JobKind
      BY <2>1, <2>2 DEF ConvergeSnapshot, JobKind
    <3> DEFINE job == [idle_job EXCEPT !.kind = "create", !.of = snap.create, !.pc = "resolve",
                                       !.run = containers]
    <3>3. job \in Job /\ JobOK(job)
      BY <3>2, SpawnedType
    <3>4. Set(FreeJob, job)
      BY <1>4, <2>2 DEF ConvergeCreate, Set
    <3>5. jobs' \in [JobId -> Job] /\ \A k \in JobId : JobOK(jobs'[k])
      BY <3>1, <3>3, <3>4, SetType
    <3> QED BY <1>0, <1>4, <2>1, <3>5 DEF ConvergeCreate, TypeInv, TypeOK
  <2>3. CASE ~(snap.create # NoCreate /\ ~create_in_flight)
    BY <1>0, <1>4, <2>1, <2>3 DEF ConvergeCreate, TypeInv, TypeOK
  <2> QED BY <2>2, <2>3
<1> QED BY <1>1, <1>2, <1>3, <1>4 DEF EffectStep

\* Task lists made from a set of nodes are task lists (topological_start_order
\* and its reverse put a finite set of nodes in some order).
LEMMA OrderType ==
  ASSUME NEW T, T \subseteq Node, NEW op \in {"up", "stop", "remove"},
         NEW s \in StartOrders(T) \cup StopOrders(T)
  PROVE  /\ s \in Seq(T)
         /\ Tasks(s, op) \in Seq(Task)
         /\ Len(Tasks(s, op)) = Len(s)
         /\ \A i \in 1..Len(s) : Tasks(s, op)[i].node \in T /\ Tasks(s, op)[i].op = op
<1>1. Cardinality(T) \in Nat
  BY NodeAssumption, FS_Subset, FS_CardinalityType
<1> DEFINE k == Cardinality(T)
<1>2. s \in [1..k -> T]
  <2>1. CASE s \in StartOrders(T)
    BY <2>1 DEF StartOrders
  <2>2. CASE s \in StopOrders(T)
    <3>1. PICK t \in StartOrders(T) : s = [i \in 1..k |-> t[k + 1 - i]]
      BY <2>2 DEF StopOrders
    <3>2. t \in [1..k -> T]
      BY DEF StartOrders
    <3>3. \A i \in 1..k : k + 1 - i \in 1..k
      BY <1>1
    <3> QED BY <3>1, <3>2, <3>3
  <2> QED BY <2>1, <2>2
<1>3. s \in Seq(T) /\ Len(s) = k /\ DOMAIN s = 1..k
  BY <1>1, <1>2
<1>4. \A i \in 1..k : [node |-> s[i], op |-> op] \in Task
  BY <1>2 DEF Task
<1>5. Tasks(s, op) \in [1..k -> Task]
  BY <1>3, <1>4 DEF Tasks
<1>6. Tasks(s, op) \in Seq(Task) /\ Len(Tasks(s, op)) = k
  BY <1>1, <1>5
<1>7. \A i \in 1..k : Tasks(s, op)[i].node = s[i] /\ Tasks(s, op)[i].op = op
  BY <1>3 DEF Tasks
<1> QED BY <1>2, <1>3, <1>6, <1>7

\* A job that leaves `resolve' has a well-formed task list.
LEMMA ResolvedType ==
  ASSUME NEW job \in Job, JobOK(job), NEW todo \in Seq(Task),
         \A i \in 1..Len(todo) : todo[i].op = "stop" => job.run[todo[i].node] # Absent
  PROVE  LET new == [job EXCEPT !.pc = "loop", !.built = TRUE, !.todo = todo]
         IN new \in Job /\ JobOK(new)
<1> DEFINE new == [job EXCEPT !.pc = "loop", !.built = TRUE, !.todo = todo]
<1>1. "loop" \in JobPc
  BY DEF JobPc
<1>2. /\ new \in Job /\ new.pc = "loop" /\ new.todo = todo /\ new.run = job.run
      /\ new.kind = job.kind /\ new.of = job.of
  BY <1>1 DEF Job
<1> QED BY <1>2 DEF JobOK

\* A job whose work is over keeps its type whatever it goes on to.
LEMMA PcType ==
  ASSUME NEW job \in Job, JobOK(job), NEW pc \in {"drain", "cascade", "settle", "over", "loop"}
  PROVE  [job EXCEPT !.pc = pc] \in Job /\ JobOK([job EXCEPT !.pc = pc])
<1>1. pc \in JobPc /\ pc \notin {"lock", "work"}
  BY DEF JobPc
<1>2. /\ [job EXCEPT !.pc = pc] \in Job
      /\ [job EXCEPT !.pc = pc].pc = pc
      /\ [job EXCEPT !.pc = pc].todo = job.todo
      /\ [job EXCEPT !.pc = pc].run = job.run
      /\ [job EXCEPT !.pc = pc].kind = job.kind
      /\ [job EXCEPT !.pc = pc].of = job.of
  BY <1>1 DEF Job
<1> QED BY <1>1, <1>2 DEF JobOK

\* A job's own steps leave the actor and the effect alone, so only jobs, lock
\* and docker are to be checked.
LEMMA JobRest ==
  ASSUME TypeInv, UNCHANGED jobRest,
         jobs' \in [JobId -> Job], \A k \in JobId : JobOK(jobs'[k]),
         lock' \in [Node -> JobId \cup {NoJob}], docker' \in [Node -> DockerStatus]
  PROVE  TypeInv'
BY DEF jobRest, actorVars, effectVars, TypeInv, TypeOK, WorkspaceTypeOK

\* Resolving the graph gives a job its task list (perform, bring_up).
LEMMA ResolveType == ASSUME TypeInv, NEW j \in JobId, Resolve(j) PROVE TypeInv'
<1> DEFINE job == jobs[j]
<1> DEFINE n == job.of
<1>0. job \in Job /\ JobOK(job)
  BY DEF TypeInv, TypeOK
<1>1. \A run : \A m \in Node :
        /\ requirements_of(m) \subseteq Node
        /\ restart_targets(m, run) \subseteq Node
        /\ stop_targets(m, run) \subseteq Node
        /\ \A d \in stop_targets(m, run) : run[d] # Absent
  BY DEF requirements_of, dependents_of, closure, restart_targets, stop_targets, RunsIn
<1>2. ASSUME NEW todo \in Seq(Task),
             \A i \in 1..Len(todo) : todo[i].op = "stop" => job.run[todo[i].node] # Absent,
             Set(j, [job EXCEPT !.pc = "loop", !.built = TRUE, !.todo = todo])
      PROVE  TypeInv'
  <2> DEFINE new == [job EXCEPT !.pc = "loop", !.built = TRUE, !.todo = todo]
  <2>1. new \in Job /\ JobOK(new)
    BY <1>0, <1>2, ResolvedType
  <2>2. jobs' \in [JobId -> Job] /\ \A k \in JobId : JobOK(jobs'[k])
    BY <1>2, <2>1, SetType
  <2> QED BY <2>2, JobRest DEF Resolve, TypeInv, TypeOK
<1>3. ASSUME NEW T, T \subseteq Node, NEW s \in StartOrders(T) \cup StopOrders(T),
             NEW op \in {"up", "stop"}, op = "stop" => \A m \in T : job.run[m] # Absent
      PROVE  /\ Tasks(s, op) \in Seq(Task)
             /\ \A i \in 1..Len(Tasks(s, op)) :
                  Tasks(s, op)[i].op = "stop" => job.run[Tasks(s, op)[i].node] # Absent
  <2>1. /\ Tasks(s, op) \in Seq(Task)
        /\ Len(Tasks(s, op)) = Len(s)
        /\ \A i \in 1..Len(s) : Tasks(s, op)[i].node \in T /\ Tasks(s, op)[i].op = op
    <3>1. op \in {"up", "stop", "remove"}
      OBVIOUS
    <3> QED BY <1>3, <3>1, OrderType
  <2> HIDE DEF job
  <2> QED BY <1>3, <2>1
<1>4. CASE job.kind = "starting" /\ \E s \in StartOrders(restart_targets(n, job.run)) :
             Set(j, [job EXCEPT !.pc = "loop", !.built = TRUE, !.todo = Tasks(s, "up")])
  <2>1. PICK s \in StartOrders(restart_targets(n, job.run)) :
             Set(j, [job EXCEPT !.pc = "loop", !.built = TRUE, !.todo = Tasks(s, "up")])
    BY <1>4
  <2>2. restart_targets(n, job.run) \subseteq Node
    BY <1>0, <1>1, <1>4 DEF JobOK, PendingAction
  <2>3. /\ Tasks(s, "up") \in Seq(Task)
        /\ \A i \in 1..Len(Tasks(s, "up")) :
             Tasks(s, "up")[i].op = "stop" => job.run[Tasks(s, "up")[i].node] # Absent
    BY <1>3, <2>2
  <2> QED BY <1>2, <2>1, <2>3
<1>5. CASE /\ job.kind = "create"
           /\ \E s \in StartOrders(create_targets(n)), t \in StopOrders(outside(n, job.run)) :
                Set(j, [job EXCEPT !.pc = "loop", !.built = TRUE,
                                   !.todo = Tasks(t, "stop") \o Tasks(s, "up")])
  <2>1. PICK s \in StartOrders(create_targets(n)), t \in StopOrders(outside(n, job.run)) :
                Set(j, [job EXCEPT !.pc = "loop", !.built = TRUE,
                                   !.todo = Tasks(t, "stop") \o Tasks(s, "up")])
    BY <1>5
  <2>2. create_targets(n) \subseteq Node
    <3>1. n \in Flow \/ n \in Node
      BY <1>0, <1>5 DEF JobOK, EnvSpec
    <3> QED BY <1>1, <3>1, FlowNodesAssumption DEF create_targets
  <2>3. outside(n, job.run) \subseteq Node /\ \A m \in outside(n, job.run) : job.run[m] # Absent
    BY DEF outside, RunsIn
  <2> DEFINE a == Tasks(t, "stop")
  <2> DEFINE b == Tasks(s, "up")
  <2>4. a \in Seq(Task) /\ \A i \in 1..Len(a) : a[i].op = "stop" => job.run[a[i].node] # Absent
    BY <1>3, <2>3
  <2>5. b \in Seq(Task) /\ \A i \in 1..Len(b) : b[i].op = "stop" => job.run[b[i].node] # Absent
    BY <1>3, <2>2
  <2> HIDE DEF a, b
  <2>6. /\ a \o b \in Seq(Task)
        /\ \A i \in 1..Len(a \o b) : (a \o b)[i].op = "stop" => job.run[(a \o b)[i].node] # Absent
    <3>1. a \o b \in Seq(Task) /\ Len(a \o b) = Len(a) + Len(b)
      BY <2>4, <2>5
    <3>2. \A i \in 1..Len(a \o b) : \/ i \in 1..Len(a) /\ (a \o b)[i] = a[i]
                                    \/ i - Len(a) \in 1..Len(b) /\ (a \o b)[i] = b[i - Len(a)]
      BY <2>4, <2>5
    <3> QED BY <2>4, <2>5, <3>1, <3>2
  <2> QED BY <1>2, <2>1, <2>6 DEF a, b
<1>6. CASE /\ job.kind = "stopping"
           /\ job.run[n] # Absent
           /\ \E T \in {stop_targets(n, job.run)} \cup Faulty("resolve", {{}}) :
              \E s \in StopOrders(T) :
                Set(j, [job EXCEPT !.pc = "loop", !.built = TRUE,
                                   !.todo = Tasks(Append(s, n), "stop")])
  <2>1. n \in Node
    BY <1>0, <1>6 DEF JobOK, PendingAction
  <2>2. PICK T, s : /\ T \subseteq Node /\ \A d \in T : job.run[d] # Absent
                    /\ s \in StopOrders(T)
                    /\ Set(j, [job EXCEPT !.pc = "loop", !.built = TRUE,
                                          !.todo = Tasks(Append(s, n), "stop")])
    BY <1>1, <1>6, <2>1 DEF Faulty
  <2>3. s \in Seq(T)
    BY <2>2, OrderType
  <2> DEFINE u == Append(s, n)
  <2>4. /\ u \in Seq(Node) /\ Len(u) \in Nat /\ DOMAIN u = 1..Len(u)
        /\ \A i \in 1..Len(u) : u[i] \in Node /\ job.run[u[i]] # Absent
    <3>1. s \in Seq(Node) /\ \A i \in 1..Len(s) : s[i] \in T
      BY <2>2, <2>3
    <3>2. u \in Seq(Node) /\ Len(u) = Len(s) + 1
      BY <2>1, <3>1
    <3>3. \A i \in 1..Len(u) : (i \in 1..Len(s) /\ u[i] = s[i]) \/ u[i] = n
      BY <3>1, <3>2
    <3> QED BY <1>6, <2>1, <2>2, <3>1, <3>2, <3>3
  <2> HIDE DEF u
  <2>5. /\ Tasks(u, "stop") \in [1..Len(u) -> Task]
        /\ \A i \in 1..Len(u) : Tasks(u, "stop")[i].node = u[i]
    BY <2>4 DEF Tasks, Task
  <2>6. Tasks(u, "stop") \in Seq(Task) /\ Len(Tasks(u, "stop")) = Len(u)
    BY <2>4, <2>5
  <2>7. \A i \in 1..Len(Tasks(u, "stop")) : job.run[Tasks(u, "stop")[i].node] # Absent
    BY <2>4, <2>5, <2>6
  <2>8. Set(j, [job EXCEPT !.pc = "loop", !.built = TRUE, !.todo = Tasks(u, "stop")])
    BY <2>2 DEF u
  <2> QED BY <1>2, <2>6, <2>7, <2>8
<1>7. CASE /\ job.kind = "removing"
           /\ Set(j, [job EXCEPT !.pc = "loop", !.built = TRUE, !.todo = Tasks(<<n>>, "remove")])
  <2>1. n \in Node
    BY <1>0, <1>7 DEF JobOK, PendingAction
  <2>2. Tasks(<<n>>, "remove") = <<[node |-> n, op |-> "remove"]>>
    BY DEF Tasks
  <2>3. <<[node |-> n, op |-> "remove"]>> \in Seq(Task)
    BY <2>1 DEF Task
  <2>4. \A i \in 1..Len(<<[node |-> n, op |-> "remove"]>>) :
          <<[node |-> n, op |-> "remove"]>>[i].op = "remove"
    OBVIOUS
  <2> QED BY <1>2, <1>7, <2>2, <2>3, <2>4
<1>8. CASE Set(j, [job EXCEPT !.pc = "drain"])
  <2>1. [job EXCEPT !.pc = "drain"] \in Job /\ JobOK([job EXCEPT !.pc = "drain"])
    BY <1>0, PcType
  <2>2. jobs' \in [JobId -> Job] /\ \A k \in JobId : JobOK(jobs'[k])
    BY <1>8, <2>1, SetType
  <2> QED BY <2>2, JobRest DEF Resolve, TypeInv, TypeOK
<1> QED BY <1>4, <1>5, <1>6, <1>7, <1>8 DEF Resolve

\* A job that is done with the head of its list goes on with a well-formed one.
LEMMA TailOK ==
  ASSUME NEW job \in Job, JobOK(job), job.todo # <<>>,
         NEW new \in Job, new.pc = "loop", new.todo = Tail(job.todo),
         new.kind = job.kind, new.of = job.of,
         \A m \in Node : job.run[m] # Absent => new.run[m] # Absent
  PROVE  JobOK(new)
<1>1. /\ Tail(job.todo) \in Seq(Task)
      /\ \A i \in 1..Len(Tail(job.todo)) :
           Tail(job.todo)[i].op = "stop" => job.run[Tail(job.todo)[i].node] # Absent
  BY TailTodo
<1>2. \A i \in 1..Len(Tail(job.todo)) : Tail(job.todo)[i] \in Task
  BY <1>1
<1>3. \A t \in Task : t.node \in Node
  BY DEF Task
<1> QED BY <1>1, <1>2, <1>3 DEF JobOK

\* A progress report is put at the end of the job's queue.
LEMMA ReportedType ==
  ASSUME NEW job \in Job, NEW n \in Node, NEW mark \in Mark, NEW info \in Entry
  PROVE  Reported(job, n, mark, info) \in Seq(Report)
<1>1. [node |-> n, mark |-> mark, info |-> info] \in Report
  BY DEF Report
<1>2. job.queue \in Seq(Report)
  BY DEF Job
<1> QED BY <1>1, <1>2 DEF Reported

\* A job that waits for a node's lock has an entry for what it will restart or stop.
LEMMA LockedType ==
  ASSUME NEW job \in Job, JobOK(job), job.todo # <<>>, NEW mark \in Mark,
         NEW queue \in Seq(Report), NEW new,
         new = [job EXCEPT !.act = mark, !.pc = "lock", !.queue = queue],
         mark \in {"restarting", "stopping"} => job.run[Head(job.todo).node] # Absent
  PROVE  new \in Job /\ JobOK(new)
<1>1. "lock" \in JobPc
  BY DEF JobPc
<1>2. /\ new \in Job /\ new.pc = "lock" /\ new.act = mark /\ new.todo = job.todo
      /\ new.run = job.run /\ new.kind = job.kind /\ new.of = job.of
  BY <1>1 DEF Job
<1> QED BY <1>2 DEF JobOK

\* Deciding about the next node keeps the types (bring_up's loop).
LEMMA LoopType == ASSUME TypeInv, NEW j \in JobId, Loop(j) PROVE TypeInv'
<1> DEFINE job == jobs[j]
<1> DEFINE n == Head(job.todo).node
<1>0. job \in Job /\ JobOK(job) /\ job.pc = "loop"
  BY DEF TypeInv, TypeOK, Loop
<1>1. ASSUME NEW new, new \in Job /\ JobOK(new), Set(j, new) PROVE TypeInv'
  <2>1. jobs' \in [JobId -> Job] /\ \A k \in JobId : JobOK(jobs'[k])
    BY <1>1, SetType
  <2> QED BY <2>1, JobRest DEF Loop, TypeInv, TypeOK
<1>2. CASE Set(j, [job EXCEPT !.pc = "drain"])
  BY <1>0, <1>1, <1>2, PcType
<1>3. job.todo # <<>> => Head(job.todo) \in Task /\ n \in Node
  BY <1>0, TailTodo DEF Task
<1>4. ASSUME job.todo # <<>>, Head(job.todo).op = "up",
             NEW alive \in BOOLEAN, NEW drifted \in BOOLEAN, Decide(j, n, alive, drifted)
      PROVE  TypeInv'
  <2>1. Skip(job) \in Job /\ JobOK(Skip(job))
    <3>1. /\ Skip(job) \in Job /\ Skip(job).pc = "loop" /\ Skip(job).todo = Tail(job.todo)
          /\ Skip(job).run = job.run /\ Skip(job).kind = job.kind /\ Skip(job).of = job.of
      BY <1>0, <1>4, TailTodo DEF Skip, Job
    <3> QED BY <1>0, <1>4, <3>1, TailOK
  <2>2. ASSUME NEW F \in SUBSET Node, NEW new, new = [Skip(job) EXCEPT !.failed = F]
        PROVE  new \in Job /\ JobOK(new)
    <3>1. /\ new \in Job /\ new.pc = "loop" /\ new.todo = Tail(job.todo)
          /\ new.run = job.run /\ new.kind = job.kind /\ new.of = job.of
      BY <1>0, <2>1, <2>2 DEF Skip, Job
    <3> QED BY <1>0, <1>4, <3>1, TailOK
  <2> DEFINE existing == job.run[n]
  <2> DEFINE F == IF alive THEN Skip(job).failed ELSE Skip(job).failed \cup {n}
  <2>3. F \in SUBSET Node
    BY <1>3, <1>4, <2>1 DEF Job
  <2>4. ASSUME NEW mark \in {"starting", "restarting"},
               mark = "restarting" => existing # Absent,
               Set(j, [job EXCEPT !.act = mark, !.pc = "lock",
                                  !.queue = Reported(job, n, mark, Absent)])
        PROVE  TypeInv'
    <3>1. mark \in Mark /\ Absent \in Entry
      BY DEF Mark, PendingAction, Entry
    <3>2. Reported(job, n, mark, Absent) \in Seq(Report)
      BY <1>0, <1>3, <1>4, <3>1, ReportedType
    <3> DEFINE q == Reported(job, n, mark, Absent)
    <3> DEFINE new == [job EXCEPT !.act = mark, !.pc = "lock", !.queue = q]
    <3>3. mark \in {"restarting", "stopping"} => job.run[Head(job.todo).node] # Absent
      BY <2>4
    <3>4. q \in Seq(Report)
      BY <3>2
    <3>5. new \in Job /\ JobOK(new)
      <4> HIDE DEF q, job
      <4> QED BY <1>0, <1>4, <3>1, <3>3, <3>4, LockedType
    <3> QED BY <1>1, <2>4, <3>5
  <2>5. \/ Set(j, Skip(job))
        \/ Set(j, [Skip(job) EXCEPT !.failed = F])
        \/ \E mark \in {"starting", "restarting"} :
             /\ mark = "restarting" => existing # Absent
             /\ Set(j, [job EXCEPT !.act = mark, !.pc = "lock",
                                   !.queue = Reported(job, n, mark, Absent)])
    BY <1>4 DEF Decide
  <2> HIDE DEF F
  <2> QED BY <1>1, <2>1, <2>2, <2>3, <2>4, <2>5
<1>5. CASE /\ job.todo # <<>> /\ Head(job.todo).op = "stop"
           /\ Set(j, [job EXCEPT !.act = "stopping", !.pc = "lock",
                        !.queue = IF job.kind = "create"
                                  THEN Reported(job, n, "stopping", Absent) ELSE @])
  <2> DEFINE q == IF job.kind = "create" THEN Reported(job, n, "stopping", Absent) ELSE job.queue
  <2>1. q \in Seq(Report) /\ "stopping" \in Mark
    <3>1. "stopping" \in Mark /\ Absent \in Entry
      BY DEF Mark, PendingAction, Entry
    <3>2. job.queue \in Seq(Report)
      BY <1>0 DEF Job
    <3> QED BY <1>0, <1>3, <1>5, <3>1, <3>2, ReportedType
  <2>2. job.run[n] # Absent
    <3>1. job.todo \in Seq(Task) /\ Head(job.todo) = job.todo[1] /\ 1 \in 1..Len(job.todo)
      BY <1>0, <1>5 DEF Job
    <3> QED BY <1>0, <1>5, <3>1 DEF JobOK
  <2> DEFINE new == [job EXCEPT !.act = "stopping", !.pc = "lock", !.queue = q]
  <2>3. new \in Job /\ JobOK(new)
    <3>1. "stopping" \in {"restarting", "stopping"} => job.run[Head(job.todo).node] # Absent
      BY <2>2
    <3> HIDE DEF q, job
    <3> QED BY <1>0, <1>5, <2>1, <3>1, LockedType
  <2> QED BY <1>1, <1>5, <2>3
<1>6. CASE /\ job.todo # <<>> /\ Head(job.todo).op = "remove"
           /\ Set(j, [job EXCEPT !.act = "removing", !.pc = "lock"])
  <2> DEFINE new == [job EXCEPT !.act = "removing", !.pc = "lock"]
  <2>1. "lock" \in JobPc /\ "removing" \in Mark
    BY DEF JobPc, Mark, PendingAction
  <2>2. /\ new \in Job /\ new.act = "removing" /\ new.todo = job.todo
        /\ new.run = job.run /\ new.kind = job.kind /\ new.of = job.of
    BY <1>0, <2>1 DEF Job
  <2>3. JobOK(new)
    BY <1>0, <1>6, <2>2 DEF JobOK
  <2> QED BY <1>1, <1>6, <2>2, <2>3
<1>7. ASSUME NEW a \in {docker[n] = "running"} \cup Faulty("inspect", {FALSE})
      PROVE  a \in BOOLEAN
  BY <1>7 DEF Faulty
<1> QED BY <1>2, <1>4, <1>5, <1>6, <1>7 DEF Loop

\* Taking a node's lock keeps the types (Orchestrator::node_lock).
LEMMA LockType == ASSUME TypeInv, NEW j \in JobId, Lock(j) PROVE TypeInv'
<1> DEFINE job == jobs[j]
<1> DEFINE new == [job EXCEPT !.pc = "work"]
<1>1. job \in Job /\ JobOK(job) /\ job.pc = "lock"
  BY DEF TypeInv, TypeOK, Lock
<1>2. "work" \in JobPc
  BY DEF JobPc
<1>3. /\ new \in Job /\ new.act = job.act /\ new.todo = job.todo
      /\ new.run = job.run /\ new.kind = job.kind /\ new.of = job.of
  BY <1>1, <1>2 DEF Job
<1>4. JobOK(new)
  BY <1>1, <1>3 DEF JobOK
<1>5. jobs' \in [JobId -> Job] /\ \A k \in JobId : JobOK(jobs'[k])
  BY <1>3, <1>4, SetType DEF Lock
<1>6. lock' \in [Node -> JobId \cup {NoJob}]
  BY DEF Lock, TypeInv, TypeOK
<1> QED BY <1>5, <1>6, JobRest DEF Lock, TypeInv, TypeOK

\* A job that is done with a node has an entry for it in its own environment.
LEMMA DoneType ==
  ASSUME NEW job \in Job, JobOK(job), job.todo # <<>>,
         NEW n \in Node, NEW info \in ContainerInfo
  PROVE  Done(job, n, info) \in Job /\ JobOK(Done(job, n, info))
<1> DEFINE run == [job.run EXCEPT ![n] = info]
<1> DEFINE bounced == IF job.act \in {"starting", "restarting"} THEN job.bounced \cup {n}
                      ELSE job.bounced
<1> DEFINE others == IF Own(job, n) \/ job.kind = "create" THEN job.others
                     ELSE Append(job.others, n)
<1> DEFINE queue == IF job.kind = "stopping" THEN job.queue ELSE Reported(job, n, "none", info)
<1> DEFINE result == IF Own(job, n) THEN info ELSE job.result
<1>1. "loop" \in JobPc /\ "none" \in Mark /\ info \in Entry
  BY DEF JobPc, Mark, Entry
<1>2. /\ run \in [Node -> Entry]
      /\ \A m \in Node : job.run[m] # Absent => run[m] # Absent
  BY <1>1, EntryAssumption DEF Job
<1>3. bounced \in SUBSET Node
  BY DEF Job
<1>4. others \in Seq(Node)
  BY DEF Job
<1>5. queue \in Seq(Report)
  <2>1. job.queue \in Seq(Report)
    BY DEF Job
  <2> QED BY <1>1, <2>1, ReportedType
<1>6. result \in Entry \cup {Failed}
  BY <1>1 DEF Job
<1>7. Tail(job.todo) \in Seq(Task)
  BY TailTodo
<1> DEFINE new == [job EXCEPT !.todo = Tail(@), !.pc = "loop", !.act = "none", !.run = run,
                              !.bounced = bounced, !.others = others, !.queue = queue,
                              !.result = result]
<1>8. Done(job, n, info) = new
  BY DEF Done, Skip, Job
<1>9. /\ new \in Job /\ new.pc = "loop" /\ new.todo = Tail(job.todo) /\ new.run = run
      /\ new.kind = job.kind /\ new.of = job.of
  <2> HIDE DEF run, bounced, others, queue, result
  <2> QED BY <1>1, <1>2, <1>3, <1>4, <1>5, <1>6, <1>7 DEF Job
<1> HIDE DEF new, run
<1>10. JobOK(new)
  BY <1>2, <1>9, TailOK
<1> QED BY <1>8, <1>9, <1>10

\* Working on a container keeps the types (start_node, restart_in_place,
\* stop_container, remove_container).
LEMMA WorkType == ASSUME TypeInv, NEW j \in JobId, Work(j) PROVE TypeInv'
<1> DEFINE job == jobs[j]
<1> DEFINE n == Head(job.todo).node
<1> DEFINE existing == job.run[n]
<1>0. job \in Job /\ JobOK(job) /\ job.pc = "work" /\ job.todo # <<>>
  BY DEF TypeInv, TypeOK, Work, JobOK
<1>1. n \in Node
  BY <1>0, TailTodo DEF Task
<1>2. lock' \in [Node -> JobId \cup {NoJob}]
  BY DEF Work, TypeInv, TypeOK
<1>3. docker' \in [Node -> DockerStatus]
  <2>1. docker \in [Node -> DockerStatus] /\ docker[n] \in DockerStatus
    BY <1>1 DEF TypeInv, TypeOK
  <2>2. \E status \in DockerStatus : docker' = [docker EXCEPT ![n] = status]
    BY <2>1 DEF Work, DockerStatus, Faulty
  <2> QED BY <2>1, <2>2
<1>4. ASSUME NEW new, new \in Job /\ JobOK(new), Set(j, new) PROVE TypeInv'
  <2>1. jobs' \in [JobId -> Job] /\ \A k \in JobId : JobOK(jobs'[k])
    BY <1>4, SetType
  <2> QED BY <1>2, <1>3, <2>1, JobRest DEF Work
<1>5. ASSUME NEW info \in ContainerInfo, Set(j, Done(job, n, info)) PROVE TypeInv'
  <2>1. Done(job, n, info) \in Job /\ JobOK(Done(job, n, info))
    <3> HIDE DEF job, n
    <3> QED BY <1>0, <1>1, DoneType
  <2> QED BY <1>4, <1>5, <2>1
<1>6. ASSUME NEW c \in ContainerInfo, NEW r \in BOOLEAN, NEW st \in Status
      PROVE  /\ [c EXCEPT !.observed.status = st, !.debug_wait = r] \in ContainerInfo
             /\ [c EXCEPT !.pending = "none", !.observed.status = st] \in ContainerInfo
             /\ [c EXCEPT !.pending = "none", !.running = r, !.observed.status = st]
                  \in ContainerInfo
  <2>1. [c.observed EXCEPT !.status = st] \in ContainerObserved
    BY DEF ContainerInfo, ContainerObserved
  <2> QED BY <2>1 DEF ContainerInfo, Mark
<1>7. ASSUME job.act \in {"restarting", "stopping"} PROVE existing \in ContainerInfo
  BY <1>0, <1>1, <1>7 DEF JobOK, Job, Entry
<1>8. CASE \E status \in Status :
             Set(j, Done(job, n, [Up EXCEPT !.observed.status = status,
                                            !.debug_wait = existing # Absent
                                                             /\ existing.debug_wait]))
  <2> DEFINE wait == existing # Absent /\ existing.debug_wait
  <2>1. wait \in BOOLEAN
    OBVIOUS
  <2> HIDE DEF wait
  <2>2. \A status \in Status :
          [Up EXCEPT !.observed.status = status, !.debug_wait = wait] \in ContainerInfo
    BY <1>6, <2>1, UpType
  <2> QED BY <1>5, <1>8, <2>2 DEF wait
<1>9. CASE /\ job.act = "restarting"
           /\ \E status \in Status :
                Set(j, Done(job, n, [existing EXCEPT !.pending = "none",
                                                     !.observed.status = status]))
  <2>1. existing \in ContainerInfo
    BY <1>7, <1>9
  <2>2. \A status \in Status :
          [existing EXCEPT !.pending = "none", !.observed.status = status] \in ContainerInfo
    <3> HIDE DEF existing
    <3> QED BY <1>6, <2>1
  <2> QED BY <1>5, <1>9, <2>2
<1>10. CASE /\ job.act = "stopping"
            /\ \E status \in Status :
                 Set(j, Done(job, n, [existing EXCEPT !.pending = "none", !.running = FALSE,
                                                      !.observed.status = status]))
  <2>1. existing \in ContainerInfo
    BY <1>7, <1>10
  <2>2. \A status \in Status :
          [existing EXCEPT !.pending = "none", !.running = FALSE, !.observed.status = status]
            \in ContainerInfo
    <3> HIDE DEF existing
    <3> QED BY <1>6, <2>1
  <2> QED BY <1>5, <1>10, <2>2
<1>11. ASSUME NEW failed \in SUBSET Node, NEW queue \in Seq(Report),
              NEW result \in Entry \cup {Failed}, NEW new,
              new = [job EXCEPT !.todo = Tail(@), !.pc = "loop", !.act = "none",
                                !.failed = failed, !.queue = queue, !.result = result],
              Set(j, new)
       PROVE  TypeInv'
  <2>1. Tail(job.todo) \in Seq(Task) /\ "loop" \in JobPc /\ "none" \in Mark
    BY <1>0, TailTodo DEF JobPc, Mark
  <2>2. /\ new \in Job /\ new.pc = "loop" /\ new.todo = Tail(job.todo) /\ new.run = job.run
        /\ new.kind = job.kind /\ new.of = job.of
    <3> HIDE DEF job
    <3> QED BY <1>0, <1>11, <2>1 DEF Job
  <2>3. JobOK(new)
    BY <1>0, <2>2, TailOK
  <2> QED BY <1>4, <1>11, <2>2, <2>3
<1>12. CASE Set(j, [Skip(job) EXCEPT !.pc = "loop", !.act = "none", !.failed = @ \cup {n},
                                     !.queue = Reported(job, n, "none", Absent)])
  <2> DEFINE q == Reported(job, n, "none", Absent)
  <2>1. q \in Seq(Report)
    <3>1. "none" \in Mark /\ Absent \in Entry
      BY DEF Mark, Entry
    <3> QED BY <1>0, <1>1, <3>1, ReportedType
  <2>2. job.failed \cup {n} \in SUBSET Node /\ job.result \in Entry \cup {Failed}
    BY <1>0, <1>1 DEF Job
  <2> DEFINE new == [job EXCEPT !.todo = Tail(@), !.pc = "loop", !.act = "none",
                                !.failed = job.failed \cup {n}, !.queue = q,
                                !.result = job.result]
  <2>3. new = [Skip(job) EXCEPT !.pc = "loop", !.act = "none", !.failed = @ \cup {n}, !.queue = q]
    <3> HIDE DEF q, job, n
    <3> QED BY <1>0 DEF Skip, Job
  <2> QED BY <1>11, <1>12, <2>1, <2>2, <2>3, ZenonT(60)
<1>13. CASE Set(j, [Skip(job) EXCEPT !.pc = "loop", !.act = "none", !.result = Absent])
  <2>1. job.failed \in SUBSET Node /\ job.queue \in Seq(Report) /\ Absent \in Entry \cup {Failed}
    BY <1>0 DEF Job, Entry
  <2> DEFINE new == [job EXCEPT !.todo = Tail(@), !.pc = "loop", !.act = "none",
                                !.failed = job.failed, !.queue = job.queue, !.result = Absent]
  <2>2. new = [Skip(job) EXCEPT !.pc = "loop", !.act = "none", !.result = Absent]
    <3> HIDE DEF job
    <3> QED BY <1>0 DEF Skip, Job
  <2> QED BY <1>11, <1>13, <2>1, <2>2
<1>14. {"running"} \cup Faulty("crash", {"exited"}) \subseteq Status
  BY DEF Faulty, Status
<1>15. \A x : {IF x = "running" THEN "running" ELSE "exited"} \cup Faulty("inspect", {"exited"})
               \subseteq Status
  BY DEF Faulty, Status
<1> QED BY <1>8, <1>9, <1>10, <1>12, <1>13, <1>14, <1>15 DEF Work

\* A job that changes only its queue, its count of driven nodes, the nodes it
\* has still to report or its place keeps its type.
LEMMA ForwardedType ==
  ASSUME NEW job \in Job, JobOK(job), NEW queue \in Seq(Report), NEW mine \in SUBSET Node,
         NEW others \in Seq(Node),
         NEW pc \in JobPc, pc \in {"lock", "work"} => pc = job.pc, NEW new,
         new = [job EXCEPT !.queue = queue, !.mine = mine, !.others = others, !.pc = pc]
  PROVE  new \in Job /\ JobOK(new)
<1>1. /\ new \in Job /\ new.pc = pc /\ new.act = job.act /\ new.todo = job.todo
      /\ new.run = job.run /\ new.kind = job.kind /\ new.of = job.of
  BY DEF Job
<1> QED BY <1>1 DEF JobOK

\* A report of a job to the actor leaves the effect, the locks and Docker alone.
LEMMA ReportRest ==
  ASSUME TypeInv, UNCHANGED <<effectVars, lock, docker, requests>>, WorkspaceTypeOK',
         jobs' \in [JobId -> Job], \A k \in JobId : JobOK(jobs'[k])
  PROVE  TypeInv'
BY DEF effectVars, TypeInv, TypeOK

\* Forwarding progress keeps the types (forward_progress).
LEMMA DrainType == ASSUME TypeInv, NEW j \in JobId, Drain(j) PROVE TypeInv'
<1> DEFINE job == jobs[j]
<1> DEFINE report == Head(job.queue)
<1> DEFINE mine == IF report.mark = "none" THEN job.mine ELSE job.mine \cup {report.node}
<1>0. job \in Job /\ JobOK(job) /\ job.queue # <<>> /\ WorkspaceTypeOK
  BY DEF TypeInv, TypeOK, Drain
<1>1. report \in Report /\ Tail(job.queue) \in Seq(Report)
  BY <1>0 DEF Job
<1>2. report.node \in Node /\ report.mark \in Mark /\ report.info \in Entry
  BY <1>1 DEF Report
<1>3. mine \in SUBSET Node /\ job.others \in Seq(Node) /\ job.pc \in JobPc
  BY <1>0, <1>2 DEF Job
<1> DEFINE new == [job EXCEPT !.queue = Tail(job.queue), !.mine = mine, !.others = job.others,
                              !.pc = job.pc]
<1>4. new \in Job /\ JobOK(new)
  <2> HIDE DEF job, mine
  <2> QED BY <1>0, <1>1, <1>3, ForwardedType
<1>5. Set(j, new)
  <2>1. [job EXCEPT !.queue = Tail(@),
                    !.mine = IF report.mark = "none" THEN @ ELSE @ \cup {report.node}] = new
    <3> HIDE DEF job, report
    <3> QED BY <1>0 DEF Job
  <2> QED BY <2>1 DEF Drain
<1>6. jobs' \in [JobId -> Job] /\ \A k \in JobId : JobOK(jobs'[k])
  BY <1>4, <1>5, SetType
<1>7. WorkspaceTypeOK'
  <2>1. CASE report.info = Absent
    BY <1>0, <1>2, <2>1, ProgressTypes DEF Drain
  <2>2. CASE report.info # Absent
    BY <1>0, <1>2, <2>2, ProgressTypes DEF Drain, Entry
  <2> QED BY <2>1, <2>2
<1> QED BY <1>6, <1>7, ReportRest DEF Drain

\* The end of a drain keeps the types (forward_progress).
LEMMA DrainEndType == ASSUME TypeInv, NEW j \in JobId, DrainEnd(j) PROVE TypeInv'
<1> DEFINE job == jobs[j]
<1> DEFINE pc == IF job.pc = "drain" THEN "cascade" ELSE job.pc
<1>0. job \in Job /\ JobOK(job)
  BY DEF TypeInv, TypeOK
<1>1. /\ job.queue \in Seq(Report) /\ {} \in SUBSET Node /\ job.others \in Seq(Node)
      /\ pc \in JobPc /\ (pc \in {"lock", "work"} => pc = job.pc)
  BY <1>0 DEF Job, JobPc
<1> DEFINE new == [job EXCEPT !.queue = job.queue, !.mine = {}, !.others = job.others, !.pc = pc]
<1>2. new \in Job /\ JobOK(new)
  <2> HIDE DEF job, pc
  <2> QED BY <1>0, <1>1, ForwardedType
<1>3. Set(j, idle_job) \/ Set(j, new)
  <2>1. [job EXCEPT !.mine = {}, !.pc = IF @ = "drain" THEN "cascade" ELSE @] = new
    <3> HIDE DEF job
    <3> QED BY <1>0 DEF Job
  <2> QED BY <2>1 DEF DrainEnd
<1> HIDE DEF new
<1>4. jobs' \in [JobId -> Job] /\ \A k \in JobId : JobOK(jobs'[k])
  BY <1>2, <1>3, SetType, IdleJobType
<1> QED BY <1>4, JobRest DEF DrainEnd, TypeInv, TypeOK

\* Reporting the other nodes keeps the types (perform's cascaded list).
LEMMA CascadeType == ASSUME TypeInv, NEW j \in JobId, Cascade(j) PROVE TypeInv'
<1> DEFINE job == jobs[j]
<1> DEFINE n == Head(job.others)
<1>0. job \in Job /\ JobOK(job) /\ WorkspaceTypeOK
  BY DEF TypeInv, TypeOK
<1>1. CASE /\ job.others # <<>>
           /\ ContainerActionSettled(n, "none", job.run[n])
           /\ Set(j, [job EXCEPT !.others = Tail(@)])
  <2>1. /\ n \in Node /\ Tail(job.others) \in Seq(Node) /\ job.queue \in Seq(Report)
        /\ job.mine \in SUBSET Node /\ job.pc \in JobPc
    BY <1>0, <1>1 DEF Job
  <2>2. job.run[n] \in Entry \cup {Failed}
    BY <1>0, <2>1 DEF Job
  <2>3. WorkspaceTypeOK'
    <3> HIDE DEF job, n
    <3> QED BY <1>0, <1>1, <2>2, SettledTypes
  <2> DEFINE new == [job EXCEPT !.queue = job.queue, !.mine = job.mine,
                                !.others = Tail(job.others), !.pc = job.pc]
  <2>4. new \in Job /\ JobOK(new)
    <3> HIDE DEF job
    <3> QED BY <1>0, <2>1, ForwardedType
  <2>5. new = [job EXCEPT !.others = Tail(@)]
    <3> HIDE DEF job
    <3> QED BY <1>0 DEF Job
  <2>6. jobs' \in [JobId -> Job] /\ \A k \in JobId : JobOK(jobs'[k])
    BY <1>1, <2>4, <2>5, SetType
  <2> QED BY <2>3, <2>6, ReportRest DEF Cascade
<1>2. CASE Set(j, [job EXCEPT !.pc = "settle"]) /\ UNCHANGED actorVars
  <2>1. [job EXCEPT !.pc = "settle"] \in Job /\ JobOK([job EXCEPT !.pc = "settle"])
    BY <1>0, PcType
  <2>2. jobs' \in [JobId -> Job] /\ \A k \in JobId : JobOK(jobs'[k])
    BY <1>2, <2>1, SetType
  <2>3. WorkspaceTypeOK'
    BY <1>0, <1>2 DEF actorVars, WorkspaceTypeOK
  <2> QED BY <2>2, <2>3, ReportRest DEF Cascade
<1> QED BY <1>1, <1>2 DEF Cascade

\* The report of a guard keeps the types (SettleGuard, CreateSettleGuard).
LEMMA SettleType == ASSUME TypeInv, NEW j \in JobId, Settle(j) PROVE TypeInv'
<1> DEFINE job == jobs[j]
<1>0. job \in Job /\ JobOK(job) /\ WorkspaceTypeOK
  BY DEF TypeInv, TypeOK
<1>1. [job EXCEPT !.pc = "over"] \in Job /\ JobOK([job EXCEPT !.pc = "over"])
  BY <1>0, PcType
<1>2. Set(j, idle_job) \/ Set(j, [job EXCEPT !.pc = "over"])
  BY DEF Settle
<1>3. jobs' \in [JobId -> Job] /\ \A k \in JobId : JobOK(jobs'[k])
  BY <1>1, <1>2, SetType, IdleJobType
<1>4. WorkspaceTypeOK'
  <2>1. job.run \in [Node -> Entry] /\ job.result \in Entry \cup {Failed}
    BY <1>0 DEF Job
  <2>2. CASE job.kind = "create"
    BY <1>0, <2>1, <2>2, CreateSettledTypes DEF Settle
  <2>3. CASE job.kind # "create"
    BY <1>0, <2>1, <2>3, SettledTypes DEF Settle
  <2> QED BY <2>2, <2>3
<1> QED BY <1>3, <1>4, ReportRest DEF Settle

\* The strengthened type invariant is inductive.
LEMMA TypeStep == TypeInv /\ [Next]_vars => TypeInv'
<1> SUFFICES ASSUME TypeInv, [Next]_vars PROVE TypeInv'
  OBVIOUS
<1>1. CASE UserStep
  BY <1>1, UserType
<1>2. CASE EffectStep
  BY <1>2, EffectType
<1>3. ASSUME NEW j \in JobId, JobStep(j) PROVE TypeInv'
  BY <1>3, ResolveType, LoopType, LockType, WorkType, DrainType, DrainEndType, CascadeType,
     SettleType DEF JobStep
<1>4. CASE UNCHANGED vars
  BY <1>4 DEF vars, actorVars, effectVars, TypeInv, TypeOK, WorkspaceTypeOK
<1> QED BY <1>1, <1>2, <1>3, <1>4 DEF Next, Rest

\* In every behaviour the environment, the effect's bookkeeping and every job
\* keep their types: in particular a report never carries anything but an entry.
THEOREM TypeCorrect == Spec => []TypeOK
<1>1. TypeInv => TypeOK
  BY DEF TypeInv
<1> QED BY <1>1, InitType, TypeStep, PTL DEF Spec

-----------------------------------------------------------------------------
(***************************************************************************)
(* The converge effect never lets two tasks start the same node, and never *)
(* lets a create run next to another create or to a start: for every graph, *)
(* every number of tasks and of requests, and whatever fails.  Then: the    *)
(* Stop and the Delete of a node that no other node needs, and that needs   *)
(* none, are not undone by a report.                                        *)
(***************************************************************************)

(***************************************************************************)
(* Why it holds: the effect's own books.  A start task that has not        *)
(* returned is the one in_flight names for its node, and a node whose task *)
(* is about to be spawned has none.                                        *)
(***************************************************************************)
StartsBooked ==
  /\ \A j \in JobId :
       StartJob(j) => /\ jobs[j].of \in Node
                      /\ in_flight[jobs[j].of] = [action |-> "starting", job |-> j]
  /\ phase = "spawn" =>
       \A n \in Node : /\ n \in spawn => in_flight[n] = NotInFlight
                       /\ snap.pending[n] = "none" => in_flight[n] = NotInFlight

(***************************************************************************)
(* A create that has not settled is the one pending_create names, and the  *)
(* effect knows that it has spawned it for as long as any snapshot it may  *)
(* be working on was taken from a state with that mark.                    *)
(***************************************************************************)
CreateBooked ==
  /\ pending_create # NoCreate => env
  /\ \A j \in JobId :
       CreateJob(j) => /\ create_in_flight
                       /\ pending_create = jobs[j].of
                       /\ pending_create # NoCreate
                       /\ phase # "idle" => snap.create # NoCreate
  /\ phase # "idle" /\ snap.create # NoCreate =>
       /\ \A n \in Node : snap.pending[n] = "none"
       /\ ~create_in_flight => pending_create = snap.create

ExclusionInv ==
  /\ TypeInv
  /\ StartsBooked
  /\ CreateBooked
  /\ \A i, j \in JobId : CreateJob(i) /\ CreateJob(j) => i = j
  /\ StartsYieldToCreate

-----------------------------------------------------------------------------
(* What a job's own steps can do to the books: nothing but end the job. *)

LivePc == {"resolve", "loop", "lock", "work", "drain", "cascade"}

\* How a job's record may change in a step of its own.
Advances(new, job) ==
  \/ new = idle_job
  \/ /\ new.kind = job.kind /\ new.of = job.of
     /\ new.pc \in LivePc => job.pc \in LivePc
     /\ new.pc # "over" => job.pc # "over"

\* Once a job has left a state that counts, it never comes back to it.
LEMMA AdvancesJobs ==
  ASSUME TypeInv, NEW j \in JobId, NEW new, Set(j, new), Advances(new, jobs[j])
  PROVE  \A k \in JobId : /\ StartJob(k)' => StartJob(k) /\ jobs'[k].of = jobs[k].of
                          /\ CreateJob(k)' => CreateJob(k) /\ jobs'[k].of = jobs[k].of
<1>1. jobs' = [jobs EXCEPT ![j] = new] /\ jobs \in [JobId -> Job]
  BY DEF Set, TypeInv, TypeOK
<1>2. idle_job.kind = "idle"
  BY DEF idle_job
<1>3. ASSUME NEW k \in JobId
      PROVE  /\ StartJob(k)' => StartJob(k) /\ jobs'[k].of = jobs[k].of
             /\ CreateJob(k)' => CreateJob(k) /\ jobs'[k].of = jobs[k].of
  <2>1. CASE k # j
    BY <1>1, <2>1 DEF StartJob, CreateJob, Live
  <2>2. CASE k = j
    <3>1. jobs'[k] = new
      BY <1>1, <2>2
    <3> QED BY <1>2, <2>2, <3>1 DEF Advances, LivePc, StartJob, CreateJob, Live
  <2> QED BY <2>1, <2>2
<1> QED BY <1>3

\* Every step of a job advances it.
LEMMA StepAdvances ==
  ASSUME TypeInv, NEW j \in JobId, JobStep(j)
  PROVE  \E new : Set(j, new) /\ Advances(new, jobs[j])
<1> DEFINE job == jobs[j]
<1>0. job \in Job
  BY DEF TypeInv, TypeOK
<1>1. ASSUME job.pc \in LivePc, NEW new,
             Set(j, new), new.kind = job.kind, new.of = job.of, new.pc \in LivePc
      PROVE  \E x : Set(j, x) /\ Advances(x, jobs[j])
  <2>1. Advances(new, job)
    BY <1>1 DEF Advances, LivePc
  <2> QED BY <1>1, <2>1
<1>2. CASE Resolve(j)
  <2>1. job.pc \in LivePc /\ "loop" \in LivePc /\ "drain" \in LivePc
    BY <1>2 DEF Resolve, LivePc
  <2>2. ASSUME NEW todo, NEW new, new = [job EXCEPT !.pc = "loop", !.built = TRUE, !.todo = todo]
        PROVE  new.kind = job.kind /\ new.of = job.of /\ new.pc = "loop"
    BY <1>0, <2>2 DEF Job
  <2>3. [job EXCEPT !.pc = "drain"].kind = job.kind /\ [job EXCEPT !.pc = "drain"].of = job.of
        /\ [job EXCEPT !.pc = "drain"].pc = "drain"
    BY <1>0 DEF Job
  <2>4. \/ \E todo : Set(j, [job EXCEPT !.pc = "loop", !.built = TRUE, !.todo = todo])
        \/ Set(j, [job EXCEPT !.pc = "drain"])
    BY <1>2 DEF Resolve
  <2> QED BY <1>1, <2>1, <2>2, <2>3, <2>4, ZenonT(60)
<1>3. CASE Loop(j)
  <2>1. job.pc = "loop"
    BY <1>3 DEF Loop
  <2> DEFINE Kept(new) == /\ new.kind = job.kind /\ new.of = job.of
                          /\ new.pc \in {"loop", "lock", "drain"}
  <2>2. Kept(Skip(job)) /\ \A F : Kept([Skip(job) EXCEPT !.failed = F])
    BY <1>0, <2>1 DEF Skip, Job
  <2>3. /\ Kept([job EXCEPT !.pc = "drain"])
        /\ \A mark : Kept([job EXCEPT !.act = mark, !.pc = "lock"])
        /\ \A mark, q : Kept([job EXCEPT !.act = mark, !.pc = "lock", !.queue = q])
    BY <1>0 DEF Job
  <2>4. \/ Set(j, Skip(job))
        \/ \E F : Set(j, [Skip(job) EXCEPT !.failed = F])
        \/ Set(j, [job EXCEPT !.pc = "drain"])
        \/ \E mark : Set(j, [job EXCEPT !.act = mark, !.pc = "lock"])
        \/ \E mark, q : Set(j, [job EXCEPT !.act = mark, !.pc = "lock", !.queue = q])
    BY <1>3 DEF Loop, Decide
  <2>5. \E new : Set(j, new) /\ Kept(new)
    <3> HIDE DEF Kept
    <3> QED BY <2>2, <2>3, <2>4
  <2> QED BY <1>1, <2>1, <2>5 DEF LivePc
<1>4. CASE Lock(j)
  <2>1. job.pc = "lock"
    BY <1>4 DEF Lock
  <2>2. \E new : Set(j, new) /\ new.kind = job.kind /\ new.of = job.of /\ new.pc = "work"
    BY <1>0, <1>4 DEF Lock, Job
  <2> QED BY <1>1, <2>1, <2>2 DEF LivePc
<1>5. CASE Work(j)
  <2>1. job.pc = "work"
    BY <1>5 DEF Work
  <2> DEFINE Kept(new) == new.kind = job.kind /\ new.of = job.of /\ new.pc = "loop"
  <2>2. \A n, info : Kept(Done(job, n, info))
    BY <1>0 DEF Done, Skip, Job
  <2>3. /\ \A F, q : Kept([Skip(job) EXCEPT !.pc = "loop", !.act = "none", !.failed = F, !.queue = q])
        /\ \A r : Kept([Skip(job) EXCEPT !.pc = "loop", !.act = "none", !.result = r])
    BY <1>0 DEF Skip, Job
  <2>4. \/ \E n, info : Set(j, Done(job, n, info))
        \/ \E F, q : Set(j, [Skip(job) EXCEPT !.pc = "loop", !.act = "none", !.failed = F,
                                              !.queue = q])
        \/ \E r : Set(j, [Skip(job) EXCEPT !.pc = "loop", !.act = "none", !.result = r])
    BY <1>5 DEF Work
  <2>5. \E new : Set(j, new) /\ Kept(new)
    <3> HIDE DEF Kept
    <3> QED BY <2>2, <2>3, <2>4
  <2> QED BY <1>1, <2>1, <2>5 DEF LivePc
<1>6. CASE Drain(j)
  <2>1. PICK q, m : Set(j, [job EXCEPT !.queue = q, !.mine = m])
    BY <1>6 DEF Drain
  <2>2. Advances([job EXCEPT !.queue = q, !.mine = m], job)
    BY <1>0 DEF Advances, Job
  <2> QED BY <2>1, <2>2
<1>7. CASE DrainEnd(j)
  <2> DEFINE new == [job EXCEPT !.mine = {}, !.pc = IF @ = "drain" THEN "cascade" ELSE @]
  <2>1. Set(j, idle_job) \/ (job.pc # "over" /\ Set(j, new))
    BY <1>7 DEF DrainEnd
  <2>2. job.pc # "over" => Advances(new, job)
    BY <1>0 DEF Advances, LivePc, Job
  <2>3. Advances(idle_job, job)
    BY DEF Advances
  <2> QED BY <2>1, <2>2, <2>3
<1>8. CASE Cascade(j)
  <2>1. job.pc = "cascade"
    BY <1>8 DEF Cascade
  <2>2. \E new : /\ Set(j, new) /\ new.kind = job.kind /\ new.of = job.of
                 /\ new.pc \in {"cascade", "settle"}
    BY <1>0, <1>8, <2>1 DEF Cascade, Job
  <2> QED BY <2>1, <2>2 DEF Advances, LivePc
<1>9. CASE Settle(j)
  <2>1. job.pc = "settle"
    BY <1>9 DEF Settle
  <2>2. \E new : /\ Set(j, new)
                 /\ new = idle_job \/ (new.kind = job.kind /\ new.of = job.of /\ new.pc = "over")
    BY <1>0, <1>9 DEF Settle, Job
  <2> QED BY <2>1, <2>2 DEF Advances, LivePc
<1> QED BY <1>2, <1>3, <1>4, <1>5, <1>6, <1>7, <1>8, <1>9 DEF JobStep

\* Only the settle of a create clears pending_create, and it ends that create.
LEMMA JobKeepsPlan ==
  ASSUME TypeInv, NEW j \in JobId, JobStep(j)
  PROVE  /\ UNCHANGED effectVars /\ env' = env
         /\ \/ pending_create' = pending_create
            \/ CreateJob(j) /\ ~CreateJob(j)' /\ pending_create' = NoCreate
<1>1. CASE Resolve(j) \/ Loop(j) \/ Lock(j) \/ Work(j) \/ DrainEnd(j)
  BY <1>1 DEF Resolve, Loop, Lock, Work, DrainEnd, jobRest, actorVars
<1>2. CASE Drain(j)
  BY <1>2 DEF Drain, EnvCreateWorking, EnvCreateProgress
<1>3. CASE Cascade(j)
  BY <1>3 DEF Cascade, ContainerActionSettled, actorVars
<1>4. CASE Settle(j)
  <2>1. jobs \in [JobId -> Job] /\ jobs[j] \in Job /\ jobs[j].pc = "settle"
    BY <1>4 DEF Settle, TypeInv, TypeOK
  <2>2. jobs'[j] = idle_job \/ jobs'[j].pc = "over"
    BY <1>4, <2>1 DEF Settle, Set, Job
  <2>3. idle_job.kind = "idle"
    BY DEF idle_job
  <2>4. ~CreateJob(j)'
    BY <2>2, <2>3 DEF CreateJob
  <2>5. CASE jobs[j].kind = "create"
    BY <1>4, <2>1, <2>4, <2>5 DEF Settle, EnvCreateSettled, CreateJob
  <2>6. CASE jobs[j].kind # "create"
    BY <1>4, <2>6 DEF Settle, ContainerActionSettled
  <2> QED BY <2>5, <2>6
<1> QED BY <1>1, <1>2, <1>3, <1>4 DEF JobStep

\* The books survive every step of a job.
LEMMA JobExclusion ==
  ASSUME ExclusionInv, TypeInv', NEW j \in JobId, JobStep(j) PROVE ExclusionInv'
<1>1. \A k \in JobId : /\ StartJob(k)' => StartJob(k) /\ jobs'[k].of = jobs[k].of
                       /\ CreateJob(k)' => CreateJob(k) /\ jobs'[k].of = jobs[k].of
  <2>1. PICK new : Set(j, new) /\ Advances(new, jobs[j])
    BY StepAdvances DEF ExclusionInv
  <2> QED BY <2>1, AdvancesJobs DEF ExclusionInv
<1>2. /\ phase' = phase /\ snap' = snap /\ spawn' = spawn /\ in_flight' = in_flight
      /\ create_in_flight' = create_in_flight /\ env' = env
      /\ \/ pending_create' = pending_create
         \/ CreateJob(j) /\ ~CreateJob(j)' /\ pending_create' = NoCreate
  BY JobKeepsPlan DEF ExclusionInv, effectVars
<1>3. StartsBooked'
  BY <1>1, <1>2 DEF ExclusionInv, StartsBooked
<1>4. StartsYieldToCreate' /\ (\A i, k \in JobId : CreateJob(i) /\ CreateJob(k) => i = k)'
  BY <1>1 DEF ExclusionInv, StartsYieldToCreate
<1>5. CreateBooked'
  <2>1. CASE pending_create' = pending_create
    BY <1>1, <1>2, <2>1 DEF ExclusionInv, CreateBooked
  <2>2. CASE CreateJob(j) /\ ~CreateJob(j)' /\ pending_create' = NoCreate
    <3>1. \A k \in JobId : ~CreateJob(k)'
      BY <1>1, <2>2 DEF ExclusionInv
    <3> QED BY <1>2, <2>2, <3>1 DEF ExclusionInv, CreateBooked
  <2> QED BY <1>2, <2>1, <2>2
<1> QED BY <1>3, <1>4, <1>5 DEF ExclusionInv

-----------------------------------------------------------------------------
(* The user and the effect *)

\* A new daemon has no tasks and no create.
LEMMA InitExclusion == Init => ExclusionInv
<1> SUFFICES ASSUME Init PROVE ExclusionInv
  OBVIOUS
<1>1. TypeInv
  BY InitType
<1>2. \A j \in JobId : jobs[j].kind = "idle"
  BY DEF Init, idle_job
<1>3. phase = "idle" /\ pending_create = NoCreate
  BY DEF Init, WorkspaceInit
<1> QED BY <1>1, <1>2, <1>3
        DEF ExclusionInv, StartsBooked, CreateBooked, StartsYieldToCreate, StartJob, CreateJob

\* A request never replaces the create in flight (lookup_mut, start_node).
LEMMA UserExclusion == ASSUME ExclusionInv, TypeInv', UserStep PROVE ExclusionInv'
<1>1. /\ UNCHANGED <<effectVars, jobs>>
      /\ pending_create # NoCreate => pending_create' = pending_create /\ env'
      /\ pending_create' # NoCreate => env'
  <2>0. pending_create # NoCreate => env
    BY DEF ExclusionInv, CreateBooked
  <2>1. CASE \E plan \in Flow : Plan(plan)
    BY <2>1 DEF Plan, Request, EnvPlanned
  <2>2. CASE \E n \in Node : Start(n)
    BY <2>0, <2>2 DEF Start, Request, NodeStartRequested
  <2>3. CASE \E n \in Node : Stop(n) \/ Delete(n)
    BY <2>3 DEF Stop, Delete, Request, NodeStopRequested, NodeDeleteRequested, set_pending
  <2>4. CASE \E n \in Node, w \in BOOLEAN : DebugWait(n, w)
    BY <2>4 DEF DebugWait, Request, NodeDebugWaitRequested
  <2> QED BY <2>1, <2>2, <2>3, <2>4 DEF UserStep
<1>2. \A j \in JobId : /\ StartJob(j)' <=> StartJob(j)
                       /\ CreateJob(j)' <=> CreateJob(j)
  BY <1>1 DEF StartJob, CreateJob, Live
<1>3. StartsBooked'
  BY <1>1, <1>2 DEF ExclusionInv, StartsBooked, effectVars
<1>4. CreateBooked'
  BY <1>1, <1>2 DEF ExclusionInv, CreateBooked, effectVars
<1>5. StartsYieldToCreate' /\ (\A i, k \in JobId : CreateJob(i) /\ CreateJob(k) => i = k)'
  BY <1>2 DEF ExclusionInv, StartsYieldToCreate
<1> QED BY <1>3, <1>4, <1>5 DEF ExclusionInv

\* The snapshot of a state with a create shows no marks (extract_pending).
LEMMA ExtractExclusion == ASSUME ExclusionInv, TypeInv', ConvergeExtract PROVE ExclusionInv'
<1>1. /\ snap' = extract /\ phase' = "plan"
      /\ UNCHANGED <<env, pending_create, in_flight, create_in_flight, jobs>>
  BY DEF ConvergeExtract, actorVars
<1>2. /\ extract.create = pending_create
      /\ pending_create # NoCreate => \A n \in Node : extract.pending[n] = "none"
  BY DEF extract
<1>3. \A j \in JobId : /\ StartJob(j)' <=> StartJob(j)
                       /\ CreateJob(j)' <=> CreateJob(j)
  BY <1>1 DEF StartJob, CreateJob, Live
<1>4. StartsBooked'
  BY <1>1, <1>3 DEF ExclusionInv, StartsBooked
<1>5. CreateBooked'
  BY <1>1, <1>2, <1>3 DEF ExclusionInv, CreateBooked
<1>6. StartsYieldToCreate' /\ (\A i, k \in JobId : CreateJob(i) /\ CreateJob(k) => i = k)'
  BY <1>3 DEF ExclusionInv, StartsYieldToCreate
<1> QED BY <1>4, <1>5, <1>6 DEF ExclusionInv

\* A start leaves in_flight only as it is aborted (plan, abort_start).
LEMMA PlanExclusion == ASSUME ExclusionInv, TypeInv', ConvergePlan PROVE ExclusionInv'
<1> DEFINE aborted == {in_flight[n].job : n \in plan_abort} \cap {j \in JobId : Live(j)}
<1>1. /\ jobs' = [j \in JobId |-> IF j \in aborted THEN Dropped(jobs[j]) ELSE jobs[j]]
      /\ in_flight' = [n \in Node |-> IF n \in plan_abort \/ without_progress(n) = "none"
                                      THEN NotInFlight ELSE in_flight[n]]
      /\ spawn' = plan_spawn /\ phase = "plan" /\ phase' = "spawn"
      /\ UNCHANGED <<env, pending_create, snap, create_in_flight>>
  BY DEF ConvergePlan, actorVars
<1>2. \A j \in JobId : jobs[j] \in Job
  BY DEF ExclusionInv, TypeInv, TypeOK
<1>3. \A j \in JobId : /\ Dropped(jobs[j]).kind = jobs[j].kind
                       /\ Dropped(jobs[j]).of = jobs[j].of
                       /\ Dropped(jobs[j]).pc = "settle"
  BY <1>2 DEF Dropped, Job
<1>4. \A j \in JobId : /\ StartJob(j)' => StartJob(j) /\ j \notin aborted /\ jobs'[j] = jobs[j]
                       /\ CreateJob(j)' => CreateJob(j) /\ jobs'[j].of = jobs[j].of
  <2> HIDE DEF aborted
  <2>1. \A j \in aborted : j \in JobId /\ Live(j)
    BY DEF aborted
  <2> QED BY <1>1, <1>3, <2>1 DEF StartJob, CreateJob, Live
<1>5. \A n \in Node : without_progress(n) # "none" => snap.pending[n] # "none"
  BY DEF without_progress
<1>6. StartsBooked'
  <2>1. ASSUME NEW j \in JobId, StartJob(j)'
        PROVE  /\ jobs'[j].of \in Node
               /\ in_flight'[jobs'[j].of] = [action |-> "starting", job |-> j]
    <3> DEFINE n == jobs[j].of
    <3>1. /\ StartJob(j) /\ jobs'[j] = jobs[j] /\ n \in Node
          /\ in_flight[n] = [action |-> "starting", job |-> j]
      BY <1>4, <2>1 DEF ExclusionInv, StartsBooked
    <3>2. Live(j)
      BY <3>1 DEF StartJob
    <3>3. n \notin plan_abort
      BY <1>4, <2>1, <3>1, <3>2
    <3>4. in_flight[n] # NotInFlight /\ in_flight[n].action = "starting"
      BY <3>1 DEF NotInFlight
    <3>5. without_progress(n) # "none"
      BY <3>1, <3>3, <3>4 DEF plan_abort
    <3> QED BY <1>1, <3>1, <3>3, <3>5
  <2>2. ASSUME NEW n \in Node, n \in plan_spawn PROVE in_flight'[n] = NotInFlight
    BY <1>1, <2>2 DEF plan_spawn, plan_abort
  <2>3. ASSUME NEW n \in Node, snap.pending[n] = "none" PROVE in_flight'[n] = NotInFlight
    BY <1>1, <1>5, <2>3
  <2> QED BY <1>1, <2>1, <2>2, <2>3 DEF StartsBooked
<1>7. CreateBooked'
  BY <1>1, <1>4 DEF ExclusionInv, CreateBooked
<1>8. StartsYieldToCreate' /\ (\A i, k \in JobId : CreateJob(i) /\ CreateJob(k) => i = k)'
  BY <1>4 DEF ExclusionInv, StartsYieldToCreate
<1> QED BY <1>6, <1>7, <1>8 DEF ExclusionInv

\* A node in flight for a start is in flight.
LEMMA StartInFlight == \A j : [action |-> "starting", job |-> j] # NotInFlight
<1> SUFFICES ASSUME NEW j PROVE [action |-> "starting", job |-> j] # NotInFlight
  OBVIOUS
<1>1. [action |-> "starting", job |-> j].action # NotInFlight.action
  BY DEF NotInFlight
<1> QED BY <1>1

\* A start is spawned only for a node that has none, and never under a create.
LEMMA SpawnExclusion ==
  ASSUME ExclusionInv, TypeInv', NEW n \in Node, spawn_action(n) PROVE ExclusionInv'
<1> DEFINE new == [idle_job EXCEPT !.kind = snap.pending[n], !.of = n, !.pc = "resolve",
                                   !.run = containers]
<1>1. /\ jobs' = [jobs EXCEPT ![FreeJob] = new]
      /\ in_flight' = [in_flight EXCEPT ![n] = [action |-> snap.pending[n], job |-> FreeJob]]
      /\ spawn' = spawn \ {n} /\ phase = "spawn" /\ n \in spawn
      /\ UNCHANGED <<env, pending_create, phase, snap, create_in_flight>>
  BY DEF spawn_action, actorVars
<1>2. FreeJob \in JobId
  BY FreeJobSlot DEF spawn_action
<1>3. new.kind = snap.pending[n] /\ new.of = n
  BY DEF idle_job
<1>4. snap.pending[n] \in PendingAction /\ snap.pending[n] # "create"
  <2>1. snap.pending[n] \in Mark /\ snap.pending[n] # "none"
    BY <1>1 DEF ExclusionInv, TypeInv, TypeOK, ConvergeSnapshot
  <2> QED BY <2>1 DEF Mark, PendingAction
<1>5. jobs \in [JobId -> Job] /\ in_flight[n] = NotInFlight
  BY <1>1 DEF ExclusionInv, TypeInv, TypeOK, StartsBooked
<1>6. ASSUME NEW j \in JobId
      PROVE  /\ StartJob(j)' => \/ j = FreeJob /\ jobs'[j] = new /\ snap.pending[n] = "starting"
                                \/ StartJob(j) /\ jobs'[j] = jobs[j] /\ jobs[j].of # n
             /\ CreateJob(j)' => CreateJob(j) /\ jobs'[j] = jobs[j]
  <2>1. CASE j = FreeJob
    <3>1. jobs'[j] = new
      BY <1>1, <1>2, <1>5, <2>1
    <3> HIDE DEF new
    <3> QED BY <1>3, <1>4, <2>1, <3>1 DEF StartJob, CreateJob
  <2>2. CASE j # FreeJob
    <3>1. jobs'[j] = jobs[j]
      BY <1>1, <1>5, <2>2
    <3>2. StartJob(j) => jobs[j].of # n
      <4>1. StartJob(j) => in_flight[jobs[j].of] = [action |-> "starting", job |-> j]
        BY DEF ExclusionInv, StartsBooked
      <4> QED BY <1>5, <4>1, StartInFlight
    <3> QED BY <3>1, <3>2 DEF StartJob, CreateJob, Live
  <2> QED BY <2>1, <2>2
<1> HIDE DEF new
<1>7. in_flight \in [Node -> [action : Mark, job : JobId \cup {NoJob}]]
  BY DEF ExclusionInv, TypeInv, TypeOK
<1>8. StartsBooked'
  <2>1. ASSUME NEW j \in JobId, StartJob(j)'
        PROVE  /\ jobs'[j].of \in Node
               /\ in_flight'[jobs'[j].of] = [action |-> "starting", job |-> j]
    <3>1. CASE j = FreeJob /\ jobs'[j] = new /\ snap.pending[n] = "starting"
      BY <1>1, <1>3, <1>7, <3>1
    <3>2. CASE StartJob(j) /\ jobs'[j] = jobs[j] /\ jobs[j].of # n
      BY <1>1, <1>7, <3>2 DEF ExclusionInv, StartsBooked
    <3> QED BY <1>6, <2>1, <3>1, <3>2
  <2>2. ASSUME NEW m \in Node
        PROVE  /\ m \in spawn' => in_flight'[m] = NotInFlight
               /\ snap'.pending[m] = "none" => in_flight'[m] = NotInFlight
    BY <1>1, <1>4, <1>7 DEF ExclusionInv, StartsBooked, PendingAction
  <2> QED BY <1>1, <2>1, <2>2 DEF StartsBooked
<1>9. CreateBooked'
  BY <1>1, <1>6 DEF ExclusionInv, CreateBooked
<1>10. \A j \in JobId : ~CreateJob(j)
  BY <1>1, <1>4 DEF ExclusionInv, CreateBooked, PendingAction
<1>11. StartsYieldToCreate' /\ (\A i, k \in JobId : CreateJob(i) /\ CreateJob(k) => i = k)'
  BY <1>6, <1>10 DEF StartsYieldToCreate
<1> QED BY <1>8, <1>9, <1>11 DEF ExclusionInv

\* A create is spawned only when there is none, and after every start was aborted.
LEMMA CreateExclusion == ASSUME ExclusionInv, TypeInv', ConvergeCreate PROVE ExclusionInv'
<1>1. /\ phase = "spawn" /\ phase' = "idle"
      /\ create_in_flight' = (snap.create # NoCreate)
      /\ UNCHANGED <<env, pending_create, in_flight>>
  BY DEF ConvergeCreate, actorVars
<1>2. jobs \in [JobId -> Job] /\ snap.create \in EnvSpec \cup {NoCreate}
  BY <1>1 DEF ExclusionInv, TypeInv, TypeOK, ConvergeSnapshot
<1>3. CASE snap.create # NoCreate /\ ~create_in_flight
  <2> DEFINE new == [idle_job EXCEPT !.kind = "create", !.of = snap.create, !.pc = "resolve",
                                     !.run = containers]
  <2>1. jobs' = [jobs EXCEPT ![FreeJob] = new] /\ FreeJob \in JobId
    BY <1>3, FreeJobSlot DEF ConvergeCreate
  <2>2. new.kind = "create" /\ new.of = snap.create
    BY DEF idle_job
  <2> HIDE DEF new
  <2>3. \A j \in JobId : ~CreateJob(j)
    BY <1>3 DEF ExclusionInv, CreateBooked
  <2>4. \A j \in JobId : ~StartJob(j)
    <3>1. \A n \in Node : in_flight[n] = NotInFlight
      BY <1>1, <1>3 DEF ExclusionInv, StartsBooked, CreateBooked
    <3> QED BY <3>1, StartInFlight DEF ExclusionInv, StartsBooked
  <2>5. ASSUME NEW j \in JobId
        PROVE  /\ ~StartJob(j)'
               /\ CreateJob(j)' => j = FreeJob /\ jobs'[j] = new
    <3>1. CASE j = FreeJob
      <4>1. jobs'[j] = new
        BY <1>2, <2>1, <3>1
      <4> QED BY <2>2, <3>1, <4>1 DEF StartJob
    <3>2. CASE j # FreeJob
      <4>1. jobs'[j] = jobs[j]
        BY <1>2, <2>1, <3>2
      <4> QED BY <2>3, <2>4, <4>1 DEF StartJob, CreateJob, Live
    <3> QED BY <3>1, <3>2
  <2>6. pending_create = snap.create
    BY <1>1, <1>3 DEF ExclusionInv, CreateBooked
  <2>7. StartsBooked'
    BY <1>1, <2>5 DEF StartsBooked
  <2>8. CreateBooked'
    BY <1>1, <1>3, <2>2, <2>5, <2>6 DEF ExclusionInv, CreateBooked
  <2>9. StartsYieldToCreate' /\ (\A i, k \in JobId : CreateJob(i) /\ CreateJob(k) => i = k)'
    BY <2>5 DEF StartsYieldToCreate
  <2> QED BY <2>7, <2>8, <2>9 DEF ExclusionInv
<1>4. CASE ~(snap.create # NoCreate /\ ~create_in_flight)
  <2>1. jobs' = jobs
    BY <1>4 DEF ConvergeCreate
  <2>2. \A j \in JobId : /\ StartJob(j)' <=> StartJob(j)
                         /\ CreateJob(j)' <=> CreateJob(j)
    BY <2>1 DEF StartJob, CreateJob, Live
  <2>3. StartsBooked'
    BY <1>1, <2>1, <2>2 DEF ExclusionInv, StartsBooked
  <2>4. CreateBooked'
    BY <1>1, <2>1, <2>2 DEF ExclusionInv, CreateBooked
  <2>5. StartsYieldToCreate' /\ (\A i, k \in JobId : CreateJob(i) /\ CreateJob(k) => i = k)'
    BY <2>2 DEF ExclusionInv, StartsYieldToCreate
  <2> QED BY <2>3, <2>4, <2>5 DEF ExclusionInv
<1> QED BY <1>3, <1>4

-----------------------------------------------------------------------------
\* The books are kept by every step.
LEMMA ExclusionStep == ExclusionInv /\ [Next]_vars => ExclusionInv'
<1> SUFFICES ASSUME ExclusionInv, [Next]_vars PROVE ExclusionInv'
  OBVIOUS
<1>0. TypeInv'
  BY TypeStep DEF ExclusionInv
<1>1. CASE UserStep
  BY <1>0, <1>1, UserExclusion
<1>2. CASE EffectStep
  BY <1>0, <1>2, ExtractExclusion, PlanExclusion, SpawnExclusion, CreateExclusion DEF EffectStep
<1>3. CASE \E j \in JobId : JobStep(j)
  BY <1>0, <1>3, JobExclusion
<1>4. CASE UNCHANGED vars
  BY <1>0, <1>4 DEF vars, actorVars, effectVars, ExclusionInv, StartsBooked, CreateBooked,
                    StartsYieldToCreate, StartJob, CreateJob, Live
<1> QED BY <1>1, <1>2, <1>3, <1>4 DEF Next, Rest

\* The inductive invariant holds in every behaviour.
THEOREM ExclusionHolds == Spec => []ExclusionInv
BY InitExclusion, ExclusionStep, PTL DEF Spec

\* A node never has two start tasks that are still running (plan, abort_start).
THEOREM OneStart == Spec => []OneStartPerNode
<1>1. ExclusionInv => OneStartPerNode
  <2> SUFFICES ASSUME ExclusionInv, NEW i \in JobId, NEW j \in JobId,
                      StartJob(i), StartJob(j), jobs[i].of = jobs[j].of
               PROVE  i = j
    BY DEF OneStartPerNode
  <2>1. [action |-> "starting", job |-> i] = [action |-> "starting", job |-> j]
    BY DEF ExclusionInv, StartsBooked
  <2> QED BY <2>1
<1> QED BY <1>1, ExclusionHolds, PTL

\* There is at most one create, and pending_create names it until it settles
\* (plan_create, EnvPlanned, lookup_mut).
THEOREM OneCreateAtATime == Spec => []OneCreate
<1>1. ExclusionInv => OneCreate
  BY DEF ExclusionInv, CreateBooked, OneCreate
<1> QED BY <1>1, ExclusionHolds, PTL

\* No start task runs next to a create (extract_pending, plan, spawn_create).
THEOREM CreateTakesOver == Spec => []StartsYieldToCreate
<1>1. ExclusionInv => StartsYieldToCreate
  BY DEF ExclusionInv
<1> QED BY <1>1, ExclusionHolds, PTL

-----------------------------------------------------------------------------
(* A node on its own: what its Stop or Delete came to is not undone. *)

(***************************************************************************)
(* Nodes that another node can't start without, or that can't start        *)
(* without another.  The rest are on their own.                            *)
(***************************************************************************)
Shared == {n \in Node : \E e \in Requires : n \in {e[1], e[2]}}

(***************************************************************************)
(* A task for one node only ever touches that node and shared ones, and    *)
(* sends progress and cascaded settles about shared ones.  A create has no *)
(* cascaded settles, and waits for its drain before it settles.            *)
(***************************************************************************)
TaskOf(n) == {t \in Task : t.node \in Shared \cup {n}}
SharedReport == {r \in Report : r.node \in Shared}

KeepsOff(job) ==
  /\ job.kind # "create" => /\ job.todo \in Seq(TaskOf(job.of))
                            /\ job.others \in Seq(Shared)
                            /\ job.queue \in Seq(SharedReport)
  /\ job.kind = "create" => /\ job.others = <<>>
                            /\ job.pc \in {"cascade", "settle", "over"} => job.queue = <<>>

\* Only tasks for one node are in flight under a node, so no create is aborted.
NodeTasksInFlight ==
  \A n \in Node : in_flight[n].job \in JobId => jobs[in_flight[n].job].kind # "create"

AloneInv == ExclusionInv /\ (\A j \in JobId : KeepsOff(jobs[j])) /\ NodeTasksInFlight

\* What a node needs and what needs it is shared (requirements_of, dependents_of).
LEMMA ClosureShared ==
  ASSUME NEW n \in Node, NEW m \in requirements_of(n) \cup dependents_of(n)
  PROVE  m \in Shared
<1> SUFFICES ASSUME m \notin Shared PROVE FALSE
  OBVIOUS
<1> DEFINE S == Node \ {m}
<1>1. m \in Node /\ m # n /\ n \in S /\ S \in SUBSET Node
  BY DEF requirements_of, dependents_of, closure
<1>2. \A e \in Requires : e[1] # m /\ e[2] # m /\ e[1] \in Node /\ e[2] \in Node
  BY <1>1, RequiresAssumption DEF Shared
<1>3. \A e \in Requires : e[2] \in S
  BY <1>2
<1>4. \A e \in {<<e[2], e[1]>> : e \in Requires} : e[2] \in S
  BY <1>2
<1>5. CASE m \in requirements_of(n)
  BY <1>1, <1>3, <1>5 DEF requirements_of, closure
<1>6. CASE m \in dependents_of(n)
  BY <1>1, <1>4, <1>6 DEF dependents_of, closure
<1> QED BY <1>5, <1>6

\* Task lists over shared nodes and the task's own.
LEMMA TasksShared ==
  ASSUME NEW n \in Node, NEW T, T \subseteq Shared \cup {n}, NEW op \in {"up", "stop", "remove"}
  PROVE  /\ \A s \in StartOrders(T) \cup StopOrders(T) : Tasks(s, op) \in Seq(TaskOf(n))
         /\ \A s \in StopOrders(T) : Tasks(Append(s, n), op) \in Seq(TaskOf(n))
         /\ Tasks(<<n>>, op) \in Seq(TaskOf(n))
<1>1. T \subseteq Node
  BY DEF Shared
<1>2. ASSUME NEW s \in Seq(T \cup {n}) PROVE Tasks(s, op) \in Seq(TaskOf(n))
  <2>1. /\ DOMAIN s = 1..Len(s) /\ Len(s) \in Nat
        /\ \A i \in 1..Len(s) : s[i] \in Shared \cup {n} /\ s[i] \in Node
    BY <1>1
  <2>2. \A i \in 1..Len(s) : [node |-> s[i], op |-> op] \in TaskOf(n)
    BY <2>1 DEF TaskOf, Task
  <2>3. Tasks(s, op) \in [1..Len(s) -> TaskOf(n)]
    BY <2>1, <2>2 DEF Tasks
  <2> QED BY <2>1, <2>3
<1>3. ASSUME NEW s \in StartOrders(T) \cup StopOrders(T)
      PROVE  s \in Seq(T \cup {n}) /\ Append(s, n) \in Seq(T \cup {n})
  <2>1. s \in Seq(T)
    BY <1>1, OrderType
  <2>2. s \in Seq(T \cup {n})
    BY <2>1
  <2> QED BY <2>2
<1>4. <<n>> \in Seq(T \cup {n})
  OBVIOUS
<1> QED BY <1>2, <1>3, <1>4

\* What is left of a sequence, and what is added to it, has the same elements.
LEMMA SeqParts ==
  ASSUME NEW S, NEW s \in Seq(S)
  PROVE  /\ s # <<>> => Head(s) \in S /\ Tail(s) \in Seq(S)
         /\ \A x \in S : Append(s, x) \in Seq(S)
OBVIOUS

\* A new slot is tidy.
LEMMA IdleKeepsOff == KeepsOff(idle_job) /\ idle_job.kind = "idle"
BY DEF KeepsOff, idle_job

\* A report about a node of the task list that is not the task's own is about a
\* shared one (Reported).
LEMMA ReportedShared ==
  ASSUME NEW job \in Job, KeepsOff(job), job.kind # "create", job.todo # <<>>,
         NEW mark \in Mark, NEW info \in Entry
  PROVE  /\ Reported(job, Head(job.todo).node, mark, info) \in Seq(SharedReport)
         /\ ~Own(job, Head(job.todo).node) => Head(job.todo).node \in Shared
<1> DEFINE n == Head(job.todo).node
<1>1. Head(job.todo) \in TaskOf(job.of) /\ job.queue \in Seq(SharedReport)
  BY DEF KeepsOff
<1>2. n \in Node /\ n \in Shared \cup {job.of}
  BY <1>1 DEF TaskOf, Task
<1>3. CASE Own(job, n)
  BY <1>1, <1>3 DEF Reported
<1>4. CASE ~Own(job, n)
  <2>1. n \in Shared
    BY <1>2, <1>4 DEF Own
  <2>2. [node |-> n, mark |-> mark, info |-> info] \in SharedReport
    BY <1>2, <2>1 DEF SharedReport, Report
  <2>3. Reported(job, n, mark, info) = Append(job.queue, [node |-> n, mark |-> mark, info |-> info])
    BY <1>4 DEF Reported
  <2>4. \A r \in SharedReport : Append(job.queue, r) \in Seq(SharedReport)
    BY <1>1
  <2>5. Reported(job, n, mark, info) \in Seq(SharedReport)
    BY <2>2, <2>3, <2>4
  <2> QED BY <2>1, <2>5
<1> QED BY <1>3, <1>4

\* How the record of a task may change: it stays off the nodes that are not its own.
LEMMA KeepsOffFields ==
  ASSUME NEW job, NEW new, new.kind = job.kind, new.of = job.of,
         job.kind # "create" => /\ new.todo \in Seq(TaskOf(job.of))
                                /\ new.others \in Seq(Shared)
                                /\ new.queue \in Seq(SharedReport),
         job.kind = "create" => /\ new.others = <<>>
                                /\ new.pc \in {"cascade", "settle", "over"} => new.queue = <<>>
  PROVE  KeepsOff(new)
BY DEF KeepsOff

\* Resolving gives a task the nodes it is for and shared ones.
LEMMA ResolveKeepsOff ==
  ASSUME TypeInv, NEW j \in JobId, Resolve(j), KeepsOff(jobs[j])
  PROVE  \E new : Set(j, new) /\ KeepsOff(new)
<1> DEFINE job == jobs[j]
           n == job.of
<1>0. job \in Job /\ JobOK(job)
  BY DEF TypeInv, TypeOK
<1>1. ASSUME NEW todo, job.kind # "create" => todo \in Seq(TaskOf(n)),
             Set(j, [job EXCEPT !.pc = "loop", !.built = TRUE, !.todo = todo])
      PROVE  \E new : Set(j, new) /\ KeepsOff(new)
  <2> DEFINE new == [job EXCEPT !.pc = "loop", !.built = TRUE, !.todo = todo]
  <2>1. /\ new.kind = job.kind /\ new.of = job.of /\ new.pc = "loop" /\ new.todo = todo
        /\ new.others = job.others /\ new.queue = job.queue
    BY <1>0 DEF Job
  <2>2. Set(j, new)
    BY <1>1
  <2> HIDE DEF new
  <2>3. KeepsOff(new)
    BY <1>1, <2>1, KeepsOffFields DEF KeepsOff
  <2> QED BY <2>2, <2>3
<1>2. CASE job.kind = "create" /\ ~Set(j, [job EXCEPT !.pc = "drain"])
  <2>1. \E todo : Set(j, [job EXCEPT !.pc = "loop", !.built = TRUE, !.todo = todo])
    BY <1>2 DEF Resolve
  <2> QED BY <1>1, <1>2, <2>1
<1>3. CASE Set(j, [job EXCEPT !.pc = "drain"])
  <2> DEFINE new == [job EXCEPT !.pc = "drain"]
  <2>1. /\ new.kind = job.kind /\ new.of = job.of /\ new.pc = "drain" /\ new.todo = job.todo
        /\ new.others = job.others /\ new.queue = job.queue
    BY <1>0 DEF Job
  <2> HIDE DEF new
  <2>2. KeepsOff(new)
    BY <2>1, KeepsOffFields DEF KeepsOff
  <2> QED BY <1>3, <2>2 DEF new
<1>4. CASE job.kind \in {"starting", "stopping", "removing"} /\ ~Set(j, [job EXCEPT !.pc = "drain"])
  <2>1. n \in Node
    BY <1>0, <1>4 DEF JobOK, PendingAction
  <2>2. /\ restart_targets(n, job.run) \subseteq Shared \cup {n}
        /\ stop_targets(n, job.run) \subseteq Shared \cup {n}
        /\ {} \subseteq Shared \cup {n}
    BY <2>1, ClosureShared DEF restart_targets, stop_targets
  <2>3. CASE job.kind = "starting"
    BY <1>1, <1>4, <2>1, <2>2, <2>3, TasksShared DEF Resolve
  <2>4. CASE job.kind = "stopping"
    <3>1. PICK T \in {stop_targets(n, job.run)} \cup Faulty("resolve", {{}}) :
          \E s \in StopOrders(T) :
            Set(j, [job EXCEPT !.pc = "loop", !.built = TRUE, !.todo = Tasks(Append(s, n), "stop")])
      BY <1>4, <2>4 DEF Resolve
    <3>2. T \subseteq Shared \cup {n}
      BY <2>2 DEF Faulty
    <3> QED BY <1>1, <2>1, <3>1, <3>2, TasksShared
  <2>5. CASE job.kind = "removing"
    BY <1>1, <1>4, <2>1, <2>2, <2>5, TasksShared DEF Resolve
  <2> QED BY <1>4, <2>3, <2>4, <2>5
<1> QED BY <1>2, <1>3, <1>4 DEF Resolve

\* Deciding about a node reports it, unless it is the task's own.
LEMMA LoopKeepsOff ==
  ASSUME TypeInv, NEW j \in JobId, Loop(j), KeepsOff(jobs[j])
  PROVE  \E new : Set(j, new) /\ KeepsOff(new)
<1> DEFINE job == jobs[j]
           n == Head(job.todo).node
<1>0. job \in Job /\ job.pc = "loop"
  BY DEF TypeInv, TypeOK, Loop
<1>1. ASSUME NEW F, job.todo # <<>>
      PROVE  KeepsOff(Skip(job)) /\ KeepsOff([Skip(job) EXCEPT !.failed = F])
  <2> DEFINE a == Skip(job)
             b == [Skip(job) EXCEPT !.failed = F]
  <2>1. /\ a.kind = job.kind /\ a.of = job.of /\ a.pc = "loop" /\ a.todo = Tail(job.todo)
        /\ a.others = job.others /\ a.queue = job.queue
        /\ b.kind = job.kind /\ b.of = job.of /\ b.pc = "loop" /\ b.todo = Tail(job.todo)
        /\ b.others = job.others /\ b.queue = job.queue
    BY <1>0 DEF Skip, Job
  <2>2. job.kind # "create" => Tail(job.todo) \in Seq(TaskOf(job.of))
    <3>1. job.kind # "create" => job.todo \in Seq(TaskOf(job.of))
      BY DEF KeepsOff
    <3> QED BY <1>1, <3>1, SeqParts
  <2> HIDE DEF a, b
  <2>3. KeepsOff(a) /\ KeepsOff(b)
    BY <2>1, <2>2, KeepsOffFields DEF KeepsOff
  <2> QED BY <2>3 DEF a, b
<1>2. KeepsOff([job EXCEPT !.pc = "drain"])
  <2> DEFINE a == [job EXCEPT !.pc = "drain"]
  <2>1. /\ a.kind = job.kind /\ a.of = job.of /\ a.pc = "drain" /\ a.todo = job.todo
        /\ a.others = job.others /\ a.queue = job.queue
    BY <1>0 DEF Job
  <2> HIDE DEF a
  <2>2. KeepsOff(a)
    BY <2>1, KeepsOffFields DEF KeepsOff
  <2> QED BY <2>2 DEF a
<1>3. ASSUME NEW mark, NEW queue, job.kind # "create" => queue \in Seq(SharedReport)
      PROVE  KeepsOff([job EXCEPT !.act = mark, !.pc = "lock", !.queue = queue])
  <2> DEFINE a == [job EXCEPT !.act = mark, !.pc = "lock", !.queue = queue]
  <2>1. /\ a.kind = job.kind /\ a.of = job.of /\ a.pc = "lock" /\ a.todo = job.todo
        /\ a.others = job.others /\ a.queue = queue
    BY <1>0 DEF Job
  <2> HIDE DEF a
  <2>2. KeepsOff(a)
    BY <1>3, <2>1, KeepsOffFields DEF KeepsOff
  <2> QED BY <2>2 DEF a
<1>4. ASSUME NEW mark PROVE KeepsOff([job EXCEPT !.act = mark, !.pc = "lock"])
  <2>1. [job EXCEPT !.act = mark, !.pc = "lock"]
          = [job EXCEPT !.act = mark, !.pc = "lock", !.queue = job.queue]
    BY <1>0 DEF Job
  <2> QED BY <1>3, <2>1 DEF KeepsOff
<1>5. CASE job.todo = <<>>
  BY <1>2, <1>5 DEF Loop
<1>6. CASE job.todo # <<>> /\ Head(job.todo).op = "up"
  <2>1. PICK alive, drifted : Decide(j, n, alive, drifted)
    BY <1>6 DEF Loop
  <2>2. job.kind # "create" => \A mark \in {"starting", "restarting"} :
                                 Reported(job, n, mark, Absent) \in Seq(SharedReport)
    BY <1>0, <1>6, ReportedShared DEF Mark, PendingAction, Entry
  <2>3. \/ Set(j, Skip(job))
        \/ \E F : Set(j, [Skip(job) EXCEPT !.failed = F])
        \/ \E mark \in {"starting", "restarting"} :
             Set(j, [job EXCEPT !.act = mark, !.pc = "lock", !.queue = Reported(job, n, mark, Absent)])
    BY <2>1 DEF Decide
  <2> QED BY <1>1, <1>3, <1>6, <2>2, <2>3
<1>7. CASE job.todo # <<>> /\ Head(job.todo).op = "stop"
  <2>1. \E queue : /\ job.kind # "create" => queue = job.queue
                   /\ Set(j, [job EXCEPT !.act = "stopping", !.pc = "lock", !.queue = queue])
    BY <1>7 DEF Loop
  <2>2. job.kind # "create" => job.queue \in Seq(SharedReport)
    BY DEF KeepsOff
  <2> QED BY <1>3, <2>1, <2>2
<1>8. CASE job.todo # <<>> /\ Head(job.todo).op = "remove"
  BY <1>4, <1>8 DEF Loop
<1> QED BY <1>5, <1>6, <1>7, <1>8 DEF Loop

\* The work on a node reports it, unless it is the task's own (Done).
LEMMA WorkKeepsOff ==
  ASSUME TypeInv, TypeInv', NEW j \in JobId, Work(j), KeepsOff(jobs[j])
  PROVE  \E new : Set(j, new) /\ KeepsOff(new)
<1> DEFINE job == jobs[j]
           n == Head(job.todo).node
<1>0. job \in Job /\ job.pc = "work" /\ job.todo # <<>>
  BY DEF TypeInv, TypeOK, Work, JobOK
<1>1. job.kind # "create" => /\ Tail(job.todo) \in Seq(TaskOf(job.of))
                             /\ job.others \in Seq(Shared)
                             /\ job.queue \in Seq(SharedReport)
                             /\ ~Own(job, n) => n \in Shared
  <2>1. job.kind # "create" => job.todo \in Seq(TaskOf(job.of))
    BY DEF KeepsOff
  <2>2. job.kind # "create" /\ ~Own(job, n) => n \in Shared
    BY <1>0, ReportedShared DEF Mark, Entry
  <2>3. job.kind # "create" => Tail(job.todo) \in Seq(TaskOf(job.of))
    BY <1>0, <2>1, SeqParts
  <2> QED BY <2>2, <2>3 DEF KeepsOff
<1>2. job.kind = "create" => job.others = <<>>
  BY DEF KeepsOff
<1>3. ASSUME NEW info \in Entry PROVE KeepsOff(Done(job, n, info))
  <2> DEFINE new == Done(job, n, info)
  <2>1. /\ new.kind = job.kind /\ new.of = job.of /\ new.pc = "loop" /\ new.todo = Tail(job.todo)
        /\ new.others = (IF Own(job, n) \/ job.kind = "create" THEN job.others
                         ELSE Append(job.others, n))
        /\ new.queue = (IF job.kind = "stopping" THEN job.queue
                        ELSE Reported(job, n, "none", info))
    BY <1>0 DEF Done, Skip, Job
  <2>2. job.kind # "create" => Reported(job, n, "none", info) \in Seq(SharedReport)
    BY <1>0, ReportedShared DEF Mark
  <2> HIDE DEF new
  <2>3. job.kind # "create" => new.others \in Seq(Shared)
    <3>1. CASE Own(job, n) \/ job.kind = "create"
      BY <1>1, <2>1, <3>1
    <3>2. CASE ~Own(job, n) /\ job.kind # "create"
      BY <1>1, <2>1, <3>2, SeqParts
    <3> QED BY <3>1, <3>2
  <2>4. KeepsOff(new)
    BY <1>1, <1>2, <2>1, <2>2, <2>3, KeepsOffFields
  <2> QED BY <2>4 DEF new
<1>4. ASSUME NEW F, NEW queue, job.kind # "create" => queue \in Seq(SharedReport)
      PROVE  KeepsOff([Skip(job) EXCEPT !.pc = "loop", !.act = "none", !.failed = F, !.queue = queue])
  <2> DEFINE new == [Skip(job) EXCEPT !.pc = "loop", !.act = "none", !.failed = F, !.queue = queue]
  <2>1. /\ new.kind = job.kind /\ new.of = job.of /\ new.pc = "loop" /\ new.todo = Tail(job.todo)
        /\ new.others = job.others /\ new.queue = queue
    BY <1>0 DEF Skip, Job
  <2> HIDE DEF new
  <2>2. KeepsOff(new)
    BY <1>1, <1>2, <1>4, <2>1, KeepsOffFields
  <2> QED BY <2>2 DEF new
<1>5. ASSUME NEW r PROVE KeepsOff([Skip(job) EXCEPT !.pc = "loop", !.act = "none", !.result = r])
  <2> DEFINE new == [Skip(job) EXCEPT !.pc = "loop", !.act = "none", !.result = r]
  <2>1. /\ new.kind = job.kind /\ new.of = job.of /\ new.pc = "loop" /\ new.todo = Tail(job.todo)
        /\ new.others = job.others /\ new.queue = job.queue
    BY <1>0 DEF Skip, Job
  <2> HIDE DEF new
  <2>2. KeepsOff(new)
    BY <1>1, <1>2, <2>1, KeepsOffFields
  <2> QED BY <2>2 DEF new
<1>6. job.kind # "create" => Reported(job, n, "none", Absent) \in Seq(SharedReport)
  BY <1>0, ReportedShared DEF Mark, Entry
<1>7. \/ \E info : Set(j, Done(job, n, info))
      \/ \E F : Set(j, [Skip(job) EXCEPT !.pc = "loop", !.act = "none", !.failed = F,
                                         !.queue = Reported(job, n, "none", Absent)])
      \/ \E r : Set(j, [Skip(job) EXCEPT !.pc = "loop", !.act = "none", !.result = r])
  BY DEF Work
<1>8. ASSUME NEW info, Set(j, Done(job, n, info)) PROVE info \in Entry
  <2>1. jobs'[j] = Done(job, n, info) /\ jobs'[j] \in Job
    BY <1>8 DEF Set, TypeInv, TypeOK
  <2>2. Done(job, n, info).run = [job.run EXCEPT ![n] = info]
    BY <1>0 DEF Done, Skip, Job
  <2>3. job.run \in [Node -> Entry] /\ n \in Node
    <3>1. job.run \in [Node -> Entry] /\ job.todo \in Seq(Task)
      BY <1>0 DEF Job
    <3>2. Head(job.todo) \in Task
      BY <1>0, <3>1, SeqParts
    <3> QED BY <3>1, <3>2 DEF Task
  <2> QED BY <2>1, <2>2, <2>3 DEF Job
<1> QED BY <1>3, <1>4, <1>5, <1>6, <1>7, <1>8

\* What a task still does when its work is done keeps it off the other nodes.
LEMMA EndKeepsOff ==
  ASSUME TypeInv, NEW j \in JobId, KeepsOff(jobs[j]),
         Lock(j) \/ Drain(j) \/ DrainEnd(j) \/ Cascade(j) \/ Settle(j)
  PROVE  \E new : Set(j, new) /\ KeepsOff(new)
<1> DEFINE job == jobs[j]
<1>0. job \in Job
  BY DEF TypeInv, TypeOK
<1>1. job.kind # "create" => /\ job.todo \in Seq(TaskOf(job.of))
                             /\ job.others \in Seq(Shared)
                             /\ job.queue \in Seq(SharedReport)
  BY DEF KeepsOff
<1>2. job.kind = "create" => /\ job.others = <<>>
                             /\ job.pc \in {"cascade", "settle", "over"} => job.queue = <<>>
  BY DEF KeepsOff
<1>3. ASSUME NEW pc, NEW mine, NEW queue, NEW others, NEW new,
             new.kind = job.kind, new.of = job.of, new.todo = job.todo,
             new.pc = pc, new.queue = queue, new.others = others,
             queue = job.queue \/ (job.queue # <<>> /\ queue = Tail(job.queue)),
             others = job.others \/ (job.others # <<>> /\ others = Tail(job.others)),
             job.kind = "create" /\ pc \in {"cascade", "settle", "over"} =>
                queue = <<>> \/ job.pc \in {"cascade", "settle", "over"}
      PROVE  KeepsOff(new)
  <2>1. job.kind # "create" => queue \in Seq(SharedReport) /\ others \in Seq(Shared)
    BY <1>1, <1>3, SeqParts
  <2>2. job.kind = "create" => others = <<>>
    BY <1>2, <1>3
  <2>3. job.kind = "create" /\ pc \in {"cascade", "settle", "over"} => queue = <<>>
    BY <1>2, <1>3
  <2> QED BY <1>1, <1>3, <2>1, <2>2, <2>3, KeepsOffFields
<1>4. CASE Lock(j)
  <2> DEFINE new == [job EXCEPT !.pc = "work"]
  <2>1. /\ new.kind = job.kind /\ new.of = job.of /\ new.pc = "work" /\ new.todo = job.todo
        /\ new.others = job.others /\ new.queue = job.queue
    BY <1>0 DEF Job
  <2>2. Set(j, new)
    BY <1>4 DEF Lock
  <2> HIDE DEF new
  <2> QED BY <1>3, <2>1, <2>2
<1>5. CASE Drain(j)
  <2>1. PICK mine : Set(j, [job EXCEPT !.queue = Tail(@), !.mine = mine])
    BY <1>5 DEF Drain
  <2> DEFINE new == [job EXCEPT !.queue = Tail(@), !.mine = mine]
  <2>2. /\ new.kind = job.kind /\ new.of = job.of /\ new.pc = job.pc /\ new.todo = job.todo
        /\ new.others = job.others /\ new.queue = Tail(job.queue)
    BY <1>0 DEF Job
  <2>3. job.queue # <<>>
    BY <1>5 DEF Drain
  <2> HIDE DEF new
  <2>4. KeepsOff(new)
    BY <1>3, <2>2, <2>3
  <2> QED BY <2>1, <2>4 DEF new
<1>6. CASE DrainEnd(j)
  <2> DEFINE new == [job EXCEPT !.mine = {}, !.pc = IF @ = "drain" THEN "cascade" ELSE @]
  <2>1. /\ new.kind = job.kind /\ new.of = job.of /\ new.todo = job.todo
        /\ new.others = job.others /\ new.queue = job.queue
    BY <1>0 DEF Job
  <2>2. Set(j, idle_job) \/ Set(j, new)
    BY <1>6 DEF DrainEnd
  <2>3. job.queue = <<>>
    BY <1>6 DEF DrainEnd
  <2> HIDE DEF new
  <2>4. KeepsOff(new)
    BY <1>3, <2>1, <2>3
  <2> QED BY <2>2, <2>4, IdleKeepsOff
<1>7. CASE Cascade(j)
  <2> DEFINE a == [job EXCEPT !.others = Tail(@)]
             b == [job EXCEPT !.pc = "settle"]
  <2>1. /\ a.kind = job.kind /\ a.of = job.of /\ a.todo = job.todo /\ a.pc = job.pc
        /\ a.others = Tail(job.others) /\ a.queue = job.queue
        /\ b.kind = job.kind /\ b.of = job.of /\ b.todo = job.todo /\ b.pc = "settle"
        /\ b.others = job.others /\ b.queue = job.queue
    BY <1>0 DEF Job
  <2>2. (job.others # <<>> /\ Set(j, a)) \/ Set(j, b)
    BY <1>7 DEF Cascade
  <2>3. job.pc = "cascade"
    BY <1>7 DEF Cascade
  <2> HIDE DEF a, b
  <2>4. KeepsOff(b)
    BY <1>3, <2>1, <2>3
  <2>5. job.others # <<>> => KeepsOff(a)
    BY <1>3, <2>1, <2>3
  <2> QED BY <2>2, <2>4, <2>5
<1>8. CASE Settle(j)
  <2> DEFINE new == [job EXCEPT !.pc = "over"]
  <2>1. /\ new.kind = job.kind /\ new.of = job.of /\ new.pc = "over" /\ new.todo = job.todo
        /\ new.others = job.others /\ new.queue = job.queue
    BY <1>0 DEF Job
  <2>2. (Set(j, idle_job) \/ Set(j, new)) /\ job.pc = "settle"
    BY <1>8 DEF Settle
  <2> HIDE DEF new
  <2>3. KeepsOff(new)
    BY <1>3, <2>1, <2>2
  <2> QED BY <2>2, <2>3, IdleKeepsOff
<1> QED BY <1>4, <1>5, <1>6, <1>7, <1>8

\* A step of a task keeps every task off the nodes that are not its own.
LEMMA JobAlone ==
  ASSUME AloneInv, ExclusionInv', NEW j \in JobId, JobStep(j) PROVE AloneInv'
<1>0. TypeInv /\ TypeInv' /\ KeepsOff(jobs[j]) /\ jobs \in [JobId -> Job]
  BY DEF AloneInv, ExclusionInv, TypeInv, TypeOK
<1>1. PICK new : Set(j, new) /\ KeepsOff(new)
  BY <1>0, ResolveKeepsOff, LoopKeepsOff, WorkKeepsOff, EndKeepsOff DEF JobStep
<1>2. PICK x : Set(j, x) /\ Advances(x, jobs[j])
  BY <1>0, StepAdvances
<1>3. \A k \in JobId : /\ jobs'[k] = IF k = j THEN new ELSE jobs[k]
                       /\ jobs'[k] = IF k = j THEN x ELSE jobs[k]
  BY <1>0, <1>1, <1>2 DEF Set
<1>4. \A k \in JobId : KeepsOff(jobs'[k])
  BY <1>1, <1>3 DEF AloneInv
<1>5. \A k \in JobId : jobs'[k].kind = "create" => jobs[k].kind = "create"
  BY <1>2, <1>3, IdleKeepsOff DEF Advances
<1>6. in_flight' = in_flight
  BY <1>0, JobKeepsPlan DEF effectVars
<1> QED BY <1>4, <1>5, <1>6 DEF AloneInv, NodeTasksInFlight

\* A dropped task is one for a node, and goes on being off the others.
LEMMA DroppedKeepsOff ==
  ASSUME NEW job \in Job, KeepsOff(job), job.kind # "create"
  PROVE  KeepsOff(Dropped(job)) /\ Dropped(job).kind = job.kind
<1> DEFINE new == Dropped(job)
<1>1. /\ new.kind = job.kind /\ new.of = job.of /\ new.todo = <<>> /\ new.others = <<>>
      /\ new.queue = job.queue
  BY DEF Dropped, Job
<1> HIDE DEF new
<1>2. KeepsOff(new)
  BY <1>1, KeepsOffFields DEF KeepsOff
<1> QED BY <1>1, <1>2 DEF new

\* So does a step of the effect.
LEMMA EffectAlone == ASSUME AloneInv, ExclusionInv', EffectStep PROVE AloneInv'
<1>0. /\ TypeInv /\ jobs \in [JobId -> Job]
      /\ in_flight \in [Node -> [action : Mark, job : JobId \cup {NoJob}]]
  BY DEF AloneInv, ExclusionInv, TypeInv, TypeOK
<1>1. CASE ConvergeExtract
  BY <1>1 DEF ConvergeExtract, AloneInv, NodeTasksInFlight
<1>2. CASE ConvergePlan
  <2> DEFINE aborted == {in_flight[n].job : n \in plan_abort} \cap {j \in JobId : Live(j)}
  <2>1. /\ jobs' = [j \in JobId |-> IF j \in aborted THEN Dropped(jobs[j]) ELSE jobs[j]]
        /\ \A n \in Node : in_flight'[n] \in {NotInFlight, in_flight[n]}
    BY <1>2 DEF ConvergePlan
  <2>2. \A j \in aborted : j \in JobId /\ jobs[j].kind # "create"
    BY DEF AloneInv, NodeTasksInFlight, plan_abort
  <2> HIDE DEF aborted
  <2>3. \A j \in JobId : KeepsOff(jobs'[j]) /\ jobs'[j].kind = jobs[j].kind
    BY <1>0, <2>1, <2>2, DroppedKeepsOff DEF AloneInv
  <2>4. NotInFlight.job \notin JobId
    BY JobAssumption DEF NotInFlight
  <2> QED BY <2>1, <2>3, <2>4 DEF AloneInv, NodeTasksInFlight
<1>3. ASSUME NEW n \in Node, spawn_action(n) PROVE AloneInv'
  <2> DEFINE new == [idle_job EXCEPT !.kind = snap.pending[n], !.of = n, !.pc = "resolve",
                                     !.run = containers]
  <2>1. /\ jobs' = [jobs EXCEPT ![FreeJob] = new]
        /\ in_flight' = [in_flight EXCEPT ![n] = [action |-> snap.pending[n], job |-> FreeJob]]
        /\ phase = "spawn"
    BY <1>3 DEF spawn_action
  <2>2. FreeJob \in JobId /\ FreeSlot(FreeJob)
    BY <1>3, FreeJobSlot DEF spawn_action
  <2>3. new.kind = snap.pending[n] /\ new.todo = <<>> /\ new.others = <<>> /\ new.queue = <<>>
    BY DEF idle_job
  <2>4. snap.pending[n] # "create"
    BY <1>0, <2>1 DEF TypeInv, TypeOK, ConvergeSnapshot, Mark, PendingAction
  <2> HIDE DEF new
  <2>5. KeepsOff(new)
    BY <2>3, <2>4 DEF KeepsOff
  <2>6. \A j \in JobId : jobs'[j] = IF j = FreeJob THEN new ELSE jobs[j]
    BY <1>0, <2>1, <2>2
  <2>7. \A m \in Node : in_flight'[m].job = IF m = n THEN FreeJob ELSE in_flight[m].job
    BY <1>0, <2>1
  <2>8. \A j \in JobId : KeepsOff(jobs'[j])
    BY <2>5, <2>6 DEF AloneInv
  <2>9. NodeTasksInFlight'
    BY <2>3, <2>4, <2>6, <2>7 DEF AloneInv, NodeTasksInFlight
  <2> QED BY <2>8, <2>9 DEF AloneInv
<1>4. CASE ConvergeCreate
  <2>1. in_flight' = in_flight
    BY <1>4 DEF ConvergeCreate
  <2>2. CASE jobs' = jobs
    BY <2>1, <2>2 DEF AloneInv, NodeTasksInFlight
  <2>3. CASE jobs' # jobs
    <3> DEFINE new == [idle_job EXCEPT !.kind = "create", !.of = snap.create, !.pc = "resolve",
                                       !.run = containers]
    <3>1. jobs' = [jobs EXCEPT ![FreeJob] = new] /\ HasFreeSlot
      BY <1>4, <2>3 DEF ConvergeCreate
    <3>2. FreeJob \in JobId /\ FreeSlot(FreeJob)
      BY <3>1, FreeJobSlot
    <3>3. new.kind = "create" /\ new.pc = "resolve" /\ new.others = <<>>
      BY DEF idle_job
    <3> HIDE DEF new
    <3>4. KeepsOff(new)
      BY <3>3 DEF KeepsOff
    <3>5. \A j \in JobId : jobs'[j] = IF j = FreeJob THEN new ELSE jobs[j]
      BY <1>0, <3>1, <3>2
    <3>6. \A m \in Node : in_flight[m].job # FreeJob
      BY <3>2 DEF FreeSlot
    <3> QED BY <2>1, <3>4, <3>5, <3>6 DEF AloneInv, NodeTasksInFlight
  <2> QED BY <2>2, <2>3
<1> QED BY <1>1, <1>2, <1>3, <1>4 DEF EffectStep

\* Every step keeps the tasks off the nodes that are not their own.
LEMMA AloneStep == AloneInv /\ [Next]_vars => AloneInv'
<1> SUFFICES ASSUME AloneInv, [Next]_vars PROVE AloneInv'
  OBVIOUS
<1>1. ExclusionInv'
  BY ExclusionStep DEF AloneInv
<1>2. CASE UNCHANGED <<effectVars, jobs>>
  BY <1>1, <1>2 DEF effectVars, AloneInv, NodeTasksInFlight
<1>3. CASE UserStep
  BY <1>2, <1>3 DEF UserStep, Plan, Start, Stop, Delete, DebugWait, Request
<1>4. CASE UNCHANGED vars
  BY <1>2, <1>4 DEF vars
<1> QED BY <1>1, <1>3, <1>4, EffectAlone, JobAlone DEF Next, Rest

\* And a new daemon has no tasks.
LEMMA InitAlone == Init => AloneInv
<1> SUFFICES ASSUME Init PROVE AloneInv
  OBVIOUS
<1>1. /\ \A j \in JobId : jobs[j] = idle_job
      /\ \A n \in Node : in_flight[n].job = NoJob
  BY DEF Init, NotInFlight
<1> QED BY <1>1, InitExclusion, IdleKeepsOff, JobAssumption DEF AloneInv, NodeTasksInFlight

\* Outside a create, only the settle of its own task changes the entry of a node that
\* is on its own, and only while the node is marked for that task.
LEMMA AloneEntry ==
  ASSUME AloneInv, NEW j \in JobId, JobStep(j), NEW n \in Node \ Shared,
         pending_create = NoCreate, containers'[n] # containers[n]
  PROVE  /\ jobs[j].kind = MarkOf(n) /\ jobs[j].kind \in PendingAction /\ jobs[j].of = n
         /\ jobs[j].pc = "settle" /\ jobs'[j].pc # "settle"
<1> DEFINE job == jobs[j]
<1>0. job \in Job /\ jobs \in [JobId -> Job] /\ containers \in [Node -> Entry]
  BY DEF AloneInv, ExclusionInv, TypeInv, TypeOK, WorkspaceTypeOK
<1>1. ~CreateJob(j)
  BY DEF AloneInv, ExclusionInv, CreateBooked
<1>2. KeepsOff(job)
  BY DEF AloneInv
<1>3. CASE Resolve(j) \/ Loop(j) \/ Lock(j) \/ Work(j) \/ DrainEnd(j)
  BY <1>3 DEF Resolve, Loop, Lock, Work, DrainEnd, jobRest, actorVars
<1>4. CASE Drain(j)
  <2>1. job.kind # "create" /\ job.queue # <<>>
    BY <1>1, <1>2, <1>4 DEF Drain, KeepsOff, CreateJob
  <2>2. job.queue \in Seq(SharedReport)
    BY <1>2, <2>1 DEF KeepsOff
  <2>3. Head(job.queue) \in SharedReport
    BY <2>1, <2>2, SeqParts
  <2>4. Head(job.queue).node \in Shared
    BY <2>3 DEF SharedReport
  <2> QED BY <1>0, <1>4, <2>4 DEF Drain, EnvCreateWorking, EnvCreateProgress
<1>5. CASE Cascade(j)
  <2>1. job.kind # "create"
    BY <1>1, <1>5 DEF Cascade, CreateJob
  <2>2. job.others \in Seq(Shared)
    BY <1>2, <2>1 DEF KeepsOff
  <2>3. job.others # <<>> => Head(job.others) \in Shared
    BY <2>2, SeqParts
  <2> QED BY <1>0, <1>5, <2>3 DEF Cascade, ContainerActionSettled, actorVars
<1>6. CASE Settle(j)
  <2>1. job.pc = "settle" /\ job.kind # "create"
    BY <1>1, <1>6 DEF Settle, CreateJob
  <2>2. ContainerActionSettled(job.of, job.kind, job.result)
    BY <1>6, <2>1 DEF Settle
  <2>3. job.kind \in PendingAction \cup {"idle"}
    BY <1>0, <2>1 DEF Job, JobKind
  <2>4. job.kind # "none"
    BY <2>3 DEF PendingAction
  <2>5. job.of = n /\ job.kind = MarkOf(n)
    BY <1>0, <2>2, <2>4 DEF ContainerActionSettled
  <2>6. MarkOf(n) \in Mark
    BY <1>0 DEF MarkOf, MarkIn, Entry, ContainerInfo, Mark
  <2>7. jobs'[j] = idle_job \/ jobs'[j] = [job EXCEPT !.pc = "over"]
    BY <1>0, <1>6 DEF Settle, Set
  <2>8. jobs'[j].pc # "settle"
    BY <1>0, <2>7 DEF idle_job, Job
  <2> QED BY <2>1, <2>3, <2>5, <2>6, <2>8 DEF Mark, PendingAction
<1> QED BY <1>3, <1>4, <1>5, <1>6 DEF JobStep

\* A request leaves a node that is being stopped alone, and puts back an entry that is
\* gone only to start the node (set_pending, NodeStartRequested).
LEMMA UserEntry ==
  ASSUME TypeInv, UserStep, NEW n \in Node
  PROVE  /\ MarkOf(n) = "stopping" => containers'[n] = containers[n]
         /\ containers[n] = Absent /\ containers'[n] # Absent =>
              pending_create = NoCreate /\ MarkOf(n)' = "starting"
<1>0. containers \in [Node -> Entry]
  BY DEF TypeInv, TypeOK, WorkspaceTypeOK
<1>1. CASE \E plan \in Flow : Plan(plan)
  BY <1>1 DEF Plan, EnvPlanned
<1>2. ASSUME NEW m \in Node, Start(m)
      PROVE  /\ MarkOf(n) = "stopping" => containers'[n] = containers[n]
             /\ containers[n] = Absent /\ containers'[n] # Absent =>
                  pending_create = NoCreate /\ MarkOf(n)' = "starting"
  <2>1. starting_placeholder.pending = "starting"
    BY DEF starting_placeholder
  <2> QED BY <1>0, <1>2, <2>1 DEF Start, NodeStartRequested, MarkOf, MarkIn
<1>3. ASSUME NEW m \in Node, Stop(m) \/ Delete(m)
      PROVE  /\ MarkOf(n) = "stopping" => containers'[n] = containers[n]
             /\ containers[n] = Absent => containers'[n] = Absent
  BY <1>0, <1>3 DEF Stop, Delete, NodeStopRequested, NodeDeleteRequested, set_pending, MarkOf, MarkIn
<1>4. ASSUME NEW m \in Node, NEW w \in BOOLEAN, DebugWait(m, w)
      PROVE  /\ MarkOf(n) = "stopping" => containers'[n] = containers[n]
             /\ containers[n] = Absent => containers'[n] = Absent
  BY <1>0, <1>4 DEF DebugWait, NodeDebugWaitRequested, MarkOf, MarkIn
<1> QED BY <1>1, <1>2, <1>3, <1>4 DEF UserStep

(***************************************************************************)
(* In any graph, for a node that is on its own and as long as no create is *)
(* in flight: an accepted Stop ends only with the report of the task that  *)
(* stops the node, and an entry that is gone comes back only as the node   *)
(* is started again.                                                       *)
(***************************************************************************)
Undisturbed ==
  \A n \in Node \ Shared :
    pending_create = NoCreate =>
      /\ MarkOf(n) = "stopping" /\ MarkOf(n)' # "stopping" => StopSettles(n)
      /\ containers[n] = Absent /\ containers'[n] # Absent => MarkOf(n)' = "starting"

AloneHolds == [][Undisturbed]_vars

\* Every step is like that.
LEMMA StepUndisturbed == AloneInv /\ [Next]_vars => [Undisturbed]_vars
<1> SUFFICES ASSUME AloneInv, [Next]_vars, NEW n \in Node \ Shared, pending_create = NoCreate
             PROVE  /\ MarkOf(n) = "stopping" /\ MarkOf(n)' # "stopping" => StopSettles(n)
                    /\ containers[n] = Absent /\ containers'[n] # Absent => MarkOf(n)' = "starting"
  BY DEF Undisturbed
<1>1. CASE containers'[n] = containers[n]
  BY <1>1 DEF MarkOf, MarkIn
<1>2. CASE UserStep
  BY <1>1, <1>2, UserEntry DEF AloneInv, ExclusionInv
<1>3. CASE EffectStep
  BY <1>1, <1>3 DEF EffectStep, ConvergeExtract, ConvergePlan, spawn_action, ConvergeCreate, actorVars
<1>4. ASSUME NEW j \in JobId, JobStep(j), containers'[n] # containers[n]
      PROVE  /\ MarkOf(n) = "stopping" => StopSettles(n)
             /\ containers[n] # Absent
  <2>1. /\ jobs[j].kind = MarkOf(n) /\ jobs[j].kind \in PendingAction /\ jobs[j].of = n
        /\ jobs[j].pc = "settle" /\ jobs'[j].pc # "settle"
    BY <1>4, AloneEntry
  <2>2. MarkOf(n) = "stopping" => StopSettles(n)
    BY <2>1 DEF StopSettles
  <2> QED BY <2>1, <2>2 DEF MarkOf, MarkIn, PendingAction
<1>5. CASE UNCHANGED vars
  BY <1>1, <1>5 DEF vars, actorVars
<1> QED BY <1>1, <1>2, <1>3, <1>4, <1>5 DEF Next, Rest

(***************************************************************************)
(* The Stop of a node that is on its own holds, and a node that is deleted *)
(* stays deleted, in every graph and under every fault                     *)
(* (ContainerActionSettled's `of', set_pending).                           *)
(***************************************************************************)
THEOREM AloneKept == Spec => AloneHolds
<1>1. Spec => []AloneInv
  BY InitAlone, AloneStep, PTL DEF Spec
<1> QED BY <1>1, StepUndisturbed, PTL DEF Spec, AloneHolds

-----------------------------------------------------------------------------
(* A workspace of nodes that are all on their own, without a flow: its only *)
(* create is its very first start, and that disturbs nothing.               *)

(***************************************************************************)
(* What the first start knows and reports is in Docker: d is what Docker   *)
(* has.  Until it has made the container it knows of none.                 *)
(***************************************************************************)
Backed(d) ==
  {r \in Report : r.mark \in {"none", "starting"} /\ (r.info # Absent => d[r.node] # "absent")}
Bare == {r \in Report : r.mark \in {"none", "starting"} /\ r.info = Absent}

FirstJob(job, d) ==
  /\ job.kind = "create" /\ job.pc # "over"
  /\ job.todo \in {<<>>, <<[node |-> job.of, op |-> "up"]>>}
  /\ job.act \in {"none", "starting"}
  /\ job.queue \in Seq(Backed(d))
  /\ \A n \in Node : job.run[n] # Absent => d[n] # "absent"
  /\ job.pc = "resolve" \/ job.todo # <<>> =>
       (\A n \in Node : job.run[n] = Absent) /\ job.queue \in Seq(Bare)

\* There is no environment yet, and nothing was asked for.
Untouched ==
  /\ pending_create = NoCreate
  /\ \A n \in Node : containers[n] = Absent /\ in_flight[n] = NotInFlight
  /\ \A j \in JobId : jobs[j] = idle_job
  /\ phase # "idle" => \A n \in Node : snap.pending[n] = "none"

\* The first start is the only task there is.
OnlyFirst ==
  /\ \A j \in JobId : jobs[j] = idle_job \/ FirstJob(jobs[j], docker)
  /\ \A n \in Node : in_flight[n] = NotInFlight /\ MarkOf(n) \in {"none", "starting"}
  /\ phase # "idle" => \A n \in Node : snap.pending[n] = "none"
  /\ (\A j \in JobId : jobs[j] = idle_job) => \A n \in Node : containers[n] = Absent

FirstInv ==
  /\ AloneInv
  /\ ~env => Untouched
  /\ pending_create # NoCreate => OnlyFirst

\* Reports about what Docker has none of are backed by anything.
LEMMA BareBacked == \A d : Seq(Bare) \subseteq Seq(Backed(d))
<1>1. \A d : Bare \subseteq Backed(d)
  BY DEF Bare, Backed
<1> QED BY <1>1

\* The first start is for one node.
LEMMA FirstTodo ==
  ASSUME Requires = {}, NEW n \in Node,
         NEW s \in StartOrders(create_targets(n)), NEW t \in StopOrders({})
  PROVE  Tasks(t, "stop") \o Tasks(s, "up") = <<[node |-> n, op |-> "up"]>>
<1>1. create_targets(n) = {n}
  <2>1. Shared = {} /\ n \notin Flow
    BY SpecAssumption DEF Shared
  <2>2. requirements_of(n) = {}
    BY <2>1, ClosureShared
  <2> QED BY <2>1, <2>2 DEF create_targets
<1>2. Cardinality({n}) = 1 /\ Cardinality({}) = 0
  BY FS_Singleton, FS_EmptySet
<1>3. s \in [1..1 -> {n}]
  BY <1>1, <1>2 DEF StartOrders
<1>4. DOMAIN t = {}
  <2>1. PICK u : t = [i \in 1..Cardinality({}) |-> u[Cardinality({}) + 1 - i]]
    BY DEF StopOrders
  <2> QED BY <1>2, <2>1
<1>5. Tasks(t, "stop") = <<>>
  BY <1>4 DEF Tasks
<1>6. Tasks(s, "up") = <<[node |-> n, op |-> "up"]>>
  BY <1>3 DEF Tasks
<1> DEFINE x == <<[node |-> n, op |-> "up"]>>
<1>7. x \in Seq(Task)
  BY DEF Task
<1> HIDE DEF x
<1>8. <<>> \o x = x
  BY <1>7
<1> QED BY <1>5, <1>6, <1>8 DEF x

\* A free slot takes no step.
LEMMA IdleRests == ASSUME NEW j \in JobId, jobs[j] = idle_job PROVE ~JobStep(j)
<1>1. jobs[j].pc = "idle" /\ jobs[j].queue = <<>>
  BY DEF idle_job
<1> QED BY <1>1 DEF JobStep, Resolve, Loop, Lock, Work, Drain, DrainEnd, Closed, Cascade, Settle

\* Before the container is made: the task list, and the report that it is started.
LEMMA FirstBegins ==
  ASSUME Requires = {}, Flow = {}, TypeInv, NEW j \in JobId, FirstJob(jobs[j], docker),
         Resolve(j) \/ Loop(j) \/ Lock(j)
  PROVE  \E new : Set(j, new) /\ FirstJob(new, docker)
<1> DEFINE job == jobs[j]
           n == job.of
<1>0. job \in Job /\ job.kind = "create" /\ n \in Node
  BY DEF TypeInv, TypeOK, JobOK, FirstJob, EnvSpec
<1>1. CASE Resolve(j)
  <2>0. job.pc = "resolve" /\ (\A m \in Node : job.run[m] = Absent) /\ job.queue \in Seq(Bare)
    BY <1>1 DEF Resolve, FirstJob
  <2>1. outside(n, job.run) = {}
    BY DEF outside
  <2>2. \/ Set(j, [job EXCEPT !.pc = "drain"])
        \/ Set(j, [job EXCEPT !.pc = "loop", !.built = TRUE,
                              !.todo = <<[node |-> n, op |-> "up"]>>])
    <3>1. CASE \E s \in StartOrders(create_targets(n)), t \in StopOrders(outside(n, job.run)) :
                Set(j, [job EXCEPT !.pc = "loop", !.built = TRUE,
                                   !.todo = Tasks(t, "stop") \o Tasks(s, "up")])
      BY <1>0, <2>1, <3>1, FirstTodo
    <3> QED BY <1>0, <1>1, <3>1 DEF Resolve
  <2> DEFINE a == [job EXCEPT !.pc = "drain"]
             b == [job EXCEPT !.pc = "loop", !.built = TRUE, !.todo = <<[node |-> n, op |-> "up"]>>]
  <2>3. /\ a.kind = job.kind /\ a.of = job.of /\ a.pc = "drain" /\ a.todo = job.todo
        /\ a.act = job.act /\ a.queue = job.queue /\ a.run = job.run
    BY <1>0 DEF Job
  <2>4. /\ b.kind = job.kind /\ b.of = job.of /\ b.pc = "loop"
        /\ b.todo = <<[node |-> n, op |-> "up"]>>
        /\ b.act = job.act /\ b.queue = job.queue /\ b.run = job.run
    BY <1>0 DEF Job
  <2> HIDE DEF a, b
  <2>5. FirstJob(a, docker)
    BY <2>0, <2>3 DEF FirstJob
  <2>6. FirstJob(b, docker)
    BY <2>0, <2>4 DEF FirstJob
  <2> QED BY <2>2, <2>5, <2>6 DEF a, b
<1>2. CASE Loop(j)
  <2>0. job.pc = "loop"
    BY <1>2 DEF Loop
  <2>1. CASE job.todo = <<>>
    <3> DEFINE a == [job EXCEPT !.pc = "drain"]
    <3>1. /\ a.kind = job.kind /\ a.of = job.of /\ a.pc = "drain" /\ a.todo = job.todo
          /\ a.act = job.act /\ a.queue = job.queue /\ a.run = job.run
      BY <1>0 DEF Job
    <3>2. Set(j, a)
      BY <1>2, <2>1 DEF Loop
    <3> HIDE DEF a
    <3>3. FirstJob(a, docker)
      BY <2>1, <3>1 DEF FirstJob
    <3> QED BY <3>2, <3>3
  <2>2. CASE job.todo # <<>>
    <3>1. /\ job.todo = <<[node |-> n, op |-> "up"]>>
          /\ (\A m \in Node : job.run[m] = Absent) /\ job.queue \in Seq(Bare)
      BY <2>2 DEF FirstJob
    <3>2. Head(job.todo).node = n /\ Head(job.todo).op = "up" /\ Tail(job.todo) = <<>>
      BY <3>1
    <3>3. PICK alive, drifted : Decide(j, n, alive, drifted)
      BY <1>2, <2>2, <3>2 DEF Loop
    <3> DEFINE q == Append(job.queue, [node |-> n, mark |-> "starting", info |-> Absent])
    <3>4. Reported(job, n, "starting", Absent) = q
      BY <1>0 DEF Reported, Own
    <3>5. \/ Set(j, Skip(job))
          \/ \E F : Set(j, [Skip(job) EXCEPT !.failed = F])
          \/ Set(j, [job EXCEPT !.act = "starting", !.pc = "lock", !.queue = q])
      <4>1. {r \in Node : <<n, r>> \in Requires} = {}
        OBVIOUS
      <4> HIDE DEF q
      <4> QED BY <3>3, <3>4, <4>1 DEF Decide
    <3>6. q \in Seq(Bare)
      <4>1. [node |-> n, mark |-> "starting", info |-> Absent] \in Bare
        BY <1>0 DEF Bare, Report, Mark, PendingAction, Entry
      <4> QED BY <3>1, <4>1, SeqParts
    <3>7. ASSUME NEW F PROVE FirstJob(Skip(job), docker) /\ FirstJob([Skip(job) EXCEPT !.failed = F], docker)
      <4> DEFINE a == Skip(job)
                 b == [Skip(job) EXCEPT !.failed = F]
      <4>1. /\ a.kind = job.kind /\ a.of = job.of /\ a.pc = "loop" /\ a.todo = Tail(job.todo)
            /\ a.act = job.act /\ a.queue = job.queue /\ a.run = job.run
        BY <1>0, <2>0 DEF Skip, Job
      <4>2. /\ b.kind = job.kind /\ b.of = job.of /\ b.pc = "loop" /\ b.todo = Tail(job.todo)
            /\ b.act = job.act /\ b.queue = job.queue /\ b.run = job.run
        BY <1>0, <2>0 DEF Skip, Job
      <4> HIDE DEF a, b
      <4>3. FirstJob(a, docker) /\ FirstJob(b, docker)
        BY <3>2, <4>1, <4>2 DEF FirstJob
      <4> QED BY <4>3 DEF a, b
    <3>8. FirstJob([job EXCEPT !.act = "starting", !.pc = "lock", !.queue = q], docker)
      <4> HIDE DEF q
      <4> DEFINE a == [job EXCEPT !.act = "starting", !.pc = "lock", !.queue = q]
      <4>1. /\ a.kind = job.kind /\ a.of = job.of /\ a.pc = "lock" /\ a.todo = job.todo
            /\ a.act = "starting" /\ a.queue = q /\ a.run = job.run
        BY <1>0 DEF Job
      <4> HIDE DEF a
      <4>2. FirstJob(a, docker)
        BY <3>1, <3>6, <4>1, BareBacked DEF FirstJob
      <4> QED BY <4>2 DEF a
    <3> HIDE DEF q
    <3> QED BY <3>5, <3>7, <3>8
  <2> QED BY <2>1, <2>2
<1>3. CASE Lock(j)
  <2> DEFINE a == [job EXCEPT !.pc = "work"]
  <2>1. /\ a.kind = job.kind /\ a.of = job.of /\ a.pc = "work" /\ a.todo = job.todo
        /\ a.act = job.act /\ a.queue = job.queue /\ a.run = job.run
    BY <1>0 DEF Job
  <2>2. Set(j, a)
    BY <1>3 DEF Lock
  <2> HIDE DEF a
  <2>3. FirstJob(a, docker)
    BY <2>1 DEF FirstJob
  <2> QED BY <2>2, <2>3
<1> QED BY <1>1, <1>2, <1>3

\* Making the container: what the task then knows and reports is what Docker has.
LEMMA FirstWorks ==
  ASSUME TypeInv, NEW j \in JobId, FirstJob(jobs[j], docker), Work(j)
  PROVE  \E new : Set(j, new) /\ FirstJob(new, docker')
<1> DEFINE job == jobs[j]
           n == job.of
<1>0. job \in Job /\ job.kind = "create" /\ JobOK(job) /\ job.pc = "work"
  BY DEF TypeInv, TypeOK, FirstJob, Work
<1>1. /\ job.todo = <<[node |-> n, op |-> "up"]>>
      /\ (\A m \in Node : job.run[m] = Absent) /\ job.queue \in Seq(Bare)
  BY <1>0 DEF FirstJob, JobOK
<1>2. Head(job.todo).node = n /\ Tail(job.todo) = <<>>
  BY <1>1
<1>3. n \in Node
  <2>1. job.todo \in Seq(Task)
    BY <1>0 DEF Job
  <2>2. Head(job.todo) \in Task
    BY <1>0, <2>1, SeqParts DEF JobOK
  <2> QED BY <1>2, <2>2 DEF Task
<1>4. docker \in [Node -> DockerStatus] /\ job.run \in [Node -> Entry]
  BY <1>0 DEF TypeInv, TypeOK, Job
<1>5. \/ \E status \in {"running", "exited"}, wait \in BOOLEAN :
           /\ docker' = [docker EXCEPT ![n] = status]
           /\ Set(j, Done(job, n, [Up EXCEPT !.observed.status = status, !.debug_wait = wait]))
      \/ Set(j, [Skip(job) EXCEPT !.pc = "loop", !.act = "none", !.failed = @ \cup {n},
                                  !.queue = Reported(job, n, "none", Absent)])
  <2>1. job.act \in {"none", "starting"}
    BY DEF FirstJob
  <2> QED BY <1>1, <1>2, <1>3, <2>1 DEF Work, Faulty
<1>6. ASSUME NEW status \in {"running", "exited"}, NEW info \in Entry,
             docker' = [docker EXCEPT ![n] = status]
      PROVE  FirstJob(Done(job, n, info), docker')
  <2> DEFINE new == Done(job, n, info)
             r == [node |-> n, mark |-> "none", info |-> info]
  <2>1. /\ new.kind = job.kind /\ new.of = job.of /\ new.pc = "loop" /\ new.todo = Tail(job.todo)
        /\ new.act = "none" /\ new.run = [job.run EXCEPT ![n] = info]
        /\ new.queue = Reported(job, n, "none", info)
    BY <1>0 DEF Done, Skip, Job
  <2>2. new.queue = Append(job.queue, r)
    BY <1>0, <2>1 DEF Reported, Own
  <2>3. r \in Backed(docker')
    BY <1>3, <1>4, <1>6 DEF Backed, Report, Mark
  <2>4. new.queue \in Seq(Backed(docker'))
    <3> HIDE DEF r, new
    <3>1. job.queue \in Seq(Backed(docker'))
      BY <1>1, BareBacked
    <3> QED BY <2>2, <2>3, <3>1, SeqParts
  <2>5. \A m \in Node : new.run[m] # Absent => docker'[m] # "absent"
    BY <1>1, <1>3, <1>4, <1>6, <2>1
  <2> HIDE DEF new
  <2>6. FirstJob(new, docker')
    BY <1>0, <1>2, <2>1, <2>4, <2>5 DEF FirstJob
  <2> QED BY <2>6 DEF new
<1>7. ASSUME NEW F PROVE FirstJob([Skip(job) EXCEPT !.pc = "loop", !.act = "none", !.failed = F,
                                     !.queue = Reported(job, n, "none", Absent)], docker')
  <2> DEFINE new == [Skip(job) EXCEPT !.pc = "loop", !.act = "none", !.failed = F,
                                      !.queue = Reported(job, n, "none", Absent)]
             r == [node |-> n, mark |-> "none", info |-> Absent]
  <2>1. /\ new.kind = job.kind /\ new.of = job.of /\ new.pc = "loop" /\ new.todo = Tail(job.todo)
        /\ new.act = "none" /\ new.run = job.run
        /\ new.queue = Reported(job, n, "none", Absent)
    BY <1>0 DEF Skip, Job
  <2>2. new.queue = Append(job.queue, r)
    BY <1>0, <2>1 DEF Reported, Own
  <2>3. r \in Bare
    BY <1>3 DEF Bare, Report, Mark, Entry
  <2>4. new.queue \in Seq(Bare)
    <3> HIDE DEF r, new
    <3> QED BY <1>1, <2>2, <2>3, SeqParts
  <2> HIDE DEF new
  <2>5. FirstJob(new, docker')
    BY <1>0, <1>1, <1>2, <2>1, <2>4, BareBacked DEF FirstJob
  <2> QED BY <2>5 DEF new
<1>8. ASSUME NEW status \in {"running", "exited"}, NEW wait \in BOOLEAN
      PROVE  [Up EXCEPT !.observed.status = status, !.debug_wait = wait] \in Entry
  BY DEF Up, Entry, ContainerInfo, ContainerObserved, DefaultObserved, Status, ExitCode, Mark
<1> QED BY <1>5, <1>6, <1>7, <1>8

\* After that it only drains and waits for its settle.
LEMMA FirstEnds ==
  ASSUME TypeInv, NEW j \in JobId, FirstJob(jobs[j], docker), KeepsOff(jobs[j]),
         Drain(j) \/ DrainEnd(j) \/ Cascade(j)
  PROVE  \E new : Set(j, new) /\ FirstJob(new, docker)
<1> DEFINE job == jobs[j]
<1>0. job \in Job /\ job.kind = "create" /\ job.pc # "over"
  BY DEF TypeInv, TypeOK, FirstJob
<1>1. CASE Drain(j)
  <2>1. PICK mine : Set(j, [job EXCEPT !.queue = Tail(@), !.mine = mine])
    BY <1>1 DEF Drain
  <2> DEFINE a == [job EXCEPT !.queue = Tail(@), !.mine = mine]
  <2>2. /\ a.kind = job.kind /\ a.of = job.of /\ a.pc = job.pc /\ a.todo = job.todo
        /\ a.act = job.act /\ a.queue = Tail(job.queue) /\ a.run = job.run
    BY <1>0 DEF Job
  <2>3. job.queue # <<>>
    BY <1>1 DEF Drain
  <2>4. /\ job.queue \in Seq(Backed(docker)) => Tail(job.queue) \in Seq(Backed(docker))
        /\ job.queue \in Seq(Bare) => Tail(job.queue) \in Seq(Bare)
    BY <2>3, SeqParts
  <2> HIDE DEF a
  <2>5. FirstJob(a, docker)
    BY <2>2, <2>4 DEF FirstJob
  <2> QED BY <2>1, <2>5 DEF a
<1>2. CASE DrainEnd(j)
  <2> DEFINE a == [job EXCEPT !.mine = {}, !.pc = IF @ = "drain" THEN "cascade" ELSE @]
  <2>1. /\ a.kind = job.kind /\ a.of = job.of /\ a.todo = job.todo
        /\ a.pc = (IF job.pc = "drain" THEN "cascade" ELSE job.pc)
        /\ a.act = job.act /\ a.queue = job.queue /\ a.run = job.run
    BY <1>0 DEF Job
  <2>2. Set(j, a)
    BY <1>0, <1>2 DEF DrainEnd
  <2> HIDE DEF a
  <2>3. FirstJob(a, docker)
    BY <1>0, <2>1 DEF FirstJob
  <2> QED BY <2>2, <2>3
<1>3. CASE Cascade(j)
  <2> DEFINE a == [job EXCEPT !.pc = "settle"]
  <2>1. /\ a.kind = job.kind /\ a.of = job.of /\ a.todo = job.todo /\ a.pc = "settle"
        /\ a.act = job.act /\ a.queue = job.queue /\ a.run = job.run
    BY <1>0 DEF Job
  <2>2. Set(j, a)
    BY <1>0, <1>3 DEF Cascade, KeepsOff
  <2> HIDE DEF a
  <2>3. FirstJob(a, docker)
    BY <1>0, <2>1 DEF FirstJob
  <2> QED BY <2>2, <2>3
<1> QED BY <1>1, <1>2, <1>3

\* What the first start reports marks nothing as stopping or removing.
LEMMA FirstMarks ==
  ASSUME TypeInv, NEW j \in JobId, FirstJob(jobs[j], docker), JobStep(j), ~Settle(j),
         KeepsOff(jobs[j]), NEW n \in Node, MarkOf(n) \in {"none", "starting"}
  PROVE  /\ MarkOf(n)' \in {"none", "starting"}
         /\ containers[n] = Absent /\ containers'[n] # Absent /\ MarkOf(n)' = "none" =>
              docker[n] # "absent"
<1> DEFINE job == jobs[j]
           report == Head(job.queue)
<1>0. containers \in [Node -> Entry] /\ job.kind = "create"
  BY DEF TypeInv, TypeOK, WorkspaceTypeOK, FirstJob
<1>1. CASE UNCHANGED containers
  BY <1>1 DEF MarkOf, MarkIn
<1>2. CASE Drain(j)
  <2>1. report \in Backed(docker)
    BY <1>2, SeqParts DEF Drain, FirstJob
  <2>2. /\ report.node \in Node /\ report.mark \in {"none", "starting"}
        /\ report.info \in Entry
        /\ report.info # Absent => docker[report.node] # "absent"
    BY <2>1 DEF Backed, Report
  <2>3. starting_placeholder.pending = "starting"
    BY DEF starting_placeholder
  <2>4. CASE report.info = Absent
    <3>1. EnvCreateWorking(report.node, report.mark)
      BY <1>2, <2>4 DEF Drain
    <3> QED BY <1>0, <1>1, <2>2, <2>3, <3>1 DEF EnvCreateWorking, MarkOf, MarkIn, Entry, ContainerInfo
  <2>5. CASE report.info # Absent
    <3>1. EnvCreateProgress(report.node, report.info)
      BY <1>2, <2>5 DEF Drain
    <3>2. [report.info EXCEPT !.pending = "none"].pending = "none"
      BY <2>2, <2>5 DEF Entry, ContainerInfo
    <3> QED BY <1>0, <1>1, <2>2, <2>5, <3>1, <3>2 DEF EnvCreateProgress, MarkOf, MarkIn
  <2> QED BY <2>4, <2>5
<1>3. CASE Cascade(j)
  BY <1>0, <1>1, <1>3 DEF Cascade, KeepsOff, actorVars
<1>4. CASE Resolve(j) \/ Loop(j) \/ Lock(j) \/ Work(j) \/ DrainEnd(j)
  BY <1>1, <1>4 DEF Resolve, Loop, Lock, Work, DrainEnd, jobRest, actorVars
<1> QED BY <1>2, <1>3, <1>4 DEF JobStep

\* The task that steps is the first start.
LEMMA StepsFirst ==
  ASSUME FirstInv, pending_create # NoCreate, NEW j \in JobId, JobStep(j)
  PROVE  /\ FirstJob(jobs[j], docker) /\ KeepsOff(jobs[j])
         /\ \A k \in JobId \ {j} : jobs[k] = idle_job
<1>1. FirstJob(jobs[j], docker) /\ KeepsOff(jobs[j])
  BY IdleRests DEF FirstInv, OnlyFirst, AloneInv
<1>2. ASSUME NEW k \in JobId \ {j} PROVE jobs[k] = idle_job
  <2>1. FirstJob(jobs[k], docker) => CreateJob(k) /\ CreateJob(j)
    BY <1>1 DEF FirstJob, CreateJob
  <2> QED BY <2>1 DEF FirstInv, OnlyFirst, AloneInv, ExclusionInv
<1> QED BY <1>1, <1>2

\* The invariant survives the steps of the tasks.
LEMMA JobFirst ==
  ASSUME Requires = {}, Flow = {}, FirstInv, AloneInv', NEW j \in JobId, JobStep(j)
  PROVE  FirstInv'
<1>0. TypeInv /\ TypeInv' /\ jobs \in [JobId -> Job]
  BY DEF FirstInv, AloneInv, ExclusionInv, TypeInv, TypeOK
<1>1. env
  BY IdleRests DEF FirstInv, Untouched
<1>2. /\ UNCHANGED effectVars /\ env' = env
      /\ \/ pending_create' = pending_create
         \/ pending_create' = NoCreate
  BY <1>0, JobKeepsPlan
<1>3. CASE pending_create' = NoCreate
  BY <1>1, <1>2, <1>3 DEF FirstInv
<1>4. CASE pending_create' # NoCreate
  <2>1. pending_create # NoCreate /\ OnlyFirst
    BY <1>2, <1>4 DEF FirstInv
  <2>2. /\ FirstJob(jobs[j], docker) /\ KeepsOff(jobs[j])
        /\ \A k \in JobId \ {j} : jobs[k] = idle_job
    BY <2>1, StepsFirst
  <2>3. ~Settle(j)
    BY <1>4, <2>2 DEF Settle, EnvCreateSettled, FirstJob
  <2>4. PICK new : Set(j, new) /\ FirstJob(new, docker')
    <3>1. CASE Work(j)
      BY <1>0, <2>2, <3>1, FirstWorks
    <3>2. CASE ~Work(j)
      <4>1. docker' = docker
        BY <2>3, <3>2 DEF JobStep, Resolve, Loop, Lock, Drain, DrainEnd, Cascade
      <4> QED BY <1>0, <2>2, <2>3, <3>2, <4>1, FirstBegins, FirstEnds DEF JobStep
    <3> QED BY <3>1, <3>2
  <2>5. jobs'[j] = new /\ \A k \in JobId \ {j} : jobs'[k] = idle_job
    BY <1>0, <2>2, <2>4 DEF Set
  <2>6. jobs'[j] # idle_job
    BY <2>4, <2>5, IdleKeepsOff DEF FirstJob
  <2>7. \A k \in JobId : jobs'[k] = idle_job \/ FirstJob(jobs'[k], docker')
    BY <2>4, <2>5
  <2>8. \A n \in Node : MarkOf(n)' \in {"none", "starting"}
    BY <1>0, <2>1, <2>2, <2>3, FirstMarks DEF OnlyFirst
  <2>9. OnlyFirst'
    BY <1>2, <2>1, <2>6, <2>7, <2>8 DEF OnlyFirst, effectVars
  <2> QED BY <1>1, <1>2, <2>9 DEF FirstInv
<1> QED BY <1>3, <1>4

\* And those of the effect, which has nothing to abort or to spawn but that start.
LEMMA EffectFirst ==
  ASSUME Requires = {}, Flow = {}, FirstInv, AloneInv', EffectStep PROVE FirstInv'
<1>0. /\ TypeInv /\ TypeInv' /\ jobs \in [JobId -> Job] /\ docker \in [Node -> DockerStatus]
      /\ UNCHANGED <<env, pending_create, containers>>
  BY DEF FirstInv, AloneInv, ExclusionInv, TypeInv, TypeOK, EffectStep, ConvergeExtract,
         ConvergePlan, spawn_action, ConvergeCreate, actorVars
<1>1. CASE env /\ pending_create = NoCreate
  BY <1>0, <1>1 DEF FirstInv
<1>2. CASE ~env \/ pending_create # NoCreate
  <2>0. /\ \A n \in Node : in_flight[n] = NotInFlight
        /\ phase # "idle" => \A n \in Node : snap.pending[n] = "none"
        /\ pending_create = NoCreate => \A n \in Node : MarkOf(n) = "none"
    BY <1>2 DEF FirstInv, Untouched, OnlyFirst, MarkOf, MarkIn
  <2>1. ASSUME UNCHANGED <<jobs, docker>>,
               \A n \in Node : in_flight'[n] = NotInFlight,
               phase' # "idle" => \A n \in Node : snap'.pending[n] = "none"
        PROVE  FirstInv'
    BY <1>0, <2>1 DEF FirstInv, Untouched, OnlyFirst, MarkOf, MarkIn
  <2>2. CASE ConvergeExtract
    <3>1. \A n \in Node : snap'.pending[n] = "none"
      BY <2>0, <2>2 DEF ConvergeExtract, extract
    <3> QED BY <2>0, <2>1, <2>2, <3>1 DEF ConvergeExtract
  <2>3. CASE ConvergePlan
    <3>1. plan_abort = {}
      BY <2>0 DEF plan_abort
    <3>2. jobs' = [k \in JobId |-> jobs[k]]
      BY <2>3, <3>1 DEF ConvergePlan
    <3>3. docker' = docker
      <4>1. docker' \in [Node -> DockerStatus] /\ \A n \in Node : docker'[n] = docker[n]
        BY <2>3, <3>1 DEF ConvergePlan
      <4> QED BY <1>0, <4>1
    <3>4. \A n \in Node : in_flight'[n] = NotInFlight
      BY <2>0, <2>3 DEF ConvergePlan
    <3> QED BY <1>0, <2>0, <2>1, <2>3, <3>2, <3>3, <3>4 DEF ConvergePlan
  <2>4. ASSUME NEW n \in Node, spawn_action(n) PROVE FirstInv'
    BY <1>0, <2>0, <2>4 DEF spawn_action, TypeInv
  <2>5. CASE ConvergeCreate
    <3>1. phase = "spawn" /\ phase' = "idle" /\ UNCHANGED <<in_flight, docker>>
      BY <2>5 DEF ConvergeCreate
    <3>2. CASE jobs' = jobs
      BY <2>0, <2>1, <3>1, <3>2
    <3>3. CASE jobs' # jobs
      <4> DEFINE new == [idle_job EXCEPT !.kind = "create", !.of = snap.create, !.pc = "resolve",
                                         !.run = containers]
      <4>1. /\ snap.create # NoCreate /\ ~create_in_flight /\ HasFreeSlot
            /\ jobs' = [jobs EXCEPT ![FreeJob] = new]
        BY <2>5, <3>3 DEF ConvergeCreate
      <4>2. pending_create # NoCreate /\ OnlyFirst /\ \A k \in JobId : ~CreateJob(k)
        BY <3>1, <4>1 DEF FirstInv, AloneInv, ExclusionInv, CreateBooked
      <4>3. \A k \in JobId : jobs[k] = idle_job
        BY <4>2 DEF OnlyFirst, FirstJob, CreateJob
      <4>4. \A n \in Node : containers[n] = Absent
        BY <4>2, <4>3 DEF OnlyFirst
      <4>5. /\ new.kind = "create" /\ new.pc = "resolve" /\ new.todo = <<>> /\ new.act = "none"
            /\ new.queue = <<>> /\ new.run = containers
        BY DEF idle_job
      <4> HIDE DEF new
      <4>6. FirstJob(new, docker)
        BY <4>4, <4>5 DEF FirstJob
      <4>7. FreeJob \in JobId
        BY <4>1, FreeJobSlot
      <4>8. \A k \in JobId : jobs'[k] = IF k = FreeJob THEN new ELSE jobs[k]
        BY <1>0, <4>1, <4>7
      <4>9. OnlyFirst'
        BY <1>0, <2>0, <3>1, <4>2, <4>4, <4>6, <4>8 DEF OnlyFirst, MarkOf, MarkIn
      <4>10. env
        BY <4>2 DEF FirstInv, Untouched
      <4> QED BY <1>0, <4>9, <4>10 DEF FirstInv
    <3> QED BY <3>2, <3>3
  <2> QED BY <2>2, <2>3, <2>4, <2>5 DEF EffectStep
<1> QED BY <1>1, <1>2

\* And those of the user: nothing else is accepted until the first start is over, but
\* for the debug switch.
LEMMA UserFirst ==
  ASSUME Requires = {}, Flow = {}, FirstInv, AloneInv', UserStep PROVE FirstInv'
<1>0. /\ UNCHANGED <<effectVars, jobs, docker>> /\ containers \in [Node -> Entry]
      /\ TypeInv
  BY DEF FirstInv, AloneInv, ExclusionInv, TypeInv, TypeOK, WorkspaceTypeOK,
         UserStep, Plan, Start, Stop, Delete, DebugWait, Request
<1>1. ASSUME NEW n \in Node, Start(n) PROVE FirstInv'
  <2>1. CASE ~env
    <3>1. Untouched /\ env' /\ UNCHANGED containers
      BY <1>1, <2>1 DEF FirstInv, Start, NodeStartRequested
    <3>2. OnlyFirst'
      BY <1>0, <3>1 DEF Untouched, OnlyFirst, effectVars, MarkOf, MarkIn
    <3> QED BY <3>1, <3>2 DEF FirstInv
  <2>2. CASE env
    BY <1>1, <2>2 DEF FirstInv, Start, NodeStartRequested
  <2> QED BY <2>1, <2>2
<1>2. ASSUME NEW n \in Node, Stop(n) \/ Delete(n) PROVE FirstInv'
  BY <1>2 DEF FirstInv, Stop, Delete, NodeStopRequested, NodeDeleteRequested, set_pending
<1>3. ASSUME NEW n \in Node, NEW w \in BOOLEAN, DebugWait(n, w) PROVE FirstInv'
  <2>1. env /\ env' /\ pending_create' = pending_create /\ containers[n] # Absent
    BY <1>3 DEF DebugWait, NodeDebugWaitRequested
  <2>2. \A m \in Node : MarkOf(m)' \in {MarkOf(m), "starting"}
    BY <1>0, <1>3 DEF DebugWait, NodeDebugWaitRequested, MarkOf, MarkIn, Entry, ContainerInfo
  <2>3. pending_create # NoCreate => OnlyFirst'
    BY <1>0, <2>1, <2>2 DEF FirstInv, OnlyFirst, effectVars
  <2> QED BY <2>1, <2>3 DEF FirstInv
<1> QED BY <1>1, <1>2, <1>3 DEF UserStep

\* A new daemon has nothing under way, and one without an environment knows no node.
LEMMA InitFirst == Init => FirstInv
<1> SUFFICES ASSUME Init PROVE FirstInv
  OBVIOUS
<1>1. pending_create = NoCreate /\ (~env => \A n \in Node : containers[n] = Absent)
  BY DEF Init, WorkspaceInit
<1>2. /\ \A n \in Node : in_flight[n] = NotInFlight
      /\ \A j \in JobId : jobs[j] = idle_job
      /\ phase = "idle"
  BY DEF Init
<1> QED BY <1>1, <1>2, InitAlone DEF FirstInv, Untouched

\* Every step keeps the first start to itself.
LEMMA FirstStep ==
  ASSUME Requires = {}, Flow = {} PROVE FirstInv /\ [Next]_vars => FirstInv'
<1> SUFFICES ASSUME FirstInv, [Next]_vars PROVE FirstInv'
  OBVIOUS
<1>1. AloneInv'
  BY AloneStep DEF FirstInv
<1>2. CASE UNCHANGED vars
  BY <1>1, <1>2 DEF vars, actorVars, effectVars, FirstInv, Untouched, OnlyFirst, MarkOf, MarkIn
<1> QED BY <1>1, <1>2, UserFirst, EffectFirst, JobFirst DEF Next, Rest

\* While the first start is under way no node is being stopped, and an entry that is
\* not a placeholder has a container behind it.
LEMMA FirstStarts ==
  ASSUME FirstInv, [Next]_vars, pending_create # NoCreate, NEW n \in Node
  PROVE  /\ MarkOf(n) # "stopping"
         /\ containers[n] = Absent /\ containers'[n] # Absent /\ MarkOf(n)' = "none" =>
              docker[n] # "absent"
<1>0. OnlyFirst /\ TypeInv /\ MarkOf(n) \in {"none", "starting"}
  BY DEF FirstInv, OnlyFirst, AloneInv, ExclusionInv
<1>1. CASE UserStep
  BY <1>0, <1>1, UserEntry
<1>2. CASE EffectStep \/ UNCHANGED vars
  BY <1>0, <1>2 DEF EffectStep, ConvergeExtract, ConvergePlan, spawn_action, ConvergeCreate,
                    vars, actorVars
<1>3. ASSUME NEW j \in JobId, JobStep(j), containers[n] = Absent, containers'[n] # Absent,
             MarkOf(n)' = "none"
      PROVE  docker[n] # "absent"
  <2>1. FirstJob(jobs[j], docker) /\ KeepsOff(jobs[j])
    BY <1>3, StepsFirst
  <2>2. CASE ~Settle(j)
    BY <1>0, <1>3, <2>1, <2>2, FirstMarks
  <2>3. CASE Settle(j)
    <3>1. \/ EnvCreateSettled(jobs[j].run)
          \/ EnvCreateSettled(Failed)
      BY <2>1, <2>3 DEF Settle, FirstJob
    <3>2. jobs[j].run[n] # Absent
      BY <1>3, <3>1 DEF EnvCreateSettled, clear_create_marks
    <3> QED BY <2>1, <3>2 DEF FirstJob
  <2> QED BY <2>2, <2>3
<1> QED BY <1>0, <1>1, <1>2, <1>3 DEF Next, Rest

(***************************************************************************)
(* In a workspace of any number of nodes that need no other node, an       *)
(* accepted Stop holds until the task that stops the node reports: neither *)
(* the report of the start it called off, nor the very first start, nor    *)
(* any fault clears its mark (ContainerActionSettled's `of', set_pending). *)
(***************************************************************************)
THEOREM StopHolds ==
  ASSUME Requires = {}, Flow = {} PROVE Spec => StopTakesHold
<1>1. Spec => []FirstInv
  BY InitFirst, FirstStep, PTL DEF Spec
<1>2. FirstInv /\ [Next]_vars =>
        [\A n \in Node : MarkOf(n) = "stopping" /\ MarkOf(n)' # "stopping"
                         => docker'[n] # "running" \/ StopSettles(n)]_vars
  <2> SUFFICES ASSUME FirstInv, [Next]_vars, vars' # vars, NEW n \in Node,
                      MarkOf(n) = "stopping", MarkOf(n)' # "stopping"
               PROVE  StopSettles(n)
    OBVIOUS
  <2>1. pending_create = NoCreate
    BY FirstStarts
  <2>2. Undisturbed /\ n \notin Shared
    BY StepUndisturbed DEF FirstInv, Shared
  <2> QED BY <2>1, <2>2 DEF Undisturbed
<1> QED BY <1>1, <1>2, PTL DEF Spec, StopTakesHold

(***************************************************************************)
(* In such a workspace a settled delete is not undone by another report:   *)
(* an entry comes back only as the node is started again, or with the      *)
(* container the very first start made (EnvCreateProgress,                 *)
(* EnvCreateSettled, ContainerActionSettled's `of').                       *)
(***************************************************************************)
THEOREM DeleteHolds ==
  ASSUME Requires = {}, Flow = {} PROVE Spec => DeletedStaysDeleted
<1>1. Spec => []FirstInv
  BY InitFirst, FirstStep, PTL DEF Spec
<1>2. FirstInv /\ [Next]_vars =>
        [\A n \in Node :
           containers[n] = Absent /\ containers'[n] # Absent /\ MarkOf(n)' = "none"
             => docker[n] # "absent"]_vars
  <2> SUFFICES ASSUME FirstInv, [Next]_vars, vars' # vars, NEW n \in Node,
                      containers[n] = Absent, containers'[n] # Absent, MarkOf(n)' = "none"
               PROVE  docker[n] # "absent"
    OBVIOUS
  <2>1. CASE pending_create # NoCreate
    BY <2>1, FirstStarts
  <2>2. CASE pending_create = NoCreate
    <3>1. Undisturbed /\ n \notin Shared
      BY StepUndisturbed DEF FirstInv, Shared
    <3> QED BY <2>2, <3>1 DEF Undisturbed
  <2> QED BY <2>1, <2>2
<1> QED BY <1>1, <1>2, PTL DEF Spec, DeletedStaysDeleted
=============================================================================
