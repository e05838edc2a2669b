------------------------------ MODULE Registry ------------------------------
(***************************************************************************)
(* The workspaces fghjd knows: wiring one (daemon/registry.rs), removing   *)
(* it (daemon/removal.rs), the two files that list them                    *)
(* (persistence/index.rs), and each workspace's own store, written by its  *)
(* persist effect (effects/persist.rs, persistence/sqlite/env.rs) and read *)
(* back when it is wired or fghjd starts (persistence/rehydrate.rs).       *)
(*                                                                         *)
(* A workspace is its folder.  Requests run on fghjd's threads and take    *)
(* their steps one at a time; fghjd may die between any two.  A workspace  *)
(* has one node; Docker's objects bear the name of the folder's label.     *)
(* Actors of one folder are told apart by a slot number.                   *)
(***************************************************************************)
EXTENDS Naturals, FiniteSets, Sequences

CONSTANTS Paths, Label, Inside,   \* Inside: pairs <<inner, outer>> of folders
          Callers,
          Wired,                  \* folders wired, with a running node, at first
          Limit, MaxOps           \* how many requests, changes and faults there are, of each and in all

(* No folder is inside itself, and what is wired at first does not fight. *)
ASSUME PathsAssumption ==
  /\ Wired \subseteq Paths /\ Inside \subseteq Paths \X Paths /\ \A p \in Paths : <<p, p>> \notin Inside
  /\ \A p, q \in Wired : <<p, q>> \notin Inside /\ (Label[p] = Label[q] => p = q)

VARIABLES up,        \* fghjd runs
          byId,      \* the registry's maps: folder |-> its actor's slot, 0 if not wired
          acts,      \* <<folder, slot>> |-> actor
          index, removing,   \* workspaces.json and removing.json
          db,        \* folder |-> what its store holds
          jobs,      \* folder |-> its teardown
          docker,    \* label |-> what is there of it
          calls,     \* caller |-> request
          disputed,  \* folders two requests about them have crossed on
          strays,    \* folders removed with a start still running
          gone,      \* folders whose removal was answered, and no wire since
          asked,     \* folders with a request this fghjd was given
          unwatched, \* folders whose container went while no fghjd ran, to the store's surprise
          ops

requestVars == <<index, removing, calls>>
ghosts == <<disputed, strays, gone, asked, unwatched>>
vars == <<up, byId, acts, requestVars, db, jobs, docker, ghosts, ops>>

SLOTS == 1 .. 2
SWEEPS == 3
Labels == {Label[p] : p \in Paths}
Containers == {"node", "sidecar"}
NoEnv == [ver |-> 0, kind |-> "none", reading |-> "down", mark |-> FALSE]
NoActor == [env |-> NoEnv, conv |-> FALSE, job |-> "none", pc |-> "off", seen |-> 0,
            snap |-> NoEnv, last |-> <<>>, failed |-> FALSE]
NoJob == [pc |-> "none", sweep |-> 0]
NoCall == [pc |-> "done", kind |-> "wire", path |-> CHOOSE p \in Paths : TRUE, copy |-> {}, env |-> NoEnv]

Count(what) ==
  /\ ops[what] < Limit[what] /\ ops.request + ops.change + ops.fault < MaxOps
  /\ ops' = [ops EXCEPT ![what] = @ + 1]

Spawned_empty(env) ==
  [NoActor EXCEPT !.conv = TRUE, !.pc = "look"]

(* wire_actor: an actor seeded with what was read back, and its effects. *)
Spawned(env) ==
  [NoActor EXCEPT !.env = env, !.conv = TRUE, !.pc = "look", !.seen = env.ver]

Settled(env) == [NoActor EXCEPT !.env = env, !.conv = TRUE, !.pc = "wait", !.seen = env.ver, !.last = <<env>>]

AtFirst(p) == IF p \in Wired THEN [ver |-> 1, kind |-> "made", reading |-> "up", mark |-> FALSE] ELSE NoEnv

Init ==
  /\ up = TRUE /\ index = Wired /\ removing = {}
  /\ byId = [p \in Paths |-> IF p \in Wired THEN 1 ELSE 0]
  /\ db = [p \in Paths |-> AtFirst(p)]
  /\ acts = [a \in Paths \X SLOTS |-> IF a[1] \in Wired /\ a[2] = 1 THEN Settled(AtFirst(a[1])) ELSE NoActor]
  /\ jobs = [p \in Paths |-> NoJob]
  /\ docker = [l \in Labels |-> IF \E p \in Wired : Label[p] = l THEN Containers \cup {"network", "volume"} ELSE {}]
  /\ calls = [c \in Callers |-> NoCall]
  /\ disputed = {} /\ strays = {} /\ gone = {} /\ asked = {} /\ unwatched = {}
  /\ ops = [request |-> 0, change |-> 0, fault |-> 0]

-----------------------------------------------------------------------------
(* A workspace's store. *)

(* What save_env writes of it and load_env reads back: no marks. *)
Columns(env) == [env EXCEPT !.mark = FALSE]

Reading(p) == IF "node" \in docker[Label[p]] THEN "up" ELSE "down"

settled_forgets(was, reading) == reading

(* settle_interruption: down now, and nobody saw it go. *)
settled(was, reading) == IF reading = "down" /\ was # "down" THEN "interrupted" ELSE reading

(* Only the reading moves; a Docker that does not answer leaves it unknown. *)
rehydrate(p, answers) ==
  LET kept == db[p]
  IN IF kept.kind = "none" THEN kept
     ELSE [kept EXCEPT !.reading = IF answers THEN settled(@, Reading(p)) ELSE "unseen"]

-----------------------------------------------------------------------------
(* The actor's state, its converge effect and the jobs that effect started. *)

Act(p) == <<p, byId[p]>>
Known(p) == byId[p] # 0
Publish(a, env) == acts' = [acts EXCEPT ![a].env = [env EXCEPT !.ver = @ + 1]]

(* A start: an environment that was not there is planned first. *)
Request(p) ==
  /\ up /\ Known(p) /\ ~acts[Act(p)].env.mark /\ Count("change")
  /\ LET env == acts[Act(p)].env
     IN Publish(Act(p), [env EXCEPT !.mark = TRUE, !.kind = IF @ = "none" THEN "bare" ELSE @])
  /\ asked' = asked \cup {p}
  /\ UNCHANGED <<up, byId, requestVars, db, jobs, docker, disputed, strays, gone, unwatched>>

(* The effect starts a job, a task of its own: it goes on when the effect is gone. *)
SpawnAction(a) ==
  /\ acts[a].conv /\ acts[a].env.mark /\ acts[a].job = "none"
  /\ acts' = [acts EXCEPT ![a].job = "create"]
  /\ docker' = [docker EXCEPT ![Label[a[1]]] = @ \cup {"network", "volume", "sidecar"}]
  /\ UNCHANGED <<up, byId, requestVars, db, jobs, ghosts, ops>>

CreateContainer(a) ==
  /\ acts[a].job = "create" /\ acts' = [acts EXCEPT ![a].job = "report"]
  /\ docker' = [docker EXCEPT ![Label[a[1]]] = @ \cup {"node"}]
  /\ UNCHANGED <<up, byId, requestVars, db, jobs, ghosts, ops>>

Report(a) ==
  /\ acts[a].job = "report"
  /\ acts' = [acts EXCEPT ![a].job = "none",
                          ![a].env = [ver |-> @.ver + 1, kind |-> "made", reading |-> Reading(a[1]), mark |-> FALSE]]
  /\ unwatched' = unwatched \ {a[1]}
  /\ UNCHANGED <<up, byId, requestVars, db, jobs, docker, disputed, strays, gone, asked, ops>>

(* The observer publishes a reading that changed. *)
Observe(p) ==
  /\ up /\ Known(p) /\ acts[Act(p)].env.kind = "made" /\ ~acts[Act(p)].env.mark
  /\ LET env == acts[Act(p)].env
         watched == env.reading = "up"
         reading == IF env.reading = "unseen" THEN settled(env.reading, Reading(p))
                    ELSE IF Reading(p) = "down" /\ ~watched THEN env.reading ELSE Reading(p)
     IN env.reading # reading /\ Publish(Act(p), [env EXCEPT !.reading = reading])
  /\ unwatched' = unwatched \ {p}
  /\ UNCHANGED <<up, byId, requestVars, db, jobs, docker, disputed, strays, gone, asked, ops>>

(* Someone removes the node's container behind fghjd's back. *)
ContainerGoes(l) ==
  /\ "node" \in docker[l] /\ Count("change") /\ docker' = [docker EXCEPT ![l] = @ \ {"node"}]
  /\ unwatched' = IF up THEN unwatched
                  ELSE unwatched \cup {p \in Paths : Label[p] = l /\ db[p].kind = "made" /\ db[p].reading # "down"}
  /\ UNCHANGED <<up, byId, acts, requestVars, db, jobs, disputed, strays, gone, asked>>

-----------------------------------------------------------------------------
(* run_async_effect with PersistEffect, until the actor's last handle is dropped. *)

Closed(a) == byId[a[1]] # a[2] /\ ~acts[a].conv /\ acts[a].job = "none"

(* An environment that is not created yet is not kept. *)
(* The snapshot is taken here: what is published while it is being saved comes later. *)
Looked(r) ==
  IF r.last # <<r.env>> /\ r.env.kind = "made" THEN [r EXCEPT !.pc = "saving", !.snap = r.env]
  ELSE [r EXCEPT !.pc = "wait", !.last = <<r.env>>]

Look(a) ==
  /\ acts[a].pc = "look" /\ acts' = [acts EXCEPT ![a] = Looked(@)]
  /\ UNCHANGED <<up, byId, requestVars, db, jobs, docker, ghosts, ops>>

(* One transaction. *)
save_env(a) ==
  /\ acts[a].pc = "saving"
  /\ db' = [db EXCEPT ![a[1]] = Columns(acts[a].snap)]
  /\ acts' = [acts EXCEPT ![a] = [@ EXCEPT !.pc = "wait", !.last = <<acts[a].snap>>, !.failed = FALSE, !.snap = NoEnv]]
  /\ UNCHANGED <<up, byId, requestVars, jobs, docker, ghosts, ops>>

SaveFails(a) ==
  /\ acts[a].pc = "saving" /\ Count("fault")
  /\ acts' = [acts EXCEPT ![a] = [@ EXCEPT !.pc = "wait", !.failed = TRUE, !.snap = NoEnv]]
  /\ UNCHANGED <<up, byId, requestVars, db, jobs, docker, ghosts>>

(* changed(): a state published since, even when the actor has ended. *)
Wake(a) ==
  /\ acts[a].pc = "wait" /\ acts[a].seen # acts[a].env.ver
  /\ acts' = [acts EXCEPT ![a] = Looked([@ EXCEPT !.seen = acts[a].env.ver])]
  /\ UNCHANGED <<up, byId, requestVars, db, jobs, docker, ghosts, ops>>

PersistEnds(a) ==
  /\ acts[a].pc = "wait" /\ acts[a].seen = acts[a].env.ver /\ Closed(a)
  /\ acts' = [acts EXCEPT ![a] = NoActor]
  /\ UNCHANGED <<up, byId, requestVars, db, jobs, docker, ghosts, ops>>

-----------------------------------------------------------------------------
(* Requests. *)

At(c, pc) == calls[c].pc = pc
Path(c) == calls[c].path
Goto(c, pc) == calls' = [calls EXCEPT ![c] = IF pc = "done" THEN NoCall ELSE [@ EXCEPT !.pc = pc]]
Quiet == UNCHANGED <<up, byId, acts, db, jobs, docker, strays, gone, asked, unwatched>>

nesting_conflict(p, q) == <<p, q>> \in Inside \/ <<q, p>> \in Inside

SameLabel(p, q) == p # q /\ Label[p] = Label[q]

(* Two requests under way whose folders would fight, or that are about one folder. *)
Crosses(c, d, kind, p) ==
  /\ d # c /\ ~At(d, "done")
  /\ \/ Path(d) = p
     \/ kind = "wire" /\ calls[d].kind = "wire" /\ (nesting_conflict(p, Path(d)) \/ SameLabel(p, Path(d)))

NewJob == [pc |-> "sweep", sweep |-> 0]

(* Joins a teardown that is running. *)
spawn_teardown(p) == jobs' = IF jobs[p].pc \in {"none", "failed"} THEN [jobs EXCEPT ![p] = NewJob] ELSE jobs

(* Callers are alike: a request takes any that is free. *)
Asked(c, kind, p) ==
  /\ up /\ At(c, "done") /\ c = (CHOOSE d \in Callers : At(d, "done")) /\ Count("request")
  /\ disputed' = disputed \cup UNION {{p, Path(d)} : d \in {x \in Callers : Crosses(c, x, kind, p)}}
  /\ UNCHANGED <<up, byId, acts, index, removing, db, docker, strays, gone, asked, unwatched>>

Open(c, kind, p, pc) == calls' = [calls EXCEPT ![c] = [NoCall EXCEPT !.kind = kind, !.path = p, !.pc = pc]]

(* resolve: nesting is checked before anything is cloned, and again on the path there is then. *)
Resolve(c, p) ==
  /\ Asked(c, "wire", p) /\ UNCHANGED jobs
  /\ \A q \in Paths : Known(q) => ~nesting_conflict(p, q)
  /\ Open(c, "wire", p, "clash")

Clash_unchecked(c) ==
  /\ At(c, "clash") /\ Goto(c, "pending")
  /\ Quiet /\ UNCHANGED <<index, removing, disputed, ops>>

Clash(c) ==
  /\ At(c, "clash")
  /\ Goto(c, IF \E q \in Paths : Known(q) /\ (nesting_conflict(Path(c), q) \/ SameLabel(Path(c), q))
               THEN "done" ELSE "pending")
  /\ Quiet /\ UNCHANGED <<index, removing, disputed, ops>>

(* A removal under way would take this one's containers too. *)
PendingRemoval_same(c) ==
  /\ At(c, "pending")
  /\ Goto(c, IF Path(c) \in removing THEN "done" ELSE "new")
  /\ Quiet /\ UNCHANGED <<index, removing, disputed, ops>>

PendingRemoval(c) ==
  /\ At(c, "pending")
  /\ Goto(c, IF \E q \in removing : Label[q] = Label[Path(c)] THEN "done" ELSE "new")
  /\ Quiet /\ UNCHANGED <<index, removing, disputed, ops>>

Free(p) == {s \in SLOTS : acts[<<p, s>>] = NoActor}

(* An earlier actor of the folder still has something to write. *)
Contended(p) == IF Free(p) # SLOTS THEN disputed \cup {p} ELSE disputed

(* Wired already, or WorkspaceState::new: the store opened and read back. *)
New(c, answers) ==
  /\ At(c, "new") /\ (IF answers THEN UNCHANGED ops ELSE Count("fault"))
  /\ IF Known(Path(c)) THEN answers /\ Goto(c, "done") /\ UNCHANGED disputed
     ELSE /\ calls' = [calls EXCEPT ![c].pc = "insert", ![c].env = rehydrate(Path(c), answers)]
          /\ disputed' = Contended(Path(c))
  /\ Quiet /\ UNCHANGED <<index, removing>>

(* The index is read, changed and written back, with nothing held. *)
LoadIndex(c) == calls' = [calls EXCEPT ![c].pc = "save", ![c].copy = index, ![c].env = NoEnv]

Insert(c) ==
  /\ At(c, "insert") /\ Free(Path(c)) # {}
  /\ LET p == Path(c)
         s == CHOOSE s \in Free(p) : TRUE
     IN /\ byId' = [byId EXCEPT ![p] = s]
        /\ acts' = [acts EXCEPT ![<<p, s>>] = Spawned(calls[c].env)]
        /\ gone' = gone \ {q \in Paths : Label[q] = Label[p]}
        /\ disputed' = Contended(p)
  /\ LoadIndex(c)
  /\ UNCHANGED <<up, index, removing, db, jobs, docker, strays, asked, unwatched, ops>>

SaveIndex(c) ==
  /\ At(c, "save") /\ Goto(c, "done")
  /\ \/ calls[c].kind = "wire" /\ index' = calls[c].copy \cup {Path(c)} /\ UNCHANGED jobs
     \/ calls[c].kind = "remove" /\ index' = calls[c].copy \ {Path(c)} /\ spawn_teardown(Path(c))
  /\ disputed' = disputed \cup (index \ calls[c].copy) \cup (calls[c].copy \ index)   \* an update that is lost
  /\ UNCHANGED <<up, byId, acts, removing, db, docker, strays, gone, asked, unwatched, ops>>

(* remove: one that is not wired may be a removal that failed, tried again. *)
Remove(c, p) ==
  /\ Asked(c, "remove", p)
  /\ \/ Known(p) /\ Open(c, "remove", p, "add") /\ UNCHANGED jobs
     \/ ~Known(p) /\ p \in removing /\ spawn_teardown(p) /\ UNCHANGED calls

(* First, so that a crash past this point finishes the removal. *)
Add(c) ==
  /\ At(c, "add") /\ removing' = removing \cup {Path(c)} /\ Goto(c, "take")
  /\ gone' = gone \cup {Path(c)}
  /\ UNCHANGED <<up, byId, acts, index, db, jobs, docker, disputed, strays, asked, unwatched, ops>>

(* Off the maps, and the converge effect's task is aborted; the jobs it started are not. *)
Take(c) ==
  /\ At(c, "take") /\ LoadIndex(c)
  /\ LET p == Path(c)
     IN /\ byId' = [byId EXCEPT ![p] = 0]
        /\ acts' = IF Known(p) THEN [acts EXCEPT ![Act(p)].conv = FALSE] ELSE acts
        /\ strays' = IF \E s \in SLOTS : acts[<<p, s>>].job # "none" THEN strays \cup {p} ELSE strays
  /\ UNCHANGED <<up, index, removing, db, jobs, docker, disputed, gone, asked, unwatched, ops>>

-----------------------------------------------------------------------------
(* teardown, a call to Docker at a time. *)

Of(p) == docker[Label[p]]
JobAt(p, pc) == jobs[p].pc = pc
Step(p, pc) == jobs' = [jobs EXCEPT ![p].pc = pc]
OnlyJob == UNCHANGED <<up, byId, acts, index, calls, db, ghosts>>

(* remove_containers: what is listed is discarded, and listed again, at most SWEEPS times. *)
Sweep(p) ==
  /\ JobAt(p, "sweep")
  /\ \/ Of(p) \cap Containers = {} /\ Step(p, "network") /\ UNCHANGED docker
     \/ Of(p) \cap Containers # {} /\ jobs[p].sweep = SWEEPS /\ Step(p, "failed") /\ UNCHANGED docker
     \/ /\ Of(p) \cap Containers # {} /\ jobs[p].sweep < SWEEPS
        /\ docker' = [docker EXCEPT ![Label[p]] = @ \ Containers] /\ jobs' = [jobs EXCEPT ![p].sweep = @ + 1]
  /\ OnlyJob /\ UNCHANGED <<removing, ops>>

(* Docker carries out none of the removals of a sweep, or of all that are left: *)
(* discard does not say, the list does. *)
DiscardFails(p) ==
  /\ JobAt(p, "sweep") /\ jobs[p].sweep < SWEEPS /\ Of(p) \cap Containers # {} /\ Count("fault")
  /\ \E n \in {jobs[p].sweep + 1, SWEEPS} : jobs' = [jobs EXCEPT ![p].sweep = n]
  /\ OnlyJob /\ UNCHANGED <<removing, docker>>

RemoveNetwork(p) ==
  /\ JobAt(p, "network")
  /\ docker' = [docker EXCEPT ![Label[p]] = IF @ \cap Containers = {} THEN @ \ {"network"} ELSE @]
  /\ Step(p, IF Of(p) \cap Containers = {} THEN "volumes" ELSE "failed")
  /\ OnlyJob /\ UNCHANGED <<removing, ops>>

RemoveVolumes(p) ==
  /\ JobAt(p, "volumes")
  /\ docker' = [docker EXCEPT ![Label[p]] = IF "node" \in @ THEN @ ELSE @ \ {"volume"}]
  /\ Step(p, IF "node" \in Of(p) /\ "volume" \in Of(p) THEN "failed" ELSE "finish")
  /\ OnlyJob /\ UNCHANGED <<removing, ops>>

Finish(p) ==
  /\ JobAt(p, "finish") /\ Step(p, "none") /\ removing' = removing \ {p}
  /\ OnlyJob /\ UNCHANGED <<docker, ops>>

(* A list or an inspect fails: retried by the next remove, or the next start. *)
TeardownFails(p) ==
  /\ jobs[p].pc \notin {"none", "failed"} /\ Count("fault") /\ Step(p, "failed")
  /\ OnlyJob /\ UNCHANGED <<removing, docker>>

-----------------------------------------------------------------------------
(* What is in memory is lost; a call Docker was given may still be carried out. *)
Crash ==
  /\ up /\ Count("fault") /\ up' = FALSE
  /\ byId' = [p \in Paths |-> 0] /\ acts' = [a \in Paths \X SLOTS |-> NoActor]
  /\ jobs' = [p \in Paths |-> NoJob] /\ calls' = [c \in Callers |-> NoCall]
  /\ LET making == {Label[a[1]] : a \in {x \in Paths \X SLOTS : acts[x].job = "create"}}
     IN \E landed \in SUBSET making :
          docker' = [l \in Labels |-> IF l \in landed THEN docker[l] \cup {"node"} ELSE docker[l]]
  /\ asked' = {}
  /\ UNCHANGED <<index, removing, db, disputed, strays, gone, unwatched>>

load_from_idle(answers) ==
  /\ ~up /\ up' = TRUE /\ (IF answers THEN UNCHANGED ops ELSE Count("fault"))
  /\ index' = index \ removing
  /\ byId' = [p \in Paths |-> IF p \in index' THEN 1 ELSE 0]
  /\ acts' = [a \in Paths \X SLOTS |-> IF a[1] \in index' /\ a[2] = 1 THEN Spawned(rehydrate(a[1], answers)) ELSE NoActor]
  /\ UNCHANGED <<removing, db, docker, jobs, calls, ghosts>>

(* fghjd starts: what was being removed is not loaded again, and its removal goes on. *)
load_from(answers) ==
  /\ ~up /\ up' = TRUE /\ (IF answers THEN UNCHANGED ops ELSE Count("fault"))
  /\ index' = index \ removing
  /\ byId' = [p \in Paths |-> IF p \in index' THEN 1 ELSE 0]
  /\ acts' = [a \in Paths \X SLOTS |-> IF a[1] \in index' /\ a[2] = 1 THEN Spawned(rehydrate(a[1], answers)) ELSE NoActor]
  /\ jobs' = [p \in Paths |-> IF p \in removing THEN NewJob ELSE NoJob]
  /\ UNCHANGED <<removing, db, docker, calls, ghosts>>

-----------------------------------------------------------------------------
CallStep(c) ==
  \/ Clash(c) \/ PendingRemoval(c) \/ Insert(c) \/ SaveIndex(c) \/ Add(c) \/ Take(c)
  \/ \E answers \in BOOLEAN : New(c, answers)

JobStep(p) == Sweep(p) \/ RemoveNetwork(p) \/ RemoveVolumes(p) \/ Finish(p)

PersistStep(a) == Look(a) \/ save_env(a) \/ Wake(a) \/ PersistEnds(a)

ActorStep(a) == SpawnAction(a) \/ CreateContainer(a) \/ Report(a)

(* fghjd never stands still while a task or a request of its own can go on, and the *)
(* service manager starts it again.  Each runs out, so no more fairness is needed.  *)
Onward ==
  \/ \E answers \in BOOLEAN : load_from(answers)
  \/ \E c \in Callers : CallStep(c)
  \/ \E p \in Paths : JobStep(p)
  \/ \E a \in Paths \X SLOTS : PersistStep(a) \/ ActorStep(a)

Next ==
  \/ Crash \/ Onward
  \/ \E c \in Callers, p \in Paths : Resolve(c, p) \/ Remove(c, p)
  \/ \E p \in Paths : DiscardFails(p) \/ TeardownFails(p) \/ Request(p) \/ Observe(p)
  \/ \E a \in Paths \X SLOTS : SaveFails(a)
  \/ \E l \in Labels : ContainerGoes(l)

Spec == Init /\ [][Next]_vars

Fairness == WF_vars(Onward)

FairSpec == Spec /\ Fairness

-----------------------------------------------------------------------------
TypeOK ==
  /\ byId \in [Paths -> 0 .. 2] /\ index \subseteq Paths /\ removing \subseteq Paths
  /\ docker \in [Labels -> SUBSET (Containers \cup {"network", "volume"})]
  /\ \A p \in Paths : jobs[p].sweep \in 0 .. SWEEPS /\ (Known(p) => up /\ acts[Act(p)].pc # "off")
  /\ \A a \in Paths \X SLOTS : acts[a].env.kind \in {"none", "bare", "made"}
  /\ \A p \in Paths : db[p].kind \in {"none", "made"}

(* No two wired workspaces nest or derive the same names, whatever was removed, wired and *)
(* restarted in between (resolve's two checks), save where two wires have crossed.         *)
NoFight ==
  \A p, q \in Paths \ disputed : Known(p) /\ Known(q) => ~nesting_conflict(p, q) /\ ~SameLabel(p, q)

(* While a removal is pending no workspace of its names is wired, so its teardown takes *)
(* nobody else's containers (resolve against remove, removing.json).                    *)
TeardownAlone ==
  \A p \in removing, q \in Paths : Known(q) /\ Label[p] = Label[q] /\ {p, q} \cap disputed = {} =>
    \* remove has listed it and is about to take it off the maps
    p = q /\ \E c \in Callers : calls[c].kind = "remove" /\ Path(c) = p /\ At(c, "take")

(* A workspace whose removal was begun does not come back, whatever a crash cut short. *)
RemovedStaysRemoved ==
  \A p \in gone \ disputed : Known(p) => \E c \in Callers : calls[c].kind = "remove" /\ Path(c) = p /\ At(c, "take")

(* A removal that has finished leaves nothing of the workspace in Docker, unless a start of *)
(* a workspace of its name was still running when that was taken off the maps, or requests  *)
(* about one have crossed.                                                                  *)
FinishedIsClean ==
  \A p \in gone \ removing :
    {q \in Paths : Label[q] = Label[p]} \cap (disputed \cup strays) = {} => docker[Label[p]] = {}

(* A container that went while no fghjd ran, and that the store does not have as gone, never *)
(* reads as one that was seen to go down (rehydrate, settle_interruption).                   *)
InterruptionShows ==
  \A p \in unwatched : Known(p) /\ acts[Act(p)].env.kind = "made" => acts[Act(p)].env.reading # "down"

(* fghjd carries out only what it was asked for since it started: a mark does not outlive *)
(* the fghjd it was given to (load_env).                                                  *)
NothingRedone == \A p \in Paths : Known(p) /\ acts[Act(p)].env.mark => p \in asked

(* A removal that was begun ends, or fails and waits for the next remove or start. *)
RemovalEnds == \A p \in Paths : p \in removing ~> (p \notin removing \/ JobAt(p, "failed"))

(* What is published reaches the store, unless saving it failed. *)
Caught == \A p \in Paths \ disputed :
  Known(p) /\ acts[Act(p)].env.kind = "made" /\ ~acts[Act(p)].failed => db[p].ver = acts[Act(p)].env.ver
StoreCatchesUp == []<>Caught

(* The store lags behind the published state and never goes back: module Kept. *)
Told == [p \in Paths |->
  IF Known(p) THEN acts[Act(p)].env.ver
  ELSE LET ending == {s \in SLOTS : acts[<<p, s>>] # NoActor}
       IN IF ending = {} THEN db[p].ver ELSE acts[<<p, CHOOSE s \in ending : TRUE>>].env.ver]
KeptVersions == [p \in Paths |-> db[p].ver]
Store == INSTANCE Kept WITH told <- Told, kept <- KeptVersions
StoreKeepsUp == Store!Spec

(* A removal, once begun, holds across crashes, restarts and wires of the same place, and *)
(* takes what is the workspace's, all of it and nobody else's.                            *)
RemovalHolds == RemovedStaysRemoved /\ TeardownAlone /\ FinishedIsClean

(* What fghjd believes after a restart is true of what happened while it was away. *)
RehydratedTrue == TypeOK /\ InterruptionShows /\ NothingRedone

(* What was begun settles: removals end, and the store catches up with the state. *)
SettlesInTheEnd == RemovalEnds /\ StoreCatchesUp
=============================================================================
