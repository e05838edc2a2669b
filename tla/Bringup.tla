------------------------------ MODULE Bringup ------------------------------
(***************************************************************************)
(* src/src/orchestrator: bring_up, the one path behind a create, a top-up   *)
(* and a node's Start, with the network, the sidecar, the builds, the       *)
(* waits and the seeds.  Runs of one workspace interleave at every await,   *)
(* under the node locks, the sidecar lock and the ssh lock; a lock is held  *)
(* exactly in the phases between taking and dropping its guard.             *)
(***************************************************************************)
EXTENDS Builder

CONSTANTS
  Run,             \* the tasks that may bring something up at once
  Shops,           \* the workspaces of the instance
  Agents,          \* the ssh agents a workspace's owner may have alive
  RUN_LIMIT, PER_NODE_LIMIT,
  Allowed          \* how often each kind of outside event happens

ASSUME LimitAssumption == RUN_LIMIT \in Nat /\ PER_NODE_LIMIT \in Nat
ASSUME AgentAssumption == None \notin Agents
\* What the workspace knows of a node it has started.
EntryRec == [hash : Nat, exit : {None, 0, 1}, busy : BOOLEAN, status : {"none", "running", "exited", "removed"}]
ASSUME EntryAssumption == None \notin EntryRec

\* A workspace: what the resolver makes of its files, and how it is found.
Workspace ==
  [name : STRING, nodes : SUBSET Node, requires : SUBSET (Node \X Node), reach : [Node -> SUBSET Node],
   tasks : SUBSET Node, once : SUBSET Node, migrates : [Node -> Node \cup {None}], seeds : [Node -> SUBSET Node],
   volumes : SUBSET Node, checked : SUBSET Node, built : SUBSET Node, ssh : SUBSET Node, host : {None, "v1", "v2"},
   flows : SUBSET (SUBSET Node), startable : SUBSET Node, atOnce : Nat, prefix : Nat, up : SUBSET Node,
   net : {"none", "open", "pinned"}, sidecar : {None, SIDECAR, SIDECAR + 1}]
\* What mark_tasks, check_stores, add_store_edges and the flows let through: what
\* fills a store is a task with `migrates` or `seeds`, not both, and no `run: once`;
\* a store is none, and a migration waits for its own and comes along with it.
Resolved(s) ==
  /\ s.once \subseteq s.tasks
  /\ \A n \in Node : s.seeds[n] # {} \/ s.migrates[n] # None => n \in s.tasks \ s.once
  /\ \A n \in Node : (s.seeds[n] = {} \/ s.migrates[n] = None) /\ s.seeds[n] \cap s.tasks = {} /\ s.migrates[n] \notin s.tasks
  /\ \A n \in Node : <<n, n>> \notin s.requires /\ (s.migrates[n] # None => <<n, s.migrates[n]>> \in s.requires)
  /\ \A flow \in s.flows, n \in Node : s.migrates[n] \in flow => n \in flow
\* Nothing was started in it, or it is as a first run left it.
Found(s) ==
  /\ \A n \in Node : s.migrates[n] \in s.up => n \in s.up
  /\ s.net = "none" => s.sidecar = None /\ s.up \subseteq s.tasks
  /\ s.net = "pinned" => Layout(s.prefix) # None /\ s.sidecar # SIDECAR + 1 /\ (s.up \subseteq s.tasks \/ s.sidecar # None)
ASSUME ShopAssumption == \A s \in Shops : s \in Workspace /\ Resolved(s) /\ Found(s)

VARIABLES
  record,   \* EnvState.containers: node -> what the workspace knows of it
  kept,     \* the seeds table: task -> the data it last filled
  runs,     \* task -> where it is in bring_up
  left,     \* what is left of Allowed
  ghost     \* history the properties speak of; the code has none of it

vars == <<shop, engineVars, record, kept, runs, builder, left, ghost>>

Idle == [kind |-> "idle", of |-> None, at |-> "idle", targets |-> {}, seen |-> None, todo |-> {}, now |-> None, outside |-> {},
         failed |-> {}, blocked |-> {}, recreated |-> {}, bounced |-> {}, clock |-> 0, waited |-> 0,
         dns |-> None, sock |-> None, was |-> None, want |-> None]
Active(r) == runs[r].kind # "idle"
Creating(r) == runs[r].kind \in {"flow", "node"}
Starting(r) == runs[r].kind = "start"
Count(what) == left[what] > 0 /\ left' = [left EXCEPT ![what] = @ - 1]
At(r, phase) == runs[r].at = phase
Go(r, phase) == runs' = [runs EXCEPT ![r].at = phase]
Now(r) == runs[r].now

---------------------------------------------------------------------------
(* order.rs and graph.rs: what a run is for.                               *)

\* Everything reached from n along the edges E: what is in every set that holds
\* n and whatever its members lead to.
Closure(n, E) ==
  {m \in Node \ {n} : \A S \in SUBSET Node : (n \in S /\ \A e \in E : e[1] \in S => e[2] \in S) => m \in S}
requirements_of(n) == shop.reach[n]
dependents_of(n) == {d \in Node : n \in shop.reach[d]}
\* add_migrations, to the fixed point: a migration's own requirements come too.
with_migrations(S) ==
  {n \in Node : \A T \in SUBSET Node :
     (S \subseteq T /\ \A m \in shop.tasks : shop.migrates[m] \in T => {m} \cup requirements_of(m) \subseteq T) => n \in T}
restart_targets(n, seen) ==
  requirements_of(n) \cup {n}
  \cup {d \in dependents_of(n) : seen[d] # None /\ ~seen[d].busy /\ ~IsTask(d) /\ seen[d].status = "running"}
Targets(run) ==
  CASE run.kind = "flow"  -> run.of
    [] run.kind = "node"  -> with_migrations(requirements_of(run.of) \cup {run.of})
    [] run.kind = "start" -> with_migrations(restart_targets(run.of, run.seen))
\* topological_start_order: of the nodes left, one that requires no other comes
\* next.  Which, when there are several, the code settles by name.
First(S) == {n \in S : \A d \in S : <<n, d>> \notin shop.requires}
\* stop_order: that order from its end, of what runs and is not to be kept.
Last(S) == {n \in S : \A d \in S : <<d, n>> \notin shop.requires}
stop_order(run) == {n \in Node \ Targets(run) : run.seen[n] # None /\ run.seen[n].status = "running"}
Needs(run, n) == {d \in run.targets : <<n, d>> \in shop.requires}
waited_on(run, n) == \E m \in run.targets : <<m, n>> \in shop.requires

(* A request.  The reducer refuses a second start of a node and any start  *)
(* while a create is in flight; a start marks its node.  A create that     *)
(* finds starts in flight has them called off first: CallOff, then Begin.  *)

Forced(run, n) == run.kind = "start" /\ n = run.of
Fresh(r) == r <= shop.atOnce /\ ~Active(r) /\ \A s \in Run : ~Active(s) => r <= s
Empty == \A n \in Node : record[n] = None
Entry(n) == [hash |-> 0, exit |-> None, busy |-> TRUE, status |-> "none"]
Begin(r) ==
  /\ Fresh(r) /\ Count("run")
  /\ \/ \E flow \in shop.flows :
          /\ ~\E s \in Run : Creating(s) \/ Starting(s)
          /\ runs' = [runs EXCEPT ![r] = [Idle EXCEPT !.kind = "flow", !.of = flow, !.at = "network", !.seen = record]]
          /\ UNCHANGED record
     \/ \E n \in shop.startable :
          /\ ~\E s \in Run : Creating(s)
          /\ record[n] # None => ~record[n].busy
          /\ IF Empty THEN UNCHANGED record
             ELSE record' = [record EXCEPT ![n] = IF @ = None THEN Entry(n) ELSE [@ EXCEPT !.busy = TRUE]]
          /\ runs' = [runs EXCEPT ![r] = [Idle EXCEPT !.kind = IF Empty THEN "node" ELSE "start", !.of = n,
                                                      !.at = "network", !.seen = record']]
  /\ ghost' = [ghost EXCEPT !.crossed = @ \/ \E s \in Run : Starting(s), !.stale = {}]
  /\ UNCHANGED <<shop, engineVars, kept, builder>>

---------------------------------------------------------------------------
(* The end of a run: its answer settles the request, and every mark it set *)
(* on the way is cleared (effects/docker/converge.rs, see Converge).       *)

Unmark(r, rec) ==
  [n \in Node |-> IF rec[n] = None \/ n \notin {runs[r].of} \cup runs[r].targets THEN rec[n]
                  ELSE IF rec[n].status = "none" THEN None ELSE [rec[n] EXCEPT !.busy = FALSE]]
Ends(r) == runs' = [runs EXCEPT ![r] = Idle] /\ record' = Unmark(r, record)
\* `?` before the first node: nothing was started, the request fails whole.
Fails(r) == Ends(r) /\ UNCHANGED <<kept, builder, ghost>>

(* ensure_network: create; a new one is read back, removed and made again  *)
(* with its subnet pinned.                                                 *)

EnsureNetwork(r) ==
  /\ At(r, "network")
  /\ \/ net = "none" /\ net' = "open" /\ Go(r, "readback")
     \/ net # "none" /\ Go(r, "sidecar") /\ UNCHANGED net
  /\ UNCHANGED <<shop, box, sidecar, holder, vol, filled, cfg, record, kept, builder, left, ghost>>
ReadBack(r) ==
  /\ At(r, "readback")
  /\ \/ net = "none" /\ Fails(r) /\ UNCHANGED net
     \/ /\ net # "none" /\ UNCHANGED <<record, kept, builder, ghost>>
        /\ \/ Layout(shop.prefix) = None /\ Go(r, "sidecar") /\ UNCHANGED net
           \/ /\ Layout(shop.prefix) # None /\ Go(r, "pin")
              /\ net' = IF Attached THEN net ELSE "none"
  /\ UNCHANGED <<shop, box, sidecar, holder, vol, filled, cfg, left>>
\* A network someone else made meanwhile is taken as it is.
PinNetwork(r) ==
  /\ At(r, "pin")
  /\ \/ net # "none" /\ Go(r, "sidecar") /\ UNCHANGED <<net, left, ghost>>
     \/ /\ net = "none" /\ net' = "pinned" /\ Go(r, "sidecar") /\ UNCHANGED left
        /\ ghost' = [ghost EXCEPT !.raced = @ \/ \E s \in Run : runs[s].kind # "restore" /\ runs[s].dns # None]
     \/ net = "none" /\ net' = "open" /\ Go(r, "sidecar") /\ Count("fault") /\ UNCHANGED ghost
  /\ UNCHANGED <<shop, box, sidecar, holder, vol, filled, cfg, record, kept, builder>>

(* ensure_sidecar_named, under the sidecar lock.  A create, a start and    *)
(* restore_sidecar all come through here.                                  *)

SidecarLocked == \E s \in Run : At(s, "replace")
After(r) == IF runs[r].kind = "restore" THEN "over" ELSE "plan"
SidecarThere(r) ==
  /\ At(r, "sidecar") /\ ~SidecarLocked
  /\ runs' = [runs EXCEPT ![r].at = IF sidecar # None THEN After(r) ELSE "replace", ![r].dns = sidecar]
  /\ UNCHANGED <<shop, engineVars, record, kept, builder, left, ghost>>
\* No network, or its address is someone else's: Docker refuses.
Taken == net = "none" \/ (sidecar_address # None /\ holder # None)
\* ensure_built, sidecar_address, run_container, inspect_network_ip.
ReplaceSidecar(r) ==
  /\ At(r, "replace")
  /\ \/ Taken /\ Ends(r) /\ ensure_built /\ UNCHANGED <<sidecar, kept, left, ghost>>
     \/ Count("fault") /\ Fails(r) /\ UNCHANGED sidecar
     \/ /\ ~Taken /\ ensure_built
        /\ \E a \in IF sidecar_address = None THEN Handed ELSE {sidecar_address} :
             sidecar' = a /\ runs' = [runs EXCEPT ![r].at = After(r), ![r].dns = a]
        /\ UNCHANGED <<record, kept, left, ghost>>
  /\ UNCHANGED <<shop, box, net, holder, vol, filled, cfg>>
\* The reconciler saw the sidecar gone.
RestoreSidecar(r) ==
  /\ Fresh(r) /\ ~Empty /\ sidecar = None /\ ~(\E s \in Run : Creating(s)) /\ Count("restore")
  /\ runs' = [runs EXCEPT ![r] = [Idle EXCEPT !.kind = "restore", !.at = "sidecar"]]
  /\ UNCHANGED <<shop, engineVars, record, kept, builder, ghost>>
Restored(r) ==
  /\ At(r, "over") /\ Ends(r)
  /\ UNCHANGED <<shop, engineVars, kept, builder, left, ghost>>

---------------------------------------------------------------------------
(* The plan, what is outside it, and the loop over the nodes in order.     *)

Plan(r) ==
  /\ At(r, "plan")
  /\ runs' = [runs EXCEPT ![r].targets = Targets(runs[r]), ![r].todo = Targets(runs[r]), ![r].at = "outside",
                          ![r].outside = IF runs[r].kind = "flow" THEN stop_order(runs[r]) ELSE {}]
  /\ UNCHANGED <<shop, engineVars, record, kept, builder, left, ghost>>

\* The node's lock: from before its Docker work to after it.
InHand == {"build", "look", "retire", "boot", "solve", "make", "exit", "health"}
Locked(n) == \E s \in Run : runs[s].at \in InHand /\ Now(s) = n

StopOutside(r) ==
  /\ At(r, "outside")
  /\ IF runs[r].outside = {} THEN Go(r, "next") /\ UNCHANGED <<box, holder, record>>
     ELSE \E n \in Last(runs[r].outside) :
          /\ ~Locked(n) /\ stop_container(n)
          /\ record' = [record EXCEPT ![n].status = box'[n].status]
          /\ runs' = [runs EXCEPT ![r] = [runs[r] EXCEPT !.outside = @ \ {n}, !.seen[n] = record'[n]]]
  /\ UNCHANGED <<shop, net, sidecar, vol, filled, cfg, kept, builder, left, ghost>>

(* seeds.rs: has this seed filled the data its stores hold now?            *)

seeded_data(n) ==
  IF \E s \in shop.seeds[n] : data_identity(s) = None THEN None
  ELSE [s \in shop.seeds[n] |-> data_identity(s)]
save_seed(n) == kept' = [kept EXCEPT ![n] = seeded_data(n)]
already_seeded(n) == seeded_data(n) # None /\ kept[n] = seeded_data(n)

(* What the loop does with its next node.                                  *)

store_recreated_never(run, n) == FALSE
store_recreated(run, n) == shop.migrates[n] \in run.recreated
task_already_done(run, n) == n \in shop.once /\ run.seen[n] # None /\ run.seen[n].exit = 0
Settled(run, n) ==
  IF run.kind = "start"
  THEN run.seen[n] # None /\ (run.seen[n].busy \/ (IsTask(n) /\ run.seen[n].exit = 0 /\ ~store_recreated(run, n)))
  ELSE task_already_done(run, n)
bounced_requirement(run, n) == {d \in Node : <<n, d>> \in shop.requires /\ d \in run.bounced} # {}
top_up_may_skip(run, n) ==
  /\ Running(n) /\ run.seen[n] # None
  /\ run.kind = "start" \/ cfg[n] = run.seen[n].hash
blocked_by(run, n) == Needs(run, n) \cap (run.failed \cup run.blocked) # {}

Choice(run, n) ==
  IF /\ ~Forced(run, n)
     /\ \/ Settled(run, n)
        \/ shop.seeds[n] # {} /\ already_seeded(n)
        \/ ~bounced_requirement(run, n) /\ top_up_may_skip(run, n)
  THEN "skip"
  ELSE IF blocked_by(run, n) THEN IF Running(n) THEN "skip" ELSE "block"
  ELSE IF Running(n) /\ ~Forced(run, n) /\ bounced_requirement(run, n) /\ run.seen[n] # None
  THEN "restart" ELSE "start"

\* working: the node reads as being started.
Marked(n) == record' = [record EXCEPT ![n] = IF @ = None THEN Entry(n) ELSE [@ EXCEPT !.busy = TRUE]]
NextNode(r) ==
  /\ At(r, "next")
  /\ \E n \in First(runs[r].todo) :
       LET choice == Choice(runs[r], n)
       IN  CASE choice = "skip"  -> runs' = [runs EXCEPT ![r].todo = @ \ {n}] /\ UNCHANGED record
             [] choice = "block" -> runs' = [runs EXCEPT ![r].todo = @ \ {n}, ![r].blocked = @ \cup {n}] /\ UNCHANGED record
             [] OTHER            -> runs' = [runs EXCEPT ![r].at = choice, ![r].now = n] /\ Marked(n)
  /\ UNCHANGED <<shop, engineVars, kept, builder, left, ghost>>
\* ensure_running or restart_node answers.
Finish(r) ==
  /\ At(r, "next") /\ runs[r].todo = {} /\ Ends(r)
  /\ UNCHANGED <<shop, engineVars, kept, builder, left, ghost>>

\* The node is over with: its lock is dropped, its failure noted, its mark gone.
Cleared(n) == record' = [record EXCEPT ![n] = IF @ = None \/ @.status = "none" THEN None ELSE [@ EXCEPT !.busy = FALSE]]
\* The tasks the run has not come to the end of.
Ahead(r) == runs[r].todo \cap shop.tasks
Unbuilt(run) == [run EXCEPT !.sock = None, !.was = None, !.want = None]
Over(run) == [run EXCEPT !.todo = @ \ {run.now}, !.now = None, !.at = "next"]
Failed(run) == [Over(run) EXCEPT !.failed = @ \cup {run.now}]
NodeFails(r) ==
  /\ runs' = [runs EXCEPT ![r] = Failed(Unbuilt(runs[r]))]
  /\ Cleared(Now(r)) /\ ghost' = [ghost EXCEPT !.owed = @ \cup Ahead(r)]
\* report_done.
NodeDone(r, entry, extra) ==
  LET n == Now(r) IN
  /\ record' = [record EXCEPT ![n] = entry]
  /\ runs' = [runs EXCEPT ![r] = Over([extra EXCEPT !.seen[n] = entry])]

---------------------------------------------------------------------------
(* resolve_node_spec and build_node_image.                                 *)

\* Tasks that should have run over a store before n is started on it.
Migrations(n) == {m \in shop.tasks : <<n, m>> \in shop.requires /\ shop.migrates[m] # None}
\* The data itself, whatever the code takes for its identity.
DataOf(s) == IF HasVolume(s) THEN vol[s].created ELSE box[s].id
\* History: n starts now.  Who had a connection to it, and was it too early?
Starts(r, n) ==
  ghost' = [ghost EXCEPT
    !.stale = {p \in @ : p[1] # n} \cup {<<m, n>> : m \in {k \in Node : {k, n} \cap shop.tasks = {} /\ <<k, n>> \in shop.requires /\ Running(k)}},
    !.early = @ \/ (~ghost.crossed /\ \E m \in Migrations(n) \ ghost.owed :
                      box[shop.migrates[m]].status # "none" /\ <<m, shop.migrates[m]>> \notin filled),
    !.again = @ \/ (/\ ~ghost.crossed /\ ~Forced(runs[r], n) /\ shop.seeds[n] # {} /\ seeded_data(n) # None
                   /\ \A s \in shop.seeds[n] : <<n, s, DataOf(s)>> \in ghost.told)]

TakeNode(r) ==
  /\ At(r, "start") /\ ~Locked(Now(r))
  /\ Go(r, IF Now(r) \in shop.built THEN "build" ELSE "make")
  /\ UNCHANGED <<shop, engineVars, record, kept, builder, left, ghost>>
(* An ssh build waits for the environment and puts its agent there; a      *)
(* build on buildx's engine looks for its image, retires the container of  *)
(* another, and solves on the one there is.                                *)

Building == {"look", "retire", "boot", "solve"}
SshLocked == \E s \in Run : runs[s].at \in Building /\ runs[s].sock # None
FirstPhase == IF default_builder THEN "look" ELSE "solve"
BuildBegins_unlocked(r) ==
  /\ At(r, "build")
  /\ \/ /\ Now(r) \in shop.ssh
        /\ \E sock \in Agents :
             /\ builder' = set_ssh_auth_sock(builder, sock)
             /\ runs' = [runs EXCEPT ![r].sock = sock, ![r].was = builder.env, ![r].at = FirstPhase]
     \/ Now(r) \notin shop.ssh /\ Go(r, FirstPhase) /\ UNCHANGED builder
  /\ UNCHANGED <<shop, engineVars, record, kept, left, ghost>>
BuildBegins(r) ==
  /\ At(r, "build")
  /\ \/ /\ Now(r) \in shop.ssh /\ ~SshLocked
        /\ \E sock \in Agents :
             /\ builder' = set_ssh_auth_sock(builder, sock)
             /\ runs' = [runs EXCEPT ![r].sock = sock, ![r].was = builder.env, ![r].at = FirstPhase]
     \/ Now(r) \notin shop.ssh /\ Go(r, FirstPhase) /\ UNCHANGED builder
  /\ UNCHANGED <<shop, engineVars, record, kept, left, ghost>>
\* A container that cannot be inspected leaves the choice to bollard.
LookForBuilder(r) ==
  /\ At(r, "look")
  /\ \/ UNCHANGED left /\ runs' = [runs EXCEPT ![r].want = buildkit_image_of, ![r].at = "retire"]
     \/ Count("fault") /\ runs' = [runs EXCEPT ![r].want = DEFAULT, ![r].at = "retire"]
  /\ ghost' = [ghost EXCEPT !.mixed = @ \/ \E s \in Run \ {r} : runs[s].at \in {"retire", "boot"}]
  /\ UNCHANGED <<shop, engineVars, record, kept, builder>>
RetireBuilder(r) ==
  /\ At(r, "retire") /\ Go(r, "boot")
  /\ builder' = retire_builder_if_image_changed(builder, runs[r].want)
  /\ UNCHANGED <<shop, engineVars, record, kept, left, ghost>>
SolveBegins(r) ==
  /\ At(r, "boot") /\ Go(r, "solve") /\ builder' = Bootstrap(builder, r, runs[r].want)
  /\ UNCHANGED <<shop, engineVars, record, kept, left, ghost>>

\* The agent that was there before is put back.
Unlent(b, r) == IF runs[r].sock = None THEN b ELSE set_ssh_auth_sock(b, runs[r].was)
Alive(r) == runs[r].want = None \/ r \in builder.solving
BuildEnds(r) ==
  /\ At(r, "solve")
  /\ \/ /\ Alive(r) /\ builder' = Unlent(load_image_tar(builder, r, Now(r)), r)
        /\ runs' = [runs EXCEPT ![r] = [Unbuilt(runs[r]) EXCEPT !.at = "make"]]
        /\ UNCHANGED <<record, left, ghost>>
     \/ /\ (Alive(r) /\ Count("fault")) \/ (~Alive(r) /\ UNCHANGED left)
        /\ builder' = Unlent(SolveDropped(builder, r), r) /\ NodeFails(r)
  /\ UNCHANGED <<shop, engineVars, kept>>

(* An image that is not there is pulled; only a registry has it.           *)

PullImage(r) ==
  /\ At(r, "make") /\ ~image_is_local(Now(r))
  /\ \/ builder' = Stored(builder, Now(r)) /\ UNCHANGED <<runs, record, left, ghost>>
     \/ Count("fault") /\ NodeFails(r) /\ UNCHANGED builder
  /\ UNCHANGED <<shop, engineVars, kept>>

(* run_container: whatever holds the name goes first.  A failed start      *)
(* takes the new container away again.                                     *)

Removed(r) == stop_and_remove(Now(r)) /\ UNCHANGED filled
MakeContainer(r) ==
  /\ At(r, "make") /\ image_is_local(Now(r))
  /\ LET n == Now(r) IN
     /\ ensure_volume(n)
     /\ \/ /\ net # "none" /\ Made(n, runs[r].dns) /\ Starts(r, n)
           /\ Go(r, IF IsTask(n) THEN "exit" ELSE "health")
           /\ UNCHANGED <<record, left>>
        \/ net = "none" /\ Removed(r) /\ NodeFails(r) /\ UNCHANGED left
        \/ net # "none" /\ Count("fault") /\ Removed(r) /\ NodeFails(r)
  /\ UNCHANGED <<shop, net, sidecar, cfg, kept, builder>>

(* health.rs: two deadlines, both counted from the start of the run.       *)

allowance(run) == Min({RUN_LIMIT - run.clock, PER_NODE_LIMIT})
\* Waiting takes no time, or all there is.
Waits(run, d) == [run EXCEPT !.clock = @ + d, !.waited = @ + d]
\* What start_node answers; a service's status was read before the wait.
Started(n) == [hash |-> cfg[n], exit |-> IF IsTask(n) THEN 0 ELSE None, busy |-> FALSE,
               status |-> IF IsTask(n) THEN "exited" ELSE "running"]

\* Work that is not a wait passes the time as well.
TimePasses(r) ==
  /\ Active(r) /\ runs[r].at \in {"make", "solve"} /\ runs[r].clock < RUN_LIMIT /\ Count("slow")
  /\ runs' = [runs EXCEPT ![r].clock = RUN_LIMIT]
  /\ UNCHANGED <<shop, engineVars, record, kept, builder, ghost>>

WaitForExit_ever(r) ==
  /\ At(r, "exit") /\ ~Running(Now(r))
  /\ IF box[Now(r)].code = 0
     THEN IF shop.seeds[Now(r)] = {} THEN NodeDone(r, Started(Now(r)), runs[r]) ELSE Go(r, "seeded") /\ UNCHANGED record
     ELSE NodeFails(r)
  /\ ghost' = [ghost EXCEPT !.owed = IF box[Now(r)].code = 0 THEN @ \ {Now(r)} ELSE @ \cup {Now(r)}]
  /\ UNCHANGED <<shop, engineVars, kept, builder, left>>
WaitForExit(r) ==
  /\ At(r, "exit")
  /\ LET n == Now(r)
         run == runs[r]
         done == ~Running(n) /\ box[n].code = 0 /\ allowance(run) > 0
     IN  \/ /\ done
            /\ \E d \in {0, allowance(run)} :
                 IF shop.seeds[n] = {} THEN NodeDone(r, Started(n), Waits(run, d))
                 ELSE runs' = [runs EXCEPT ![r] = [Waits(run, d) EXCEPT !.at = "seeded"]] /\ UNCHANGED record
            /\ ghost' = [ghost EXCEPT !.owed = @ \ {n}]
         \/ ~Running(n) /\ ~done /\ NodeFails(r)
         \/ /\ Running(n)
            /\ runs' = [runs EXCEPT ![r] = Failed(Waits(run, allowance(run)))]
            /\ Cleared(n) /\ ghost' = [ghost EXCEPT !.owed = @ \cup Ahead(r)]
  /\ UNCHANGED <<shop, engineVars, kept, builder, left>>

\* Best effort: whatever comes of it, the node counts as started.
Recreated_only(run, n) == [run EXCEPT !.recreated = IF run.at = "health" THEN @ \cup {n} ELSE @,
                                      !.bounced = IF run.at = "health" THEN @ \cup {n} ELSE @]
Recreated(run, n) == [run EXCEPT !.recreated = IF run.at = "health" THEN @ \cup {n} ELSE @, !.bounced = @ \cup {n}]
WaitForHealthy(r) ==
  /\ At(r, "health")
  /\ LET n == Now(r)
         run == runs[r]
         polled == n \in shop.checked /\ waited_on(run, n)
         starting == Running(n) /\ box[n].health = "starting"
     IN  \/ /\ \E d \in IF ~polled THEN {0} ELSE IF starting THEN {allowance(run)} ELSE {0, allowance(run)} :
                 NodeDone(r, Started(n), Recreated(Waits(run, d), n))
            /\ UNCHANGED <<left, ghost>>
         \* The new container could not be inspected.
         \/ Count("fault") /\ NodeFails(r)
  /\ UNCHANGED <<shop, engineVars, kept, builder>>

\* record_seeded: after the lock is dropped, and of the data there is now.
RecordSeeded(r) ==
  /\ At(r, "seeded")
  /\ LET n == Now(r) IN
     /\ \/ /\ seeded_data(n) # None /\ save_seed(n)
           /\ ghost' = [ghost EXCEPT !.told = @ \cup {<<n, s, DataOf(s)>> : s \in shop.seeds[n]}]
           /\ UNCHANGED left
        \/ seeded_data(n) = None /\ UNCHANGED <<kept, ghost, left>>
        \/ Count("fault") /\ UNCHANGED <<kept, ghost>>
     /\ NodeDone(r, Started(n), runs[r])
  /\ UNCHANGED <<shop, engineVars, builder>>

(* restart_in_place: the same container again, for a dependent.            *)

RestartInPlace(r) ==
  /\ At(r, "restart") /\ ~Locked(Now(r))
  /\ LET n == Now(r) IN
     \/ /\ box[n].status # "none" /\ net # "none" /\ Starts(r, n)
        /\ box' = [box EXCEPT ![n].status = "running", ![n].code = None,
                              ![n].health = IF n \in shop.checked THEN "starting" ELSE None]
        /\ \E d \in IF n \in shop.checked /\ waited_on(runs[r], n) THEN {0, allowance(runs[r])} ELSE {0} :
             NodeDone(r, [runs[r].seen[n] EXCEPT !.busy = FALSE, !.status = "running"], Recreated(Waits(runs[r], d), n))
        /\ \E a \in Handed : holder' = IF Running(n) \/ a # SIDECAR THEN holder ELSE n
        /\ UNCHANGED left
     \* The container is gone, or Docker refuses.
     \/ /\ Count("fault") /\ NodeFails(r) /\ UNCHANGED <<box, holder>>
  /\ UNCHANGED <<shop, net, sidecar, vol, filled, cfg, kept, builder>>

---------------------------------------------------------------------------
(* Around the runs.                                                        *)

\* A Stop, a Delete or a create took over from a start: its task is aborted
\* where it stands, and a call it had sent may still be carried out.
CallOff(r) ==
  /\ Starting(r) /\ Count("calloff") /\ Ends(r) /\ builder' = SolveDropped(builder, r)
  /\ ghost' = [ghost EXCEPT !.owed = @ \cup Ahead(r)]
  /\ \/ UNCHANGED <<box, holder, filled>>
     \/ At(r, "make") /\ Removed(r)
     \/ At(r, "make") /\ net # "none" /\ (HasVolume(Now(r)) => vol[Now(r)].there) /\ Made(Now(r), runs[r].dns)
  /\ UNCHANGED <<shop, net, sidecar, vol, cfg, kept>>
\* remove_container, and the entry with it.
DeleteNode(n) ==
  /\ record[n] # None /\ ~record[n].busy /\ ~(\E s \in Run : Creating(s)) /\ ~Locked(n) /\ Count("delete")
  /\ stop_and_remove(n) /\ record' = [record EXCEPT ![n] = None]
  /\ UNCHANGED <<shop, net, sidecar, vol, filled, cfg, kept, runs, builder, ghost>>
\* The observer's reading of everything; a node being acted on is not touched.
Observe ==
  /\ record' = [n \in Node |-> IF record[n] = None \/ record[n].busy THEN record[n]
                               ELSE [record[n] EXCEPT !.status = ReadStatus(n), !.exit = ReadExit(n)]]
  /\ record' # record
  /\ UNCHANGED <<shop, engineVars, kept, runs, builder, left, ghost>>
Outside ==
  /\ \/ \E n \in Node : (TaskExits(n) \/ HealthReports(n)) /\ UNCHANGED <<left, builder>>
     \/ /\ Count("change") /\ UNCHANGED builder
        /\ \/ \E n \in Node : ServiceDies(n) \/ VolumeRemoved(n) \/ ConfigEdited(n)
           \/ SidecarDies \/ NetworkRemoved
     \/ /\ Count("image") /\ UNCHANGED engineVars
        /\ BuildxUpgraded \/ \E n \in Node : ~Locked(n) /\ ImagePruned(n)
  /\ UNCHANGED <<shop, record, kept, runs, ghost>>

RunStep(r) ==
  \/ EnsureNetwork(r) \/ ReadBack(r) \/ PinNetwork(r) \/ SidecarThere(r) \/ ReplaceSidecar(r) \/ Restored(r)
  \/ Plan(r) \/ StopOutside(r) \/ NextNode(r) \/ Finish(r) \/ TakeNode(r) \/ BuildBegins(r)
  \/ LookForBuilder(r) \/ RetireBuilder(r) \/ SolveBegins(r) \/ BuildEnds(r) \/ PullImage(r)
  \/ MakeContainer(r) \/ WaitForExit(r) \/ WaitForHealthy(r) \/ RecordSeeded(r) \/ RestartInPlace(r)

\* A workspace nothing was started in, or one as a first run left it.
Init ==
  /\ shop \in {[s EXCEPT !.reach = [n \in Node |-> Closure(n, s.requires)]] : s \in Shops}
  /\ net = shop.net /\ sidecar = shop.sidecar /\ holder = None
  /\ box = [n \in Node |-> IF n \notin shop.up THEN NoBox
              ELSE [status |-> IF IsTask(n) THEN "exited" ELSE "running", code |-> IF IsTask(n) THEN 0 ELSE None, dns |-> sidecar,
                    health |-> IF n \in shop.checked THEN "healthy" ELSE None, id |-> 0]]
  /\ vol = [n \in Node |-> [there |-> n \in shop.up /\ HasVolume(n), created |-> 0]]
  /\ filled = UNION {{t} \X (Stores(t) \cap shop.up) : t \in shop.tasks \cap shop.up}
  /\ cfg = [n \in Node |-> 1]
  /\ record = [n \in Node |-> IF n \notin shop.up THEN None
                 ELSE [hash |-> 1, exit |-> IF IsTask(n) THEN 0 ELSE None, busy |-> FALSE, status |-> box[n].status]]
  /\ kept = [n \in Node |-> IF n \in shop.up /\ shop.seeds[n] # {} THEN seeded_data(n) ELSE None]
  /\ runs = [r \in Run |-> Idle] /\ left = Allowed[shop.name]
  /\ builder = [env |-> None, host |-> shop.host, kit |-> None, solving |-> {},
                images |-> shop.nodes \ shop.built]
  /\ ghost = [crossed |-> FALSE, mixed |-> FALSE, raced |-> FALSE, stale |-> {}, early |-> FALSE, again |-> FALSE, owed |-> {},
              told |-> UNION {{<<t, s, DataOf(s)>> : s \in shop.seeds[t]} : t \in {n \in Node : kept[n] # None}}]
Next ==
  \/ \E r \in Run : Begin(r) \/ RestoreSidecar(r) \/ RunStep(r) \/ TimePasses(r) \/ CallOff(r)
  \/ \E n \in Node : DeleteNode(n)
  \/ Observe \/ Outside
Spec == Init /\ [][Next]_vars
\* tokio polls tasks that can go on; that some run's task is polled is enough.
FairSpec == Spec /\ WF_vars(\E r \in Run : RunStep(r))

---------------------------------------------------------------------------
TypeOK ==
  /\ box \in [Node -> [status : {"none", "running", "exited"}, code : {None, 0, 1}, id : Nat,
                       health : {None, "starting", "healthy", "unhealthy"}, dns : {None, SIDECAR, SIDECAR + 1}]]
  /\ \A n \in Node : box[n].status = "exited" <=> box[n].code # None
  /\ net \in {"none", "open", "pinned"} /\ sidecar \in {None, SIDECAR, SIDECAR + 1} /\ holder \in Node \cup {None}
  /\ holder # None => Running(holder)
  /\ \A r \in Run : runs[r].at \in InHand => Now(r) \in runs[r].todo /\ \A s \in Run \ {r} : runs[s].at \in InHand => Now(s) # Now(r)

\* The sidecar's address is its own on a pinned network, however often it is
\* replaced, and it is the one every container was given for its DNS, unless the
\* network was made anew under a run that had its address already.
DnsReaches ==
  net = "pinned" =>
    /\ holder = None /\ sidecar \in {None, SIDECAR}
    /\ ghost.raced \/ \A n \in Node : Running(n) => box[n].dns = SIDECAR

\* A service is started only on a store whose migration has run over the data
\* the store holds now, unless the store was deleted meanwhile, the migration's
\* last start failed or was called off, or two starts crossed.
MigratedBeforeUse == ~ghost.early

\* The record that a seed filled its stores is true of the data they hold now,
\* unless two starts crossed.
SeedRecordTrue ==
  \A n \in Node : (~ghost.crossed /\ shop.seeds[n] # {} /\ already_seeded(n)) => {n} \X shop.seeds[n] \subseteq filled

\* A seed recorded over the data its stores hold now is not run over it again,
\* unless someone starts the seed itself, or two starts crossed.
SeededOnce == ~ghost.again

\* When a run ends with nothing failed, no service it was for holds a
\* connection to a requirement the run took down after it, unless two crossed.
Reconnected ==
  \A r \in Run : (At(r, "next") /\ runs[r].todo = {} /\ runs[r].failed = {} /\ ~ghost.crossed) =>
    \A p \in ghost.stale : p[1] \in runs[r].targets => ~Running(p[1])

\* A whole run waits no longer than its limit, however many nodes it waits for.
WaitsBounded == \A r \in Run : runs[r].waited <= RUN_LIMIT

\* An ssh build finds its own owner's agent in the environment, to its end.
RightAgent == \A r \in Run : (runs[r].at \in Building /\ runs[r].sock # None) => builder.env = runs[r].sock

\* A build solves on the BuildKit `docker build` used when it looked, whatever
\* the one before it left running, unless another was choosing one meanwhile.
SameBuildKit ==
  \A r \in Run : (At(r, "solve") /\ r \in builder.solving /\ ~ghost.mixed) => runs[r].want \in {builder.kit, DEFAULT}

\* A run that began ends: no task, healthcheck, lock or build holds it for ever.
RunsEnd == \A r \in Run : Active(r) ~> ~Active(r)

\* Two runs at once, each with its nodes, its limit, its agent and its builder:
\* neither takes a node, a wait, an ssh agent or a BuildKit that is the other's.
RunsApart == TypeOK /\ WaitsBounded /\ RightAgent /\ SameBuildKit

\* A store is ready for who is started on it: migrated, and seeded exactly once
\* over the data it holds now, with a record of it that is true.
StoresReady == MigratedBeforeUse /\ SeedRecordTrue /\ SeededOnce
=============================================================================
