------------------------------- MODULE Daemon -------------------------------
(***************************************************************************)
(* fghjd's on/off switch and everything it installs on the machine:        *)
(* DaemonControl (daemon/control.rs, web/api/control.rs), the start of     *)
(* fghjd (daemon/bootstrap.rs, with Certs), the daemon-wide effects        *)
(* (effects/mod.rs: raw_net, dns, hosts) with the resource each converges, *)
(* and `fghj uninstall` (uninstall.rs).                                    *)
(*                                                                         *)
(* Requests run concurrently: each takes its steps one at a time, with the *)
(* effect tasks, the workspaces and a crash of fghjd in between.  An       *)
(* activation is known by its number, which is also its DNS server's port. *)
(***************************************************************************)
EXTENDS Certs, Routing

CONSTANTS Workspaces,
          Wired, Taken,  \* the workspaces wired and the addresses taken at first
          Callers,       \* who may have a request under way
          Publications,  \* what Docker may publish a container's port on
          Sockets, Default,  \* Docker sockets `fghj wire` may name, and the default one
          MAX_ROUNDS,    \* raw_net::MAX_ROUNDS
          MaxOps, Limit,  \* how many requests, changes and faults there are, in all and of each
          MaxGens

VARIABLES actors,      \* the registry's map: workspace |-> its actor's number, 0 if not wired
          pub,         \* container |-> publication, Bare, or 0 while it does not run
          settings,    \* daemon-state.json: [idle, socket]
          dialled,     \* the socket this fghjd dialled
          active,      \* DaemonControl.active: an activation, or 0
          gens,        \* the last activation's number
          ports,       \* who listens on the proxy's 80 and 443
          alias,       \* the proxy's loopback alias is there
          calls,       \* caller |-> its request
          tasks,       \* <<activation, effect>> |-> task
          hostsFile,   \* /etc/hosts' managed block
          osDns,       \* the OS resolver's routing: <<port, zones>>, <<>> if none
          raw,         \* raw_net's tables: [assigned, taken, listeners]
          others,      \* addresses of the raw pool other programs listen on
          chosen,      \* the last choice that was answered and saved: "on" or "off"
          races,       \* what has gone on at once: see the properties
          ops

netVars == <<hostsFile, osDns, raw, alias>>
taskVars == <<tasks, netVars>>
controlVars == <<settings, dialled, active, gens, ports, calls, chosen>>
vars == <<certVars, actors, pub, controlVars, taskVars, others, races, ops>>

Effects == {"raw_net", "dns", "hosts"}
Gens == 1 .. MaxGens
NoRaw == [assigned |-> <<>>, taken |-> {}, listeners |-> <<>>]
Idle == [kind |-> "none", pc |-> "done", gen |-> 0, copy |-> <<>>, socket |-> <<>>]
Threads == Callers \cup {"fghjd"}   \* fghjd's own thread starts it and shuts it down
DefaultSettings == [idle |-> FALSE, socket |-> Default]
Off == [pc |-> "off"]
Fresh == [pc |-> "look", fwd |-> [w \in Workspaces |-> 0], poked |-> FALSE, mapNew |-> FALSE,
          last |-> <<>>, snap |-> {}, round |-> 0, failed |-> FALSE, aborted |-> FALSE]

Init ==
  /\ CertsInit
  /\ actors = [w \in Workspaces |-> IF w \in Wired THEN 1 ELSE 0]
  /\ pub = [c \in Containers |-> CHOOSE p \in Publications : TRUE]
  /\ settings \in {[DefaultSettings EXCEPT !.idle = i] : i \in BOOLEAN} /\ dialled = Default
  /\ active = 0 /\ gens = 0 /\ ports = [http |-> 0, https |-> 0] /\ alias = FALSE
  /\ calls = [c \in Threads |-> Idle]
  /\ tasks = [t \in Gens \X Effects |-> Off]
  /\ hostsFile = {} /\ osDns = <<>> /\ raw = NoRaw /\ others = Taken
  /\ chosen = (IF settings.idle THEN "off" ELSE "on") /\ races = {} /\ ops = [request |-> 0, change |-> 0, fault |-> 0]

Spent == ops.request + ops.change + ops.fault
Count(what) == Spent < MaxOps /\ ops[what] < Limit[what] /\ ops' = [ops EXCEPT ![what] = @ + 1]

-----------------------------------------------------------------------------
(* The workspaces. *)

(* WorkspaceRegistry::load comes after the certificates and before the network. *)
Loaded == stage \in {"network", "up"}

Running(c) == actors[Declared[c].ws] # 0 /\ pub[c] # 0

Live == [c \in {c \in Containers : Running(c)} |-> pub[c]]

Up(t) == tasks[t].pc # "off"

(* An actor publishes: every forwarder that follows this actor pokes its effect.  (The *)
(* forwarder's own delay is no different from the effect's being slow to wake.)        *)
Publish(c, p) ==
  /\ Count("change") /\ Loaded /\ actors[Declared[c].ws] # 0 /\ p # pub[c]
  /\ pub' = [pub EXCEPT ![c] = p]
  /\ tasks' = [t \in DOMAIN tasks |->
       IF Up(t) /\ tasks[t].fwd[Declared[c].ws] = actors[Declared[c].ws]
         THEN [tasks[t] EXCEPT !.poked = TRUE] ELSE tasks[t]]
  /\ UNCHANGED <<certVars, actors, controlVars, netVars, others, races>>

MapChanges == tasks' = [t \in DOMAIN tasks |-> IF Up(t) THEN [tasks[t] EXCEPT !.mapNew = TRUE] ELSE tasks[t]]

(* Wiring spawns a new actor, numbered apart from the one before. *)
wire_actor(w) ==
  /\ Count("change") /\ Loaded /\ actors[w] = 0 /\ actors' = [actors EXCEPT ![w] = 2]
  /\ MapChanges /\ UNCHANGED <<certVars, pub, controlVars, netVars, others, races>>

Unwire(w) ==
  /\ Count("change") /\ Loaded /\ actors[w] = 1 /\ actors' = [actors EXCEPT ![w] = 0]
  /\ pub' = [c \in Containers |-> IF Declared[c].ws = w THEN 0 ELSE pub[c]]
  /\ MapChanges /\ UNCHANGED <<certVars, controlVars, netVars, others, races>>

(* Another program listens on an address of the pool that is free. *)
OtherListens(a) ==
  /\ Count("change") /\ Loaded /\ a \notin others \cup DOMAIN raw.listeners
  /\ others' = others \cup {a}
  /\ UNCHANGED <<certVars, actors, pub, controlVars, taskVars, races>>

-----------------------------------------------------------------------------
(* run_fanned_in_effect, for one task t = <<activation, effect>>. *)

Set(t, r) == tasks' = [tasks EXCEPT ![t] = r]

extract(effect) ==
  CASE effect = "hosts" -> extract_hosts(Live)
    [] effect = "dns" -> wildcard_suffixes(Live)
    [] effect = "raw_net" -> raw_endpoints(Live)

(* One forwarder per workspace id: kept while the id is in the map, whoever's it is. *)
Followed(fwd) ==
  [w \in Workspaces |-> IF actors[w] = 0 THEN 0 ELSE IF fwd[w] # 0 THEN fwd[w] ELSE actors[w]]

(* From a wake-up to the next await: the map, the forwarders, the states, the snapshot. *)
Looked(r, effect) ==
  LET snap == extract(effect)
      seen == [r EXCEPT !.fwd = Followed(@)]
  IN IF seen.last = <<snap>> THEN [seen EXCEPT !.pc = "wait"] ELSE [seen EXCEPT !.pc = "write", !.snap = snap]

Look(t) ==
  /\ Up(t)
  /\ \/ tasks[t].pc = "look" /\ Set(t, Looked(tasks[t], t[2]))
     \/ tasks[t].pc = "wait" /\ tasks[t].poked /\ Set(t, Looked([tasks[t] EXCEPT !.poked = FALSE], t[2]))
     \/ tasks[t].pc = "wait" /\ tasks[t].mapNew /\ Set(t, Looked([tasks[t] EXCEPT !.mapNew = FALSE], t[2]))
  /\ UNCHANGED <<certVars, actors, pub, controlVars, netVars, others, races, ops>>

Converged_forgets(t, ok) ==
  Set(t, IF tasks[t].aborted THEN Off
         ELSE [tasks[t] EXCEPT !.pc = "wait", !.failed = ~ok, !.snap = {}, !.round = 0, !.poked = FALSE,
                               !.last = IF ok THEN <<tasks[t].snap>> ELSE @])

(* A converge ends: an abort takes hold at the await that follows. *)
Converged(t, ok) ==
  Set(t, IF tasks[t].aborted THEN Off
         ELSE [tasks[t] EXCEPT !.pc = "wait", !.failed = ~ok, !.snap = {}, !.round = 0,
                               !.last = IF ok THEN <<tasks[t].snap>> ELSE @])

Late(t) == IF tasks[t].aborted THEN races \cup {"late"} ELSE races

Writing(t, effect) == t[2] = effect /\ tasks[t].pc = "write"

WriteHosts(t) ==
  /\ Writing(t, "hosts") /\ hostsFile' = tasks[t].snap
  /\ Converged(t, TRUE) /\ races' = Late(t)
  /\ UNCHANGED <<certVars, actors, pub, controlVars, osDns, raw, alias, others, ops>>

install_os_resolver_config(t) ==
  /\ Writing(t, "dns") /\ osDns' = <<t[1], {ZONE, ZONE_RAW} \cup tasks[t].snap>>
  /\ Converged(t, TRUE) /\ races' = Late(t)
  /\ UNCHANGED <<certVars, actors, pub, controlVars, hostsFile, raw, alias, others, ops>>

(* /etc/hosts or the resolver cannot be written: retried on the next change. *)
WriteFails(t) ==
  /\ Count("fault") /\ (Writing(t, "hosts") \/ Writing(t, "dns"))
  /\ Converged(t, FALSE)
  /\ UNCHANGED <<certVars, actors, pub, controlVars, netVars, others, races>>

(* raw_net::reconcile, a round at a time: the table, then the listeners.  `bad` is an *)
(* address the system refuses for another reason than being in use.                   *)
reconcile(t, bad) ==
  /\ Writing(t, "raw_net")
  /\ LET next == assign(tasks[t].snap, raw.assigned, raw.taken)
         routes == routes_for(tasks[t].snap, next)
         busy == Busy(routes, raw.listeners, others)
     IN /\ bad \subseteq Unserved(routes, raw.listeners) \ others
        /\ raw' = [assigned |-> next, listeners |-> apply(routes, raw.listeners, others, bad),
                   taken |-> IF bad = {} THEN raw.taken \cup busy ELSE raw.taken]
        /\ IF bad = {} /\ busy # {} /\ tasks[t].round + 1 < MAX_ROUNDS
             THEN Set(t, [tasks[t] EXCEPT !.round = @ + 1])
             ELSE Converged(t, bad = {})
  /\ IF bad = {} THEN UNCHANGED ops ELSE Count("fault")
  /\ races' = Late(t)
  /\ UNCHANGED <<certVars, actors, pub, controlVars, hostsFile, osDns, alias, others>>

-----------------------------------------------------------------------------
(* Requests and fghjd's own thread. *)

At(c, pc) == calls[c].pc = pc
Goto(c, pc) == calls' = [calls EXCEPT ![c].pc = pc]
Switching == {c \in Threads : calls[c].kind # "docker" /\ calls[c].pc # "done"}
Untouched == UNCHANGED <<certVars, actors, pub, others>>

(* What fghjd loses when its process ends; what is on the machine stays. *)
ProcessEnds ==
  /\ Dead
  /\ active' = 0 /\ ports' = [http |-> 0, https |-> 0]
  /\ tasks' = [t \in DOMAIN tasks |-> Off] /\ raw' = NoRaw
  /\ calls' = [c \in Threads |->
       IF calls[c].kind # "purge" \/ At(c, "done") THEN Idle
       ELSE IF calls[c].pc \in {"take", "clear", "load", "save"} THEN [calls[c] EXCEPT !.pc = "sweep"] ELSE calls[c]]
  /\ UNCHANGED <<disk, minted, trusted, dialled, gens, actors, pub, hostsFile, osDns, alias, others>>

(* The service manager starts fghjd again whenever it has ended. *)
Boot ==
  /\ Begin /\ dialled' = settings.socket
  /\ chosen' = IF chosen = "gone" THEN "on" ELSE chosen
  /\ races' = IF \E c \in Threads : calls[c].kind = "purge" /\ ~At(c, "done") THEN races \cup {"crossed"} ELSE races
  /\ UNCHANGED <<disk, minted, trusted, actors, pub, settings, active, gens, ports, calls, taskVars, others, ops>>

(* Stays idle if the last choice was `stop`. *)
BootNetwork ==
  /\ stage = "network" /\ At("fghjd", "done")
  /\ IF settings.idle THEN stage' = "up" /\ UNCHANGED calls
     ELSE calls' = [calls EXCEPT !["fghjd"] = [Idle EXCEPT !.kind = "boot", !.pc = "check"]] /\ UNCHANGED stage
  /\ UNCHANGED <<disk, minted, mem, trusted, actors, pub, settings, dialled, active, gens, ports, chosen,
                 taskVars, others, races, ops>>

FirstStep(kind) == CASE kind = "start" -> "check" [] kind \in {"stop", "shutdown"} -> "take" [] kind = "docker" -> "load"
                     [] kind = "purge" -> IF stage = "up" THEN "take" ELSE "sweep"

Ask(c, kind, socket) ==
  /\ Count("request") /\ At(c, "done") /\ (kind = "purge" \/ stage = "up") /\ (kind = "shutdown") = (c = "fghjd")
  /\ calls' = [calls EXCEPT ![c] = [Idle EXCEPT !.kind = kind, !.pc = FirstStep(kind), !.socket = socket]]
  /\ races' = IF kind # "docker" /\ (Switching # {} \/ stage \notin {"up", "down"}) THEN races \cup {"crossed"} ELSE races
  /\ chosen' = IF chosen = "gone" /\ kind = "start" THEN "on" ELSE chosen
  /\ Untouched /\ UNCHANGED <<settings, dialled, active, gens, ports, taskVars>>

(* activate *)
CheckActive(c) ==
  /\ At(c, "check") /\ Goto(c, IF active # 0 THEN "load" ELSE "dns")
  /\ Untouched /\ UNCHANGED <<settings, dialled, active, gens, ports, chosen, taskVars, races, ops>>

BindDns(c) ==
  /\ At(c, "dns") /\ gens < MaxGens /\ gens' = gens + 1
  /\ calls' = [calls EXCEPT ![c].pc = "alias", ![c].gen = gens + 1]
  /\ Untouched /\ UNCHANGED <<settings, dialled, active, ports, chosen, taskVars, races, ops>>

AddAlias(c) ==
  /\ At(c, "alias") /\ alias' = TRUE /\ Goto(c, "http")
  /\ Untouched /\ UNCHANGED <<settings, dialled, active, gens, ports, chosen, tasks, hostsFile, osDns, raw, races, ops>>

Bind(c, port, next) ==
  /\ At(c, port) /\ ports[port] = 0
  /\ ports' = [ports EXCEPT ![port] = calls[c].gen] /\ Goto(c, next)
  /\ Untouched /\ UNCHANGED <<settings, dialled, active, gens, chosen, taskVars, races, ops>>

SpawnEffects(c) ==
  /\ At(c, "spawn")
  /\ tasks' = [t \in DOMAIN tasks |-> IF t[1] = calls[c].gen THEN Fresh ELSE tasks[t]] /\ Goto(c, "store")
  /\ Untouched /\ UNCHANGED <<settings, dialled, active, gens, ports, chosen, netVars, races, ops>>

StoreActive(c) ==
  /\ At(c, "store") /\ active' = calls[c].gen
  /\ Goto(c, IF c = "fghjd" THEN "done" ELSE "load")
  /\ stage' = IF c = "fghjd" THEN "up" ELSE stage
  /\ UNCHANGED <<disk, minted, mem, trusted, actors, pub, settings, dialled, gens, ports, chosen, taskVars,
                 others, races, ops>>

(* A bind or the alias fails.  The DNS server and the alias stay; fghjd's own start *)
(* gives up and the process ends.                                                   *)
ActivateFails(c) ==
  /\ calls[c].pc \in {"dns", "alias", "http", "https"}
  /\ IF calls[c].pc \in {"http", "https"} /\ ports[calls[c].pc] # 0 THEN UNCHANGED ops ELSE Count("fault")
  /\ races' = races \cup {"failed"}
  /\ \/ /\ c = "fghjd" /\ ProcessEnds /\ UNCHANGED <<settings, chosen>>
     \/ /\ c # "fghjd" /\ calls' = [calls EXCEPT ![c].pc = "done"]
        /\ ports' = IF At(c, "https") THEN [ports EXCEPT !.http = 0] ELSE ports
        /\ Untouched /\ UNCHANGED <<settings, dialled, active, gens, chosen, taskVars>>

(* deactivate: an effect at an await is gone, one that is converging ends its turn. *)
Aborted(r) == IF r.pc \in {"off", "look", "wait"} THEN Off ELSE [r EXCEPT !.aborted = TRUE]

TakeActive(c) ==
  /\ At(c, "take") /\ active' = 0
  /\ tasks' = [t \in DOMAIN tasks |-> IF t[1] = active THEN Aborted(tasks[t]) ELSE tasks[t]]
  /\ ports' = IF active = 0 THEN ports ELSE [p \in DOMAIN ports |-> IF ports[p] = active THEN 0 ELSE ports[p]]
  /\ Goto(c, "clear")
  /\ Untouched /\ UNCHANGED <<settings, dialled, gens, chosen, netVars, races, ops>>

Cleared == hostsFile' = {} /\ osDns' = <<>> /\ alias' = FALSE

ClearInstalled_listening(c) ==
  /\ At(c, "clear") /\ Cleared
  /\ calls[c].kind # "shutdown" /\ Goto(c, "load")
  /\ Untouched /\ UNCHANGED <<settings, dialled, active, gens, ports, chosen, tasks, raw, races, ops>>

ClearInstalled(c) ==
  /\ At(c, "clear") /\ Cleared
  /\ calls[c].kind # "shutdown"
  /\ raw' = [raw EXCEPT !.assigned = <<>>, !.listeners = <<>>]
  /\ Goto(c, "load")
  /\ Untouched /\ UNCHANGED <<settings, dialled, active, gens, ports, chosen, tasks, races, ops>>

Exit ==
  /\ At("fghjd", "clear") /\ Cleared
  /\ Dead /\ active' = 0 /\ ports' = [http |-> 0, https |-> 0]
  /\ tasks' = [t \in DOMAIN tasks |-> Off] /\ raw' = NoRaw
  /\ calls' = [c \in Threads |-> IF calls[c].kind = "purge" /\ ~At(c, "done") THEN [calls[c] EXCEPT !.pc = "sweep"] ELSE Idle]
  /\ UNCHANGED <<disk, minted, trusted, dialled, gens, actors, pub, settings, chosen, others, races, ops>>

(* set_idle_requested and set_docker_host load the file, change a field and save it. *)
LoadSettings(c) ==
  /\ At(c, "load") /\ calls' = [calls EXCEPT ![c].pc = "save", ![c].copy = settings]
  /\ Untouched /\ UNCHANGED <<settings, dialled, active, gens, ports, chosen, taskVars, races, ops>>

Changed(r) ==
  IF r.kind = "docker" THEN [r.copy EXCEPT !.socket = r.socket] ELSE [r.copy EXCEPT !.idle = r.kind # "start"]

Answered(c) == CASE calls[c].kind = "start" -> "on" [] calls[c].kind = "docker" -> chosen [] OTHER -> "off"

(* A different socket makes fghjd restart onto it. *)
AfterSave(c) ==
  [calls EXCEPT ![c].pc = IF calls[c].kind = "purge" THEN "sweep" ELSE "done",
                !["fghjd"] = IF calls[c].kind = "docker" /\ calls[c].socket # dialled /\ @.pc = "done"
                               THEN [Idle EXCEPT !.kind = "shutdown", !.pc = "take"] ELSE @]

SaveSettings(c) ==
  /\ At(c, "save") /\ settings' = Changed(calls[c]) /\ calls' = AfterSave(c) /\ chosen' = Answered(c)
  /\ races' = IF settings # calls[c].copy THEN races \cup {"lost"} ELSE races
  /\ Untouched /\ UNCHANGED <<dialled, active, gens, ports, taskVars, ops>>

(* The file cannot be written: only logged when it was a start or a stop. *)
SaveFails(c) ==
  /\ Count("fault") /\ At(c, "save") /\ races' = races \cup {"unsaved"}
  /\ calls' = [calls EXCEPT ![c].pc = IF calls[c].kind = "purge" THEN "sweep" ELSE "done"]
  /\ Untouched /\ UNCHANGED <<settings, dialled, active, gens, ports, chosen, taskVars>>

(* fghjd dies.  A settings file being written may be left unreadable, which reads as *)
(* the defaults.                                                                     *)
Crash ==
  /\ Count("fault") /\ stage # "down" /\ ProcessEnds
  /\ settings' \in {settings} \cup (IF \E c \in Threads : At(c, "save") THEN {DefaultSettings} ELSE {})
  /\ races' = races \cup (IF settings' # settings THEN {"torn"} ELSE {})
                    \cup (IF settings.idle /\ (hostsFile # {} \/ osDns # <<>> \/ alias) THEN {"cut"} ELSE {})
  /\ UNCHANGED chosen

-----------------------------------------------------------------------------
(* fghj uninstall, after it has asked a running fghjd to stand down. *)

Sweep(c) ==
  /\ At(c, "sweep") /\ Cleared /\ Goto(c, "untrust")
  /\ Untouched /\ UNCHANGED <<settings, dialled, active, gens, ports, chosen, tasks, raw, races, ops>>

(* Trust before disk: a trusted certificate whose key is gone is still trusted. *)
Untrust(c) ==
  /\ At(c, "untrust") /\ trusted' = {} /\ Goto(c, "erase")
  /\ UNCHANGED <<disk, minted, mem, stage, actors, pub, others, settings, dialled, active, gens, ports, chosen,
                 taskVars, races, ops>>

(* The CA files and the settings; fghjd, still up, is asked to remove the sidecars too. *)
Erase(c) ==
  /\ At(c, "erase") /\ Goto(c, "done")
  /\ disk' = NoFiles /\ settings' = DefaultSettings /\ chosen' = "gone"
  /\ UNCHANGED <<minted, mem, stage, trusted, actors, pub, others, dialled, active, gens, ports, taskVars, races, ops>>

-----------------------------------------------------------------------------
Elsewhere == UNCHANGED <<actors, pub, controlVars, taskVars, others, races>>

(* Dying in the middle of a write is one of the counted faults. *)
CertStep == SetUp /\ (IF stage' = "down" /\ disk' # disk THEN Count("fault") ELSE UNCHANGED ops) /\ Elsewhere

TaskStep(t) ==
  \/ Look(t) \/ WriteHosts(t) \/ install_os_resolver_config(t) \/ WriteFails(t)
  \/ \E bad \in SUBSET ((0 .. Slots - 1) \X {Declared[c].port : c \in Containers}) : Cardinality(bad) <= 1 /\ reconcile(t, bad)

CallStep(c) ==
  \/ CheckActive(c) \/ BindDns(c) \/ AddAlias(c) \/ Bind(c, "http", "https") \/ Bind(c, "https", "spawn")
  \/ SpawnEffects(c) \/ StoreActive(c) \/ ActivateFails(c)
  \/ TakeActive(c) \/ ClearInstalled(c) \/ LoadSettings(c) \/ SaveSettings(c) \/ SaveFails(c)
  \/ Sweep(c) \/ Untrust(c) \/ Erase(c)

Environment ==
  \/ \E c \in Containers, p \in Publications \cup {0, Bare} : Publish(c, p)
  \/ \E w \in Workspaces : wire_actor(w) \/ Unwire(w)
  \/ \E c \in Containers, ip \in 0 .. Slots - 1 : OtherListens(<<ip, Declared[c].port>>)

Next ==
  \/ CertStep \/ Boot \/ BootNetwork \/ Exit \/ Crash \/ Environment
  \/ \E t \in Gens \X Effects : TaskStep(t)
  \/ \E c \in Threads : CallStep(c)
  \/ \E c \in Threads, kind \in {"start", "stop", "shutdown", "purge"} : Ask(c, kind, <<>>)
  \/ \E c \in Threads, socket \in Sockets : Ask(c, "docker", socket)

Spec == Init /\ [][Next]_vars

-----------------------------------------------------------------------------
TypeOK ==
  /\ stage \in Stages /\ minted \in 0 .. MaxMints /\ trusted \subseteq 1 .. MaxMints
  /\ actors \in [Workspaces -> 0 .. 2] /\ pub \in [Containers -> Publications \cup {0, Bare}]
  /\ settings \in [idle : BOOLEAN, socket : Sockets \cup {Default}]
  /\ active \in 0 .. gens /\ gens \in 0 .. MaxGens
  /\ ports \in [{"http", "https"} -> 0 .. gens] /\ alias \in BOOLEAN
  /\ \A t \in Gens \X Effects : Up(t) => t[1] <= gens /\ tasks[t].round < MAX_ROUNDS
  /\ DOMAIN raw.assigned \subseteq Containers /\ DOMAIN raw.listeners \cap others = {}
  /\ chosen \in {"on", "off", "gone"} /\ races \subseteq {"crossed", "late", "lost", "unsaved", "failed", "torn", "cut"}

(* An effect's task sleeps with nothing to wake it. *)
Asleep(t) ==
  /\ tasks[t].pc = "wait" /\ ~tasks[t].poked /\ ~tasks[t].mapNew

(* It follows every wired workspace's present actor: one wired again between two looks *)
(* keeps the forwarder of the actor before.                                            *)
FollowsAll(t) == tasks[t].fwd = actors

(* No wake-up is lost (run_fanned_in_effect): an effect that sleeps has converged to the *)
(* workspaces as they are, or its last try failed.                                       *)
NoLostWake ==
  \A t \in Gens \X Effects : Asleep(t) /\ FollowsAll(t) => tasks[t].failed \/ tasks[t].last = <<extract(t[2])>>

(* Two requests to start fghjd may both find it idle: binding 80 and 443 lets only one of *)
(* them spawn effects, so a resource never has two lasting writers.                        *)
OneWriter ==
  Cardinality({t[1] : t \in {x \in Gens \X Effects : Up(x) /\ ~tasks[x].aborted}}) <= 1

(* Nobody is in the middle of switching fghjd on or off. *)
Settled == stage = "up" /\ Switching = {}

InStep == \A e \in Effects : Asleep(<<active, e>>) /\ FollowsAll(<<active, e>>) /\ ~tasks[<<active, e>>].failed

(* Every name a route may be asked by. *)
Asked == UNION {{r.domain, <<"x">> \o r.domain} : r \in UNION {ToSet(Routes(c)) : c \in Containers}}

LeadsToProxy(host) ==
  \/ host \in hostsFile
  \/ osDns # <<>> /\ osDns[1] = active /\ (\E z \in osDns[2] : matches_suffix(host, z)) /\ AnswersProxy(Live, host)

(* A name the proxy routes is a name this machine sends to the proxy, and /etc/hosts holds *)
(* no name beyond those.                                                                    *)
NamesLeadHere ==
  Settled /\ active # 0 /\ races \subseteq {"failed", "lost", "unsaved", "torn", "cut"} /\ InStep =>
    /\ \A host \in Asked : resolve_route(Live, host) # {} => LeadsToProxy(host)
    /\ \A host \in hostsFile : resolve_route(Live, host) # {}

(* A published port answers at the address DNS gives for its raw name, and what answers *)
(* there is that container, whatever else listens in the pool.                          *)
RawPortsAnswer ==
  Settled /\ active # 0 /\ races \subseteq {"failed", "lost", "unsaved", "torn", "cut"} /\ InStep =>
    \A c \in DOMAIN Live : Live[c] # Bare =>
      LET addr == <<resolve(raw.assigned, c), Declared[c].port>>
      IN addr \in DOMAIN raw.listeners /\ raw.listeners[addr] = <<c, Live[c]>>

(* After `fghj daemon stop` nothing on the machine leads to fghjd any more. *)
StopReleases ==
  Settled /\ chosen = "off" /\ races \cap {"crossed", "late", "cut", "lost", "unsaved", "torn"} = {} =>
    /\ hostsFile = {} /\ osDns = <<>> /\ raw.listeners = <<>> /\ ports = [http |-> 0, https |-> 0]
    /\ alias => "failed" \in races

(* `fghj daemon stop` holds until `start`, across crashes and restarts. *)
StopSurvives ==
  Settled /\ races \cap {"crossed", "lost", "unsaved", "torn"} = {} =>
    (chosen = "off") = settings.idle /\ (settings.idle => active = 0)

(* What fghjd and its sidecars sign with is a pair, and the root that signed it is the one *)
(* fghjd trusts, whatever writes a crash cut short (ensure_signing_ca).                     *)
CertsAgree ==
  stage \in {"trust", "network", "up"} /\ "crossed" \notin races =>
    /\ mem.cert.by = mem.root /\ mem.cert.id = mem.key
    /\ disk # NoFiles => disk.sigCert = mem.cert /\ disk.sigKey = mem.key /\ disk.rootKey = mem.root
                         /\ disk.copyCert = mem.cert /\ disk.copyKey = mem.key

(* `fghj uninstall` leaves nothing behind, and the root is distrusted before its key goes. *)
Purged ==
  /\ "crossed" \notin races => (disk.rootKey = Missing /\ disk.rootCert = Missing => trusted = {})
  /\ chosen = "gone" /\ races \cap {"crossed", "failed", "late"} = {} /\ Switching = {} =>
       hostsFile = {} /\ osDns = <<>> /\ ~alias /\ trusted = {}

(* With fghjd running, a name of a wired workspace, routed or raw, leads to what it names. *)
NamesAnswer == TypeOK /\ NamesLeadHere /\ RawPortsAnswer

(* Starting and stopping: one activation writes to the machine at a time, and after a stop *)
(* none does, now or after a restart, and nothing of it is left.                           *)
StopHolds == OneWriter /\ StopSurvives /\ StopReleases

(* The machine trusts the root fghjd signs under while there is one, and none afterwards. *)
CertsHold == CertsAgree /\ Purged
=============================================================================
