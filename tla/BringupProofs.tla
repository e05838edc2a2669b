--------------------------- MODULE BringupProofs ---------------------------
(***************************************************************************)
(* Proofs about Bringup for any nodes, runs, agents, limits and resolved    *)
(* workspaces, and any number of runs, faults and outside events: RunsApart,*)
(* DnsReaches, StoresReady and Reconnected are invariants.                  *)
(***************************************************************************)
EXTENDS Bringup, TLAPS

----------------------------------------------------------------------------
(* What the variables hold.                                                *)

Main == {"flow", "node", "start"}
Early == {"network", "readback", "pin", "sidecar", "replace", "plan"}
AtNode == {"start", "restart", "seeded"} \cup InHand
Phase == {"idle", "over", "outside", "next"} \cup Early \cup AtNode
Address == {None, SIDECAR, SIDECAR + 1}
Records == [Node -> EntryRec \cup {None}]
Box == [status : {"none", "running", "exited"}, code : {None, 0, 1}, id : Nat,
        health : {None, "starting", "healthy", "unhealthy"}, dns : Address]
Volume == [there : BOOLEAN, created : Nat]
RunRec ==
  [kind : {"idle", "restore"} \cup Main, of : {None} \cup Node \cup SUBSET Node, at : Phase, targets : SUBSET Node,
   seen : Records \cup {None}, todo : SUBSET Node, now : Node \cup {None}, outside : SUBSET Node,
   failed : SUBSET Node, blocked : SUBSET Node, recreated : SUBSET Node, bounced : SUBSET Node,
   clock : Nat, waited : Nat, dns : Address, sock : Agents \cup {None}, was : Agents \cup {None},
   want : {None, "v1", "v2", DEFAULT}]
BuilderRec == [env : Agents \cup {None}, host : {None, "v1", "v2"}, kit : {None, "v1", "v2", DEFAULT}, solving : SUBSET Run,
               images : SUBSET (Node \cup {SidecarImage})]
GhostRec == [crossed : BOOLEAN, mixed : BOOLEAN, raced : BOOLEAN, early : BOOLEAN, again : BOOLEAN,
             stale : SUBSET (Node \X Node), owed : SUBSET Node, told : SUBSET (Node \X Node \X Nat)]

EngineTypes ==
  /\ shop \in Workspace /\ Resolved(shop)
  /\ box \in [Node -> Box] /\ net \in {"none", "open", "pinned"} /\ sidecar \in Address /\ holder \in Node \cup {None}
  /\ vol \in [Node -> Volume] /\ filled \subseteq Node \X Node /\ cfg \in [Node -> Nat]
RunTypes ==
  /\ record \in Records /\ DOMAIN kept = Node /\ runs \in [Run -> RunRec] /\ builder \in BuilderRec /\ ghost \in GhostRec
Typed == EngineTypes /\ RunTypes

----------------------------------------------------------------------------
(* Where a run is.                                                         *)

\* What is known of a run by its kind and by its phase.
Sound(run) ==
  /\ run.kind = "idle" => run = Idle
  /\ run.at = "idle" => run.kind = "idle"
  /\ run.kind = "restore" => run.at \in {"sidecar", "replace", "over"} /\ run.of = None
  /\ run.kind \in Main => run.at # "over" /\ run.seen \in Records
  /\ run.kind = "flow" => run.of \in shop.flows
  /\ run.kind \in {"node", "start"} => run.of \in Node
  /\ run.at \notin {"outside", "next"} \cup AtNode =>
       run.targets = {} /\ run.todo = {} /\ run.failed = {} /\ run.blocked = {} /\ run.recreated = {} /\ run.bounced = {}
  /\ run.at \in AtNode => run.now \in run.todo
  /\ run.at \notin AtNode => run.now = None
  /\ run.at = "restart" => run.seen[run.now] \in EntryRec
  /\ run.at = "exit" => run.now \in shop.tasks
  /\ run.at = "health" => run.now \notin shop.tasks
  /\ run.at = "seeded" => run.now \in shop.tasks /\ shop.seeds[run.now] # {}
  /\ run.outside # {} => run.kind = "flow" /\ run.at = "outside"
  /\ run.failed = {} => run.blocked = {}

\* What is over or in hand requires nothing that is left.
Ordered(run) ==
  /\ run.todo \subseteq run.targets
  /\ \A n \in run.targets, d \in run.todo : n \notin run.todo => <<n, d>> \notin shop.requires
  /\ run.at \in AtNode => \A d \in run.todo : <<run.now, d>> \notin shop.requires
  /\ \A n \in Node : shop.migrates[n] \in run.targets => n \in run.targets

\* A create of a flow is alone, and so is everyone as long as no two crossed.
Alone ==
  \A r, s \in Run : runs[r].kind \in Main /\ runs[s].kind \in Main /\ r # s => runs[r].kind # "flow" /\ ghost.crossed
\* What a create is about to stop has an entry.
Known ==
  \A r \in Run, n \in Node : runs[r].kind = "flow" =>
    /\ runs[r].at \in Early /\ runs[r].seen[n] # None => record[n] \in EntryRec
    /\ n \in runs[r].outside => record[n] \in EntryRec
\* Only a subnet that can be split is pinned.
SplitInv ==
  /\ net = "pinned" => Layout(shop.prefix) # None
  /\ \A r \in Run : runs[r].at = "pin" => Layout(shop.prefix) # None
RunInv == (\A r \in Run : Sound(runs[r]) /\ Ordered(runs[r])) /\ Alone /\ Known

----------------------------------------------------------------------------
(* Locks, waits, agents and builders: RunsApart.                           *)

BoxInv == (\A n \in Node : box[n].status = "exited" <=> box[n].code # None) /\ (holder # None => Running(holder))
HandInv == \A r, s \in Run : r # s /\ runs[r].at \in InHand /\ runs[s].at \in InHand => Now(r) # Now(s)
WaitInv == \A r \in Run : runs[r].waited <= runs[r].clock /\ runs[r].clock <= RUN_LIMIT
AgentInv ==
  /\ \A r \in Run : runs[r].sock # None => runs[r].at \in Building /\ builder.env = runs[r].sock
  /\ \A r, s \in Run : runs[r].sock # None /\ runs[s].sock # None => r = s
KitInv ==
  /\ \A r \in Run : runs[r].at = "look" => builder.host # None
  /\ \A r \in Run : runs[r].at \in {"retire", "boot"} => runs[r].want # None
  /\ \A r \in builder.solving : runs[r].at = "solve" /\ builder.kit # None
  /\ ~ghost.mixed =>
       /\ \A r, s \in Run : runs[r].at \in {"retire", "boot"} /\ runs[s].at \in {"retire", "boot"} => r = s
       /\ \A r \in Run : runs[r].at = "boot" => runs[r].want = DEFAULT \/ builder.kit \in {runs[r].want, None}
       /\ \A r \in builder.solving : runs[r].want \in {builder.kit, DEFAULT}
ApartInv == BoxInv /\ HandInv /\ WaitInv /\ AgentInv /\ KitInv

----------------------------------------------------------------------------
(* The network: DnsReaches.                                                *)

\* What Docker would not remove a network under.
Unattached == net = "none" => ~Attached
\* A main run past the sidecar has its address.
Addressed == \A r \in Run : runs[r].kind \in Main /\ runs[r].at \notin Early \ {"plan"} => runs[r].dns # None
Reserved == net = "pinned" => holder = None /\ sidecar # SIDECAR + 1
\* Who runs, would be restarted or is to be started reaches the sidecar.
Reached ==
  net = "pinned" /\ ~ghost.raced =>
    /\ \A n \in Node : Running(n) => box[n].dns = SIDECAR
    /\ \A r \in Run : runs[r].kind \in Main => runs[r].dns # SIDECAR + 1
    /\ \A r \in Run : runs[r].at = "restart" => box[Now(r)].status = "none" \/ box[Now(r)].dns = SIDECAR
NetInv == Unattached /\ Addressed /\ Reserved /\ Reached

----------------------------------------------------------------------------
(* What stores hold: StoresReady.                                          *)

Tag(s) == IF HasVolume(s) THEN "volume" ELSE "container"
VolumeInv == \A n \in Node : HasVolume(n) /\ box[n].status # "none" => vol[n].there
\* A record is of data there was, and true of the data there is.
KeptInv ==
  \A n \in Node : kept[n] # None =>
    /\ kept[n] \in [shop.seeds[n] -> {"volume", "container"} \X Nat]
    /\ \A s \in shop.seeds[n] :
         /\ kept[n][s][1] = Tag(s) /\ kept[n][s][2] <= DataOf(s)
         /\ ~ghost.crossed /\ kept[n][s][2] = DataOf(s) /\ (HasVolume(s) => vol[s].there) => <<n, s>> \in filled
\* The last record is of the newest data there was one of.
ToldInv ==
  \A e \in ghost.told : e[2] \in shop.seeds[e[1]] /\ kept[e[1]] # None /\ e[3] <= kept[e[1]][e[2]][2]
\* A task that ended well did its work on the stores there are.
ExitInv ==
  \A r \in Run : ~ghost.crossed /\ (runs[r].at = "seeded" \/ (runs[r].at = "exit" /\ box[Now(r)].code = 0)) =>
    \A s \in Stores(Now(r)) : box[s].status # "none" => <<Now(r), s>> \in filled
\* On its way to a start, a seed's data is not on record.
Going == AtNode \ {"exit", "health", "seeded"}
SeedInv ==
  \A r \in Run, n \in Node : ~ghost.crossed /\ runs[r].at \in Going /\ Now(r) = n /\ ~Forced(runs[r], n) =>
    shop.seeds[n] = {} \/ ~already_seeded(n)
\* A running task is waited for, or its last start failed.
TaskInv ==
  ~ghost.crossed =>
    /\ \A m \in shop.tasks : Running(m) => m \in ghost.owed \/ \E r \in Run : runs[r].at = "exit" /\ Now(r) = m
    /\ \A r \in Run : runs[r].at = "restart" /\ Now(r) \in shop.tasks => Now(r) \in ghost.owed
\* After a failure the tasks that are left are owed.
OwedInv ==
  \A r \in Run : ~ghost.crossed /\ runs[r].failed # {} =>
    \A m \in Ahead(r) : m \in ghost.owed \/ (runs[r].at = "seeded" /\ Now(r) = m)
\* A migration has run over what its store holds, or the run that made the store
\* anew has it ahead.
Due(m, run) ==
  m \in run.todo /\ (shop.migrates[m] \in run.recreated \/ (run.now = shop.migrates[m] /\ run.at = "health"))
MigrateInv ==
  ~ghost.crossed =>
    \A m \in Node : shop.migrates[m] # None =>
      \/ m \in ghost.owed \/ <<m, shop.migrates[m]>> \in filled \/ box[shop.migrates[m]].status = "none"
      \/ \E r \in Run : Due(m, runs[r])
StoreInv ==
  /\ VolumeInv /\ KeptInv /\ ToldInv /\ ExitInv /\ SeedInv /\ TaskInv /\ OwedInv /\ MigrateInv
  /\ ~ghost.early /\ ~ghost.again

----------------------------------------------------------------------------
(* Connections: Reconnected.                                               *)

\* A mark is of the run that is on.
BusyInv ==
  ~ghost.crossed =>
    /\ \A n \in Node : record[n] # None /\ record[n].busy =>
         \E r \in Run : runs[r].kind \in Main /\ (n = runs[r].of \/ n \in runs[r].targets)
    /\ \A r \in Run, n \in Node : runs[r].kind = "start" /\ runs[r].seen[n] # None /\ runs[r].seen[n].busy => n = runs[r].of
StaleInv ==
  /\ \A p \in ghost.stale : p \in shop.requires /\ p[1] \notin shop.tasks /\ p[2] \notin shop.tasks
  /\ ~ghost.crossed =>
       \A r \in Run : runs[r].kind \in Main =>
         /\ runs[r].at \in Early => ghost.stale = {}
         /\ \A p \in ghost.stale :
              /\ runs[r].at = "health" => p[1] # Now(r)
              /\ runs[r].failed = {} /\ p[1] \in runs[r].targets /\ Running(p[1]) =>
                   p[1] \in runs[r].todo /\ (p[2] \in runs[r].bounced \/ (runs[r].at = "health" /\ p[2] = Now(r)))
LinkInv == BusyInv /\ StaleInv

----------------------------------------------------------------------------
(* What becomes of a run: every field but the ones named is kept.          *)

Field == DOMAIN Idle
Keeps(run, new, F) == \A f \in Field \ F : new[f] = run[f]
Others(r) == \A s \in Run \ {r} : runs'[s] = runs[s]
\* A step of r that leaves every field of it but those of F.
Turns(r, F) == runs' \in [Run -> RunRec] /\ Others(r) /\ Keeps(runs[r], runs'[r], F)

LEMMA IdleType == Idle \in RunRec
  BY DEF Idle, RunRec, Phase, Address

LEMMA PhaseType == InHand \subseteq Phase /\ AtNode \subseteq Phase /\ Early \subseteq Phase /\ {"over", "outside", "next", "idle"} \subseteq Phase
  BY DEF Phase, AtNode

LEMMA UpdateType ==
  ASSUME runs \in [Run -> RunRec], NEW r \in Run, NEW new \in RunRec, runs' = [runs EXCEPT ![r] = new]
  PROVE  runs' \in [Run -> RunRec] /\ Others(r) /\ runs'[r] = new
  BY DEF Others

LEMMA GoTurns ==
  ASSUME runs \in [Run -> RunRec], NEW r \in Run, NEW p \in Phase, Go(r, p)
  PROVE  Turns(r, {"at"}) /\ runs'[r].at = p
  <1>1. runs[r] \in RunRec OBVIOUS
  <1> DEFINE new == [runs[r] EXCEPT !.at = p]
  <1>2. new \in RunRec BY <1>1 DEF RunRec
  <1>3. runs' = [runs EXCEPT ![r] = new] BY DEF Go
  <1>4. Keeps(runs[r], new, {"at"}) /\ new.at = p BY <1>1 DEF Keeps, Field, Idle, RunRec
  <1> QED BY <1>2, <1>3, <1>4, UpdateType DEF Turns

LEMMA UnbuiltKeeps ==
  ASSUME NEW run \in RunRec
  PROVE  Unbuilt(run) \in RunRec /\ Keeps(run, Unbuilt(run), {"sock", "was", "want"}) /\ Unbuilt(run).sock = None /\ Unbuilt(run).want = None
  <1>1. Unbuilt(run) \in RunRec BY DEF Unbuilt, RunRec
  <1>2. Keeps(run, Unbuilt(run), {"sock", "was", "want"}) BY DEF Keeps, Field, Idle, Unbuilt, RunRec
  <1> QED BY <1>1, <1>2 DEF Unbuilt, RunRec

LEMMA OverKeeps ==
  ASSUME NEW run \in RunRec
  PROVE  /\ Over(run) \in RunRec /\ Keeps(run, Over(run), {"at", "now", "todo"})
         /\ Over(run).at = "next" /\ Over(run).now = None /\ Over(run).todo = run.todo \ {run.now}
  <1>1. Over(run) \in RunRec BY DEF Over, RunRec, Phase
  <1>2. Keeps(run, Over(run), {"at", "now", "todo"}) BY DEF Keeps, Field, Idle, Over, RunRec
  <1> QED BY <1>1, <1>2 DEF Over, RunRec

LEMMA FailedKeeps ==
  ASSUME NEW run \in RunRec, run.now \in Node
  PROVE  /\ Failed(run) \in RunRec /\ Keeps(run, Failed(run), {"at", "now", "todo", "failed"})
         /\ Failed(run).at = "next" /\ Failed(run).now = None /\ Failed(run).todo = run.todo \ {run.now}
         /\ Failed(run).failed = run.failed \cup {run.now}
  <1>1. Over(run) \in RunRec BY OverKeeps
  <1>2. Failed(run) \in RunRec BY <1>1 DEF Failed, RunRec
  <1>3. Over(run).failed = run.failed BY OverKeeps DEF Keeps, Field, Idle
  <1>4. Keeps(Over(run), Failed(run), {"failed"}) /\ Failed(run).failed = run.failed \cup {run.now}
    BY <1>1, <1>3 DEF Failed, RunRec, Keeps, Field, Idle
  <1>5. Keeps(run, Failed(run), {"at", "now", "todo", "failed"}) BY <1>4, OverKeeps DEF Keeps
  <1>6. Failed(run).at = "next" /\ Failed(run).now = None /\ Failed(run).todo = run.todo \ {run.now}
    BY <1>4, OverKeeps DEF Keeps, Field, Idle
  <1> QED BY <1>2, <1>4, <1>5, <1>6

LEMMA WaitsKeeps ==
  ASSUME NEW run \in RunRec, NEW d \in Nat
  PROVE  /\ Waits(run, d) \in RunRec /\ Keeps(run, Waits(run, d), {"clock", "waited"})
         /\ Waits(run, d).clock = run.clock + d /\ Waits(run, d).waited = run.waited + d
  <1>1. run.clock + d \in Nat /\ run.waited + d \in Nat BY DEF RunRec
  <1>2. Waits(run, d) \in RunRec BY <1>1 DEF Waits, RunRec
  <1>3. Keeps(run, Waits(run, d), {"clock", "waited"}) BY DEF Keeps, Field, Idle, Waits, RunRec
  <1>4. Waits(run, d).clock = run.clock + d /\ Waits(run, d).waited = run.waited + d BY DEF Waits, RunRec
  <1> QED BY <1>2, <1>3, <1>4

LEMMA RecreatedKeeps ==
  ASSUME NEW run \in RunRec, NEW n \in Node
  PROVE  /\ Recreated(run, n) \in RunRec /\ Keeps(run, Recreated(run, n), {"recreated", "bounced"})
         /\ Recreated(run, n).bounced = run.bounced \cup {n}
         /\ Recreated(run, n).recreated = IF run.at = "health" THEN run.recreated \cup {n} ELSE run.recreated
  <1>1. Recreated(run, n) \in RunRec BY ZenonT(60) DEF Recreated, RunRec
  <1>2. Keeps(run, Recreated(run, n), {"recreated", "bounced"}) BY DEF Keeps, Field, Idle, Recreated, RunRec
  <1> QED BY <1>1, <1>2 DEF Recreated, RunRec

LEMMA SeenKeeps ==
  ASSUME NEW run \in RunRec, NEW n \in Node, run.seen \in Records, NEW e \in EntryRec \cup {None}
  PROVE  /\ [run EXCEPT !.seen[n] = e] \in RunRec /\ Keeps(run, [run EXCEPT !.seen[n] = e], {"seen"})
         /\ [run EXCEPT !.seen[n] = e].seen = [run.seen EXCEPT ![n] = e]
  <1>1. [run EXCEPT !.seen[n] = e] \in RunRec BY DEF RunRec, Records
  <1>2. Keeps(run, [run EXCEPT !.seen[n] = e], {"seen"}) BY DEF Keeps, Field, Idle, RunRec
  <1> QED BY <1>1, <1>2 DEF RunRec

LEMMA NodeFailsTurns ==
  ASSUME runs \in [Run -> RunRec], NEW r \in Run, Now(r) \in Node, NodeFails(r)
  PROVE  /\ Turns(r, {"at", "now", "todo", "failed", "sock", "was", "want"})
         /\ runs'[r].at = "next" /\ runs'[r].now = None /\ runs'[r].todo = runs[r].todo \ {Now(r)}
         /\ runs'[r].failed = runs[r].failed \cup {Now(r)} /\ runs'[r].sock = None /\ runs'[r].want = None
  <1>1. runs[r] \in RunRec OBVIOUS
  <1> DEFINE un == Unbuilt(runs[r])
  <1>2. un \in RunRec /\ Keeps(runs[r], un, {"sock", "was", "want"}) /\ un.sock = None /\ un.want = None BY <1>1, UnbuiltKeeps
  <1>3. un.now = Now(r) /\ un.todo = runs[r].todo /\ un.failed = runs[r].failed BY <1>2 DEF Keeps, Field, Idle, Now
  <1> HIDE DEF un
  <1>4. /\ Failed(un) \in RunRec /\ Keeps(un, Failed(un), {"at", "now", "todo", "failed"})
        /\ Failed(un).at = "next" /\ Failed(un).now = None /\ Failed(un).todo = un.todo \ {un.now}
        /\ Failed(un).failed = un.failed \cup {un.now}
    BY <1>2, <1>3, FailedKeeps
  <1>5. runs' = [runs EXCEPT ![r] = Failed(un)] BY DEF NodeFails, un
  <1>6. runs' \in [Run -> RunRec] /\ Others(r) /\ runs'[r] = Failed(un) BY <1>4, <1>5, UpdateType
  <1>7. Keeps(runs[r], Failed(un), {"at", "now", "todo", "failed", "sock", "was", "want"}) BY <1>2, <1>4 DEF Keeps
  <1>8. Failed(un).sock = None /\ Failed(un).want = None BY <1>2, <1>4 DEF Keeps, Field, Idle
  <1> QED BY <1>3, <1>4, <1>6, <1>7, <1>8 DEF Turns

LEMMA NodeDoneTurns ==
  ASSUME runs \in [Run -> RunRec], NEW r \in Run, Now(r) \in Node, runs[r].seen \in Records,
         NEW entry \in EntryRec, NEW extra \in RunRec, Keeps(runs[r], extra, {"clock", "waited", "recreated", "bounced"}),
         NodeDone(r, entry, extra)
  PROVE  /\ Turns(r, {"at", "now", "todo", "seen", "clock", "waited", "recreated", "bounced"})
         /\ runs'[r].at = "next" /\ runs'[r].now = None /\ runs'[r].todo = runs[r].todo \ {Now(r)}
         /\ runs'[r].seen = [runs[r].seen EXCEPT ![Now(r)] = entry]
         /\ runs'[r].clock = extra.clock /\ runs'[r].waited = extra.waited
         /\ runs'[r].recreated = extra.recreated /\ runs'[r].bounced = extra.bounced
  <1>1. runs[r] \in RunRec OBVIOUS
  <1>2. extra.now = Now(r) /\ extra.todo = runs[r].todo /\ extra.seen = runs[r].seen BY DEF Keeps, Field, Idle, Now
  <1> DEFINE told == [extra EXCEPT !.seen[Now(r)] = entry]
  <1>3. told \in RunRec /\ Keeps(extra, told, {"seen"}) /\ told.seen = [runs[r].seen EXCEPT ![Now(r)] = entry] BY <1>2, SeenKeeps
  <1>4. runs' = [runs EXCEPT ![r] = Over(told)] BY DEF NodeDone
  <1> HIDE DEF told
  <1>5. told.now = Now(r) /\ told.todo = runs[r].todo BY <1>2, <1>3 DEF Keeps, Field, Idle
  <1>6. /\ Over(told) \in RunRec /\ Keeps(told, Over(told), {"at", "now", "todo"})
        /\ Over(told).at = "next" /\ Over(told).now = None /\ Over(told).todo = told.todo \ {told.now}
    BY <1>3, OverKeeps
  <1>7. runs' \in [Run -> RunRec] /\ Others(r) /\ runs'[r] = Over(told) BY <1>4, <1>6, UpdateType
  <1>8. Keeps(runs[r], Over(told), {"at", "now", "todo", "seen", "clock", "waited", "recreated", "bounced"})
    BY <1>3, <1>6 DEF Keeps
  <1>9. /\ Over(told).seen = told.seen /\ Over(told).clock = extra.clock /\ Over(told).waited = extra.waited
        /\ Over(told).recreated = extra.recreated /\ Over(told).bounced = extra.bounced
    BY <1>3, <1>6 DEF Keeps, Field, Idle
  <1> QED BY <1>3, <1>5, <1>6, <1>7, <1>8, <1>9 DEF Turns

LEMMA EndsTurns ==
  ASSUME runs \in [Run -> RunRec], NEW r \in Run, Ends(r)
  PROVE  runs' \in [Run -> RunRec] /\ Others(r) /\ runs'[r] = Idle
  BY IdleType, UpdateType DEF Ends

(* Entries.                                                                *)

LEMMA EntryType == \A n \in Node : Entry(n) \in EntryRec
  BY DEF Entry, EntryRec
LEMMA StartedType ==
  ASSUME Typed, NEW n \in Node
  PROVE  Started(n) \in EntryRec
  BY DEF Typed, EngineTypes, Started, EntryRec
LEMMA UnmarkType ==
  ASSUME Typed, NEW r \in Run
  PROVE  Unmark(r, record) \in Records
  BY ZenonT(60) DEF Typed, RunTypes, Unmark, Records, EntryRec
LEMMA MarkedType ==
  ASSUME Typed, NEW n \in Node, Marked(n)
  PROVE  /\ record' \in Records /\ (\A k \in Node \ {n} : record'[k] = record[k])
         /\ record'[n] \in EntryRec
  <1>1. [record[n] EXCEPT !.busy = TRUE] \in EntryRec \/ record[n] = None BY DEF Typed, RunTypes, Records, EntryRec
  <1> QED BY <1>1, EntryType DEF Typed, RunTypes, Marked, Records
LEMMA ClearedType ==
  ASSUME Typed, NEW n \in Node, Cleared(n)
  PROVE  /\ record' \in Records /\ (\A k \in Node \ {n} : record'[k] = record[k])
         /\ record'[n] \in EntryRec => ~record'[n].busy \/ record'[n] = None
  <1>1. record[n] # None => [record[n] EXCEPT !.busy = FALSE] \in EntryRec /\ ~[record[n] EXCEPT !.busy = FALSE].busy
    BY DEF Typed, RunTypes, Records, EntryRec
  <1> QED BY <1>1 DEF Typed, RunTypes, Cleared, Records

----------------------------------------------------------------------------
(* What each action does to its run.                                       *)

\* Facts a step of one run starts from.
Ready == Typed /\ RunInv /\ SplitInv /\ WaitInv

LEMMA ReadyRun ==
  ASSUME Ready, NEW r \in Run
  PROVE  /\ runs \in [Run -> RunRec] /\ runs[r] \in RunRec /\ Sound(runs[r]) /\ Ordered(runs[r])
         /\ runs[r].at \in AtNode => Now(r) \in Node /\ Now(r) \in runs[r].todo /\ runs[r].kind \in Main /\ runs[r].seen \in Records
         /\ runs[r].at \in {"outside", "next"} => runs[r].kind \in Main
  <1>1. runs \in [Run -> RunRec] /\ runs[r] \in RunRec /\ Sound(runs[r]) /\ Ordered(runs[r])
    BY DEF Ready, Typed, RunTypes, RunInv
  <1>2. runs[r].todo \subseteq Node /\ runs[r].kind \in {"idle", "restore"} \cup Main BY <1>1 DEF RunRec
  <1>3. runs[r].kind = "idle" => runs[r].at = "idle" BY <1>1 DEF Sound, Idle
  <1> QED BY <1>1, <1>2, <1>3 DEF Sound, Now, AtNode, InHand, Main

LEMMA BeginRuns ==
  ASSUME Ready, NEW r \in Run, Begin(r)
  PROVE  /\ record' \in Records /\ runs' \in [Run -> RunRec] /\ Others(r) /\ runs[r] = Idle
         /\ runs'[r].at = "network" /\ runs'[r].seen = record'
         /\ Keeps(Idle, runs'[r], {"kind", "of", "at", "seen"})
         /\ \/ /\ runs'[r].kind = "flow" /\ runs'[r].of \in shop.flows /\ record' = record
               /\ \A s \in Run : runs[s].kind \notin Main
            \/ /\ runs'[r].kind \in {"node", "start"} /\ runs'[r].of \in Node /\ runs'[r].of \in shop.startable
               /\ \A s \in Run : runs[s].kind \notin {"flow", "node"}
               /\ \A k \in Node \ {runs'[r].of} : record'[k] = record[k]
  <1>0. runs[r] = Idle
    <2>1. runs[r].kind = "idle" BY DEF Begin, Fresh, Active
    <2> QED BY <2>1, ReadyRun DEF Sound
  <1>r. record \in Records /\ runs \in [Run -> RunRec] /\ shop \in Workspace BY DEF Ready, Typed, RunTypes, EngineTypes
  <1>1. CASE \E flow \in shop.flows :
               /\ ~\E s \in Run : Creating(s) \/ Starting(s)
               /\ runs' = [runs EXCEPT ![r] = [Idle EXCEPT !.kind = "flow", !.of = flow, !.at = "network", !.seen = record]]
               /\ UNCHANGED record
    <2>1. PICK flow \in shop.flows :
               /\ ~\E s \in Run : Creating(s) \/ Starting(s)
               /\ runs' = [runs EXCEPT ![r] = [Idle EXCEPT !.kind = "flow", !.of = flow, !.at = "network", !.seen = record]]
               /\ UNCHANGED record
      BY <1>1
    <2> DEFINE new == [Idle EXCEPT !.kind = "flow", !.of = flow, !.at = "network", !.seen = record]
    <2>2. flow \in SUBSET Node BY <1>r DEF Workspace
    <2>3. new \in RunRec BY <1>r, <2>2, IdleType, PhaseType, ZenonT(60) DEF Idle, RunRec, Main, Early, Phase
    <2>4. /\ new.kind = "flow" /\ new.of = flow /\ new.at = "network" /\ new.seen = record
          /\ Keeps(Idle, new, {"kind", "of", "at", "seen"})
      BY DEF Idle, Keeps, Field
    <2>5. runs' = [runs EXCEPT ![r] = new] BY <2>1
    <2> HIDE DEF new
    <2>6. runs' \in [Run -> RunRec] /\ Others(r) /\ runs'[r] = new BY <1>r, <2>3, <2>5, UpdateType
    <2>7. \A s \in Run : runs[s].kind \notin Main BY <2>1 DEF Creating, Starting, Main
    <2> QED BY <1>0, <1>r, <2>1, <2>4, <2>6, <2>7
  <1>2. CASE \E n \in shop.startable :
               /\ ~\E s \in Run : Creating(s)
               /\ record[n] # None => ~record[n].busy
               /\ IF Empty THEN UNCHANGED record
                  ELSE record' = [record EXCEPT ![n] = IF @ = None THEN Entry(n) ELSE [@ EXCEPT !.busy = TRUE]]
               /\ runs' = [runs EXCEPT ![r] = [Idle EXCEPT !.kind = IF Empty THEN "node" ELSE "start", !.of = n,
                                                           !.at = "network", !.seen = record']]
    <2>1. PICK n \in shop.startable :
               /\ ~\E s \in Run : Creating(s)
               /\ IF Empty THEN UNCHANGED record
                  ELSE record' = [record EXCEPT ![n] = IF @ = None THEN Entry(n) ELSE [@ EXCEPT !.busy = TRUE]]
               /\ runs' = [runs EXCEPT ![r] = [Idle EXCEPT !.kind = IF Empty THEN "node" ELSE "start", !.of = n,
                                                           !.at = "network", !.seen = record']]
      BY <1>2
    <2>2. n \in Node BY <1>r DEF Workspace
    <2>3. record' \in Records /\ \A k \in Node \ {n} : record'[k] = record[k]
      <3>1. CASE Empty BY <2>1, <3>1, <1>r
      <3>2. CASE ~Empty BY <2>1, <2>2, <3>2, MarkedType DEF Marked, Ready
      <3> QED BY <3>1, <3>2
    <2> DEFINE kind == IF Empty THEN "node" ELSE "start"
    <2> DEFINE new == [Idle EXCEPT !.kind = kind, !.of = n, !.at = "network", !.seen = record']
    <2>k. kind \in {"node", "start"} OBVIOUS
    <2>5. runs' = [runs EXCEPT ![r] = new] BY <2>1
    <2> HIDE DEF kind
    <2>4. new \in RunRec BY <2>k, <2>2, <2>3, IdleType, PhaseType, ZenonT(60) DEF Idle, RunRec, Main, Early, Phase
    <2>6. /\ new.kind = kind /\ new.of = n /\ new.at = "network" /\ new.seen = record'
          /\ Keeps(Idle, new, {"kind", "of", "at", "seen"})
      BY DEF Idle, Keeps, Field
    <2> HIDE DEF new
    <2>7. runs' \in [Run -> RunRec] /\ Others(r) /\ runs'[r] = new BY <1>r, <2>4, <2>5, UpdateType
    <2>8. \A s \in Run : runs[s].kind \notin {"flow", "node"} BY <2>1 DEF Creating
    <2> QED BY <1>0, <2>2, <2>3, <2>k, <2>6, <2>7, <2>8
  <1> QED BY <1>1, <1>2 DEF Begin

LEMMA EnsureNetworkRuns ==
  ASSUME Ready, NEW r \in Run, EnsureNetwork(r)
  PROVE  Turns(r, {"at"}) /\ runs'[r].at \in {"readback", "sidecar"}
  BY ReadyRun, GoTurns, PhaseType DEF EnsureNetwork, Early, Phase

LEMMA ReadBackRuns ==
  ASSUME Ready, NEW r \in Run, ReadBack(r)
  PROVE  \/ Ends(r) /\ net' = net /\ UNCHANGED <<ghost, builder>>
         \/ /\ Turns(r, {"at"}) /\ UNCHANGED <<record, ghost, builder>>
            /\ \/ runs'[r].at = "sidecar" /\ net' = net
               \/ runs'[r].at = "pin" /\ Layout(shop.prefix) # None /\ net' = IF Attached THEN net ELSE "none"
  <1>1. "sidecar" \in Phase /\ "pin" \in Phase BY DEF Early, Phase
  <1>2. CASE net = "none" /\ Fails(r) /\ UNCHANGED net BY <1>2 DEF Fails
  <1>3. CASE Layout(shop.prefix) = None /\ Go(r, "sidecar") /\ UNCHANGED net /\ UNCHANGED <<record, kept, builder, ghost>>
    BY <1>1, <1>3, ReadyRun, GoTurns
  <1>4. CASE /\ Layout(shop.prefix) # None /\ Go(r, "pin") /\ UNCHANGED <<record, kept, builder, ghost>>
             /\ net' = IF Attached THEN net ELSE "none"
    BY <1>1, <1>4, ReadyRun, GoTurns
  <1> QED BY <1>2, <1>3, <1>4 DEF ReadBack

LEMMA PinNetworkRuns ==
  ASSUME Ready, NEW r \in Run, PinNetwork(r)
  PROVE  Turns(r, {"at"}) /\ runs'[r].at = "sidecar"
  BY ReadyRun, GoTurns DEF PinNetwork, Early, Phase

LEMMA SidecarThereRuns ==
  ASSUME Ready, NEW r \in Run, SidecarThere(r)
  PROVE  /\ Turns(r, {"at", "dns"}) /\ runs'[r].dns = sidecar
         /\ runs'[r].at = IF sidecar # None THEN After(r) ELSE "replace"
  <1> DEFINE p == IF sidecar # None THEN After(r) ELSE "replace"
  <1>1. runs[r] \in RunRec /\ runs \in [Run -> RunRec] BY ReadyRun
  <1>2. p \in Phase /\ sidecar \in Address BY DEF After, Phase, Early, Ready, Typed, EngineTypes
  <1>3. runs' = [runs EXCEPT ![r] = [runs[r] EXCEPT !.at = p, !.dns = sidecar]] BY <1>1 DEF SidecarThere, RunRec
  <1> HIDE DEF p
  <1> DEFINE new == [runs[r] EXCEPT !.at = p, !.dns = sidecar]
  <1>4. new \in RunRec BY <1>1, <1>2 DEF RunRec
  <1>5. Keeps(runs[r], new, {"at", "dns"}) /\ new.at = p /\ new.dns = sidecar BY <1>1 DEF Keeps, Field, Idle, RunRec
  <1> HIDE DEF new
  <1>6. runs' \in [Run -> RunRec] /\ Others(r) /\ runs'[r] = new BY <1>1, <1>3, <1>4, UpdateType DEF new
  <1> QED BY <1>5, <1>6 DEF Turns, p

LEMMA ReplaceSidecarRuns ==
  ASSUME Ready, NEW r \in Run, ReplaceSidecar(r)
  PROVE  \/ Ends(r) /\ sidecar' = sidecar
         \/ /\ Turns(r, {"at", "dns"}) /\ ~Taken /\ runs'[r].at = After(r) /\ runs'[r].dns = sidecar' /\ UNCHANGED record
            /\ sidecar' \in IF sidecar_address = None THEN Handed ELSE {sidecar_address}
            /\ sidecar' \in Address
  <1>1. CASE Ends(r) /\ UNCHANGED sidecar BY <1>1
  <1>2. CASE /\ ~Taken /\ UNCHANGED record
             /\ \E a \in IF sidecar_address = None THEN Handed ELSE {sidecar_address} :
                  sidecar' = a /\ runs' = [runs EXCEPT ![r].at = After(r), ![r].dns = a]
    <2>1. PICK a \in IF sidecar_address = None THEN Handed ELSE {sidecar_address} :
                  sidecar' = a /\ runs' = [runs EXCEPT ![r].at = After(r), ![r].dns = a]
      BY <1>2
    <2>2. runs[r] \in RunRec /\ runs \in [Run -> RunRec] BY ReadyRun
    <2>3. After(r) \in Phase BY DEF After, Phase, Early
    <2>4. a \in Address
      <3>1. CASE sidecar_address = None BY <3>1 DEF Handed, Address
      <3>2. CASE sidecar_address # None BY <3>2 DEF sidecar_address, Layout, Address, Ready, SplitInv
      <3> QED BY <3>1, <3>2
    <2> DEFINE new == [runs[r] EXCEPT !.at = After(r), !.dns = a]
    <2>5. runs' = [runs EXCEPT ![r] = new] BY <2>1, <2>2 DEF RunRec
    <2>6. new \in RunRec BY <2>2, <2>3, <2>4 DEF RunRec
    <2>7. Keeps(runs[r], new, {"at", "dns"}) /\ new.at = After(r) /\ new.dns = a BY <2>2 DEF Keeps, Field, Idle, RunRec
    <2> HIDE DEF new
    <2>8. runs' \in [Run -> RunRec] /\ Others(r) /\ runs'[r] = new BY <2>2, <2>5, <2>6, UpdateType
    <2> QED BY <1>2, <2>1, <2>4, <2>7, <2>8 DEF Turns
  <1> QED BY <1>1, <1>2 DEF ReplaceSidecar, Fails

LEMMA RestoreSidecarRuns ==
  ASSUME Ready, NEW r \in Run, RestoreSidecar(r)
  PROVE  /\ runs' \in [Run -> RunRec] /\ Others(r) /\ runs[r] = Idle
         /\ runs'[r].kind = "restore" /\ runs'[r].at = "sidecar" /\ Keeps(Idle, runs'[r], {"kind", "at"})
  <1>0. runs[r] = Idle
    <2>1. runs[r].kind = "idle" BY DEF RestoreSidecar, Fresh, Active
    <2> QED BY <2>1, ReadyRun DEF Sound
  <1> DEFINE new == [Idle EXCEPT !.kind = "restore", !.at = "sidecar"]
  <1>1. new \in RunRec BY IdleType DEF Idle, RunRec, Phase, Early
  <1>2. new.kind = "restore" /\ new.at = "sidecar" /\ Keeps(Idle, new, {"kind", "at"}) BY DEF Idle, Keeps, Field
  <1>3. runs' = [runs EXCEPT ![r] = new] BY DEF RestoreSidecar
  <1> HIDE DEF new
  <1>4. runs' \in [Run -> RunRec] /\ Others(r) /\ runs'[r] = new BY <1>1, <1>3, ReadyRun, UpdateType
  <1> QED BY <1>0, <1>2, <1>4

\* What a run is for holds the migration of every store in it.
LEMMA TargetsType ==
  ASSUME Ready, NEW r \in Run, runs[r].kind \in Main
  PROVE  /\ Targets(runs[r]) \subseteq Node
         /\ \A n \in Node : shop.migrates[n] \in Targets(runs[r]) => n \in Targets(runs[r])
  <1>0. shop \in Workspace /\ Resolved(shop) BY DEF Ready, Typed, EngineTypes
  <1>1. \A S : with_migrations(S) \subseteq Node BY DEF with_migrations
  <1>2. \A S : \A n \in Node : shop.migrates[n] \in with_migrations(S) => n \in with_migrations(S)
    <2> SUFFICES ASSUME NEW S, NEW n \in Node, shop.migrates[n] \in with_migrations(S)
                 PROVE  n \in with_migrations(S)
      OBVIOUS
    <2>1. shop.migrates[n] \in Node BY <1>1
    <2>2. n \in shop.tasks BY <1>0, <2>1, NoneAssumption DEF Resolved
    <2> SUFFICES ASSUME NEW T \in SUBSET Node, S \subseteq T,
                        \A m \in shop.tasks : shop.migrates[m] \in T => {m} \cup requirements_of(m) \subseteq T
                 PROVE  n \in T
      BY DEF with_migrations
    <2>3. shop.migrates[n] \in T BY DEF with_migrations
    <2> QED BY <2>2, <2>3
  <1>3. CASE runs[r].kind = "flow"
    <2>1. Targets(runs[r]) = runs[r].of /\ runs[r].of \in shop.flows BY <1>3, ReadyRun DEF Targets, Sound
    <2> QED BY <1>0, <2>1 DEF Workspace, Resolved
  <1>4. CASE runs[r].kind = "node"
    BY <1>1, <1>2, <1>4 DEF Targets
  <1>5. CASE runs[r].kind = "start"
    BY <1>1, <1>2, <1>5 DEF Targets
  <1> QED BY <1>3, <1>4, <1>5 DEF Main

LEMMA PlanRuns ==
  ASSUME Ready, NEW r \in Run, Plan(r)
  PROVE  /\ Turns(r, {"at", "targets", "todo", "outside"}) /\ runs'[r].at = "outside"
         /\ runs'[r].targets = Targets(runs[r]) /\ runs'[r].todo = Targets(runs[r])
         /\ runs'[r].outside = (IF runs[r].kind = "flow" THEN stop_order(runs[r]) ELSE {})
         /\ runs[r].kind \in Main /\ UNCHANGED <<record, ghost>>
  <1>1. runs[r] \in RunRec /\ runs \in [Run -> RunRec] /\ runs[r].at = "plan" /\ Sound(runs[r]) BY ReadyRun DEF Plan, At
  <1>2. runs[r].kind \in Main BY <1>1 DEF Sound, Idle, RunRec
  <1> DEFINE T == Targets(runs[r])
  <1> DEFINE O == IF runs[r].kind = "flow" THEN stop_order(runs[r]) ELSE {}
  <1>3. T \subseteq Node /\ O \subseteq Node BY <1>2, TargetsType DEF stop_order
  <1>4. "outside" \in Phase BY PhaseType
  <1> DEFINE new == [runs[r] EXCEPT !.targets = T, !.todo = T, !.at = "outside", !.outside = O]
  <1>5. runs' = [runs EXCEPT ![r] = new] BY <1>1 DEF Plan, RunRec
  <1> HIDE DEF T, O
  <1>6. new \in RunRec BY <1>1, <1>3, <1>4 DEF RunRec
  <1>7. /\ Keeps(runs[r], new, {"at", "targets", "todo", "outside"})
        /\ new.at = "outside" /\ new.targets = T /\ new.todo = T /\ new.outside = O
    BY <1>1 DEF Keeps, Field, Idle, RunRec
  <1> HIDE DEF new
  <1>8. runs' \in [Run -> RunRec] /\ Others(r) /\ runs'[r] = new BY <1>1, <1>5, <1>6, UpdateType
  <1> QED BY <1>2, <1>7, <1>8 DEF Turns, T, O, Plan

LEMMA StopContainerBox ==
  ASSUME Typed, NEW n \in Node, stop_container(n)
  PROVE  /\ box' \in [Node -> Box] /\ (\A k \in Node \ {n} : box'[k] = box[k])
         /\ box'[n].id = box[n].id /\ box'[n].dns = box[n].dns /\ box'[n].status # "running"
         /\ box'[n].status = "none" <=> box[n].status = "none"
         /\ Running(n) => box'[n].status = "exited" /\ box'[n].code = 1
         /\ ~Running(n) => box'[n] = box[n]
         /\ holder' = (IF holder = n THEN None ELSE holder)
  <1>1. CASE Running(n)
    <2>1. [box[n] EXCEPT !.status = "exited", !.code = 1] \in Box BY DEF Typed, EngineTypes, Box
    <2>2. box' = [box EXCEPT ![n] = [box[n] EXCEPT !.status = "exited", !.code = 1]]
      BY <1>1 DEF stop_container, Typed, EngineTypes, Box
    <2> QED BY <1>1, <2>1, <2>2 DEF Typed, EngineTypes, Box, stop_container, Released, Running
  <1>2. CASE ~Running(n) BY <1>2 DEF Typed, EngineTypes, stop_container, Released, Running
  <1> QED BY <1>1, <1>2

LEMMA StopOutsideRuns ==
  ASSUME Ready, NEW r \in Run, StopOutside(r)
  PROVE  \/ /\ Turns(r, {"at"}) /\ runs'[r].at = "next" /\ runs[r].outside = {}
            /\ UNCHANGED <<box, holder, record>>
         \/ \E n \in runs[r].outside :
              /\ Turns(r, {"outside", "seen"}) /\ runs'[r].outside = runs[r].outside \ {n}
              /\ runs'[r].seen = [runs[r].seen EXCEPT ![n] = record'[n]]
              /\ stop_container(n) /\ record' \in Records /\ record'[n] \in EntryRec
              /\ \A k \in Node \ {n} : record'[k] = record[k]
              /\ record'[n].busy = record[n].busy /\ record[n] \in EntryRec /\ n \in Node
  <1>1. /\ runs[r] \in RunRec /\ runs \in [Run -> RunRec] /\ runs[r].at = "outside" /\ Sound(runs[r])
        /\ runs[r].kind \in Main /\ runs[r].seen \in Records
    BY ReadyRun DEF StopOutside, At, Sound
  <1>2. CASE runs[r].outside = {}
    <2>1. Go(r, "next") /\ UNCHANGED <<box, holder, record>> BY <1>2 DEF StopOutside
    <2> QED BY <1>2, <2>1, <1>1, GoTurns, PhaseType
  <1>3. CASE runs[r].outside # {}
    <2>1. PICK n \in Last(runs[r].outside) :
            /\ ~Locked(n) /\ stop_container(n)
            /\ record' = [record EXCEPT ![n].status = box'[n].status]
            /\ runs' = [runs EXCEPT ![r] = [runs[r] EXCEPT !.outside = @ \ {n}, !.seen[n] = record'[n]]]
      BY <1>3 DEF StopOutside
    <2>2. n \in runs[r].outside /\ n \in Node BY <2>1, <1>1 DEF Last, RunRec
    <2>3. record[n] \in EntryRec /\ record \in Records
      BY <1>1, <1>3, <2>2 DEF Ready, RunInv, Known, Sound, Typed, RunTypes
    <2>4. box'[n].status \in {"none", "running", "exited"}
      <3>1. box' \in [Node -> Box] BY <2>1, <2>2, StopContainerBox DEF Ready
      <3> QED BY <2>2, <3>1 DEF Box
    <2> DEFINE e == [record[n] EXCEPT !.status = box'[n].status]
    <2>5. e \in EntryRec /\ e.busy = record[n].busy BY <2>3, <2>4 DEF EntryRec
    <2>6. record' = [record EXCEPT ![n] = e] BY <2>1, <2>2, <2>3 DEF Records, EntryRec
    <2> HIDE DEF e
    <2>7. record' \in Records /\ record'[n] = e /\ \A k \in Node \ {n} : record'[k] = record[k]
      BY <2>2, <2>3, <2>5, <2>6 DEF Records
    <2>8. runs[r].outside \ {n} \in SUBSET Node BY <1>1 DEF RunRec
    <2> DEFINE new == [runs[r] EXCEPT !.outside = @ \ {n}, !.seen[n] = e]
    <2>9. runs' = [runs EXCEPT ![r] = new] BY <2>1, <2>7
    <2>10. new \in RunRec BY <1>1, <2>2, <2>5, <2>8 DEF RunRec, Records
    <2>12. /\ Keeps(runs[r], new, {"outside", "seen"}) /\ new.outside = runs[r].outside \ {n}
           /\ new.seen = [runs[r].seen EXCEPT ![n] = e]
      BY <1>1 DEF Keeps, Field, Idle, RunRec
    <2> HIDE DEF new
    <2>13. runs' \in [Run -> RunRec] /\ Others(r) /\ runs'[r] = new BY <1>1, <2>9, <2>10, UpdateType
    <2> QED BY <2>1, <2>2, <2>3, <2>5, <2>7, <2>12, <2>13 DEF Turns
  <1> QED BY <1>2, <1>3

LEMMA ChoiceType == \A run, n : Choice(run, n) \in {"skip", "block", "restart", "start"}
  BY DEF Choice

LEMMA NextNodeRuns ==
  ASSUME Ready, NEW r \in Run, NextNode(r)
  PROVE  \E n \in First(runs[r].todo) :
           /\ n \in Node /\ runs[r].at = "next"
           /\ \/ /\ Choice(runs[r], n) = "skip" /\ Turns(r, {"todo"}) /\ runs'[r].todo = runs[r].todo \ {n} /\ UNCHANGED record
              \/ /\ Choice(runs[r], n) = "block" /\ Turns(r, {"todo", "blocked"}) /\ runs'[r].todo = runs[r].todo \ {n}
                 /\ runs'[r].blocked = runs[r].blocked \cup {n} /\ UNCHANGED record
              \/ /\ Choice(runs[r], n) \in {"start", "restart"} /\ Turns(r, {"at", "now"}) /\ runs'[r].at = Choice(runs[r], n)
                 /\ runs'[r].now = n /\ Marked(n)
  <1>1. PICK n \in First(runs[r].todo) :
          LET choice == Choice(runs[r], n)
          IN  CASE choice = "skip"  -> runs' = [runs EXCEPT ![r].todo = @ \ {n}] /\ UNCHANGED record
                [] choice = "block" -> runs' = [runs EXCEPT ![r].todo = @ \ {n}, ![r].blocked = @ \cup {n}] /\ UNCHANGED record
                [] OTHER            -> runs' = [runs EXCEPT ![r].at = choice, ![r].now = n] /\ Marked(n)
    BY DEF NextNode
  <1>2. runs[r] \in RunRec /\ runs \in [Run -> RunRec] /\ runs[r].at = "next" BY ReadyRun DEF NextNode, At
  <1>3. n \in Node BY <1>1, <1>2 DEF First, RunRec
  <1>4. CASE Choice(runs[r], n) = "skip"
    <2> DEFINE new == [runs[r] EXCEPT !.todo = @ \ {n}]
    <2>1. runs' = [runs EXCEPT ![r] = new] /\ UNCHANGED record BY <1>1, <1>4
    <2>2. new \in RunRec BY <1>2 DEF RunRec
    <2>3. Keeps(runs[r], new, {"todo"}) /\ new.todo = runs[r].todo \ {n} BY <1>2 DEF Keeps, Field, Idle, RunRec
    <2> HIDE DEF new
    <2>4. runs' \in [Run -> RunRec] /\ Others(r) /\ runs'[r] = new BY <1>2, <2>1, <2>2, UpdateType
    <2> QED BY <1>2, <1>3, <1>4, <2>1, <2>3, <2>4 DEF Turns
  <1>5. CASE Choice(runs[r], n) = "block"
    <2> DEFINE new == [runs[r] EXCEPT !.todo = @ \ {n}, !.blocked = @ \cup {n}]
    <2>1. runs' = [runs EXCEPT ![r] = new] /\ UNCHANGED record BY <1>1, <1>2, <1>5 DEF RunRec
    <2>2. new \in RunRec BY <1>2, <1>3 DEF RunRec
    <2>3. Keeps(runs[r], new, {"todo", "blocked"}) /\ new.todo = runs[r].todo \ {n} /\ new.blocked = runs[r].blocked \cup {n}
      BY <1>2 DEF Keeps, Field, Idle, RunRec
    <2> HIDE DEF new
    <2>4. runs' \in [Run -> RunRec] /\ Others(r) /\ runs'[r] = new BY <1>2, <2>1, <2>2, UpdateType
    <2> QED BY <1>2, <1>3, <1>5, <2>1, <2>3, <2>4 DEF Turns
  <1>6. CASE Choice(runs[r], n) \in {"start", "restart"}
    <2> DEFINE c == Choice(runs[r], n)
    <2> DEFINE new == [runs[r] EXCEPT !.at = c, !.now = n]
    <2>1. runs' = [runs EXCEPT ![r] = new] /\ Marked(n) BY <1>1, <1>2, <1>6 DEF RunRec
    <2>5. c \in Phase /\ c \in {"start", "restart"} BY <1>6 DEF Phase, AtNode
    <2> HIDE DEF c
    <2>2. new \in RunRec BY <1>2, <1>3, <2>5 DEF RunRec
    <2>3. Keeps(runs[r], new, {"at", "now"}) /\ new.at = c /\ new.now = n BY <1>2 DEF Keeps, Field, Idle, RunRec
    <2> HIDE DEF new
    <2>4. runs' \in [Run -> RunRec] /\ Others(r) /\ runs'[r] = new BY <1>2, <2>1, <2>2, UpdateType
    <2> QED BY <1>2, <1>3, <2>1, <2>3, <2>4, <2>5 DEF Turns, c
  <1> QED BY <1>4, <1>5, <1>6, ChoiceType

LEMMA TakeNodeRuns ==
  ASSUME Ready, NEW r \in Run, TakeNode(r)
  PROVE  Turns(r, {"at"}) /\ runs'[r].at \in {"build", "make"} /\ runs[r].at = "start" /\ ~Locked(Now(r))
  BY ReadyRun, GoTurns, PhaseType DEF TakeNode, InHand, At

LEMMA BuildBeginsRuns ==
  ASSUME Ready, NEW r \in Run, BuildBegins(r)
  PROVE  /\ runs[r].at = "build" /\ runs'[r].at = FirstPhase
         /\ \/ /\ Turns(r, {"at", "sock", "was"}) /\ ~SshLocked /\ runs'[r].sock \in Agents
               /\ builder' = set_ssh_auth_sock(builder, runs'[r].sock)
            \/ Turns(r, {"at"}) /\ UNCHANGED builder
  <1>1. runs[r] \in RunRec /\ runs \in [Run -> RunRec] /\ runs[r].at = "build" BY ReadyRun DEF BuildBegins, At
  <1>2. FirstPhase \in Phase BY PhaseType DEF FirstPhase, InHand
  <1>3. ASSUME ~SshLocked, NEW sock \in Agents, builder' = set_ssh_auth_sock(builder, sock),
               runs' = [runs EXCEPT ![r].sock = sock, ![r].was = builder.env, ![r].at = FirstPhase]
        PROVE  /\ Turns(r, {"at", "sock", "was"}) /\ runs'[r].at = FirstPhase /\ runs'[r].sock = sock
    <2> DEFINE p == FirstPhase
    <2> DEFINE new == [runs[r] EXCEPT !.sock = sock, !.was = builder.env, !.at = p]
    <2>1. runs' = [runs EXCEPT ![r] = new] BY <1>1, <1>3 DEF RunRec
    <2>0. builder.env \in Agents \cup {None} BY DEF Ready, Typed, RunTypes, BuilderRec
    <2> HIDE DEF p
    <2>2. new \in RunRec BY <1>1, <1>2, <2>0 DEF RunRec, p
    <2>3. Keeps(runs[r], new, {"at", "sock", "was"}) /\ new.at = p /\ new.sock = sock BY <1>1 DEF Keeps, Field, Idle, RunRec
    <2> HIDE DEF new
    <2>4. runs' \in [Run -> RunRec] /\ Others(r) /\ runs'[r] = new BY <1>1, <2>1, <2>2, UpdateType
    <2> QED BY <2>3, <2>4 DEF Turns, p
  <1>4. CASE Now(r) \notin shop.ssh /\ Go(r, FirstPhase) /\ UNCHANGED builder
    BY <1>1, <1>2, <1>4, GoTurns
  <1> QED BY <1>1, <1>3, <1>4 DEF BuildBegins

LEMMA LookForBuilderRuns ==
  ASSUME Ready, NEW r \in Run, LookForBuilder(r)
  PROVE  /\ runs[r].at = "look" /\ Turns(r, {"at", "want"}) /\ runs'[r].at = "retire"
         /\ runs'[r].want \in {builder.host, DEFAULT}
  <1>1. runs[r] \in RunRec /\ runs \in [Run -> RunRec] /\ runs[r].at = "look" BY ReadyRun DEF LookForBuilder, At
  <1>2. builder.host \in {None, "v1", "v2"} BY DEF Ready, Typed, RunTypes, BuilderRec
  <1>3. ASSUME NEW w \in {builder.host, DEFAULT}, runs' = [runs EXCEPT ![r].want = w, ![r].at = "retire"]
        PROVE  Turns(r, {"at", "want"}) /\ runs'[r].at = "retire" /\ runs'[r].want = w
    <2> DEFINE new == [runs[r] EXCEPT !.want = w, !.at = "retire"]
    <2>1. runs' = [runs EXCEPT ![r] = new] BY <1>1, <1>3 DEF RunRec
    <2>2. "retire" \in Phase /\ w \in {None, "v1", "v2", DEFAULT} BY <1>2, PhaseType DEF InHand
    <2>3. new \in RunRec BY <1>1, <2>2, ZenonT(60) DEF RunRec
    <2>4. Keeps(runs[r], new, {"at", "want"}) /\ new.at = "retire" /\ new.want = w BY <1>1 DEF Keeps, Field, Idle, RunRec
    <2> HIDE DEF new
    <2>5. runs' \in [Run -> RunRec] /\ Others(r) /\ runs'[r] = new BY <1>1, <2>1, <2>3, UpdateType
    <2> QED BY <2>4, <2>5 DEF Turns
  <1> QED BY <1>1, <1>3 DEF LookForBuilder, buildkit_image_of

LEMMA RetireBuilderRuns ==
  ASSUME Ready, NEW r \in Run, RetireBuilder(r)
  PROVE  runs[r].at = "retire" /\ Turns(r, {"at"}) /\ runs'[r].at = "boot"
  BY ReadyRun, GoTurns, PhaseType DEF RetireBuilder, At, InHand

LEMMA SolveBeginsRuns ==
  ASSUME Ready, NEW r \in Run, SolveBegins(r)
  PROVE  runs[r].at = "boot" /\ Turns(r, {"at"}) /\ runs'[r].at = "solve"
  BY ReadyRun, GoTurns, PhaseType DEF SolveBegins, At, InHand

LEMMA BuildEndsRuns ==
  ASSUME Ready, NEW r \in Run, BuildEnds(r)
  PROVE  /\ runs[r].at = "solve" /\ Now(r) \in Node
         /\ \/ /\ Turns(r, {"at", "sock", "was", "want"}) /\ runs'[r].at = "make" /\ runs'[r].sock = None /\ runs'[r].want = None
               /\ builder' = Unlent(load_image_tar(builder, r, Now(r)), r) /\ UNCHANGED <<record, ghost>>
            \/ NodeFails(r) /\ builder' = Unlent(SolveDropped(builder, r), r)
  <1>1. runs[r] \in RunRec /\ runs \in [Run -> RunRec] /\ runs[r].at = "solve" /\ Now(r) \in Node
    BY ReadyRun DEF BuildEnds, At, AtNode, InHand
  <1>2. CASE /\ runs' = [runs EXCEPT ![r] = [Unbuilt(runs[r]) EXCEPT !.at = "make"]]
             /\ builder' = Unlent(load_image_tar(builder, r, Now(r)), r) /\ UNCHANGED <<record, ghost>>
    <2> DEFINE un == Unbuilt(runs[r])
    <2>1. un \in RunRec /\ Keeps(runs[r], un, {"sock", "was", "want"}) /\ un.sock = None /\ un.want = None BY <1>1, UnbuiltKeeps
    <2>2. runs' = [runs EXCEPT ![r] = [un EXCEPT !.at = "make"]] BY <1>2
    <2> HIDE DEF un
    <2> DEFINE new == [un EXCEPT !.at = "make"]
    <2>3. "make" \in Phase BY PhaseType DEF InHand
    <2>4. new \in RunRec BY <2>1, <2>3 DEF RunRec
    <2>5. Keeps(un, new, {"at"}) /\ new.at = "make" BY <2>1 DEF Keeps, Field, Idle, RunRec
    <2> HIDE DEF new
    <2>6. runs' \in [Run -> RunRec] /\ Others(r) /\ runs'[r] = new BY <1>1, <2>2, <2>4, UpdateType DEF new
    <2>7. Keeps(runs[r], new, {"at", "sock", "was", "want"}) /\ new.sock = None /\ new.want = None
      BY <2>1, <2>5 DEF Keeps, Field, Idle
    <2> QED BY <1>1, <1>2, <2>5, <2>6, <2>7 DEF Turns
  <1> QED BY <1>1, <1>2 DEF BuildEnds

LEMMA MakeContainerRuns ==
  ASSUME Ready, NEW r \in Run, MakeContainer(r)
  PROVE  /\ runs[r].at = "make" /\ Now(r) \in Node
         /\ \/ /\ Turns(r, {"at"}) /\ runs'[r].at = (IF IsTask(Now(r)) THEN "exit" ELSE "health")
               /\ net # "none" /\ Made(Now(r), runs[r].dns) /\ Starts(r, Now(r)) /\ UNCHANGED record
            \/ Removed(r) /\ NodeFails(r)
  <1>1. runs[r] \in RunRec /\ runs \in [Run -> RunRec] /\ runs[r].at = "make" /\ Now(r) \in Node
    BY ReadyRun DEF MakeContainer, At, AtNode, InHand
  <1> DEFINE p == IF IsTask(Now(r)) THEN "exit" ELSE "health"
  <1>2. p \in Phase BY PhaseType DEF InHand
  <1>3. CASE net # "none" /\ Made(Now(r), runs[r].dns) /\ Starts(r, Now(r)) /\ Go(r, p) /\ UNCHANGED record
    BY <1>1, <1>2, <1>3, GoTurns
  <1> QED BY <1>1, <1>3 DEF MakeContainer

LEMMA TimePassesRuns ==
  ASSUME Ready, NEW r \in Run, TimePasses(r)
  PROVE  Turns(r, {"clock"}) /\ runs'[r].clock = RUN_LIMIT /\ runs[r].clock < RUN_LIMIT
  <1>1. runs[r] \in RunRec /\ runs \in [Run -> RunRec] BY ReadyRun
  <1> DEFINE new == [runs[r] EXCEPT !.clock = RUN_LIMIT]
  <1>2. runs' = [runs EXCEPT ![r] = new] /\ runs[r].clock < RUN_LIMIT BY DEF TimePasses
  <1>3. new \in RunRec BY <1>1, LimitAssumption DEF RunRec
  <1>4. Keeps(runs[r], new, {"clock"}) /\ new.clock = RUN_LIMIT BY <1>1 DEF Keeps, Field, Idle, RunRec
  <1> HIDE DEF new
  <1>5. runs' \in [Run -> RunRec] /\ Others(r) /\ runs'[r] = new BY <1>1, <1>2, <1>3, UpdateType
  <1> QED BY <1>2, <1>4, <1>5 DEF Turns

\* The smaller of two numbers.
LEMMA MinOfTwo ==
  ASSUME NEW a \in Int, NEW b \in Int
  PROVE  Min({a, b}) \in {a, b} /\ Min({a, b}) <= a /\ Min({a, b}) <= b
  <1>1. \E x \in {a, b} : \A y \in {a, b} : x =< y
    <2>1. CASE a <= b BY <2>1
    <2>2. CASE b <= a BY <2>2
    <2> QED BY <2>1, <2>2
  <1>2. Min({a, b}) \in {a, b} /\ \A y \in {a, b} : Min({a, b}) =< y BY <1>1 DEF Min
  <1> QED BY <1>2

\* A wait stays within what is left of the run's limit.
LEMMA AllowanceBound ==
  ASSUME Ready, NEW r \in Run
  PROVE  /\ allowance(runs[r]) \in Nat /\ runs[r].clock + allowance(runs[r]) <= RUN_LIMIT
         /\ runs[r].clock \in Nat /\ runs[r].waited \in Nat /\ runs[r].waited <= runs[r].clock /\ runs[r].clock <= RUN_LIMIT
  <1>1. runs[r].clock \in Nat /\ runs[r].waited \in Nat BY ReadyRun DEF RunRec
  <1>2. runs[r].waited <= runs[r].clock /\ runs[r].clock <= RUN_LIMIT BY DEF Ready, WaitInv
  <1> DEFINE a == RUN_LIMIT - runs[r].clock
  <1>3. a \in Int /\ a >= 0 /\ PER_NODE_LIMIT \in Int /\ PER_NODE_LIMIT >= 0 BY <1>1, <1>2, LimitAssumption
  <1>4. allowance(runs[r]) \in {a, PER_NODE_LIMIT} /\ allowance(runs[r]) <= a BY <1>3, MinOfTwo DEF allowance
  <1>5. allowance(runs[r]) \in Nat BY <1>3, <1>4
  <1>6. runs[r].clock + allowance(runs[r]) <= RUN_LIMIT BY <1>1, <1>4, <1>5, LimitAssumption
  <1> QED BY <1>1, <1>2, <1>5, <1>6

\* Time that passed in a wait is counted on both clocks, within the limit.
Waited(r) ==
  /\ runs'[r].waited \in Nat /\ runs'[r].clock \in Nat
  /\ runs'[r].waited <= runs'[r].clock /\ runs'[r].clock <= RUN_LIMIT
LEMMA WaitedBound ==
  ASSUME Ready, NEW r \in Run, NEW d \in {0, allowance(runs[r])}
  PROVE  /\ d \in Nat /\ Waits(runs[r], d).waited \in Nat /\ Waits(runs[r], d).clock \in Nat
         /\ Waits(runs[r], d).waited <= Waits(runs[r], d).clock /\ Waits(runs[r], d).clock <= RUN_LIMIT
  <1>1. d \in Nat /\ runs[r].clock + d <= RUN_LIMIT BY AllowanceBound
  <1>2. Waits(runs[r], d).clock = runs[r].clock + d /\ Waits(runs[r], d).waited = runs[r].waited + d
    BY <1>1, ReadyRun, WaitsKeeps
  <1> QED BY <1>1, <1>2, AllowanceBound, LimitAssumption

LEMMA WaitForExitRuns ==
  ASSUME Ready, NEW r \in Run, WaitForExit(r)
  PROVE  /\ runs[r].at = "exit" /\ Now(r) \in Node
         /\ \/ /\ ~Running(Now(r)) /\ box[Now(r)].code = 0 /\ ghost' = [ghost EXCEPT !.owed = @ \ {Now(r)}] /\ Waited(r)
               /\ \/ /\ Turns(r, {"at", "now", "todo", "seen", "clock", "waited"}) /\ shop.seeds[Now(r)] = {}
                     /\ runs'[r].at = "next" /\ runs'[r].now = None /\ runs'[r].todo = runs[r].todo \ {Now(r)}
                     /\ runs'[r].seen = [runs[r].seen EXCEPT ![Now(r)] = Started(Now(r))]
                     /\ record' = [record EXCEPT ![Now(r)] = Started(Now(r))]
                  \/ /\ Turns(r, {"at", "clock", "waited"}) /\ runs'[r].at = "seeded" /\ shop.seeds[Now(r)] # {} /\ UNCHANGED record
            \/ ~Running(Now(r)) /\ NodeFails(r)
            \/ /\ Running(Now(r)) /\ Turns(r, {"at", "now", "todo", "failed", "clock", "waited"}) /\ Waited(r)
               /\ runs'[r].at = "next" /\ runs'[r].now = None /\ runs'[r].todo = runs[r].todo \ {Now(r)}
               /\ runs'[r].failed = runs[r].failed \cup {Now(r)}
               /\ Cleared(Now(r)) /\ ghost' = [ghost EXCEPT !.owed = @ \cup Ahead(r)]
  <1> DEFINE n == Now(r)
  <1> DEFINE run == runs[r]
  <1>1. /\ run \in RunRec /\ runs \in [Run -> RunRec] /\ run.at = "exit" /\ n \in Node /\ run.seen \in Records
    BY ReadyRun DEF WaitForExit, At, AtNode, InHand
  <1>2. ASSUME NEW d \in {0, allowance(run)}, ~Running(n), box[n].code = 0, shop.seeds[n] = {},
               NodeDone(r, Started(n), Waits(run, d))
        PROVE  /\ Turns(r, {"at", "now", "todo", "seen", "clock", "waited"}) /\ Waited(r)
               /\ runs'[r].at = "next" /\ runs'[r].now = None /\ runs'[r].todo = runs[r].todo \ {n}
               /\ runs'[r].seen = [runs[r].seen EXCEPT ![n] = Started(n)]
               /\ record' = [record EXCEPT ![n] = Started(n)]
    <2>1. d \in Nat BY WaitedBound
    <2>2. Waits(run, d) \in RunRec /\ Keeps(run, Waits(run, d), {"clock", "waited"}) BY <1>1, <2>1, WaitsKeeps
    <2>3. Keeps(run, Waits(run, d), {"clock", "waited", "recreated", "bounced"}) BY <2>2 DEF Keeps
    <2>4. Started(n) \in EntryRec BY <1>1, StartedType DEF Ready
    <2>5. /\ Turns(r, {"at", "now", "todo", "seen", "clock", "waited", "recreated", "bounced"})
          /\ runs'[r].at = "next" /\ runs'[r].now = None /\ runs'[r].todo = runs[r].todo \ {n}
          /\ runs'[r].seen = [runs[r].seen EXCEPT ![n] = Started(n)]
          /\ runs'[r].clock = Waits(run, d).clock /\ runs'[r].waited = Waits(run, d).waited
          /\ runs'[r].recreated = Waits(run, d).recreated /\ runs'[r].bounced = Waits(run, d).bounced
      BY <1>1, <1>2, <2>2, <2>3, <2>4, NodeDoneTurns
    <2>6. runs'[r].recreated = run.recreated /\ runs'[r].bounced = run.bounced BY <2>2, <2>5 DEF Keeps, Field, Idle
    <2>7. Keeps(run, runs'[r], {"at", "now", "todo", "seen", "clock", "waited"}) BY <2>5, <2>6 DEF Turns, Keeps
    <2> QED BY <1>2, <2>5, <2>7, WaitedBound DEF Turns, Waited, NodeDone
  <1>3. ASSUME NEW d \in {0, allowance(run)}, runs' = [runs EXCEPT ![r] = [Waits(run, d) EXCEPT !.at = "seeded"]]
        PROVE  Turns(r, {"at", "clock", "waited"}) /\ runs'[r].at = "seeded" /\ Waited(r)
    <2>1. d \in Nat BY WaitedBound
    <2> DEFINE w == Waits(run, d)
    <2>2. w \in RunRec /\ Keeps(run, w, {"clock", "waited"}) BY <1>1, <2>1, WaitsKeeps
    <2>3. w.waited \in Nat /\ w.clock \in Nat /\ w.waited <= w.clock /\ w.clock <= RUN_LIMIT BY WaitedBound
    <2>4. runs' = [runs EXCEPT ![r] = [w EXCEPT !.at = "seeded"]] BY <1>3
    <2> HIDE DEF w
    <2> DEFINE new == [w EXCEPT !.at = "seeded"]
    <2>5. new \in RunRec BY <2>2 DEF RunRec, Phase, AtNode
    <2>6. Keeps(w, new, {"at"}) /\ new.at = "seeded" BY <2>2 DEF Keeps, Field, Idle, RunRec
    <2> HIDE DEF new
    <2>7. runs' \in [Run -> RunRec] /\ Others(r) /\ runs'[r] = new BY <1>1, <2>4, <2>5, UpdateType DEF new
    <2>8. new.clock = w.clock /\ new.waited = w.waited BY <2>6 DEF Keeps, Field, Idle
    <2>9. Keeps(run, new, {"at", "clock", "waited"}) BY <2>2, <2>6 DEF Keeps
    <2> QED BY <2>3, <2>6, <2>7, <2>8, <2>9 DEF Turns, Waited
  <1>4. ASSUME runs' = [runs EXCEPT ![r] = Failed(Waits(run, allowance(run)))]
        PROVE  /\ Turns(r, {"at", "now", "todo", "failed", "clock", "waited"}) /\ Waited(r)
               /\ runs'[r].at = "next" /\ runs'[r].now = None /\ runs'[r].todo = runs[r].todo \ {n}
               /\ runs'[r].failed = runs[r].failed \cup {n}
    <2> DEFINE w == Waits(run, allowance(run))
    <2>1. allowance(run) \in Nat BY WaitedBound
    <2>2. w \in RunRec /\ Keeps(run, w, {"clock", "waited"}) BY <1>1, <2>1, WaitsKeeps
    <2>3. w.waited \in Nat /\ w.clock \in Nat /\ w.waited <= w.clock /\ w.clock <= RUN_LIMIT BY WaitedBound
    <2>4. runs' = [runs EXCEPT ![r] = Failed(w)] BY <1>4
    <2> HIDE DEF w
    <2>5. w.now = n /\ w.todo = run.todo /\ w.failed = run.failed BY <2>2 DEF Keeps, Field, Idle, Now
    <2>6. /\ Failed(w) \in RunRec /\ Keeps(w, Failed(w), {"at", "now", "todo", "failed"})
          /\ Failed(w).at = "next" /\ Failed(w).now = None /\ Failed(w).todo = w.todo \ {w.now}
          /\ Failed(w).failed = w.failed \cup {w.now}
      BY <1>1, <2>2, <2>5, FailedKeeps
    <2>7. runs' \in [Run -> RunRec] /\ Others(r) /\ runs'[r] = Failed(w) BY <1>1, <2>4, <2>6, UpdateType
    <2>8. Failed(w).clock = w.clock /\ Failed(w).waited = w.waited BY <2>6 DEF Keeps, Field, Idle
    <2>9. Keeps(run, Failed(w), {"at", "now", "todo", "failed", "clock", "waited"}) BY <2>2, <2>6 DEF Keeps
    <2> QED BY <2>3, <2>5, <2>6, <2>7, <2>8, <2>9 DEF Turns, Waited
  <1> DEFINE done == ~Running(n) /\ box[n].code = 0 /\ allowance(run) > 0
  <1>5. CASE /\ done
             /\ \E d \in {0, allowance(run)} :
                  IF shop.seeds[n] = {} THEN NodeDone(r, Started(n), Waits(run, d))
                  ELSE runs' = [runs EXCEPT ![r] = [Waits(run, d) EXCEPT !.at = "seeded"]] /\ UNCHANGED record
             /\ ghost' = [ghost EXCEPT !.owed = @ \ {n}]
    <2>1. PICK d \in {0, allowance(run)} :
                  IF shop.seeds[n] = {} THEN NodeDone(r, Started(n), Waits(run, d))
                  ELSE runs' = [runs EXCEPT ![r] = [Waits(run, d) EXCEPT !.at = "seeded"]] /\ UNCHANGED record
      BY <1>5
    <2>2. CASE shop.seeds[n] = {} BY <1>1, <1>2, <1>5, <2>1, <2>2
    <2>3. CASE shop.seeds[n] # {} BY <1>1, <1>3, <1>5, <2>1, <2>3
    <2> QED BY <2>2, <2>3
  <1>6. CASE ~Running(n) /\ ~done /\ NodeFails(r) BY <1>1, <1>6
  <1>7. CASE /\ Running(n)
             /\ runs' = [runs EXCEPT ![r] = Failed(Waits(run, allowance(run)))]
             /\ Cleared(n) /\ ghost' = [ghost EXCEPT !.owed = @ \cup Ahead(r)]
    BY <1>1, <1>4, <1>7
  <1> QED BY <1>5, <1>6, <1>7 DEF WaitForExit

\* A service answered: it counts as brought back, and as made anew unless it
\* was restarted in place.
Answered(r, entry) ==
  /\ Turns(r, {"at", "now", "todo", "seen", "clock", "waited", "recreated", "bounced"}) /\ Waited(r)
  /\ runs'[r].at = "next" /\ runs'[r].now = None /\ runs'[r].todo = runs[r].todo \ {Now(r)}
  /\ runs'[r].seen = [runs[r].seen EXCEPT ![Now(r)] = entry] /\ record' = [record EXCEPT ![Now(r)] = entry]
  /\ runs'[r].bounced = runs[r].bounced \cup {Now(r)}
  /\ runs'[r].recreated = IF runs[r].at = "health" THEN runs[r].recreated \cup {Now(r)} ELSE runs[r].recreated
LEMMA AnsweredRuns ==
  ASSUME Ready, NEW r \in Run, Now(r) \in Node, runs[r].seen \in Records, NEW entry \in EntryRec, NEW d \in {0, allowance(runs[r])},
         NodeDone(r, entry, Recreated(Waits(runs[r], d), Now(r)))
  PROVE  Answered(r, entry)
  <1> DEFINE run == runs[r]
  <1> DEFINE w == Waits(run, d)
  <1> DEFINE x == Recreated(w, Now(r))
  <1>0. run \in RunRec /\ runs \in [Run -> RunRec] /\ NodeDone(r, entry, x) BY ReadyRun
  <1>1. d \in Nat BY WaitedBound
  <1>2. w \in RunRec /\ Keeps(run, w, {"clock", "waited"}) BY <1>0, <1>1, WaitsKeeps
  <1>3. w.waited \in Nat /\ w.clock \in Nat /\ w.waited <= w.clock /\ w.clock <= RUN_LIMIT BY WaitedBound
  <1>4. w.at = run.at /\ w.recreated = run.recreated /\ w.bounced = run.bounced BY <1>2 DEF Keeps, Field, Idle
  <1> HIDE DEF w
  <1>5. /\ x \in RunRec /\ Keeps(w, x, {"recreated", "bounced"})
        /\ x.bounced = w.bounced \cup {Now(r)}
        /\ x.recreated = IF w.at = "health" THEN w.recreated \cup {Now(r)} ELSE w.recreated
    BY <1>2, RecreatedKeeps
  <1> HIDE DEF x
  <1>6. x.clock = w.clock /\ x.waited = w.waited BY <1>5 DEF Keeps, Field, Idle
  <1>7. Keeps(run, x, {"clock", "waited", "recreated", "bounced"}) BY <1>2, <1>5 DEF Keeps
  <1>8. /\ Turns(r, {"at", "now", "todo", "seen", "clock", "waited", "recreated", "bounced"})
        /\ runs'[r].at = "next" /\ runs'[r].now = None /\ runs'[r].todo = runs[r].todo \ {Now(r)}
        /\ runs'[r].seen = [runs[r].seen EXCEPT ![Now(r)] = entry]
        /\ runs'[r].clock = x.clock /\ runs'[r].waited = x.waited
        /\ runs'[r].recreated = x.recreated /\ runs'[r].bounced = x.bounced
    BY <1>0, <1>5, <1>7, NodeDoneTurns
  <1>9. record' = [record EXCEPT ![Now(r)] = entry] BY DEF NodeDone
  <1> QED BY <1>3, <1>4, <1>5, <1>6, <1>8, <1>9 DEF Answered, Waited

LEMMA WaitForHealthyRuns ==
  ASSUME Ready, NEW r \in Run, WaitForHealthy(r)
  PROVE  /\ runs[r].at = "health" /\ Now(r) \in Node
         /\ (Answered(r, Started(Now(r))) /\ UNCHANGED ghost) \/ NodeFails(r)
  <1>1. /\ runs[r] \in RunRec /\ runs[r].at = "health" /\ Now(r) \in Node /\ runs[r].seen \in Records
    BY ReadyRun DEF WaitForHealthy, At, AtNode, InHand
  <1>2. Started(Now(r)) \in EntryRec BY <1>1, StartedType DEF Ready
  <1>3. ASSUME NEW d \in {0, allowance(runs[r])}, NodeDone(r, Started(Now(r)), Recreated(Waits(runs[r], d), Now(r)))
        PROVE  Answered(r, Started(Now(r)))
    BY <1>1, <1>2, <1>3, AnsweredRuns
  <1> QED BY <1>1, <1>3 DEF WaitForHealthy

LEMMA RecordSeededRuns ==
  ASSUME Ready, NEW r \in Run, RecordSeeded(r)
  PROVE  /\ runs[r].at = "seeded" /\ Now(r) \in Node
         /\ Turns(r, {"at", "now", "todo", "seen"})
         /\ runs'[r].at = "next" /\ runs'[r].now = None /\ runs'[r].todo = runs[r].todo \ {Now(r)}
         /\ runs'[r].seen = [runs[r].seen EXCEPT ![Now(r)] = Started(Now(r))]
         /\ record' = [record EXCEPT ![Now(r)] = Started(Now(r))]
  <1>1. /\ runs[r] \in RunRec /\ runs \in [Run -> RunRec] /\ runs[r].at = "seeded" /\ Now(r) \in Node /\ runs[r].seen \in Records
    BY ReadyRun DEF RecordSeeded, At, AtNode
  <1>2. Started(Now(r)) \in EntryRec BY <1>1, StartedType DEF Ready
  <1>3. NodeDone(r, Started(Now(r)), runs[r]) BY DEF RecordSeeded
  <1>4. Keeps(runs[r], runs[r], {"clock", "waited", "recreated", "bounced"}) BY DEF Keeps
  <1>5. /\ Turns(r, {"at", "now", "todo", "seen", "clock", "waited", "recreated", "bounced"})
        /\ runs'[r].at = "next" /\ runs'[r].now = None /\ runs'[r].todo = runs[r].todo \ {Now(r)}
        /\ runs'[r].seen = [runs[r].seen EXCEPT ![Now(r)] = Started(Now(r))]
        /\ runs'[r].clock = runs[r].clock /\ runs'[r].waited = runs[r].waited
        /\ runs'[r].recreated = runs[r].recreated /\ runs'[r].bounced = runs[r].bounced
    BY <1>1, <1>2, <1>3, <1>4, NodeDoneTurns
  <1>6. Turns(r, {"at", "now", "todo", "seen"}) BY <1>5 DEF Turns, Keeps
  <1> QED BY <1>1, <1>3, <1>5, <1>6 DEF NodeDone

LEMMA RestartInPlaceRuns ==
  ASSUME Ready, NEW r \in Run, RestartInPlace(r)
  PROVE  /\ runs[r].at = "restart" /\ Now(r) \in Node /\ ~Locked(Now(r))
         /\ \/ /\ box[Now(r)].status # "none" /\ net # "none" /\ Starts(r, Now(r))
               /\ box' = [box EXCEPT ![Now(r)].status = "running", ![Now(r)].code = None,
                                     ![Now(r)].health = IF Now(r) \in shop.checked THEN "starting" ELSE None]
               /\ \E a \in Handed : holder' = IF Running(Now(r)) \/ a # SIDECAR THEN holder ELSE Now(r)
               /\ \E entry \in EntryRec : ~entry.busy /\ Answered(r, entry)
            \/ NodeFails(r) /\ UNCHANGED <<box, holder>>
  <1>1. /\ runs[r] \in RunRec /\ runs[r].at = "restart" /\ Now(r) \in Node /\ runs[r].seen \in Records /\ runs[r].seen[Now(r)] \in EntryRec
    BY ReadyRun DEF RestartInPlace, At, AtNode, Sound, Now
  <1> DEFINE e == [runs[r].seen[Now(r)] EXCEPT !.busy = FALSE, !.status = "running"]
  <1>2. e \in EntryRec /\ ~e.busy BY <1>1 DEF EntryRec
  <1> HIDE DEF e
  <1>3. ASSUME NEW d \in {0, allowance(runs[r])}, NodeDone(r, e, Recreated(Waits(runs[r], d), Now(r)))
        PROVE  Answered(r, e)
    BY <1>1, <1>2, <1>3, AnsweredRuns
  <1> QED BY <1>1, <1>2, <1>3 DEF RestartInPlace, e

----------------------------------------------------------------------------
(* The run that steps still is where its kind and phase allow.             *)

Within(run) == run.waited <= run.clock /\ run.clock <= RUN_LIMIT
Fits(run) == Sound(run) /\ Ordered(run) /\ Within(run)

LEMMA FitsBefore ==
  ASSUME Ready, NEW r \in Run
  PROVE  Fits(runs[r])
  BY ReadyRun DEF Fits, Within, Ready, WaitInv

LEMMA IdleFits ==
  ASSUME Ready
  PROVE  Fits(Idle)
  <1>1. Sound(Idle) BY DEF Sound, Idle, AtNode, InHand, Main, Early
  <1>2. Ordered(Idle) BY DEF Ordered, Idle, AtNode, InHand
  <1> QED BY <1>1, <1>2, LimitAssumption DEF Fits, Within, Idle

\* Moving on before the plan is made.
LEMMA EarlyFits ==
  ASSUME Ready, NEW r \in Run, runs[r].at \in Early, Turns(r, {"at", "dns"}),
         runs'[r].at \in Early \/ (runs'[r].at = "over" /\ runs[r].kind = "restore"),
         runs[r].kind = "restore" => runs'[r].at \in {"sidecar", "replace", "over"}
  PROVE  Fits(runs'[r])
  <1>1. Fits(runs[r]) /\ runs[r].kind # "idle" BY FitsBefore DEF Fits, Sound, Idle, Early
  <1>2. \A f \in Field \ {"at", "dns"} : runs'[r][f] = runs[r][f] BY DEF Turns, Keeps
  <1>3. Sound(runs'[r]) BY <1>1, <1>2 DEF Fits, Sound, Field, Idle, Early, AtNode, InHand, Main
  <1>4. Ordered(runs'[r]) BY <1>1, <1>2 DEF Fits, Ordered, Field, Idle, Early, AtNode, InHand
  <1> QED BY <1>1, <1>2, <1>3, <1>4 DEF Fits, Within, Field, Idle

\* Moving on with the same node in hand.
LEMMA HandFits ==
  ASSUME Ready, NEW r \in Run, runs[r].at \in AtNode, Turns(r, {"at", "sock", "was", "want", "clock", "waited"}), Within(runs'[r]),
         runs'[r].at \in AtNode \ {"restart"},
         runs'[r].at = "exit" => Now(r) \in shop.tasks, runs'[r].at = "health" => Now(r) \notin shop.tasks,
         runs'[r].at = "seeded" => Now(r) \in shop.tasks /\ shop.seeds[Now(r)] # {}
  PROVE  Fits(runs'[r])
  <1>1. Fits(runs[r]) /\ runs[r].kind \in Main BY FitsBefore, ReadyRun
  <1>2. \A f \in Field \ {"at", "sock", "was", "want", "clock", "waited"} : runs'[r][f] = runs[r][f] BY DEF Turns, Keeps
  <1>3. Sound(runs'[r]) BY <1>1, <1>2 DEF Fits, Sound, Field, Idle, AtNode, InHand, Main, Now
  <1>4. Ordered(runs'[r]) BY <1>1, <1>2 DEF Fits, Ordered, Field, Idle, AtNode, InHand
  <1> QED BY <1>3, <1>4 DEF Fits

\* A node is over with.
LEMMA OverFits ==
  ASSUME Ready, NEW r \in Run, runs[r].at \in AtNode,
         Turns(r, {"at", "now", "todo", "failed", "seen", "sock", "was", "want", "clock", "waited", "recreated", "bounced"}), Within(runs'[r]),
         runs'[r].at = "next", runs'[r].now = None, runs'[r].todo = runs[r].todo \ {Now(r)}, runs'[r].seen \in Records,
         runs'[r].failed = runs[r].failed \/ runs'[r].failed # {}
  PROVE  Fits(runs'[r])
  <1>1. Fits(runs[r]) /\ runs[r].kind \in Main BY FitsBefore, ReadyRun
  <1>2. \A f \in {"kind", "of", "targets", "outside", "blocked", "dns"} : runs'[r][f] = runs[r][f] BY DEF Turns, Keeps, Field, Idle
  <1>3. Sound(runs'[r]) BY <1>1, <1>2 DEF Fits, Sound, AtNode, InHand, Main
  <1>4. Ordered(runs'[r]) BY <1>1, <1>2 DEF Fits, Ordered, AtNode, InHand, Now
  <1> QED BY <1>3, <1>4 DEF Fits

\* A step of one run, which goes on or ends.
OneRun(r) == runs' \in [Run -> RunRec] /\ Others(r) /\ Fits(runs'[r]) /\ (runs'[r] = Idle \/ runs'[r].kind = runs[r].kind)

LEMMA EndsOneRun ==
  ASSUME Ready, NEW r \in Run, Ends(r)
  PROVE  OneRun(r)
  BY ReadyRun, EndsTurns, IdleFits DEF OneRun

LEMMA TurnsKind ==
  ASSUME NEW r \in Run, NEW F, Turns(r, F), "kind" \notin F
  PROVE  runs' \in [Run -> RunRec] /\ Others(r) /\ runs'[r].kind = runs[r].kind
  BY DEF Turns, Keeps, Field, Idle

LEMMA TurnsWithin ==
  ASSUME Ready, NEW r \in Run, NEW F, Turns(r, F), "clock" \notin F, "waited" \notin F
  PROVE  Within(runs'[r])
  <1>1. Within(runs[r]) BY FitsBefore DEF Fits
  <1>2. runs'[r].clock = runs[r].clock /\ runs'[r].waited = runs[r].waited BY DEF Turns, Keeps, Field, Idle
  <1> QED BY <1>1, <1>2 DEF Within

LEMMA TurnsMore ==
  ASSUME NEW r \in Run, NEW F, NEW G, Turns(r, F), F \subseteq G
  PROVE  Turns(r, G)
  BY DEF Turns, Keeps

LEMMA EarlyOneRun ==
  ASSUME Ready, NEW r \in Run,
         EnsureNetwork(r) \/ ReadBack(r) \/ PinNetwork(r) \/ SidecarThere(r) \/ ReplaceSidecar(r)
  PROVE  OneRun(r)
  <1> DEFINE F == {"at", "dns"}
  <1>0. runs[r].kind = "restore" => runs[r].at \in {"sidecar", "replace", "over"} BY ReadyRun DEF Sound
  <1>1. ASSUME Turns(r, F), runs[r].at \in Early, runs'[r].at \in Early \/ (runs'[r].at = "over" /\ runs[r].kind = "restore"),
               runs[r].kind = "restore" => runs'[r].at \in {"sidecar", "replace", "over"}
        PROVE  OneRun(r)
    BY <1>1, EarlyFits, TurnsKind DEF OneRun
  <1>2. CASE EnsureNetwork(r)
    <2>1. Turns(r, F) BY <1>2, EnsureNetworkRuns, TurnsMore
    <2>2. runs'[r].at \in {"readback", "sidecar"} BY <1>2, EnsureNetworkRuns
    <2>3. runs[r].at = "network" BY <1>2 DEF EnsureNetwork, At
    <2> QED BY <1>0, <1>1, <2>1, <2>2, <2>3 DEF Early
  <1>3. CASE ReadBack(r)
    <2>1. CASE Ends(r) BY <2>1, EndsOneRun
    <2>2. CASE Turns(r, {"at"}) /\ runs'[r].at \in {"sidecar", "pin"}
      <3>1. Turns(r, F) BY <2>2, TurnsMore
      <3>2. runs[r].at = "readback" BY <1>3 DEF ReadBack, At
      <3> QED BY <1>0, <1>1, <2>2, <3>1, <3>2 DEF Early
    <2> QED BY <1>3, <2>1, <2>2, ReadBackRuns
  <1>4. CASE PinNetwork(r)
    <2>1. Turns(r, F) BY <1>4, PinNetworkRuns, TurnsMore
    <2>2. runs'[r].at = "sidecar" BY <1>4, PinNetworkRuns
    <2>3. runs[r].at = "pin" BY <1>4 DEF PinNetwork, At
    <2> QED BY <1>0, <1>1, <2>1, <2>2, <2>3 DEF Early
  <1>5. (After(r) = "plan" /\ runs[r].kind # "restore") \/ (After(r) = "over" /\ runs[r].kind = "restore") BY DEF After
  <1>6. CASE SidecarThere(r)
    <2>1. Turns(r, F) BY <1>6, SidecarThereRuns
    <2>2. runs'[r].at = After(r) \/ runs'[r].at = "replace" BY <1>6, SidecarThereRuns
    <2>3. runs[r].at = "sidecar" BY <1>6 DEF SidecarThere, At
    <2> QED BY <1>1, <1>5, <2>1, <2>2, <2>3 DEF Early
  <1>7. CASE ReplaceSidecar(r)
    <2>1. CASE Ends(r) BY <2>1, EndsOneRun
    <2>2. CASE Turns(r, F) /\ runs'[r].at = After(r)
      <3>2. runs[r].at = "replace" BY <1>7 DEF ReplaceSidecar, At
      <3> QED BY <1>1, <1>5, <2>2, <3>2 DEF Early
    <2> QED BY <1>7, <2>1, <2>2, ReplaceSidecarRuns
  <1> QED BY <1>2, <1>3, <1>4, <1>6, <1>7

LEMMA PlanOneRun ==
  ASSUME Ready, NEW r \in Run, Plan(r)
  PROVE  OneRun(r)
  <1>1. Fits(runs[r]) /\ runs[r].at = "plan" /\ runs[r].kind \in Main BY FitsBefore, PlanRuns DEF Plan, At
  <1>2. /\ \A f \in Field \ {"at", "targets", "todo", "outside"} : runs'[r][f] = runs[r][f]
        /\ runs'[r].at = "outside" /\ runs'[r].targets = Targets(runs[r]) /\ runs'[r].todo = Targets(runs[r])
        /\ runs'[r].outside = (IF runs[r].kind = "flow" THEN stop_order(runs[r]) ELSE {})
    BY PlanRuns DEF Turns, Keeps
  <1>3. runs'[r].outside # {} => runs[r].kind = "flow" BY <1>2
  <1>4. Sound(runs'[r]) BY <1>1, <1>2, <1>3 DEF Fits, Sound, Field, Idle, AtNode, InHand, Main
  <1>5. Ordered(runs'[r]) BY <1>1, <1>2, TargetsType DEF Ordered, AtNode, InHand
  <1>6. Within(runs'[r]) BY PlanRuns, TurnsWithin
  <1> QED BY <1>4, <1>5, <1>6, PlanRuns, TurnsKind DEF Fits, OneRun

LEMMA StopOutsideOneRun ==
  ASSUME Ready, NEW r \in Run, StopOutside(r)
  PROVE  OneRun(r)
  <1>1. Fits(runs[r]) /\ runs[r].at = "outside" /\ runs[r].kind \in Main /\ runs[r].seen \in Records
    BY FitsBefore, ReadyRun DEF StopOutside, At, Fits, Sound
  <1>2. CASE Turns(r, {"at"}) /\ runs'[r].at = "next" /\ runs[r].outside = {}
    <2>1. \A f \in Field \ {"at"} : runs'[r][f] = runs[r][f] BY <1>2 DEF Turns, Keeps
    <2>2. Sound(runs'[r]) BY <1>1, <1>2, <2>1 DEF Fits, Sound, Field, Idle, AtNode, InHand, Main
    <2>3. Ordered(runs'[r]) BY <1>1, <1>2, <2>1 DEF Fits, Ordered, Field, Idle, AtNode, InHand
    <2> QED BY <1>2, <2>2, <2>3, TurnsWithin, TurnsKind DEF Fits, OneRun
  <1>3. ASSUME NEW n \in runs[r].outside, Turns(r, {"outside", "seen"}), runs'[r].outside = runs[r].outside \ {n},
               runs'[r].seen = [runs[r].seen EXCEPT ![n] = record'[n]], record' \in Records, n \in Node
        PROVE  OneRun(r)
    <2>1. \A f \in Field \ {"outside", "seen"} : runs'[r][f] = runs[r][f] BY <1>3 DEF Turns, Keeps
    <2>2. runs'[r].seen \in Records BY <1>1, <1>3 DEF Records
    <2>3. Sound(runs'[r]) BY <1>1, <1>3, <2>1, <2>2 DEF Fits, Sound, Field, Idle, AtNode, InHand, Main
    <2>4. Ordered(runs'[r]) BY <1>1, <2>1 DEF Fits, Ordered, Field, Idle, AtNode, InHand
    <2> QED BY <1>3, <2>3, <2>4, TurnsWithin, TurnsKind DEF Fits, OneRun
  <1> QED BY <1>2, <1>3, StopOutsideRuns

\* A node is only blocked in a run something failed in, and only restarted
\* when the run has its entry.
LEMMA ChoiceNeeds ==
  ASSUME NEW run, NEW n
  PROVE  /\ Choice(run, n) = "block" => blocked_by(run, n)
         /\ Choice(run, n) = "restart" => run.seen[n] # None /\ Running(n)
         /\ Choice(run, n) \in {"restart", "start"} => ~blocked_by(run, n) /\ (~Forced(run, n) => shop.seeds[n] = {} \/ ~already_seeded(n))
  BY DEF Choice

LEMMA NextNodeOneRun ==
  ASSUME Ready, NEW r \in Run, NextNode(r)
  PROVE  OneRun(r)
  <1>1. Fits(runs[r]) /\ runs[r] \in RunRec /\ runs[r].at = "next" /\ runs[r].kind \in Main /\ runs[r].seen \in Records
    BY FitsBefore, ReadyRun DEF NextNode, At, Fits, Sound
  <1>2. PICK n \in First(runs[r].todo) :
           /\ n \in Node /\ runs[r].at = "next"
           /\ \/ /\ Choice(runs[r], n) = "skip" /\ Turns(r, {"todo"}) /\ runs'[r].todo = runs[r].todo \ {n}
              \/ /\ Choice(runs[r], n) = "block" /\ Turns(r, {"todo", "blocked"}) /\ runs'[r].todo = runs[r].todo \ {n}
                 /\ runs'[r].blocked = runs[r].blocked \cup {n}
              \/ /\ Choice(runs[r], n) \in {"start", "restart"} /\ Turns(r, {"at", "now"}) /\ runs'[r].at = Choice(runs[r], n)
                 /\ runs'[r].now = n
    BY NextNodeRuns
  <1>3. n \in runs[r].todo /\ \A d \in runs[r].todo : <<n, d>> \notin shop.requires BY DEF First
  <1>4. CASE Choice(runs[r], n) = "skip" /\ Turns(r, {"todo"}) /\ runs'[r].todo = runs[r].todo \ {n}
    <2>1. \A f \in Field \ {"todo"} : runs'[r][f] = runs[r][f] BY <1>4 DEF Turns, Keeps
    <2>2. Sound(runs'[r]) BY <1>1, <1>4, <2>1 DEF Fits, Sound, Field, Idle, AtNode, InHand, Main
    <2>3. Ordered(runs'[r]) BY <1>1, <1>3, <1>4, <2>1 DEF Fits, Ordered, Field, Idle, AtNode, InHand
    <2> QED BY <1>4, <2>2, <2>3, TurnsWithin, TurnsKind DEF Fits, OneRun
  <1>5. CASE /\ Choice(runs[r], n) = "block" /\ Turns(r, {"todo", "blocked"}) /\ runs'[r].todo = runs[r].todo \ {n}
             /\ runs'[r].blocked = runs[r].blocked \cup {n}
    <2>1. \A f \in Field \ {"todo", "blocked"} : runs'[r][f] = runs[r][f] BY <1>5 DEF Turns, Keeps
    <2>2. runs[r].failed # {}
      <3>1. Needs(runs[r], n) \cap (runs[r].failed \cup runs[r].blocked) # {} BY <1>5, ChoiceNeeds DEF blocked_by
      <3> QED BY <1>1, <3>1 DEF Fits, Sound
    <2>3. Sound(runs'[r]) BY <1>1, <1>5, <2>1, <2>2 DEF Fits, Sound, Field, Idle, AtNode, InHand, Main
    <2>4. Ordered(runs'[r]) BY <1>1, <1>3, <1>5, <2>1 DEF Fits, Ordered, Field, Idle, AtNode, InHand
    <2> QED BY <1>5, <2>3, <2>4, TurnsWithin, TurnsKind DEF Fits, OneRun
  <1>6. CASE /\ Choice(runs[r], n) \in {"start", "restart"} /\ Turns(r, {"at", "now"}) /\ runs'[r].at = Choice(runs[r], n)
             /\ runs'[r].now = n
    <2>1. \A f \in Field \ {"at", "now"} : runs'[r][f] = runs[r][f] BY <1>6 DEF Turns, Keeps
    <2>2. runs'[r].at = "restart" => runs[r].seen[n] \in EntryRec BY <1>1, <1>2, <1>6, ChoiceNeeds DEF Records
    <2>3. runs'[r].at \in {"start", "restart"} BY <1>6
    <2>4. Sound(runs'[r]) BY <1>1, <1>3, <1>6, <2>1, <2>2, <2>3 DEF Fits, Sound, Field, Idle, AtNode, InHand, Main
    <2>5. Ordered(runs'[r]) BY <1>1, <1>3, <1>6, <2>1 DEF Fits, Ordered, Field, Idle, AtNode, InHand
    <2> QED BY <1>6, <2>4, <2>5, TurnsWithin, TurnsKind DEF Fits, OneRun
  <1> QED BY <1>2, <1>4, <1>5, <1>6

LEMMA FailsOneRun ==
  ASSUME Ready, NEW r \in Run, runs[r].at \in AtNode, NodeFails(r)
  PROVE  OneRun(r)
  <1> DEFINE F == {"at", "now", "todo", "failed", "sock", "was", "want"}
  <1>1. runs[r].seen \in Records /\ Now(r) \in Node BY ReadyRun
  <1>2. /\ Turns(r, F) /\ runs'[r].at = "next" /\ runs'[r].now = None /\ runs'[r].todo = runs[r].todo \ {Now(r)}
        /\ runs'[r].failed # {}
    BY <1>1, ReadyRun, NodeFailsTurns
  <1>3. runs'[r].seen \in Records BY <1>1, <1>2 DEF Turns, Keeps, Field, Idle
  <1>4. Turns(r, {"at", "now", "todo", "failed", "seen", "sock", "was", "want", "clock", "waited", "recreated", "bounced"})
    BY <1>2, TurnsMore
  <1>5. Within(runs'[r]) BY <1>2, TurnsWithin
  <1> QED BY <1>2, <1>3, <1>4, <1>5, OverFits, TurnsKind DEF OneRun

LEMMA HandOneRun ==
  ASSUME Ready, NEW r \in Run,
         \/ TakeNode(r) \/ BuildBegins(r) \/ LookForBuilder(r) \/ RetireBuilder(r) \/ SolveBegins(r) \/ TimePasses(r)
  PROVE  OneRun(r)
  <1> DEFINE F == {"at", "sock", "was", "want", "clock", "waited"}
  <1>1. ASSUME runs[r].at \in AtNode, Turns(r, F), Within(runs'[r]), runs'[r].at \in {"build", "make"} \cup Building
        PROVE  OneRun(r)
    <2>1. runs'[r].at \in AtNode \ {"restart", "exit", "health", "seeded"} BY <1>1 DEF Building, AtNode, InHand
    <2> QED BY <1>1, <2>1, HandFits, TurnsKind DEF OneRun
  <1>2. ASSUME NEW G, Turns(r, G), G \subseteq {"at", "sock", "was", "want"}, runs[r].at \in AtNode,
               runs'[r].at \in {"build", "make"} \cup Building
        PROVE  OneRun(r)
    <2>0. G \subseteq F BY <1>2
    <2>1. Turns(r, F) BY <1>2, <2>0, TurnsMore
    <2> QED BY <1>1, <1>2, <2>1, TurnsWithin
  <1>3. CASE TakeNode(r) BY <1>2, <1>3, TakeNodeRuns DEF AtNode
  <1>4. CASE BuildBegins(r) BY <1>2, <1>4, BuildBeginsRuns DEF AtNode, InHand, FirstPhase, Building
  <1>5. CASE LookForBuilder(r) BY <1>2, <1>5, LookForBuilderRuns DEF AtNode, InHand, Building
  <1>6. CASE RetireBuilder(r) BY <1>2, <1>6, RetireBuilderRuns DEF AtNode, InHand, Building
  <1>7. CASE SolveBegins(r) BY <1>2, <1>7, SolveBeginsRuns DEF AtNode, InHand, Building
  <1>8. CASE TimePasses(r)
    <2>1. Turns(r, {"clock"}) /\ runs'[r].clock = RUN_LIMIT BY <1>8, TimePassesRuns
    <2>2. runs'[r].at = runs[r].at /\ runs'[r].waited = runs[r].waited BY <2>1 DEF Turns, Keeps, Field, Idle
    <2>3. runs[r].at \in {"make", "solve"} BY <1>8 DEF TimePasses
    <2>4. Within(runs'[r]) BY <2>1, <2>2, AllowanceBound, LimitAssumption DEF Within
    <2> QED BY <1>1, <2>1, <2>2, <2>3, <2>4, TurnsMore DEF AtNode, InHand, Building
  <1> QED BY <1>3, <1>4, <1>5, <1>6, <1>7, <1>8

LEMMA AnsweredOneRun ==
  ASSUME Ready, NEW r \in Run, runs[r].at \in AtNode, NEW entry \in EntryRec, Answered(r, entry)
  PROVE  OneRun(r)
  <1>1. runs[r].seen \in Records /\ Now(r) \in Node BY ReadyRun
  <1>2. /\ Turns(r, {"at", "now", "todo", "seen", "clock", "waited", "recreated", "bounced"})
        /\ runs'[r].at = "next" /\ runs'[r].now = None /\ runs'[r].todo = runs[r].todo \ {Now(r)}
        /\ runs'[r].seen = [runs[r].seen EXCEPT ![Now(r)] = entry]
    BY DEF Answered
  <1>3. runs'[r].seen \in Records BY <1>1, <1>2 DEF Records
  <1>4. Turns(r, {"at", "now", "todo", "failed", "seen", "sock", "was", "want", "clock", "waited", "recreated", "bounced"})
    BY <1>2, TurnsMore
  <1>5. Within(runs'[r]) BY DEF Answered, Waited, Within
  <1>6. runs'[r].failed = runs[r].failed BY <1>2 DEF Turns, Keeps, Field, Idle
  <1> QED BY <1>2, <1>3, <1>4, <1>5, <1>6, OverFits, TurnsKind DEF OneRun

LEMMA DoneOneRun ==
  ASSUME Ready, NEW r \in Run, runs[r].at \in AtNode, NEW F, Turns(r, F), Within(runs'[r]),
         F \subseteq {"at", "now", "todo", "failed", "seen", "clock", "waited"},
         runs'[r].at = "next", runs'[r].now = None, runs'[r].todo = runs[r].todo \ {Now(r)},
         "seen" \in F => runs'[r].seen = [runs[r].seen EXCEPT ![Now(r)] = Started(Now(r))],
         "failed" \in F => runs'[r].failed # {}
  PROVE  OneRun(r)
  <1>1. runs[r].seen \in Records /\ Now(r) \in Node BY ReadyRun
  <1>2. Started(Now(r)) \in EntryRec BY <1>1, StartedType DEF Ready
  <1>3. runs'[r].seen \in Records
    <2>1. "seen" \notin F => runs'[r].seen = runs[r].seen BY DEF Turns, Keeps, Field, Idle
    <2> QED BY <1>1, <1>2, <2>1 DEF Records
  <1> DEFINE G == {"at", "now", "todo", "failed", "seen", "sock", "was", "want", "clock", "waited", "recreated", "bounced"}
  <1>0. F \subseteq G OBVIOUS
  <1>4. Turns(r, G)
    <2> HIDE DEF G
    <2> QED BY <1>0, TurnsMore
  <1>5. "failed" \notin F => runs'[r].failed = runs[r].failed BY DEF Turns, Keeps, Field, Idle
  <1> QED BY <1>3, <1>4, <1>5, OverFits, TurnsKind DEF OneRun

LEMMA WaitOneRun ==
  ASSUME Ready, NEW r \in Run, WaitForExit(r) \/ WaitForHealthy(r) \/ RecordSeeded(r) \/ RestartInPlace(r)
  PROVE  OneRun(r)
  <1>1. CASE WaitForExit(r)
    <2>1. runs[r].at = "exit" /\ runs[r].at \in AtNode /\ Now(r) \in Node /\ Now(r) \in shop.tasks
      BY <1>1, WaitForExitRuns, ReadyRun DEF AtNode, InHand, Sound, Now
    <2>2. CASE NodeFails(r) BY <2>1, <2>2, FailsOneRun
    <2>3. ASSUME Turns(r, {"at", "clock", "waited"}), runs'[r].at = "seeded", shop.seeds[Now(r)] # {}, Waited(r)
          PROVE  OneRun(r)
      <3>1. Turns(r, {"at", "sock", "was", "want", "clock", "waited"}) BY <2>3, TurnsMore
      <3>2. Within(runs'[r]) BY <2>3 DEF Waited, Within
      <3> QED BY <2>1, <2>3, <3>1, <3>2, HandFits, TurnsKind DEF OneRun, AtNode
    <2>4. ASSUME Waited(r) PROVE Within(runs'[r]) BY <2>4 DEF Waited, Within
    <2>5. ASSUME Turns(r, {"at", "now", "todo", "seen", "clock", "waited"}), Waited(r),
                 runs'[r].at = "next", runs'[r].now = None, runs'[r].todo = runs[r].todo \ {Now(r)},
                 runs'[r].seen = [runs[r].seen EXCEPT ![Now(r)] = Started(Now(r))]
          PROVE  OneRun(r)
      BY <2>1, <2>4, <2>5, DoneOneRun
    <2>6. ASSUME Turns(r, {"at", "now", "todo", "failed", "clock", "waited"}), Waited(r),
                 runs'[r].at = "next", runs'[r].now = None, runs'[r].todo = runs[r].todo \ {Now(r)},
                 runs'[r].failed = runs[r].failed \cup {Now(r)}
          PROVE  OneRun(r)
      BY <2>1, <2>4, <2>6, DoneOneRun
    <2> QED BY <1>1, <2>2, <2>3, <2>5, <2>6, WaitForExitRuns
  <1>2. CASE WaitForHealthy(r)
    <2>1. runs[r].at \in AtNode /\ Now(r) \in Node BY <1>2, WaitForHealthyRuns DEF AtNode, InHand
    <2>2. Started(Now(r)) \in EntryRec BY <2>1, StartedType DEF Ready
    <2> QED BY <1>2, <2>1, <2>2, WaitForHealthyRuns, FailsOneRun, AnsweredOneRun
  <1>3. CASE RecordSeeded(r)
    <2>1. runs[r].at \in AtNode /\ Now(r) \in Node /\ Turns(r, {"at", "now", "todo", "seen"}) BY <1>3, RecordSeededRuns DEF AtNode
    <2>2. Within(runs'[r]) BY <2>1, TurnsWithin
    <2> QED BY <1>3, <2>1, <2>2, RecordSeededRuns, DoneOneRun
  <1>4. CASE RestartInPlace(r)
    <2>1. runs[r].at \in AtNode BY <1>4, RestartInPlaceRuns DEF AtNode
    <2> QED BY <1>4, <2>1, RestartInPlaceRuns, FailsOneRun, AnsweredOneRun
  <1> QED BY <1>1, <1>2, <1>3, <1>4

LEMMA MakeOneRun ==
  ASSUME Ready, NEW r \in Run, BuildEnds(r) \/ MakeContainer(r) \/ (PullImage(r) /\ runs' # runs)
  PROVE  OneRun(r)
  <1>0. runs[r].at \in {"make", "solve"} BY DEF BuildEnds, MakeContainer, PullImage, At
  <1>1. runs[r].at \in AtNode BY <1>0 DEF AtNode, InHand
  <1>2. CASE NodeFails(r) BY <1>1, <1>2, FailsOneRun
  <1>3. ASSUME NEW F, Turns(r, F), F \subseteq {"at", "sock", "was", "want"},
               runs'[r].at \in {"make", IF IsTask(Now(r)) THEN "exit" ELSE "health"}
        PROVE  OneRun(r)
    <2>0. F \subseteq {"at", "sock", "was", "want", "clock", "waited"} BY <1>3
    <2>1. Turns(r, {"at", "sock", "was", "want", "clock", "waited"}) BY <1>3, <2>0, TurnsMore
    <2>4. Within(runs'[r]) BY <1>3, TurnsWithin
    <2>2. runs'[r].at \in AtNode \ {"restart", "seeded"} BY <1>3 DEF AtNode, InHand
    <2>3. (runs'[r].at = "exit" => Now(r) \in shop.tasks) /\ (runs'[r].at = "health" => Now(r) \notin shop.tasks) BY <1>3 DEF IsTask
    <2> QED BY <1>1, <1>3, <2>1, <2>2, <2>3, <2>4, HandFits, TurnsKind DEF OneRun
  <1>4. CASE BuildEnds(r) BY <1>2, <1>3, <1>4, BuildEndsRuns
  <1>5. CASE MakeContainer(r) BY <1>2, <1>3, <1>5, MakeContainerRuns
  <1>6. CASE PullImage(r) /\ runs' # runs BY <1>2, <1>6 DEF PullImage
  <1> QED BY <1>4, <1>5, <1>6

----------------------------------------------------------------------------
(* What an engine call does to the containers.                             *)

\* Every container but n's is as it was.
Only(n) == box' \in [Node -> Box] /\ \A k \in Node \ {n} : box'[k] = box[k]

LEMMA RemoveBox ==
  ASSUME Typed, NEW n \in Node, stop_and_remove(n)
  PROVE  /\ Only(n) /\ box'[n].status = "none" /\ box'[n].code = None /\ box'[n].id = box[n].id
         /\ holder' = (IF holder = n THEN None ELSE holder)
  <1>1. box \in [Node -> Box] /\ box[n] \in Box BY DEF Typed, EngineTypes
  <1> DEFINE new == [NoBox EXCEPT !.id = box[n].id]
  <1>2. new \in Box /\ new.status = "none" /\ new.code = None /\ new.id = box[n].id BY <1>1 DEF NoBox, Box, Address
  <1>3. box' = [box EXCEPT ![n] = new] /\ holder' = (IF holder = n THEN None ELSE holder) BY DEF stop_and_remove, Released
  <1> HIDE DEF new
  <1> QED BY <1>1, <1>2, <1>3 DEF Only

LEMMA MadeBox ==
  ASSUME Typed, NEW n \in Node, NEW dns \in Address, Made(n, dns)
  PROVE  /\ Only(n) /\ box'[n].status = "running" /\ box'[n].code = None /\ box'[n].dns = dns /\ box'[n].id = NewId(n)
         /\ NewId(n) \in Nat /\ holder' \in {holder, n} /\ (holder' = holder \/ SIDECAR \in Handed)
         /\ filled' = {f \in filled : f[2] # n \/ HasVolume(n)}
  <1>1. box \in [Node -> Box] /\ box[n] \in Box BY DEF Typed, EngineTypes
  <1>2. NewId(n) \in Nat BY <1>1 DEF NewId, Box
  <1> DEFINE new == [status |-> "running", code |-> None, dns |-> dns, id |-> NewId(n),
                     health |-> IF n \in shop.checked THEN "starting" ELSE None]
  <1>3. new \in Box /\ new.status = "running" /\ new.code = None /\ new.dns = dns /\ new.id = NewId(n) BY <1>2 DEF Box
  <1>4. /\ box' = [box EXCEPT ![n] = new] /\ holder' \in {holder, n} /\ (holder' = holder \/ SIDECAR \in Handed)
        /\ filled' = {f \in filled : f[2] # n \/ HasVolume(n)}
    BY DEF Made
  <1> HIDE DEF new
  <1> QED BY <1>1, <1>2, <1>3, <1>4 DEF Only

LEMMA StopBox ==
  ASSUME Typed, NEW n \in Node, stop_container(n)
  PROVE  Only(n)
  BY StopContainerBox DEF Only

LEMMA RestartBox ==
  ASSUME Typed, NEW n \in Node,
         box' = [box EXCEPT ![n].status = "running", ![n].code = None, ![n].health = IF n \in shop.checked THEN "starting" ELSE None]
  PROVE  Only(n) /\ box'[n].status = "running" /\ box'[n].code = None /\ box'[n].dns = box[n].dns /\ box'[n].id = box[n].id
  <1>1. box \in [Node -> Box] /\ box[n] \in Box BY DEF Typed, EngineTypes
  <1> DEFINE new == [box[n] EXCEPT !.status = "running", !.code = None, !.health = IF n \in shop.checked THEN "starting" ELSE None]
  <1>2. new \in Box /\ new.status = "running" /\ new.code = None /\ new.dns = box[n].dns /\ new.id = box[n].id BY <1>1 DEF Box
  <1>3. box' = [box EXCEPT ![n] = new] BY <1>1
  <1> HIDE DEF new
  <1> QED BY <1>1, <1>2, <1>3, ZenonT(60) DEF Only

LEMMA ExitBox ==
  ASSUME Typed, NEW n \in Node, TaskExits(n)
  PROVE  /\ Only(n) /\ box'[n].status = "exited" /\ box'[n].code \in {0, 1} /\ box'[n].dns = box[n].dns /\ box'[n].id = box[n].id
         /\ holder' = (IF holder = n THEN None ELSE holder) /\ n \in shop.tasks /\ Running(n)
         /\ \/ box'[n].code = 0 /\ filled' = filled \cup ({n} \X Stores(n)) /\ \A s \in Stores(n) : Running(s)
            \/ box'[n].code = 1 /\ filled' = filled
  <1>1. box \in [Node -> Box] /\ box[n] \in Box BY DEF Typed, EngineTypes
  <1>2. PICK ok \in BOOLEAN :
       /\ ok => \A s \in Stores(n) : Running(s)
       /\ box' = [box EXCEPT ![n].status = "exited", ![n].code = IF ok THEN 0 ELSE 1]
       /\ filled' = IF ok THEN filled \cup ({n} \X Stores(n)) ELSE filled
    BY DEF TaskExits
  <1> DEFINE code == IF ok THEN 0 ELSE 1
  <1> DEFINE new == [box[n] EXCEPT !.status = "exited", !.code = code]
  <1>c. code \in {0, 1} /\ (ok => code = 0) /\ (~ok => code = 1) OBVIOUS
  <1>4. box' = [box EXCEPT ![n] = new] BY <1>1, <1>2
  <1> HIDE DEF code
  <1>3. new \in Box /\ new.status = "exited" /\ new.code = code /\ new.dns = box[n].dns /\ new.id = box[n].id BY <1>1, <1>c DEF Box
  <1> HIDE DEF new
  <1>5. Only(n) /\ box'[n] = new BY <1>1, <1>3, <1>4 DEF Only
  <1>6. holder' = (IF holder = n THEN None ELSE holder) /\ n \in shop.tasks /\ Running(n) BY DEF TaskExits, Released, IsTask
  <1> QED BY <1>2, <1>c, <1>3, <1>5, <1>6

LEMMA HealthBox ==
  ASSUME Typed, NEW n \in Node, HealthReports(n)
  PROVE  /\ Only(n) /\ box'[n].status = box[n].status /\ box'[n].code = box[n].code
         /\ box'[n].dns = box[n].dns /\ box'[n].id = box[n].id
  <1>1. box \in [Node -> Box] /\ box[n] \in Box BY DEF Typed, EngineTypes
  <1>2. PICK h \in {"healthy", "unhealthy"} : box' = [box EXCEPT ![n].health = h] BY DEF HealthReports
  <1> DEFINE new == [box[n] EXCEPT !.health = h]
  <1>3. /\ new \in Box /\ new.status = box[n].status /\ new.code = box[n].code /\ new.dns = box[n].dns /\ new.id = box[n].id
    BY <1>1 DEF Box
  <1>4. box' = [box EXCEPT ![n] = new] BY <1>1, <1>2
  <1> HIDE DEF new
  <1> QED BY <1>1, <1>3, <1>4 DEF Only

LEMMA VolumeType ==
  ASSUME Typed, NEW n \in Node, ensure_volume(n)
  PROVE  /\ vol' \in [Node -> Volume] /\ \A k \in Node \ {n} : vol'[k] = vol[k]
         /\ vol'[n].created >= vol[n].created /\ (HasVolume(n) => vol'[n].there) /\ (vol[n].there => vol'[n] = vol[n])
         /\ vol'[n] = vol[n] \/ vol'[n].created = vol[n].created + 1
  <1>1. vol \in [Node -> Volume] /\ vol[n] \in Volume BY DEF Typed, EngineTypes
  <1>2. CASE HasVolume(n) /\ ~vol[n].there
    <2> DEFINE new == [there |-> TRUE, created |-> vol[n].created + 1]
    <2>1. new \in Volume /\ new.there /\ new.created = vol[n].created + 1 /\ new.created >= vol[n].created BY <1>1 DEF Volume
    <2>2. vol' = [vol EXCEPT ![n] = new] BY <1>2 DEF ensure_volume
    <2> HIDE DEF new
    <2> QED BY <1>1, <1>2, <2>1, <2>2
  <1>3. CASE ~(HasVolume(n) /\ ~vol[n].there)
    <2>1. vol' = vol BY <1>3 DEF ensure_volume
    <2> QED BY <1>1, <1>3, <2>1 DEF Volume
  <1> QED BY <1>2, <1>3

----------------------------------------------------------------------------
(* The steps, by what they do to the engine.                               *)

\* Steps that only read it.
Reads(r) ==
  \/ Begin(r) \/ RestoreSidecar(r) \/ SidecarThere(r) \/ Restored(r) \/ Plan(r) \/ NextNode(r) \/ Finish(r) \/ TakeNode(r)
  \/ BuildBegins(r) \/ LookForBuilder(r) \/ RetireBuilder(r) \/ SolveBegins(r) \/ BuildEnds(r) \/ PullImage(r)
  \/ WaitForExit(r) \/ WaitForHealthy(r) \/ RecordSeeded(r) \/ TimePasses(r)
\* Steps on the network and the sidecar.
Networks(r) == EnsureNetwork(r) \/ ReadBack(r) \/ PinNetwork(r) \/ ReplaceSidecar(r)
\* Steps on a container.
Boxes(r) == StopOutside(r) \/ MakeContainer(r) \/ RestartInPlace(r) \/ CallOff(r)

LEMMA NextCases ==
  ASSUME Next
  PROVE  (\E r \in Run : Reads(r) \/ Networks(r) \/ Boxes(r)) \/ (\E n \in Node : DeleteNode(n)) \/ Observe \/ Outside
  BY DEF Next, RunStep, Reads, Networks, Boxes

LEMMA ReadsNothing ==
  ASSUME NEW r \in Run, Reads(r)
  PROVE  UNCHANGED <<shop, engineVars>>
  BY DEF Reads, Begin, RestoreSidecar, SidecarThere, Restored, Plan, NextNode, Finish, TakeNode, BuildBegins, LookForBuilder,
         RetireBuilder, SolveBegins, BuildEnds, PullImage, WaitForExit, WaitForHealthy, RecordSeeded, TimePasses

LEMMA NetworksNothing ==
  ASSUME NEW r \in Run, Networks(r)
  PROVE  UNCHANGED <<shop, box, holder, vol, filled, cfg>>
  BY DEF Networks, EnsureNetwork, ReadBack, PinNetwork, ReplaceSidecar

LEMMA ShopSame ==
  ASSUME [Next]_vars
  PROVE  shop' = shop
  <1>1. CASE UNCHANGED vars BY <1>1 DEF vars
  <1>2. ASSUME NEW r \in Run, Boxes(r) PROVE shop' = shop BY <1>2 DEF Boxes, StopOutside, MakeContainer, RestartInPlace, CallOff
  <1>3. CASE (\E n \in Node : DeleteNode(n)) \/ Observe \/ Outside BY <1>3 DEF DeleteNode, Observe, Outside
  <1> QED BY <1>1, <1>2, <1>3, NextCases, ReadsNothing, NetworksNothing

BoxTypes == box \in [Node -> Box] /\ holder \in Node \cup {None}
DataTypes == vol \in [Node -> Volume] /\ filled \subseteq Node \X Node /\ cfg \in [Node -> Nat]

LEMMA BoxTypesStep ==
  ASSUME Ready, [Next]_vars
  PROVE  BoxTypes'
  <1>0. Typed /\ BoxTypes BY DEF Ready, Typed, EngineTypes, BoxTypes
  <1>1. CASE UNCHANGED <<box, holder>> BY <1>0, <1>1 DEF BoxTypes
  <1>2. ASSUME NEW n \in Node, Only(n), holder' \in {holder, n, None} PROVE BoxTypes' BY <1>0, <1>2 DEF BoxTypes, Only
  <1>3. ASSUME NEW n \in Node, stop_container(n) PROVE BoxTypes' BY <1>0, <1>2, <1>3, StopBox DEF stop_container, Released
  <1>4. ASSUME NEW n \in Node, stop_and_remove(n) PROVE BoxTypes' BY <1>0, <1>2, <1>4, RemoveBox
  <1>5. ASSUME NEW n \in Node, NEW r \in Run, Made(n, runs[r].dns) PROVE BoxTypes'
    <2>1. runs[r].dns \in Address BY ReadyRun DEF RunRec
    <2> QED BY <1>0, <1>2, <1>5, <2>1, MadeBox
  <1>6. ASSUME NEW r \in Run, Boxes(r) PROVE BoxTypes'
    <2>1. CASE StopOutside(r) BY <1>1, <1>3, <2>1, StopOutsideRuns
    <2>2. CASE MakeContainer(r) BY <1>4, <1>5, <2>2, MakeContainerRuns DEF Removed
    <2>3. CASE RestartInPlace(r)
      <3>1. CASE UNCHANGED <<box, holder>> BY <1>1, <3>1
      <3>2. CASE /\ box' = [box EXCEPT ![Now(r)].status = "running", ![Now(r)].code = None,
                                       ![Now(r)].health = IF Now(r) \in shop.checked THEN "starting" ELSE None]
                 /\ \E a \in Handed : holder' = IF Running(Now(r)) \/ a # SIDECAR THEN holder ELSE Now(r)
        <4>1. Now(r) \in Node BY <2>3, RestartInPlaceRuns
        <4>2. Only(Now(r)) BY <1>0, <3>2, <4>1, RestartBox
        <4>3. holder' \in {holder, Now(r), None} BY <3>2
        <4> QED BY <1>2, <4>1, <4>2, <4>3
      <3> QED BY <2>3, <3>1, <3>2, RestartInPlaceRuns
    <2>4. CASE CallOff(r)
      <3>1. CASE UNCHANGED <<box, holder, filled>> BY <1>1, <3>1
      <3>2. CASE At(r, "make")
        <4>1. Now(r) \in Node BY <3>2, ReadyRun DEF At, AtNode, InHand
        <4> QED BY <1>1, <1>4, <1>5, <2>4, <4>1 DEF CallOff, Removed
      <3> QED BY <2>4, <3>1, <3>2 DEF CallOff
    <2> QED BY <1>6, <2>1, <2>2, <2>3, <2>4 DEF Boxes
  <1>7. CASE \E n \in Node : DeleteNode(n) BY <1>4, <1>7 DEF DeleteNode
  <1>8. CASE Outside
    <2>1. CASE UNCHANGED <<box, holder>> BY <1>1, <2>1
    <2>2. ASSUME NEW n \in Node, TaskExits(n) PROVE BoxTypes' BY <1>0, <1>2, <2>2, ExitBox
    <2>3. ASSUME NEW n \in Node, HealthReports(n) PROVE BoxTypes' BY <1>0, <1>2, <2>3, HealthBox DEF HealthReports
    <2>4. ASSUME NEW n \in Node, ServiceDies(n) PROVE BoxTypes' BY <1>3, <2>4 DEF ServiceDies
    <2> QED BY <1>8, <2>1, <2>2, <2>3, <2>4 DEF Outside, VolumeRemoved, ConfigEdited, SidecarDies, NetworkRemoved, engineVars
  <1>9. CASE UNCHANGED vars \/ Observe BY <1>1, <1>9 DEF vars, engineVars, Observe
  <1>10. ASSUME NEW r \in Run, Reads(r) \/ Networks(r) PROVE BoxTypes' BY <1>1, <1>10, ReadsNothing, NetworksNothing DEF engineVars
  <1> QED BY <1>6, <1>7, <1>8, <1>9, <1>10, NextCases

LEMMA DataTypesStep ==
  ASSUME Ready, [Next]_vars
  PROVE  DataTypes'
  <1>0. Typed /\ DataTypes /\ shop \in Workspace BY DEF Ready, Typed, EngineTypes, DataTypes
  <1>1. CASE UNCHANGED <<vol, filled, cfg>> BY <1>0, <1>1 DEF DataTypes
  <1>2. CASE UNCHANGED <<vol, cfg>> /\ filled' \subseteq filled BY <1>0, <1>2 DEF DataTypes
  <1>3. ASSUME NEW n \in Node, NEW dns, Made(n, dns) PROVE filled' \subseteq filled BY <1>3 DEF Made
  <1>4. ASSUME NEW r \in Run, Boxes(r) PROVE DataTypes'
    <2>1. CASE StopOutside(r) \/ RestartInPlace(r) BY <1>1, <2>1 DEF StopOutside, RestartInPlace
    <2>2. CASE MakeContainer(r)
      <3>1. Now(r) \in Node BY <2>2, MakeContainerRuns
      <3>2. ensure_volume(Now(r)) /\ cfg' = cfg BY <2>2 DEF MakeContainer
      <3>3. filled' \subseteq filled BY <1>3, <2>2, <3>1, MakeContainerRuns DEF Removed
      <3>4. vol' \in [Node -> Volume] BY <1>0, <3>1, <3>2, VolumeType
      <3> QED BY <1>0, <3>2, <3>3, <3>4 DEF DataTypes
    <2>3. CASE CallOff(r)
      <3>1. CASE filled' = filled BY <1>2, <2>3, <3>1 DEF CallOff
      <3>2. CASE At(r, "make") /\ Made(Now(r), runs[r].dns)
        <4>1. Now(r) \in Node BY <3>2, ReadyRun DEF At, AtNode, InHand
        <4> QED BY <1>2, <1>3, <2>3, <3>2, <4>1 DEF CallOff
      <3> QED BY <2>3, <3>1, <3>2 DEF CallOff, Removed
    <2> QED BY <1>4, <2>1, <2>2, <2>3 DEF Boxes
  <1>5. CASE \E n \in Node : DeleteNode(n) BY <1>1, <1>5 DEF DeleteNode
  <1>6. CASE Outside
    <2>1. CASE UNCHANGED <<vol, filled, cfg>> BY <1>1, <2>1
    <2>2. ASSUME NEW n \in Node, TaskExits(n) PROVE DataTypes'
      <3>1. Stores(n) \subseteq Node BY <1>0 DEF Stores, Workspace
      <3>2. filled' \subseteq filled \cup ({n} \X Stores(n)) BY <1>0, <2>2, ExitBox
      <3>3. vol' = vol /\ cfg' = cfg BY <2>2 DEF TaskExits
      <3>4. {n} \X Stores(n) \subseteq Node \X Node BY <3>1
      <3> QED BY <1>0, <3>2, <3>3, <3>4 DEF DataTypes
    <2>3. ASSUME NEW n \in Node, VolumeRemoved(n) PROVE DataTypes'
      <3>1. vol' \in [Node -> Volume] BY <1>0, <2>3 DEF VolumeRemoved, DataTypes, Volume
      <3> QED BY <1>0, <2>3, <3>1 DEF VolumeRemoved, DataTypes
    <2>4. ASSUME NEW n \in Node, ConfigEdited(n) PROVE DataTypes' BY <1>0, <2>4 DEF ConfigEdited, DataTypes
    <2> QED BY <1>6, <2>1, <2>2, <2>3, <2>4 DEF Outside, HealthReports, ServiceDies, SidecarDies, NetworkRemoved, engineVars
  <1>7. CASE UNCHANGED vars \/ Observe BY <1>1, <1>7 DEF vars, engineVars, Observe
  <1>8. ASSUME NEW r \in Run, Reads(r) \/ Networks(r) PROVE DataTypes' BY <1>1, <1>8, ReadsNothing, NetworksNothing DEF engineVars
  <1> QED BY <1>4, <1>5, <1>6, <1>7, <1>8, NextCases

LEMMA EngineTypesStep ==
  ASSUME Ready, [Next]_vars
  PROVE  EngineTypes'
  <1>0. shop \in Workspace /\ Resolved(shop) /\ net \in {"none", "open", "pinned"} /\ sidecar \in Address
    BY DEF Ready, Typed, EngineTypes
  <1>1. shop' = shop BY ShopSame
  <1>2. shop' \in Workspace /\ Resolved(shop)' BY <1>0, <1>1 DEF Resolved
  <1>3. net' \in {"none", "open", "pinned"} /\ sidecar' \in Address
    <2>1. CASE UNCHANGED <<net, sidecar>> BY <1>0, <2>1
    <2>2. ASSUME NEW r \in Run, EnsureNetwork(r) \/ ReadBack(r) \/ PinNetwork(r) PROVE net' \in {"none", "open", "pinned"} /\ sidecar' = sidecar
      BY <1>0, <2>2 DEF EnsureNetwork, ReadBack, PinNetwork
    <2>3. ASSUME NEW r \in Run, ReplaceSidecar(r) PROVE net' = net /\ sidecar' \in Address
      <3>1. net' = net BY <2>3 DEF ReplaceSidecar
      <3> QED BY <1>0, <2>3, <3>1, ReplaceSidecarRuns
    <2>4. CASE Outside BY <1>0, <2>4 DEF Outside, TaskExits, HealthReports, ServiceDies, VolumeRemoved, ConfigEdited, SidecarDies,
                                        NetworkRemoved, engineVars, Address
    <2>5. CASE UNCHANGED vars \/ Observe BY <2>1, <2>5 DEF vars, engineVars, Observe
    <2>6. ASSUME NEW r \in Run, Reads(r) \/ Boxes(r) PROVE UNCHANGED <<net, sidecar>>
      BY <2>6, ReadsNothing DEF engineVars, Boxes, StopOutside, MakeContainer, RestartInPlace, CallOff
    <2>7. CASE \E n \in Node : DeleteNode(n) BY <2>1, <2>7 DEF DeleteNode
    <2> QED BY <1>0, <2>1, <2>2, <2>3, <2>4, <2>5, <2>6, <2>7, NextCases DEF Networks
  <1> QED BY <1>2, <1>3, BoxTypesStep, DataTypesStep DEF EngineTypes, BoxTypes, DataTypes

----------------------------------------------------------------------------
(* Types of what the workspace keeps.                                      *)

LEMMA NewOneRun ==
  ASSUME Ready, NEW r \in Run, Begin(r) \/ RestoreSidecar(r)
  PROVE  runs' \in [Run -> RunRec] /\ Others(r) /\ Fits(runs'[r]) /\ runs[r] = Idle
  <1>1. ASSUME runs' \in [Run -> RunRec], Others(r), runs[r] = Idle, runs'[r].kind = "restore", runs'[r].at = "sidecar",
               Keeps(Idle, runs'[r], {"kind", "at"})
        PROVE  Fits(runs'[r])
    <2>1. \A f \in Field \ {"kind", "at"} : runs'[r][f] = Idle[f] BY <1>1 DEF Keeps
    <2>2. Fits(Idle) BY IdleFits
    <2>3. Sound(runs'[r]) BY <1>1, <2>1 DEF Sound, Field, Idle, AtNode, InHand, Main, Early
    <2>4. Ordered(runs'[r]) BY <1>1, <2>1, <2>2 DEF Fits, Ordered, Field, Idle, AtNode, InHand
    <2> QED BY <2>1, <2>2, <2>3, <2>4 DEF Fits, Within, Field, Idle
  <1>2. CASE RestoreSidecar(r) BY <1>1, <1>2, RestoreSidecarRuns
  <1>3. CASE Begin(r)
    <2>1. \A f \in Field \ {"kind", "of", "at", "seen"} : runs'[r][f] = Idle[f] BY <1>3, BeginRuns DEF Keeps
    <2>2. Fits(Idle) BY IdleFits
    <2>3. /\ runs'[r].at = "network" /\ runs'[r].seen = record' /\ record' \in Records /\ runs[r] = Idle /\ runs'[r].kind \in Main
          /\ runs'[r].kind = "flow" => runs'[r].of \in shop.flows
          /\ runs'[r].kind \in {"node", "start"} => runs'[r].of \in Node
          /\ runs' \in [Run -> RunRec] /\ Others(r)
      BY <1>3, BeginRuns DEF Main
    <2>4. Sound(runs'[r]) BY <2>1, <2>3 DEF Sound, Field, Idle, AtNode, InHand, Main, Early
    <2>5. Ordered(runs'[r]) BY <2>1, <2>2, <2>3 DEF Fits, Ordered, Field, Idle, AtNode, InHand
    <2> QED BY <2>1, <2>2, <2>3, <2>4, <2>5 DEF Fits, Within, Field, Idle
  <1> QED BY <1>2, <1>3

LEMMA ActorStep ==
  ASSUME Ready, NEW r \in Run, Reads(r) \/ Networks(r) \/ Boxes(r)
  PROVE  runs' = runs \/ Begin(r) \/ RestoreSidecar(r) \/ OneRun(r)
  <1>1. CASE Restored(r) \/ Finish(r) BY <1>1, EndsOneRun DEF Restored, Finish
  <1>2. CASE SidecarThere(r) \/ Networks(r) BY <1>2, EarlyOneRun DEF Networks
  <1>3. CASE Plan(r) BY <1>3, PlanOneRun
  <1>4. CASE NextNode(r) BY <1>4, NextNodeOneRun
  <1>5. CASE TakeNode(r) \/ BuildBegins(r) \/ LookForBuilder(r) \/ RetireBuilder(r) \/ SolveBegins(r) \/ TimePasses(r)
    BY <1>5, HandOneRun
  <1>6. CASE BuildEnds(r) \/ PullImage(r) \/ MakeContainer(r) BY <1>6, MakeOneRun
  <1>7. CASE WaitForExit(r) \/ WaitForHealthy(r) \/ RecordSeeded(r) \/ RestartInPlace(r) BY <1>7, WaitOneRun
  <1>8. CASE StopOutside(r) BY <1>8, StopOutsideOneRun
  <1>9. CASE CallOff(r) BY <1>9, EndsOneRun DEF CallOff
  <1> QED BY <1>1, <1>2, <1>3, <1>4, <1>5, <1>6, <1>7, <1>8, <1>9 DEF Reads, Boxes

\* The run that steps is the only one that changes.
LEMMA OtherSame ==
  ASSUME Ready, NEW s \in Run, NEW r \in Run, s # r, Reads(s) \/ Networks(s) \/ Boxes(s)
  PROVE  runs'[r] = runs[r]
  <1>1. CASE Begin(s) \/ RestoreSidecar(s) BY <1>1, NewOneRun DEF Others
  <1>2. CASE OneRun(s) BY <1>2 DEF OneRun, Others
  <1> QED BY <1>1, <1>2, ActorStep

LEMMA RunsStep ==
  ASSUME Ready, [Next]_vars
  PROVE  \/ runs' = runs
         \/ \E r \in Run : Begin(r) \/ RestoreSidecar(r)
         \/ \E r \in Run : OneRun(r)
  <1>1. CASE UNCHANGED vars BY <1>1 DEF vars
  <1>2. CASE (\E n \in Node : DeleteNode(n)) \/ Observe \/ Outside BY <1>2 DEF DeleteNode, Observe, Outside
  <1> QED BY <1>1, <1>2, ActorStep, NextCases

LEMMA FitsAll ==
  ASSUME Ready, [Next]_vars
  PROVE  runs' \in [Run -> RunRec] /\ \A r \in Run : Fits(runs'[r])
  <1>1. runs \in [Run -> RunRec] /\ \A r \in Run : Fits(runs[r]) BY FitsBefore DEF Ready, Typed, RunTypes
  <1>2. ASSUME NEW r \in Run, runs' \in [Run -> RunRec], Others(r), Fits(runs'[r])
        PROVE  \A s \in Run : Fits(runs'[s])
    <2> TAKE s \in Run
    <2>1. CASE s = r BY <1>2, <2>1
    <2>2. CASE s # r
      <3>1. runs'[s] = runs[s] BY <1>2, <2>2 DEF Others
      <3> QED BY <1>1, <3>1
    <2> QED BY <2>1, <2>2
  <1>3. CASE runs' = runs BY <1>1, <1>3
  <1>4. CASE \E r \in Run : Begin(r) \/ RestoreSidecar(r) BY <1>2, <1>4, NewOneRun
  <1>5. CASE \E r \in Run : OneRun(r) BY <1>2, <1>5 DEF OneRun
  <1> QED BY <1>3, <1>4, <1>5, RunsStep

LEMMA SoundStep ==
  ASSUME Ready, [Next]_vars
  PROVE  runs' \in [Run -> RunRec] /\ (\A r \in Run : Sound(runs[r]) /\ Ordered(runs[r]))' /\ WaitInv'
  <1>1. shop' = shop BY ShopSame
  <1>2. ASSUME NEW r \in Run PROVE (Sound(runs[r]) /\ Ordered(runs[r]))' /\ runs'[r].waited <= runs'[r].clock /\ runs'[r].clock <= RUN_LIMIT
    <2>1. Sound(runs'[r]) /\ Ordered(runs'[r]) /\ Within(runs'[r]) BY FitsAll DEF Fits
    <2>2. Sound(runs[r])' BY <1>1, <2>1 DEF Sound
    <2>3. Ordered(runs[r])' BY <1>1, <2>1 DEF Ordered
    <2> QED BY <2>1, <2>2, <2>3 DEF Within
  <1> QED BY <1>2, FitsAll DEF WaitInv

LEMMA ObserveType ==
  ASSUME Typed, Observe, NEW n \in Node
  PROVE  /\ record[n] = None => record'[n] = None
         /\ record[n] \in EntryRec => record'[n] \in EntryRec /\ record'[n].busy = record[n].busy
  <1>0. record \in Records /\ box[n] \in Box BY DEF Typed, RunTypes, EngineTypes
  <1> DEFINE new == [record[n] EXCEPT !.status = ReadStatus(n), !.exit = ReadExit(n)]
  <1>1. record'[n] = IF record[n] = None \/ record[n].busy THEN record[n] ELSE new BY DEF Observe
  <1>2. ASSUME record[n] \in EntryRec PROVE new \in EntryRec /\ new.busy = record[n].busy
    <2>1. ReadStatus(n) \in {"none", "running", "exited", "removed"} /\ ReadExit(n) \in {None, 0, 1}
      BY <1>0 DEF ReadStatus, ReadExit, Box
    <2> QED BY <1>2, <2>1 DEF EntryRec
  <1> HIDE DEF new
  <1> QED BY <1>1, <1>2

LEMMA RecordStep ==
  ASSUME Ready, [Next]_vars
  PROVE  record' \in Records
  <1>0. Typed /\ record \in Records BY DEF Ready, Typed, RunTypes
  <1>1. CASE UNCHANGED record BY <1>0, <1>1
  <1>2. ASSUME NEW r \in Run, Ends(r) PROVE record' \in Records BY <1>0, <1>2, UnmarkType DEF Ends
  <1>3. ASSUME NEW n \in Node, Cleared(n) PROVE record' \in Records BY <1>0, <1>3, ClearedType
  <1>4. ASSUME NEW r \in Run, NodeFails(r), runs[r].at \in AtNode PROVE record' \in Records BY <1>3, <1>4, ReadyRun DEF NodeFails
  <1>5. ASSUME NEW n \in Node, NEW e \in EntryRec \cup {None}, record' = [record EXCEPT ![n] = e] PROVE record' \in Records
    BY <1>0, <1>5 DEF Records
  <1>6. ASSUME NEW r \in Run, Reads(r) PROVE record' \in Records
    <2>1. CASE Begin(r) BY <2>1, BeginRuns
    <2>2. CASE Restored(r) \/ Finish(r) BY <1>2, <2>2 DEF Restored, Finish
    <2>3. CASE NextNode(r)
      <3>1. ASSUME NEW n \in Node, Marked(n) PROVE record' \in Records BY <1>0, <3>1, MarkedType
      <3> QED BY <1>1, <2>3, <3>1, NextNodeRuns
    <2>4. CASE BuildEnds(r) BY <1>1, <1>4, <2>4, BuildEndsRuns DEF AtNode, InHand
    <2>5. CASE PullImage(r) BY <1>1, <1>4, <2>5 DEF PullImage, At, AtNode, InHand
    <2>6. CASE WaitForExit(r)
      <3>1. Now(r) \in Node /\ runs[r].at \in AtNode BY <2>6, WaitForExitRuns DEF AtNode, InHand
      <3>2. Started(Now(r)) \in EntryRec BY <1>0, <3>1, StartedType
      <3>3. CASE record' = [record EXCEPT ![Now(r)] = Started(Now(r))] BY <1>5, <3>1, <3>2, <3>3
      <3> QED BY <1>1, <1>3, <1>4, <2>6, <3>1, <3>3, WaitForExitRuns
    <2>7. CASE WaitForHealthy(r)
      <3>1. Now(r) \in Node /\ runs[r].at \in AtNode BY <2>7, WaitForHealthyRuns DEF AtNode, InHand
      <3>2. Started(Now(r)) \in EntryRec BY <1>0, <3>1, StartedType
      <3>3. CASE record' = [record EXCEPT ![Now(r)] = Started(Now(r))] BY <1>5, <3>1, <3>2, <3>3
      <3> QED BY <1>4, <2>7, <3>1, <3>3, WaitForHealthyRuns DEF Answered
    <2>8. CASE RecordSeeded(r)
      <3>1. Now(r) \in Node /\ record' = [record EXCEPT ![Now(r)] = Started(Now(r))] BY <2>8, RecordSeededRuns
      <3>2. Started(Now(r)) \in EntryRec BY <1>0, <3>1, StartedType
      <3> QED BY <1>5, <3>1, <3>2
    <2>9. CASE \/ RestoreSidecar(r) \/ SidecarThere(r) \/ Plan(r) \/ TakeNode(r) \/ BuildBegins(r) \/ LookForBuilder(r)
               \/ RetireBuilder(r) \/ SolveBegins(r) \/ TimePasses(r)
      BY <1>1, <2>9 DEF RestoreSidecar, SidecarThere, Plan, TakeNode, BuildBegins, LookForBuilder, RetireBuilder, SolveBegins, TimePasses
    <2> QED BY <1>6, <2>1, <2>2, <2>3, <2>4, <2>5, <2>6, <2>7, <2>8, <2>9 DEF Reads
  <1>7. ASSUME NEW r \in Run, Networks(r) PROVE record' \in Records
    BY <1>1, <1>2, <1>7 DEF Networks, EnsureNetwork, ReadBack, PinNetwork, ReplaceSidecar, Fails
  <1>8. ASSUME NEW r \in Run, Boxes(r) PROVE record' \in Records
    <2>1. CASE StopOutside(r) BY <1>1, <2>1, StopOutsideRuns
    <2>2. CASE MakeContainer(r) BY <1>1, <1>4, <2>2, MakeContainerRuns DEF AtNode, InHand
    <2>3. CASE RestartInPlace(r)
      <3>1. Now(r) \in Node /\ runs[r].at \in AtNode BY <2>3, RestartInPlaceRuns DEF AtNode
      <3>2. ASSUME NEW entry \in EntryRec, Answered(r, entry) PROVE record' \in Records BY <1>5, <3>1, <3>2 DEF Answered
      <3> QED BY <1>4, <2>3, <3>1, <3>2, RestartInPlaceRuns
    <2>4. CASE CallOff(r) BY <1>2, <2>4 DEF CallOff
    <2> QED BY <1>8, <2>1, <2>2, <2>3, <2>4 DEF Boxes
  <1>9. ASSUME NEW n \in Node, DeleteNode(n) PROVE record' \in Records BY <1>5, <1>9 DEF DeleteNode
  <1>10. CASE Observe BY <1>0, <1>10, ObserveType DEF Observe, Records
  <1>11. CASE Outside \/ UNCHANGED vars BY <1>1, <1>11 DEF Outside, vars
  <1> QED BY <1>6, <1>7, <1>8, <1>9, <1>10, <1>11, NextCases

LEMMA KeptStep ==
  ASSUME Ready, [Next]_vars
  PROVE  DOMAIN kept' = Node /\ (kept' = kept \/ \E r \in Run : RecordSeeded(r) /\ save_seed(Now(r)))
  <1>0. DOMAIN kept = Node BY DEF Ready, Typed, RunTypes
  <1>1. CASE kept' = kept BY <1>0, <1>1
  <1>2. ASSUME NEW r \in Run, RecordSeeded(r), save_seed(Now(r)) PROVE DOMAIN kept' = Node BY <1>0, <1>2 DEF save_seed
  <1>3. ASSUME NEW r \in Run, Reads(r), ~RecordSeeded(r) PROVE kept' = kept
    BY <1>3 DEF Reads, Begin, RestoreSidecar, SidecarThere, Restored, Plan, NextNode, Finish, TakeNode, BuildBegins, LookForBuilder,
         RetireBuilder, SolveBegins, BuildEnds, PullImage, WaitForExit, WaitForHealthy, TimePasses
  <1>4. ASSUME NEW r \in Run, RecordSeeded(r) PROVE kept' = kept \/ save_seed(Now(r)) BY <1>4 DEF RecordSeeded
  <1>5. ASSUME NEW r \in Run, Networks(r) PROVE kept' = kept BY <1>5 DEF Networks, EnsureNetwork, ReadBack, PinNetwork, ReplaceSidecar, Fails
  <1>6. ASSUME NEW r \in Run, Boxes(r) PROVE kept' = kept BY <1>6 DEF Boxes, StopOutside, MakeContainer, RestartInPlace, CallOff
  <1>7. CASE (\E n \in Node : DeleteNode(n)) \/ Observe \/ Outside \/ UNCHANGED vars BY <1>1, <1>7 DEF DeleteNode, Observe, Outside, vars
  <1> QED BY <1>1, <1>2, <1>3, <1>4, <1>5, <1>6, <1>7, NextCases

(* The builder.                                                            *)

LEMMA SshSet ==
  ASSUME NEW b \in BuilderRec, NEW sock \in Agents \cup {None}
  PROVE  LET c == set_ssh_auth_sock(b, sock) IN
         c \in BuilderRec /\ c.env = sock /\ c.host = b.host /\ c.kit = b.kit /\ c.solving = b.solving
  BY DEF set_ssh_auth_sock, BuilderRec
LEMMA StoredSet ==
  ASSUME NEW b \in BuilderRec, NEW i \in Node \cup {SidecarImage}
  PROVE  LET c == Stored(b, i) IN
         c \in BuilderRec /\ c.env = b.env /\ c.host = b.host /\ c.kit = b.kit /\ c.solving = b.solving
  BY DEF Stored, BuilderRec
LEMMA DroppedSet ==
  ASSUME NEW b \in BuilderRec, NEW r
  PROVE  LET c == SolveDropped(b, r) IN
         c \in BuilderRec /\ c.env = b.env /\ c.host = b.host /\ c.kit = b.kit /\ c.solving = b.solving \ {r}
  BY DEF SolveDropped, BuilderRec
LEMMA RetiredSet ==
  ASSUME NEW b \in BuilderRec, NEW want \in {None, "v1", "v2", DEFAULT}
  PROVE  LET c == retire_builder_if_image_changed(b, want) IN
         /\ c \in BuilderRec /\ c.env = b.env /\ c.host = b.host
         /\ \/ c.kit = b.kit /\ c.solving = b.solving /\ (want = DEFAULT \/ b.kit \in {want, None})
            \/ c.kit = None /\ c.solving = {}
  BY DEF retire_builder_if_image_changed, BuilderRec
LEMMA BootSet ==
  ASSUME NEW b \in BuilderRec, NEW r \in Run, NEW want \in {None, "v1", "v2", DEFAULT}
  PROVE  LET c == Bootstrap(b, r, want) IN
         /\ c \in BuilderRec /\ c.env = b.env /\ c.host = b.host /\ c.solving = b.solving \cup {r}
         /\ c.kit = IF b.kit = None THEN want ELSE b.kit
  BY DEF Bootstrap, BuilderRec
\* A build that ended: its solve is gone, and so is the agent it was lent.
LEMMA UnlentSet ==
  ASSUME Ready, NEW r \in Run, NEW b \in BuilderRec
  PROVE  LET c == Unlent(b, r) IN
         /\ c \in BuilderRec /\ c.host = b.host /\ c.kit = b.kit /\ c.solving = b.solving
         /\ runs[r].sock = None => c.env = b.env
  <1>1. runs[r].was \in Agents \cup {None} BY ReadyRun DEF RunRec
  <1> QED BY <1>1, SshSet DEF Unlent
LEMMA BuildOver ==
  ASSUME Ready, NEW r \in Run, Now(r) \in Node,
         builder' = Unlent(load_image_tar(builder, r, Now(r)), r) \/ builder' = Unlent(SolveDropped(builder, r), r)
  PROVE  /\ builder' \in BuilderRec /\ builder'.host = builder.host /\ builder'.kit = builder.kit
         /\ builder'.solving = builder.solving \ {r} /\ (runs[r].sock = None => builder'.env = builder.env)
  <1>0. builder \in BuilderRec BY DEF Ready, Typed, RunTypes
  <1> DEFINE d == SolveDropped(builder, r)
  <1> DEFINE e == Stored(d, Now(r))
  <1>1. d \in BuilderRec /\ d.env = builder.env /\ d.host = builder.host /\ d.kit = builder.kit /\ d.solving = builder.solving \ {r}
    BY <1>0, DroppedSet
  <1>2. e \in BuilderRec /\ e.env = d.env /\ e.host = d.host /\ e.kit = d.kit /\ e.solving = d.solving BY <1>1, StoredSet
  <1>3. builder' = Unlent(d, r) \/ builder' = Unlent(e, r) BY DEF load_image_tar
  <1> HIDE DEF d, e
  <1> QED BY <1>1, <1>2, <1>3, UnlentSet

\* What other steps leave of it.
Unbuilding == builder'.env = builder.env /\ builder'.host = builder.host /\ builder'.kit = builder.kit /\ builder'.solving = builder.solving
LEMMA BuilderStep ==
  ASSUME Ready, [Next]_vars
  PROVE  /\ builder' \in BuilderRec
         /\ \/ Unbuilding
            \/ \E r \in Run : BuildBegins(r) \/ RetireBuilder(r) \/ SolveBegins(r) \/ BuildEnds(r) \/ CallOff(r)
            \/ Outside /\ builder'.host # None /\ builder'.env = builder.env /\ builder'.kit = builder.kit /\ builder'.solving = builder.solving
  <1>0. builder \in BuilderRec BY DEF Ready, Typed, RunTypes
  <1>1. CASE UNCHANGED builder BY <1>0, <1>1 DEF Unbuilding
  <1>2. ASSUME NEW r \in Run, Reads(r) PROVE UNCHANGED builder \/ PullImage(r) \/ BuildBegins(r) \/ RetireBuilder(r) \/ SolveBegins(r) \/ BuildEnds(r)
    BY <1>2 DEF Reads, Begin, RestoreSidecar, SidecarThere, Restored, Plan, NextNode, Finish, TakeNode, LookForBuilder,
         WaitForExit, WaitForHealthy, RecordSeeded, TimePasses
  <1>3. ASSUME NEW r \in Run, PullImage(r) PROVE builder' \in BuilderRec /\ Unbuilding
    <2>1. Now(r) \in Node BY <1>3, ReadyRun DEF PullImage, At, AtNode, InHand
    <2> QED BY <1>0, <1>3, <2>1, StoredSet DEF PullImage, Unbuilding
  <1>4. ASSUME NEW r \in Run, BuildBegins(r) PROVE builder' \in BuilderRec BY <1>0, <1>4, BuildBeginsRuns, SshSet
  <1>5. ASSUME NEW r \in Run, RetireBuilder(r) \/ SolveBegins(r) PROVE builder' \in BuilderRec
    <2>1. runs[r].want \in {None, "v1", "v2", DEFAULT} BY ReadyRun DEF RunRec
    <2> QED BY <1>0, <1>5, <2>1, RetiredSet, BootSet, SMTT(40) DEF RetireBuilder, SolveBegins
  <1>6. ASSUME NEW r \in Run, BuildEnds(r) PROVE builder' \in BuilderRec BY <1>6, BuildEndsRuns, BuildOver
  <1>7. ASSUME NEW r \in Run, CallOff(r) PROVE builder' \in BuilderRec BY <1>0, <1>7, DroppedSet DEF CallOff
  <1>8. ASSUME NEW r \in Run, Networks(r) PROVE builder' \in BuilderRec /\ Unbuilding
    <2>1. CASE UNCHANGED builder BY <1>1, <2>1, <1>0 DEF Unbuilding
    <2>2. CASE ensure_built BY <1>0, <2>2, StoredSet DEF ensure_built, Unbuilding
    <2> QED BY <1>8, <2>1, <2>2 DEF Networks, EnsureNetwork, ReadBack, PinNetwork, ReplaceSidecar, Fails
  <1>9. ASSUME NEW r \in Run, Boxes(r), ~CallOff(r) PROVE UNCHANGED builder BY <1>9 DEF Boxes, StopOutside, MakeContainer, RestartInPlace
  <1>10. CASE (\E n \in Node : DeleteNode(n)) \/ Observe \/ UNCHANGED vars BY <1>1, <1>10 DEF DeleteNode, Observe, vars
  <1>11. CASE Outside
    <2>1. CASE UNCHANGED builder BY <1>1, <2>1
    <2>2. CASE BuildxUpgraded
      <3>1. builder' = [builder EXCEPT !.host = "v2"] /\ "v2" # None BY <2>2, DefaultAssumption DEF BuildxUpgraded
      <3> QED BY <1>0, <1>11, <3>1 DEF BuilderRec
    <2>3. ASSUME NEW n \in Node, ImagePruned(n) PROVE builder' \in BuilderRec /\ Unbuilding
      <3>1. builder' = [builder EXCEPT !.images = @ \ {n}] BY <2>3 DEF ImagePruned
      <3> QED BY <1>0, <3>1 DEF BuilderRec, Unbuilding
    <2> QED BY <1>11, <2>1, <2>2, <2>3 DEF Outside
  <1> QED BY <1>0, <1>1, <1>2, <1>3, <1>4, <1>5, <1>6, <1>7, <1>8, <1>9, <1>10, <1>11, NextCases

(* The history.                                                            *)

GhostField == {"crossed", "mixed", "raced", "early", "again", "stale", "owed", "told"}
\* Every part of it but those of F is as it was.
Recalls(F) == ghost' \in GhostRec /\ \A f \in GhostField \ F : ghost'[f] = ghost[f]

LEMMA OwedSet ==
  ASSUME Typed, NEW S \in SUBSET Node, ghost' = [ghost EXCEPT !.owed = S]
  PROVE  Recalls({"owed"}) /\ ghost'.owed = S
  BY DEF Typed, RunTypes, GhostRec, Recalls, GhostField

LEMMA FailsOwed ==
  ASSUME Ready, NEW r \in Run, ghost' = [ghost EXCEPT !.owed = @ \cup Ahead(r)]
  PROVE  Recalls({"owed"}) /\ ghost'.owed = ghost.owed \cup Ahead(r)
  <1>1. runs[r].todo \subseteq Node /\ ghost.owed \subseteq Node BY ReadyRun DEF Ready, Typed, RunTypes, GhostRec, RunRec
  <1> DEFINE S == ghost.owed \cup Ahead(r)
  <1>2. S \in SUBSET Node BY <1>1 DEF Ahead
  <1>3. ghost' = [ghost EXCEPT !.owed = S] BY DEF Ready, Typed, RunTypes, GhostRec
  <1> HIDE DEF S
  <1>4. Recalls({"owed"}) /\ ghost'.owed = S BY <1>2, <1>3, OwedSet DEF Ready
  <1> QED BY <1>4 DEF S

LEMMA DoneOwed ==
  ASSUME Ready, NEW n, ghost' = [ghost EXCEPT !.owed = @ \ {n}]
  PROVE  Recalls({"owed"}) /\ ghost'.owed = ghost.owed \ {n}
  <1> DEFINE S == ghost.owed \ {n}
  <1>2. S \in SUBSET Node BY DEF Ready, Typed, RunTypes, GhostRec
  <1>3. ghost' = [ghost EXCEPT !.owed = S] BY DEF Ready, Typed, RunTypes, GhostRec
  <1> HIDE DEF S
  <1>4. Recalls({"owed"}) /\ ghost'.owed = S BY <1>2, <1>3, OwedSet DEF Ready
  <1> QED BY <1>4 DEF S

LEMMA DataType ==
  ASSUME Typed, NEW s \in Node
  PROVE  DataOf(s) \in Nat
  BY DEF Typed, EngineTypes, DataOf, Volume, Box

LEMMA ToldSet ==
  ASSUME Typed, NEW n \in Node, ghost' = [ghost EXCEPT !.told = @ \cup {<<n, s, DataOf(s)>> : s \in shop.seeds[n]}]
  PROVE  Recalls({"told"}) /\ ghost'.told = ghost.told \cup {<<n, s, DataOf(s)>> : s \in shop.seeds[n]}
  <1> DEFINE new == {<<n, s, DataOf(s)>> : s \in shop.seeds[n]}
  <1>1. shop.seeds[n] \subseteq Node BY DEF Typed, EngineTypes, Workspace
  <1>2. new \subseteq Node \X Node \X Nat BY <1>1, DataType
  <1>3. ghost \in GhostRec /\ ghost' = [ghost EXCEPT !.told = @ \cup new] BY DEF Typed, RunTypes
  <1> HIDE DEF new
  <1>4. Recalls({"told"}) /\ ghost'.told = ghost.told \cup new BY <1>2, <1>3 DEF GhostRec, Recalls, GhostField
  <1> QED BY <1>4 DEF new

\* What of a start the properties speak of.
Links(n) == {p \in ghost.stale : p[1] # n}
            \cup {<<m, n>> : m \in {k \in Node : {k, n} \cap shop.tasks = {} /\ <<k, n>> \in shop.requires /\ Running(k)}}
TooEarly(n) ==
  /\ ~ghost.crossed
  /\ \E m \in Migrations(n) \ ghost.owed : box[shop.migrates[m]].status # "none" /\ <<m, shop.migrates[m]>> \notin filled
Again(r, n) ==
  /\ ~ghost.crossed /\ ~Forced(runs[r], n) /\ shop.seeds[n] # {} /\ seeded_data(n) # None
  /\ \A s \in shop.seeds[n] : <<n, s, DataOf(s)>> \in ghost.told
LEMMA StartsSet ==
  ASSUME Typed, NEW r \in Run, NEW n \in Node, Starts(r, n)
  PROVE  /\ Recalls({"stale", "early", "again"}) /\ ghost'.stale = Links(n)
         /\ ghost'.early = (ghost.early \/ TooEarly(n)) /\ ghost'.again = (ghost.again \/ Again(r, n))
  <1>1. ghost \in GhostRec BY DEF Typed, RunTypes
  <1> DEFINE early == ghost.early \/ TooEarly(n)
  <1> DEFINE again == ghost.again \/ Again(r, n)
  <1> DEFINE stale == Links(n)
  <1>2. ghost' = [ghost EXCEPT !.stale = stale, !.early = early, !.again = again]
    BY <1>1 DEF Starts, Links, TooEarly, Again, GhostRec
  <1>3. stale \in SUBSET (Node \X Node)
    <2>1. {p \in ghost.stale : p[1] # n} \subseteq Node \X Node BY <1>1 DEF GhostRec
    <2> DEFINE K == {k \in Node : {k, n} \cap shop.tasks = {} /\ <<k, n>> \in shop.requires /\ Running(k)}
    <2>2. K \subseteq Node /\ stale = {p \in ghost.stale : p[1] # n} \cup {<<m, n>> : m \in K} BY DEF Links
    <2> HIDE DEF K
    <2>3. {<<m, n>> : m \in K} \subseteq Node \X Node BY <2>2
    <2> QED BY <2>1, <2>2, <2>3
  <1>4. early \in BOOLEAN /\ again \in BOOLEAN BY <1>1 DEF GhostRec, TooEarly, Again
  <1> HIDE DEF stale, early, again
  <1>5. Recalls({"stale", "early", "again"}) /\ ghost'.stale = stale /\ ghost'.early = early /\ ghost'.again = again
    BY <1>1, <1>2, <1>3, <1>4 DEF GhostRec, Recalls, GhostField
  <1> QED BY <1>5 DEF stale, early, again

LEMMA BeginSet ==
  ASSUME Typed, NEW r \in Run, Begin(r)
  PROVE  /\ Recalls({"crossed", "stale"}) /\ ghost'.stale = {}
         /\ ghost'.crossed = (ghost.crossed \/ \E s \in Run : runs[s].kind = "start")
  <1>1. ghost \in GhostRec BY DEF Typed, RunTypes
  <1> DEFINE crossed == ghost.crossed \/ \E s \in Run : runs[s].kind = "start"
  <1>2. ghost' = [ghost EXCEPT !.crossed = crossed, !.stale = {}] BY <1>1 DEF Begin, Starting, GhostRec
  <1>3. crossed \in BOOLEAN BY <1>1 DEF GhostRec
  <1> HIDE DEF crossed
  <1>4. Recalls({"crossed", "stale"}) /\ ghost'.stale = {} /\ ghost'.crossed = crossed
    BY <1>1, <1>2, <1>3 DEF GhostRec, Recalls, GhostField
  <1> QED BY <1>4 DEF crossed

LEMMA PinSet ==
  ASSUME Typed, NEW r \in Run, PinNetwork(r)
  PROVE  \/ UNCHANGED ghost /\ net' \in {net, "open"} /\ (net' # net => net = "none")
         \/ /\ Recalls({"raced"}) /\ net = "none" /\ net' = "pinned"
            /\ ghost'.raced = (ghost.raced \/ \E s \in Run : runs[s].kind # "restore" /\ runs[s].dns # None)
  <1>1. ghost \in GhostRec BY DEF Typed, RunTypes
  <1> DEFINE raced == ghost.raced \/ \E s \in Run : runs[s].kind # "restore" /\ runs[s].dns # None
  <1>2. CASE UNCHANGED ghost /\ net' \in {net, "open"} /\ (net' # net => net = "none") BY <1>2
  <1>3. CASE net = "none" /\ net' = "pinned" /\ ghost' = [ghost EXCEPT !.raced = @ \/ \E s \in Run : runs[s].kind # "restore" /\ runs[s].dns # None]
    <2>1. raced \in BOOLEAN BY <1>1 DEF GhostRec
    <2>2. ghost' = [ghost EXCEPT !.raced = raced] BY <1>1, <1>3 DEF GhostRec
    <2> HIDE DEF raced
    <2>3. Recalls({"raced"}) /\ ghost'.raced = raced BY <1>1, <2>1, <2>2 DEF GhostRec, Recalls, GhostField
    <2> QED BY <1>3, <2>3 DEF raced
  <1> QED BY <1>2, <1>3 DEF PinNetwork

LEMMA LookSet ==
  ASSUME Typed, NEW r \in Run, LookForBuilder(r)
  PROVE  Recalls({"mixed"}) /\ ghost'.mixed = (ghost.mixed \/ \E s \in Run \ {r} : runs[s].at \in {"retire", "boot"})
  <1>1. ghost \in GhostRec BY DEF Typed, RunTypes
  <1> DEFINE mixed == ghost.mixed \/ \E s \in Run \ {r} : runs[s].at \in {"retire", "boot"}
  <1>2. ghost' = [ghost EXCEPT !.mixed = mixed] BY <1>1 DEF LookForBuilder, GhostRec
  <1>3. mixed \in BOOLEAN BY <1>1 DEF GhostRec
  <1> HIDE DEF mixed
  <1>4. Recalls({"mixed"}) /\ ghost'.mixed = mixed BY <1>1, <1>2, <1>3 DEF GhostRec, Recalls, GhostField
  <1> QED BY <1>4 DEF mixed

\* Who writes what of it.
Launches(r) == (MakeContainer(r) \/ RestartInPlace(r)) /\ Now(r) \in Node /\ Starts(r, Now(r))
LEMMA GhostStep ==
  ASSUME Ready, [Next]_vars
  PROVE  \/ Recalls({}) \/ Recalls({"owed"})
         \/ \E r \in Run : Begin(r) /\ Recalls({"crossed", "stale"})
         \/ \E r \in Run : PinNetwork(r) /\ Recalls({"raced"})
         \/ \E r \in Run : LookForBuilder(r) /\ Recalls({"mixed"})
         \/ \E r \in Run : RecordSeeded(r) /\ Recalls({"told"})
         \/ \E r \in Run : Launches(r) /\ Recalls({"stale", "early", "again"})
  <1>0. Typed /\ ghost \in GhostRec BY DEF Ready, Typed, RunTypes
  <1>1. UNCHANGED ghost => Recalls({}) BY <1>0 DEF Recalls
  <1>2. ASSUME NEW r \in Run, NodeFails(r) PROVE Recalls({"owed"}) BY <1>2, FailsOwed DEF NodeFails
  <1>3. ASSUME NEW r \in Run, Launches(r) PROVE Recalls({"stale", "early", "again"}) BY <1>0, <1>3, StartsSet DEF Launches
  <1>4. ASSUME NEW r \in Run, Begin(r) PROVE Recalls({"crossed", "stale"}) BY <1>0, <1>4, BeginSet
  <1>5. ASSUME NEW r \in Run, PinNetwork(r) PROVE UNCHANGED ghost \/ Recalls({"raced"}) BY <1>0, <1>5, PinSet
  <1>6. ASSUME NEW r \in Run, LookForBuilder(r) PROVE Recalls({"mixed"}) BY <1>0, <1>6, LookSet
  <1>7. ASSUME NEW r \in Run, RecordSeeded(r) PROVE UNCHANGED ghost \/ Recalls({"told"})
    <2>1. Now(r) \in Node BY <1>7, RecordSeededRuns
    <2> QED BY <1>0, <1>7, <2>1, ToldSet DEF RecordSeeded
  <1>8. ASSUME NEW r \in Run, WaitForExit(r) PROVE Recalls({"owed"}) BY <1>2, <1>8, WaitForExitRuns, FailsOwed, DoneOwed
  <1>9. ASSUME NEW r \in Run, WaitForHealthy(r) \/ BuildEnds(r) \/ PullImage(r) PROVE UNCHANGED ghost \/ Recalls({"owed"})
    BY <1>2, <1>9, WaitForHealthyRuns, BuildEndsRuns DEF PullImage
  <1>10. ASSUME NEW r \in Run, MakeContainer(r) \/ RestartInPlace(r) PROVE Launches(r) \/ Recalls({"owed"})
    BY <1>2, <1>10, MakeContainerRuns, RestartInPlaceRuns DEF Launches
  <1>11. ASSUME NEW r \in Run, CallOff(r) PROVE Recalls({"owed"}) BY <1>11, FailsOwed DEF CallOff
  <1>12. ASSUME NEW r \in Run,
           \/ RestoreSidecar(r) \/ SidecarThere(r) \/ Restored(r) \/ Plan(r) \/ NextNode(r) \/ Finish(r) \/ TakeNode(r)
           \/ BuildBegins(r) \/ RetireBuilder(r) \/ SolveBegins(r) \/ TimePasses(r) \/ StopOutside(r)
         PROVE UNCHANGED ghost
    BY <1>12 DEF RestoreSidecar, SidecarThere, Restored, Plan, NextNode, Finish, TakeNode, BuildBegins, RetireBuilder, SolveBegins,
                 TimePasses, StopOutside
  <1>13. ASSUME NEW r \in Run, EnsureNetwork(r) \/ ReadBack(r) \/ ReplaceSidecar(r) PROVE UNCHANGED ghost
    BY <1>13 DEF EnsureNetwork, ReadBack, ReplaceSidecar, Fails
  <1>14. CASE (\E n \in Node : DeleteNode(n)) \/ Observe \/ Outside \/ UNCHANGED vars
    BY <1>1, <1>14 DEF DeleteNode, Observe, Outside, vars
  <1>15. ASSUME NEW r \in Run, Reads(r)
         PROVE  \/ Recalls({}) \/ Recalls({"owed"}) \/ (Begin(r) /\ Recalls({"crossed", "stale"}))
                \/ (LookForBuilder(r) /\ Recalls({"mixed"})) \/ (RecordSeeded(r) /\ Recalls({"told"}))
    BY <1>1, <1>4, <1>6, <1>7, <1>8, <1>9, <1>12, <1>15 DEF Reads
  <1>16. ASSUME NEW r \in Run, Networks(r) PROVE Recalls({}) \/ (PinNetwork(r) /\ Recalls({"raced"}))
    BY <1>1, <1>5, <1>13, <1>16 DEF Networks
  <1>17. ASSUME NEW r \in Run, Boxes(r) PROVE Recalls({}) \/ Recalls({"owed"}) \/ (Launches(r) /\ Recalls({"stale", "early", "again"}))
    BY <1>1, <1>3, <1>10, <1>11, <1>12, <1>17 DEF Boxes
  <1> QED BY <1>14, <1>15, <1>16, <1>17, NextCases

LEMMA GhostGrows ==
  ASSUME Ready, [Next]_vars
  PROVE  /\ ghost' \in GhostRec
         /\ ghost.crossed => ghost'.crossed
         /\ ghost'.crossed # ghost.crossed => \E r \in Run : Begin(r)
         /\ ghost.mixed => ghost'.mixed
         /\ ghost'.mixed # ghost.mixed => \E r \in Run : LookForBuilder(r)
         /\ ghost.raced => ghost'.raced
         /\ ghost'.raced # ghost.raced => \E r \in Run : PinNetwork(r)
  <1>0. Typed BY DEF Ready
  <1>1. ASSUME Recalls({}) \/ Recalls({"owed"}) \/ Recalls({"told"}) \/ Recalls({"stale", "early", "again"})
        PROVE  ghost' \in GhostRec /\ ghost'.crossed = ghost.crossed /\ ghost'.mixed = ghost.mixed /\ ghost'.raced = ghost.raced
    BY <1>1 DEF Recalls, GhostField
  <1>2. ASSUME NEW r \in Run, Begin(r), Recalls({"crossed", "stale"})
        PROVE  ghost' \in GhostRec /\ (ghost.crossed => ghost'.crossed) /\ ghost'.mixed = ghost.mixed /\ ghost'.raced = ghost.raced
    BY <1>0, <1>2, BeginSet DEF Recalls, GhostField
  <1>3. ASSUME NEW r \in Run, PinNetwork(r), Recalls({"raced"})
        PROVE  ghost' \in GhostRec /\ ghost'.crossed = ghost.crossed /\ ghost'.mixed = ghost.mixed /\ (ghost.raced => ghost'.raced)
    BY <1>0, <1>3, PinSet DEF Recalls, GhostField
  <1>4. ASSUME NEW r \in Run, LookForBuilder(r), Recalls({"mixed"})
        PROVE  ghost' \in GhostRec /\ ghost'.crossed = ghost.crossed /\ (ghost.mixed => ghost'.mixed) /\ ghost'.raced = ghost.raced
    BY <1>0, <1>4, LookSet DEF Recalls, GhostField
  <1> QED BY <1>1, <1>2, <1>3, <1>4, GhostStep

LEMMA TypedStep ==
  ASSUME Ready, [Next]_vars
  PROVE  Typed'
  BY EngineTypesStep, RecordStep, KeptStep, SoundStep, BuilderStep, GhostGrows DEF Typed, RunTypes

----------------------------------------------------------------------------
(* Which runs are on at once.                                              *)

\* Only Begin makes a main run.
LEMMA KindStep ==
  ASSUME Ready, [Next]_vars, NEW r \in Run, runs'[r].kind \in Main
  PROVE  runs'[r].kind = runs[r].kind \/ Begin(r)
  <1>1. CASE runs' = runs BY <1>1
  <1>2. ASSUME NEW s \in Run, Begin(s) PROVE runs'[r].kind = runs[r].kind \/ Begin(r) BY <1>2, BeginRuns DEF Others
  <1>3. ASSUME NEW s \in Run, RestoreSidecar(s) PROVE runs'[r].kind = runs[r].kind BY <1>3, RestoreSidecarRuns DEF Others, Main
  <1>4. ASSUME NEW s \in Run, OneRun(s) PROVE runs'[r].kind = runs[r].kind BY <1>4 DEF OneRun, Others, Main, Idle
  <1> QED BY <1>1, <1>2, <1>3, <1>4, RunsStep

LEMMA AloneStep ==
  ASSUME Ready, [Next]_vars
  PROVE  Alone'
  <1>0. Alone BY DEF Ready, RunInv
  <1>1. SUFFICES ASSUME NEW r \in Run, NEW s \in Run, runs'[r].kind \in Main, runs'[s].kind \in Main, r # s
                 PROVE  runs'[r].kind # "flow" /\ ghost'.crossed
    BY DEF Alone
  <1>2. CASE runs'[r].kind = runs[r].kind /\ runs'[s].kind = runs[s].kind BY <1>0, <1>1, <1>2, GhostGrows DEF Alone
  <1>3. ASSUME NEW q \in Run, NEW p \in Run, p # q, runs'[p].kind \in Main, Begin(q)
        PROVE  runs'[p].kind = "start" /\ runs'[q].kind # "flow" /\ ghost'.crossed
    <2>1. runs'[p] = runs[p] BY <1>3, BeginRuns DEF Others
    <2>2. runs[p].kind = "start" /\ runs'[q].kind # "flow" BY <1>3, <2>1, BeginRuns DEF Main
    <2> QED BY <1>3, <2>1, <2>2, BeginSet DEF Ready
  <1>4. CASE Begin(r) BY <1>1, <1>3, <1>4
  <1>5. CASE Begin(s) BY <1>1, <1>3, <1>5
  <1> QED BY <1>1, <1>2, <1>4, <1>5, KindStep

\* The end of a restoration touches no entry, and its other steps do not either.
LEMMA RestoreEnds ==
  ASSUME Ready, NEW s \in Run, Ends(s), runs[s].kind \notin Main
  PROVE  record' = record
  <1>1. runs[s].of = None /\ runs[s].targets = {}
    <2>1. CASE runs[s].kind = "idle" BY <2>1, ReadyRun DEF Sound, Idle
    <2>2. CASE runs[s].kind = "restore" BY <2>2, ReadyRun DEF Sound, AtNode, InHand
    <2> QED BY <2>1, <2>2, ReadyRun DEF RunRec
  <1>2. record \in Records BY DEF Ready, Typed, RunTypes
  <1>3. \A n \in Node : n # None BY NoneAssumption
  <1>4. record' = [n \in Node |-> record[n]] BY <1>1, <1>3 DEF Ends, Unmark
  <1> QED BY <1>2, <1>4 DEF Records

LEMMA RestoreSteps ==
  ASSUME Ready, NEW s \in Run, Reads(s) \/ Networks(s) \/ Boxes(s), ~Begin(s), runs[s].kind \notin Main
  PROVE  record' = record /\ (SidecarThere(s) \/ ReplaceSidecar(s) \/ Restored(s) \/ RestoreSidecar(s))
  <1>1. runs[s].kind = "idle" => runs[s].at = "idle" BY ReadyRun DEF Sound, Idle
  <1>2. runs[s].at \in {"idle", "sidecar", "replace", "over"} BY <1>1, ReadyRun DEF RunRec, Sound
  <1>3. runs[s].kind # "start" BY DEF Main
  <1>4. SidecarThere(s) \/ ReplaceSidecar(s) \/ Restored(s) \/ RestoreSidecar(s)
    BY <1>2, <1>3 DEF Reads, Networks, Boxes, At, Plan, NextNode, Finish, TakeNode, BuildBegins, LookForBuilder,
         RetireBuilder, SolveBegins, BuildEnds, PullImage, WaitForExit, WaitForHealthy, RecordSeeded, TimePasses,
         EnsureNetwork, ReadBack, PinNetwork, StopOutside, MakeContainer, RestartInPlace, CallOff, Starting
  <1> QED BY <1>4, RestoreEnds DEF SidecarThere, ReplaceSidecar, Restored, RestoreSidecar, Fails

\* From its nodes on, a run knows nothing more of what it has to stop.
Late(r) == runs'[r].kind = "idle" \/ runs'[r].at \in {"next"} \cup AtNode
LEMMA LateSteps ==
  ASSUME Ready, NEW r \in Run, Reads(r) \/ Boxes(r),
         ~Begin(r), ~RestoreSidecar(r), ~SidecarThere(r), ~Plan(r), ~StopOutside(r)
  PROVE  Late(r)
  <1>1. ASSUME Ends(r) PROVE Late(r) BY <1>1, ReadyRun, EndsTurns DEF Late, Idle
  <1>2. ASSUME NodeFails(r), runs[r].at \in AtNode PROVE Late(r) BY <1>2, ReadyRun, NodeFailsTurns DEF Late
  <1>3. CASE Restored(r) \/ Finish(r) \/ CallOff(r) BY <1>1, <1>3 DEF Restored, Finish, CallOff
  <1>4. CASE NextNode(r)
    <2>1. PICK n \in First(runs[r].todo) :
           \/ Turns(r, {"todo"}) \/ Turns(r, {"todo", "blocked"}) \/ runs'[r].at \in {"start", "restart"}
      BY <1>4, NextNodeRuns
    <2>2. runs[r].at = "next" BY <1>4 DEF NextNode, At
    <2> QED BY <2>1, <2>2 DEF Late, AtNode, Turns, Keeps, Field, Idle
  <1>5. CASE TakeNode(r) \/ BuildBegins(r) \/ LookForBuilder(r) \/ RetireBuilder(r) \/ SolveBegins(r)
    BY <1>5, TakeNodeRuns, BuildBeginsRuns, LookForBuilderRuns, RetireBuilderRuns, SolveBeginsRuns DEF Late, AtNode, InHand, FirstPhase
  <1>6. CASE TimePasses(r)
    <2>1. runs'[r].at = runs[r].at BY <1>6, TimePassesRuns DEF Turns, Keeps, Field, Idle
    <2> QED BY <1>6, <2>1 DEF TimePasses, Late, AtNode, InHand
  <1>7. CASE BuildEnds(r) BY <1>2, <1>7, BuildEndsRuns DEF Late, AtNode, InHand
  <1>8. CASE PullImage(r) BY <1>2, <1>8 DEF PullImage, Late, At, AtNode, InHand
  <1>9. CASE MakeContainer(r) BY <1>2, <1>9, MakeContainerRuns DEF Late, AtNode, InHand
  <1>10. CASE WaitForExit(r) BY <1>2, <1>10, WaitForExitRuns DEF Late, AtNode, InHand
  <1>11. CASE WaitForHealthy(r) BY <1>2, <1>11, WaitForHealthyRuns DEF Late, AtNode, InHand, Answered
  <1>12. CASE RecordSeeded(r) BY <1>12, RecordSeededRuns DEF Late
  <1>13. CASE RestartInPlace(r) BY <1>2, <1>13, RestartInPlaceRuns DEF Late, AtNode, Answered
  <1> QED BY <1>3, <1>4, <1>5, <1>6, <1>7, <1>8, <1>9, <1>10, <1>11, <1>12, <1>13 DEF Reads, Boxes

LEMMA KnownStep ==
  ASSUME Ready, [Next]_vars
  PROVE  Known'
  <1>0. Known /\ Alone /\ record \in Records BY DEF Ready, RunInv, Typed, RunTypes
  <1>1. SUFFICES ASSUME NEW r \in Run, NEW n \in Node, runs'[r].kind = "flow"
                 PROVE  /\ runs'[r].at \in Early /\ runs'[r].seen[n] # None => record'[n] \in EntryRec
                        /\ n \in runs'[r].outside => record'[n] \in EntryRec
    BY DEF Known
  <1>2. CASE record[n] \in EntryRec => record'[n] \in EntryRec
    <2>1. CASE runs'[r] = runs[r] BY <1>0, <1>1, <1>2, <2>1 DEF Known
    <2>2. CASE runs'[r].at \in Early /\ runs[r].at \in Early /\ runs'[r].seen = runs[r].seen /\ runs'[r].outside = runs[r].outside
               /\ runs[r].kind = "flow"
      BY <1>0, <1>2, <2>2 DEF Known
    <2> QED
      <3>1. CASE Late(r)
        <4>1. runs'[r].at \notin Early BY <1>1, <3>1 DEF Late, Early, AtNode, InHand
        <4>2. runs'[r].outside = {} BY <1>1, <3>1, FitsAll DEF Fits, Sound, Late, AtNode, InHand
        <4> QED BY <4>1, <4>2
      <3>2. ASSUME Turns(r, {"at", "dns"}), runs[r].at \in Early PROVE runs[r].kind = "flow" /\ runs'[r].seen = runs[r].seen /\ runs'[r].outside = runs[r].outside
        BY <1>1, <3>2 DEF Turns, Keeps, Field, Idle
      <3>3. CASE SidecarThere(r) \/ Networks(r)
        <4>1. runs'[r].kind # "idle" BY <1>1
        <4>2. ~Ends(r) BY <4>1, ReadyRun, EndsTurns DEF Idle
        <4>3. runs[r].at \in Early BY <3>3 DEF SidecarThere, Networks, EnsureNetwork, ReadBack, PinNetwork, ReplaceSidecar, At, Early
        <4>4. ASSUME Turns(r, {"at"}) PROVE Turns(r, {"at", "dns"}) BY <4>4, TurnsMore
        <4>5. Turns(r, {"at", "dns"})
          BY <3>3, <4>2, <4>4, SidecarThereRuns, EnsureNetworkRuns, ReadBackRuns, PinNetworkRuns, ReplaceSidecarRuns DEF Networks
        <4>6. runs'[r].at \in Early \/ runs'[r].at = "over"
          BY <3>3, <4>2, SidecarThereRuns, EnsureNetworkRuns, ReadBackRuns, PinNetworkRuns, ReplaceSidecarRuns DEF Networks, Early, After
        <4>7. runs'[r].at \in Early BY <1>1, <4>6, FitsAll DEF Fits, Sound, Main
        <4> QED BY <2>2, <3>2, <4>3, <4>5, <4>7
      <3>4. CASE Plan(r)
        <4>1. runs'[r].at \notin Early BY <3>4, PlanRuns DEF Early
        <4>a. runs[r].at = "plan" BY <3>4 DEF Plan, At
        <4>b. runs[r].kind = "flow" BY <1>1, <3>4, PlanRuns DEF Turns, Keeps, Field, Idle
        <4>2. runs[r].kind = "flow" /\ runs[r].at = "plan" BY <4>a, <4>b
        <4>3. n \in runs'[r].outside => runs[r].seen[n] # None BY <3>4, <4>2, PlanRuns DEF stop_order
        <4> QED BY <1>0, <1>2, <4>1, <4>2, <4>3 DEF Known, Early
      <3>5. CASE StopOutside(r)
        <4>1. runs[r].at = "outside" BY <3>5 DEF StopOutside, At
        <4>2. runs'[r].at \notin Early BY <3>5, <4>1, StopOutsideRuns DEF Early, Turns, Keeps, Field, Idle
        <4>3. n \in runs'[r].outside => n \in runs[r].outside BY <3>5, StopOutsideRuns DEF Turns, Keeps, Field, Idle
        <4>4. runs[r].kind = "flow" BY <1>1, <3>5, StopOutsideRuns, ZenonT(60) DEF Turns, Keeps, Field, Idle
        <4> QED BY <1>0, <1>2, <4>2, <4>3, <4>4 DEF Known
      <3>6. CASE Begin(r)
        <4>1. Keeps(Idle, runs'[r], {"kind", "of", "at", "seen"}) /\ runs'[r].seen = record' /\ record' \in Records BY <3>6, BeginRuns
        <4>2. runs'[r].outside = {} BY <4>1 DEF Keeps, Field, Idle
        <4> QED BY <4>1, <4>2 DEF Records
      <3>7. CASE RestoreSidecar(r) BY <1>1, <3>7, RestoreSidecarRuns
      <3>8. ASSUME NEW s \in Run, s # r, Reads(s) \/ Networks(s) \/ Boxes(s) PROVE runs'[r] = runs[r] BY <3>8, OtherSame
      <3>9. ASSUME NEW s \in Run, Reads(s) \/ Networks(s) \/ Boxes(s)
            PROVE  \/ s # r \/ Late(r) \/ SidecarThere(r) \/ Networks(r) \/ Plan(r) \/ StopOutside(r) \/ Begin(r) \/ RestoreSidecar(r)
        BY <3>9, LateSteps
      <3>10. CASE (\E k \in Node : DeleteNode(k)) \/ Observe \/ Outside \/ UNCHANGED vars BY <2>1, <3>10 DEF DeleteNode, Observe, Outside, vars
      <3> QED BY <2>1, <3>1, <3>3, <3>4, <3>5, <3>6, <3>7, <3>8, <3>9, <3>10, NextCases
  <1>3. CASE record[n] \in EntryRec /\ record'[n] \notin EntryRec
    <2>1. ASSUME runs'[r] = runs[r] PROVE runs[r].kind = "flow" BY <1>1, <2>1
    <2>2. CASE Observe BY <1>3, <2>2, ObserveType DEF Ready
    <2>3. ASSUME NEW k \in Node, DeleteNode(k) PROVE FALSE BY <1>1, <2>3 DEF DeleteNode, Creating
    <2>4. CASE Outside \/ UNCHANGED vars BY <1>3, <2>4 DEF Outside, vars
    <2>5. ASSUME NEW s \in Run, Reads(s) \/ Networks(s) \/ Boxes(s), s # r PROVE FALSE
      <3>1. runs'[r] = runs[r] BY <2>5, OtherSame
      <3>2. runs[r].kind = "flow" BY <2>1, <3>1
      <3>3. runs[s].kind \notin Main BY <1>0, <2>5, <3>2 DEF Alone, Main
      <3>4. ~Begin(s) BY <3>2, BeginRuns DEF Main
      <3>5. record' = record BY <2>5, <3>3, <3>4, RestoreSteps
      <3> QED BY <1>3, <3>5
    <2>6. ASSUME Reads(r) \/ Networks(r) \/ Boxes(r) PROVE Late(r) \/ StopOutside(r)
      <3>1. ~Ends(r) BY <1>1, ReadyRun, EndsTurns DEF Idle
      <3>2. ~Begin(r) BY <1>1, <1>3, BeginRuns
      <3>3. ~(RestoreSidecar(r) \/ SidecarThere(r) \/ Plan(r)) BY <1>3 DEF RestoreSidecar, SidecarThere, Plan
      <3>4. ~Networks(r) BY <1>3, <3>1 DEF Networks, EnsureNetwork, ReadBack, PinNetwork, ReplaceSidecar, Fails
      <3> QED BY <2>6, <3>2, <3>3, <3>4, LateSteps
    <2>7. CASE Late(r)
      <3>1. runs'[r].at \notin Early BY <1>1, <2>7 DEF Late, Early, AtNode, InHand
      <3>2. runs'[r].outside = {} BY <1>1, <2>7, FitsAll DEF Fits, Sound, Late, AtNode, InHand
      <3> QED BY <3>1, <3>2
    <2>8. CASE StopOutside(r)
      <3>1. \A k \in Node : record[k] \in EntryRec => record'[k] \in EntryRec BY <2>8, StopOutsideRuns
      <3> QED BY <1>3, <3>1
    <2> QED BY <2>2, <2>3, <2>4, <2>5, <2>6, <2>7, <2>8, NextCases
  <1> QED BY <1>2, <1>3

LEMMA NetStep ==
  ASSUME Ready, [Next]_vars
  PROVE  /\ net' = net \/ (\E r \in Run : Networks(r)) \/ (net' = "none" /\ net # "none" /\ ~Attached /\ UNCHANGED <<box, sidecar, holder, runs, ghost>>)
         /\ sidecar' = sidecar \/ (\E r \in Run : ReplaceSidecar(r)) \/ (sidecar' = None /\ UNCHANGED <<box, net, holder, runs, ghost>>)
  <1>1. CASE UNCHANGED <<net, sidecar>> BY <1>1
  <1>2. ASSUME NEW r \in Run, Networks(r), ~ReplaceSidecar(r) PROVE sidecar' = sidecar
    BY <1>2 DEF Networks, EnsureNetwork, ReadBack, PinNetwork
  <1>3. CASE Outside
    <2>1. UNCHANGED <<runs, ghost>> BY <1>3 DEF Outside
    <2>2. \/ UNCHANGED <<net, sidecar>> \/ (net' = "none" /\ net # "none" /\ ~Attached /\ UNCHANGED <<box, sidecar, holder>>)
          \/ (sidecar' = None /\ UNCHANGED <<box, net, holder>>)
      BY <1>3 DEF Outside, TaskExits, HealthReports, ServiceDies, VolumeRemoved, ConfigEdited, SidecarDies, NetworkRemoved, engineVars
    <2> QED BY <2>1, <2>2
  <1>4. CASE UNCHANGED vars \/ Observe BY <1>1, <1>4 DEF vars, engineVars, Observe
  <1>5. ASSUME NEW r \in Run, Reads(r) \/ Boxes(r) PROVE UNCHANGED <<net, sidecar>>
    BY <1>5, ReadsNothing DEF engineVars, Boxes, StopOutside, MakeContainer, RestartInPlace, CallOff
  <1>6. CASE \E n \in Node : DeleteNode(n) BY <1>1, <1>6 DEF DeleteNode
  <1> QED BY <1>1, <1>2, <1>3, <1>4, <1>5, <1>6, NextCases

LEMMA SplitStep ==
  ASSUME Ready, [Next]_vars
  PROVE  SplitInv'
  <1>0. SplitInv /\ shop' = shop BY ShopSame DEF Ready
  <1>1. Layout(shop.prefix)' = Layout(shop.prefix) BY <1>0 DEF Layout
  <1>2. net' = "pinned" => Layout(shop.prefix) # None
    <2>1. CASE net' = net BY <1>0, <2>1 DEF SplitInv
    <2>2. ASSUME NEW r \in Run, Networks(r), net' = "pinned", net # "pinned" PROVE Layout(shop.prefix) # None
      <3>1. At(r, "pin") BY <2>2 DEF Networks, EnsureNetwork, ReadBack, PinNetwork, ReplaceSidecar
      <3> QED BY <1>0, <3>1 DEF SplitInv, At
    <2> QED BY <1>0, <2>1, <2>2, NetStep
  <1>3. ASSUME NEW r \in Run, runs'[r].at = "pin" PROVE Layout(shop.prefix) # None
    <2>1. CASE runs'[r] = runs[r] BY <1>0, <1>3, <2>1 DEF SplitInv
    <2>2. ASSUME NEW s \in Run, s # r, Reads(s) \/ Networks(s) \/ Boxes(s) PROVE runs'[r] = runs[r] BY <2>2, OtherSame
    <2>3. CASE Late(r)
      <3>1. runs'[r].kind # "idle" BY <1>3, FitsAll DEF Fits, Sound, Idle
      <3> QED BY <1>3, <2>3, <3>1 DEF Late, AtNode, InHand
    <2>4. CASE Begin(r) \/ RestoreSidecar(r) \/ SidecarThere(r) \/ Plan(r)
      BY <1>3, <2>4, BeginRuns, RestoreSidecarRuns, SidecarThereRuns, PlanRuns DEF After
    <2>5. CASE StopOutside(r)
      <3>1. runs[r].at = "outside" BY <2>5 DEF StopOutside, At
      <3> QED BY <1>3, <2>5, <3>1, StopOutsideRuns DEF Turns, Keeps, Field, Idle
    <2>6. CASE Networks(r)
      <3>1. ~Ends(r) BY <1>3, ReadyRun, EndsTurns DEF Idle
      <3> QED BY <1>3, <2>6, <3>1, EnsureNetworkRuns, ReadBackRuns, PinNetworkRuns, ReplaceSidecarRuns DEF Networks, After
    <2>7. CASE (\E k \in Node : DeleteNode(k)) \/ Observe \/ Outside \/ UNCHANGED vars BY <2>1, <2>7 DEF DeleteNode, Observe, Outside, vars
    <2> QED BY <2>1, <2>2, <2>3, <2>4, <2>5, <2>6, <2>7, LateSteps, NextCases
  <1> QED BY <1>1, <1>2, <1>3 DEF SplitInv

LEMMA ReadyStep ==
  ASSUME Ready, [Next]_vars
  PROVE  Ready'
  <1>1. RunInv' BY SoundStep, AloneStep, KnownStep DEF RunInv
  <1> QED BY <1>1, TypedStep, SplitStep, SoundStep DEF Ready

LEMMA InitShop ==
  ASSUME Init
  PROVE  shop \in Workspace /\ Resolved(shop) /\ Found(shop)
  <1>1. PICK s \in Shops : shop = [s EXCEPT !.reach = [n \in Node |-> Closure(n, s.requires)]] BY DEF Init
  <1>2. s \in Workspace /\ Resolved(s) /\ Found(s) BY ShopAssumption
  <1> DEFINE R == [n \in Node |-> Closure(n, s.requires)]
  <1>3. R \in [Node -> SUBSET Node] BY DEF Closure
  <1>4. shop = [s EXCEPT !.reach = R] BY <1>1
  <1> HIDE DEF R
  <1>5. shop \in Workspace BY <1>2, <1>3, <1>4 DEF Workspace
  <1>6. /\ shop.tasks = s.tasks /\ shop.once = s.once /\ shop.seeds = s.seeds /\ shop.migrates = s.migrates /\ shop.requires = s.requires
        /\ shop.flows = s.flows /\ shop.up = s.up /\ shop.net = s.net /\ shop.sidecar = s.sidecar /\ shop.prefix = s.prefix
    BY <1>2, <1>4 DEF Workspace
  <1>7. Resolved(shop) BY <1>2, <1>6 DEF Resolved
  <1>8. Found(shop) BY <1>2, <1>6 DEF Found
  <1> QED BY <1>5, <1>7, <1>8

LEMMA InitBox ==
  ASSUME Init
  PROVE  /\ box \in [Node -> Box]
         /\ \A n \in Node :
              /\ box[n].status = "running" <=> (n \in shop.up /\ ~IsTask(n))
              /\ box[n].status = "exited" <=> (n \in shop.up /\ IsTask(n))
              /\ box[n].code = (IF box[n].status = "exited" THEN 0 ELSE None) /\ box[n].id = 0
              /\ box[n].dns = (IF n \in shop.up THEN sidecar ELSE None)
  <1>0. sidecar \in Address BY InitShop DEF Init, Workspace, Address
  <1> DEFINE up(k) == [status |-> IF IsTask(k) THEN "exited" ELSE "running", code |-> IF IsTask(k) THEN 0 ELSE None, dns |-> sidecar,
                       health |-> IF k \in shop.checked THEN "healthy" ELSE None, id |-> 0]
  <1>1. box = [k \in Node |-> IF k \notin shop.up THEN NoBox ELSE up(k)] BY DEF Init
  <1>2. \A k \in Node : /\ up(k) \in Box /\ up(k).status = (IF IsTask(k) THEN "exited" ELSE "running") /\ up(k).id = 0
                        /\ up(k).code = (IF IsTask(k) THEN 0 ELSE None) /\ up(k).dns = sidecar
    BY <1>0 DEF Box
  <1>3. NoBox \in Box /\ NoBox.status = "none" /\ NoBox.code = None /\ NoBox.id = 0 /\ NoBox.dns = None BY DEF NoBox, Box, Address
  <1> HIDE DEF up
  <1>4. box \in [Node -> Box] BY <1>1, <1>2, <1>3
  <1>5. ASSUME NEW n \in Node, n \in shop.up PROVE box[n] = up(n) BY <1>1, <1>5
  <1>6. ASSUME NEW n \in Node, n \notin shop.up PROVE box[n] = NoBox BY <1>1, <1>6
  <1> QED BY <1>2, <1>3, <1>4, <1>5, <1>6

LEMMA InitTyped ==
  ASSUME Init
  PROVE  Typed
  <1>0. shop \in Workspace /\ Resolved(shop) BY InitShop
  <1>1. box \in [Node -> Box] /\ \A n \in Node : box[n].status \in {"none", "running", "exited"} BY InitBox DEF Box
  <1>2. net \in {"none", "open", "pinned"} /\ sidecar \in Address /\ holder \in Node \cup {None} BY <1>0 DEF Init, Workspace, Address
  <1>3. vol \in [Node -> Volume] BY DEF Init, Volume
  <1>4. filled \subseteq Node \X Node
    <2>1. \A t \in shop.tasks \cap shop.up : {t} \X Stores(t) \subseteq Node \X Node BY <1>0 DEF Workspace, Stores
    <2> QED BY <2>1 DEF Init
  <1>5. cfg \in [Node -> Nat] BY DEF Init
  <1>6. record \in Records
    <2> DEFINE e(n) == [hash |-> 1, exit |-> IF IsTask(n) THEN 0 ELSE None, busy |-> FALSE, status |-> box[n].status]
    <2>1. \A n \in Node : e(n) \in EntryRec BY <1>1 DEF EntryRec
    <2>2. record = [n \in Node |-> IF n \notin shop.up THEN None ELSE e(n)] BY DEF Init
    <2> HIDE DEF e
    <2> QED BY <2>1, <2>2 DEF Records
  <1>7. DOMAIN kept = Node BY DEF Init
  <1>8. runs \in [Run -> RunRec] BY IdleType DEF Init
  <1>9. builder \in BuilderRec BY <1>0 DEF Init, BuilderRec, Workspace
  <1>10. ghost \in GhostRec
    <2> DEFINE T == {n \in Node : kept[n] # None}
    <2> DEFINE told == UNION {{<<t, s, DataOf(s)>> : s \in shop.seeds[t]} : t \in T}
    <2>1. \A s \in Node : DataOf(s) \in Nat BY <1>1, <1>3 DEF DataOf, Volume, Box
    <2>2. \A t \in T : shop.seeds[t] \subseteq Node BY <1>0 DEF Workspace
    <2>3. told \subseteq Node \X Node \X Nat
      <3> SUFFICES ASSUME NEW t \in T, NEW s \in shop.seeds[t] PROVE <<t, s, DataOf(s)>> \in Node \X Node \X Nat OBVIOUS
      <3> QED BY <2>1, <2>2
    <2>4. ghost = [crossed |-> FALSE, mixed |-> FALSE, raced |-> FALSE, stale |-> {}, early |-> FALSE, again |-> FALSE, owed |-> {}, told |-> told]
      BY DEF Init
    <2> HIDE DEF told
    <2> QED BY <2>3, <2>4 DEF GhostRec
  <1> QED BY <1>0, <1>1, <1>2, <1>3, <1>4, <1>5, <1>6, <1>7, <1>8, <1>9, <1>10 DEF Typed, EngineTypes, RunTypes

LEMMA InitReady ==
  ASSUME Init
  PROVE  Ready
  <1>1. Typed BY InitTyped
  <1>2. \A r \in Run : runs[r] = Idle BY DEF Init
  <1>3. Sound(Idle) BY DEF Sound, Idle, AtNode, InHand, Main, Early
  <1>4. Ordered(Idle) BY <1>1 DEF Ordered, Idle, AtNode, InHand
  <1>5. Alone /\ Known BY <1>2 DEF Alone, Known, Idle, Main
  <1>6. SplitInv BY <1>2, InitShop DEF SplitInv, Idle, Init, Found
  <1>7. WaitInv BY <1>2, LimitAssumption DEF WaitInv, Idle
  <1>8. RunInv BY <1>2, <1>3, <1>4, <1>5 DEF RunInv
  <1> QED BY <1>1, <1>6, <1>7, <1>8 DEF Ready

----------------------------------------------------------------------------
(* RunsApart: containers and locks.                                        *)

\* The same container again.
Restarts(r) ==
  /\ RestartInPlace(r) /\ Now(r) \in Node /\ box[Now(r)].status # "none" /\ net # "none" /\ Starts(r, Now(r))
  /\ Only(Now(r)) /\ box'[Now(r)].status = "running" /\ box'[Now(r)].code = None
  /\ box'[Now(r)].dns = box[Now(r)].dns /\ box'[Now(r)].id = box[Now(r)].id
  /\ holder' = holder \/ (holder' = Now(r) /\ ~Running(Now(r)) /\ SIDECAR \in Handed)
\* A new container, by the run that goes on with it or by one called off.
Makes(r) ==
  /\ runs[r].at = "make" /\ Now(r) \in Node /\ net # "none" /\ Made(Now(r), runs[r].dns) /\ runs[r].dns \in Address
  /\ MakeContainer(r) \/ (CallOff(r) /\ vol' = vol /\ (HasVolume(Now(r)) => vol[Now(r)].there))

LEMMA RestartsStep ==
  ASSUME Ready, NEW r \in Run, RestartInPlace(r)
  PROVE  Restarts(r) \/ (NodeFails(r) /\ UNCHANGED <<box, holder>>)
  <1>1. CASE NodeFails(r) /\ UNCHANGED <<box, holder>> BY <1>1
  <1>2. CASE /\ box[Now(r)].status # "none" /\ net # "none" /\ Starts(r, Now(r))
             /\ box' = [box EXCEPT ![Now(r)].status = "running", ![Now(r)].code = None,
                                   ![Now(r)].health = IF Now(r) \in shop.checked THEN "starting" ELSE None]
             /\ \E a \in Handed : holder' = IF Running(Now(r)) \/ a # SIDECAR THEN holder ELSE Now(r)
    <2>1. Now(r) \in Node BY RestartInPlaceRuns
    <2>2. /\ Only(Now(r)) /\ box'[Now(r)].status = "running" /\ box'[Now(r)].code = None
          /\ box'[Now(r)].dns = box[Now(r)].dns /\ box'[Now(r)].id = box[Now(r)].id
      BY <1>2, <2>1, RestartBox DEF Ready
    <2>3. holder' = holder \/ (holder' = Now(r) /\ ~Running(Now(r)) /\ SIDECAR \in Handed) BY <1>2
    <2> QED BY <1>2, <2>1, <2>2, <2>3 DEF Restarts
  <1> QED BY <1>1, <1>2, RestartInPlaceRuns

LEMMA BoxStep ==
  ASSUME Ready, [Next]_vars
  PROVE  \/ UNCHANGED <<box, holder>>
         \/ \E n \in Node : stop_container(n) /\ filled' = filled /\ vol' = vol
         \/ \E n \in Node : stop_and_remove(n) /\ filled' = filled
         \/ \E r \in Run : Makes(r) \/ Restarts(r)
         \/ \E n \in Node : TaskExits(n) \/ HealthReports(n)
  <1>1. ASSUME NEW r \in Run, StopOutside(r)
        PROVE  UNCHANGED <<box, holder>> \/ \E n \in Node : stop_container(n) /\ filled' = filled /\ vol' = vol
    <2>1. filled' = filled /\ vol' = vol BY <1>1 DEF StopOutside
    <2> QED BY <1>1, <2>1, StopOutsideRuns
  <1>2. ASSUME NEW r \in Run PROVE runs[r].dns \in Address BY ReadyRun DEF RunRec
  <1>3. ASSUME NEW r \in Run, MakeContainer(r) PROVE Makes(r) \/ \E n \in Node : stop_and_remove(n) /\ filled' = filled
    BY <1>2, <1>3, MakeContainerRuns DEF Makes, Removed
  <1>4. ASSUME NEW r \in Run, CallOff(r)
        PROVE  UNCHANGED <<box, holder>> \/ Makes(r) \/ \E n \in Node : stop_and_remove(n) /\ filled' = filled
    <2>1. CASE At(r, "make")
      <3>1. Now(r) \in Node /\ runs[r].at = "make" BY <2>1, ReadyRun DEF At, AtNode, InHand
      <3> QED BY <1>2, <1>4, <3>1 DEF CallOff, Removed, Makes
    <2>2. CASE ~At(r, "make") BY <1>4, <2>2 DEF CallOff
    <2> QED BY <2>1, <2>2
  <1>5. CASE \E n \in Node : DeleteNode(n) BY <1>5 DEF DeleteNode
  <1>6. CASE Outside BY <1>6 DEF Outside, VolumeRemoved, ConfigEdited, SidecarDies, NetworkRemoved, ServiceDies, engineVars
  <1>7. CASE UNCHANGED vars \/ Observe BY <1>7 DEF vars, engineVars, Observe
  <1>8. ASSUME NEW r \in Run, Reads(r) \/ Networks(r) PROVE UNCHANGED <<box, holder>> BY <1>8, ReadsNothing, NetworksNothing DEF engineVars
  <1> QED BY <1>1, <1>3, <1>4, <1>5, <1>6, <1>7, <1>8, RestartsStep, NextCases DEF Boxes

LEMMA BoxInvStep ==
  ASSUME Ready, BoxInv, [Next]_vars
  PROVE  BoxInv'
  <1>0. Typed /\ box \in [Node -> Box] /\ holder \in Node \cup {None} BY DEF Ready, Typed, EngineTypes
  <1>1. CASE UNCHANGED <<box, holder>> BY <1>1 DEF BoxInv, Running
  <1>2. ASSUME NEW n \in Node, Only(n), box'[n].status = "exited" <=> box'[n].code # None, holder' \in {holder, n, None},
               holder' = n => box'[n].status = "running"
        PROVE  BoxInv'
    BY <1>0, <1>2 DEF BoxInv, Only, Running
  <1>3. ASSUME NEW n \in Node, stop_container(n) PROVE BoxInv'
    <2>1. /\ Only(n) /\ box'[n].status # "running" /\ holder' = (IF holder = n THEN None ELSE holder)
          /\ Running(n) => box'[n].status = "exited" /\ box'[n].code = 1
          /\ ~Running(n) => box'[n] = box[n]
      BY <1>0, <1>3, StopContainerBox, StopBox
    <2>2. box'[n].status = "exited" <=> box'[n].code # None BY <2>1, NoneAssumption DEF BoxInv
    <2>3. holder' # n BY <2>1, NoneAssumption
    <2> QED BY <1>2, <2>1, <2>2, <2>3
  <1>4. ASSUME NEW n \in Node, stop_and_remove(n) PROVE BoxInv' BY <1>0, <1>2, <1>4, RemoveBox, NoneAssumption
  <1>5. ASSUME NEW r \in Run, Makes(r) PROVE BoxInv' BY <1>0, <1>2, <1>5, MadeBox DEF Makes
  <1>6. ASSUME NEW r \in Run, Restarts(r) PROVE BoxInv' BY <1>2, <1>6 DEF Restarts
  <1>7. ASSUME NEW n \in Node, TaskExits(n) PROVE BoxInv' BY <1>0, <1>2, <1>7, ExitBox, NoneAssumption
  <1>8. ASSUME NEW n \in Node, HealthReports(n) PROVE BoxInv'
    <2>1. holder' = holder BY <1>8 DEF HealthReports
    <2> QED BY <1>0, <1>2, <1>8, <2>1, HealthBox, NoneAssumption DEF BoxInv, Running
  <1> QED BY <1>1, <1>3, <1>4, <1>5, <1>6, <1>7, <1>8, BoxStep

\* A node is in hand because it was, or because its lock was free.
LEMMA HandFrom ==
  ASSUME Ready, NEW r \in Run, Reads(r) \/ Networks(r) \/ Boxes(r), runs'[r].at \in InHand
  PROVE  runs'[r].now = runs[r].now /\ (runs[r].at \in InHand \/ (runs[r].at = "start" /\ ~Locked(Now(r))))
  <1>e. ~Ends(r) BY ReadyRun, EndsTurns DEF Idle, InHand
  <1>f. runs[r].at \in AtNode => ~NodeFails(r) BY ReadyRun, NodeFailsTurns DEF InHand
  <1>0. ~Ends(r) /\ (runs[r].at \in AtNode => ~NodeFails(r)) BY <1>e, <1>f
  <1>1. CASE Networks(r) BY <1>0, <1>1, EnsureNetworkRuns, ReadBackRuns, PinNetworkRuns, ReplaceSidecarRuns DEF Networks, InHand, After
  <1>2. CASE Restored(r) \/ Finish(r) \/ CallOff(r) BY <1>0, <1>2, ReadyRun, EndsTurns DEF Restored, Finish, CallOff, Idle, InHand
  <1>3. CASE Begin(r) \/ RestoreSidecar(r) \/ SidecarThere(r) \/ Plan(r)
    BY <1>3, BeginRuns, RestoreSidecarRuns, SidecarThereRuns, PlanRuns DEF After, InHand
  <1>4. CASE StopOutside(r)
    <2>1. runs[r].at = "outside" BY <1>4 DEF StopOutside, At
    <2> QED BY <1>4, <2>1, StopOutsideRuns DEF InHand, Turns, Keeps, Field, Idle
  <1>5. CASE NextNode(r)
    <2>1. \/ Turns(r, {"todo"}) \/ Turns(r, {"todo", "blocked"}) \/ runs'[r].at \in {"start", "restart"} BY <1>5, NextNodeRuns
    <2>2. runs[r].at = "next" BY <1>5 DEF NextNode, At
    <2> QED BY <2>1, <2>2 DEF InHand, Turns, Keeps, Field, Idle
  <1>6. ASSUME NEW F, Turns(r, F), "now" \notin F PROVE runs'[r].now = runs[r].now BY <1>6 DEF Turns, Keeps, Field, Idle
  <1>7. CASE TakeNode(r) BY <1>6, <1>7, TakeNodeRuns
  <1>8. CASE BuildBegins(r) \/ LookForBuilder(r) \/ RetireBuilder(r) \/ SolveBegins(r)
    BY <1>6, <1>8, BuildBeginsRuns, LookForBuilderRuns, RetireBuilderRuns, SolveBeginsRuns DEF InHand
  <1>9. CASE TimePasses(r)
    <2>1. runs[r].at \in {"make", "solve"} BY <1>9 DEF TimePasses
    <2> QED BY <1>6, <1>9, <2>1, TimePassesRuns DEF InHand
  <1>10. CASE BuildEnds(r) BY <1>0, <1>6, <1>10, BuildEndsRuns DEF InHand, AtNode
  <1>11. CASE PullImage(r) BY <1>0, <1>11 DEF PullImage, At, InHand, AtNode
  <1>12. CASE MakeContainer(r) BY <1>0, <1>6, <1>12, MakeContainerRuns DEF InHand, AtNode
  <1>13. CASE WaitForExit(r) BY <1>0, <1>13, WaitForExitRuns DEF InHand, AtNode
  <1>14. CASE WaitForHealthy(r) BY <1>0, <1>14, WaitForHealthyRuns DEF InHand, AtNode, Answered
  <1>15. CASE RecordSeeded(r) BY <1>15, RecordSeededRuns DEF InHand
  <1>16. CASE RestartInPlace(r) BY <1>0, <1>16, RestartInPlaceRuns DEF InHand, AtNode, Answered
  <1> QED BY <1>1, <1>2, <1>3, <1>4, <1>5, <1>7, <1>8, <1>9, <1>10, <1>11, <1>12, <1>13, <1>14, <1>15, <1>16 DEF Reads, Boxes

LEMMA HandInvStep ==
  ASSUME Ready, HandInv, [Next]_vars
  PROVE  HandInv'
  <1>1. CASE runs' = runs BY <1>1 DEF HandInv, Now
  <1>2. ASSUME NEW q \in Run, Reads(q) \/ Networks(q) \/ Boxes(q) PROVE HandInv'
    <2>1. SUFFICES ASSUME NEW r \in Run, NEW s \in Run, r # s, runs'[r].at \in InHand, runs'[s].at \in InHand
                   PROVE  runs'[r].now # runs'[s].now
      BY DEF HandInv, Now
    <2>2. ASSUME NEW p \in Run, p # q, runs'[p].at \in InHand, runs'[q].at \in InHand PROVE runs'[p].now # runs'[q].now
      <3>1. runs'[p] = runs[p] BY <1>2, <2>2, OtherSame
      <3>2. runs'[q].now = runs[q].now /\ (runs[q].at \in InHand \/ ~Locked(Now(q))) BY <1>2, <2>2, HandFrom
      <3> QED BY <2>2, <3>1, <3>2 DEF HandInv, Locked, Now
    <2>3. CASE q # r /\ q # s
      <3>1. runs'[r] = runs[r] /\ runs'[s] = runs[s] BY <1>2, <2>3, OtherSame
      <3> QED BY <2>1, <3>1 DEF HandInv, Now
    <2> QED BY <2>1, <2>2, <2>3
  <1>3. CASE (\E k \in Node : DeleteNode(k)) \/ Observe \/ Outside \/ UNCHANGED vars BY <1>1, <1>3 DEF DeleteNode, Observe, Outside, vars
  <1> QED BY <1>2, <1>3, NextCases

\* What a run keeps from step to step, and which step is an exception.
Drifts(r) ==
  /\ runs'[r].kind = runs[r].kind /\ runs'[r].of = runs[r].of
  /\ runs'[r].sock \in {runs[r].sock, None} \/ BuildBegins(r)
  /\ runs'[r].want \in {runs[r].want, None} \/ LookForBuilder(r)
  /\ runs'[r].dns = runs[r].dns \/ SidecarThere(r) \/ ReplaceSidecar(r)
  /\ (runs'[r].targets = runs[r].targets /\ runs'[r].todo \subseteq runs[r].todo) \/ Plan(r)
  /\ runs[r].failed \subseteq runs'[r].failed /\ runs[r].recreated \subseteq runs'[r].recreated /\ runs[r].bounced \subseteq runs'[r].bounced
Steady == {"kind", "of", "sock", "want", "dns", "targets", "todo", "failed", "recreated", "bounced"}
LEMMA SteadyDrifts ==
  ASSUME NEW r \in Run, NEW F, Turns(r, F), Steady \cap F = {}
  PROVE  Drifts(r)
  <1>1. \A f \in Steady : runs'[r][f] = runs[r][f] BY DEF Turns, Keeps, Field, Idle, Steady
  <1> QED BY <1>1 DEF Drifts, Steady

LEMMA DriftStep ==
  ASSUME Ready, NEW r \in Run, Reads(r) \/ Networks(r) \/ Boxes(r), ~Begin(r), ~RestoreSidecar(r)
  PROVE  runs'[r] = Idle \/ Drifts(r)
  <1>e. ASSUME Ends(r) PROVE runs'[r] = Idle BY <1>e, ReadyRun, EndsTurns
  <1>f. ASSUME NodeFails(r), runs[r].at \in AtNode PROVE Drifts(r)
    <2>1. /\ Turns(r, {"at", "now", "todo", "failed", "sock", "was", "want"})
          /\ runs'[r].todo = runs[r].todo \ {Now(r)} /\ runs'[r].failed = runs[r].failed \cup {Now(r)}
          /\ runs'[r].sock = None /\ runs'[r].want = None
      BY <1>f, ReadyRun, NodeFailsTurns
    <2>2. \A f \in {"kind", "of", "dns", "targets", "recreated", "bounced"} : runs'[r][f] = runs[r][f] BY <2>1 DEF Turns, Keeps, Field, Idle
    <2> QED BY <2>1, <2>2 DEF Drifts
  <1>1. ASSUME Turns(r, {"at", "dns"}), SidecarThere(r) \/ ReplaceSidecar(r) PROVE Drifts(r)
    <2>1. \A f \in Steady \ {"dns"} : runs'[r][f] = runs[r][f] BY <1>1 DEF Turns, Keeps, Field, Idle, Steady
    <2> QED BY <1>1, <2>1 DEF Drifts, Steady
  <1>2. CASE Networks(r) \/ SidecarThere(r)
    BY <1>e, <1>1, <1>2, EnsureNetworkRuns, ReadBackRuns, PinNetworkRuns, SidecarThereRuns, ReplaceSidecarRuns, SteadyDrifts DEF Networks, Steady
  <1>3. CASE Restored(r) \/ Finish(r) \/ CallOff(r) BY <1>e, <1>3 DEF Restored, Finish, CallOff
  <1>4. CASE Plan(r)
    <2>1. Turns(r, {"at", "targets", "todo", "outside"}) BY <1>4, PlanRuns
    <2>2. \A f \in Steady \ {"targets", "todo"} : runs'[r][f] = runs[r][f] BY <2>1 DEF Turns, Keeps, Field, Idle, Steady
    <2> QED BY <1>4, <2>2 DEF Drifts, Steady
  <1>5. CASE StopOutside(r) BY <1>5, StopOutsideRuns, SteadyDrifts DEF Steady
  <1>6. CASE NextNode(r)
    <2>1. \/ (Turns(r, {"todo"}) \/ Turns(r, {"todo", "blocked"})) /\ runs'[r].todo \subseteq runs[r].todo
          \/ Turns(r, {"at", "now"})
      BY <1>6, NextNodeRuns
    <2>2. CASE (Turns(r, {"todo"}) \/ Turns(r, {"todo", "blocked"})) /\ runs'[r].todo \subseteq runs[r].todo
      <3>1. \A f \in Steady \ {"todo"} : runs'[r][f] = runs[r][f] BY <2>2 DEF Turns, Keeps, Field, Idle, Steady
      <3> QED BY <2>2, <3>1 DEF Drifts, Steady
    <2> QED BY <2>1, <2>2, SteadyDrifts DEF Steady
  <1>7. CASE TakeNode(r) \/ RetireBuilder(r) \/ SolveBegins(r) \/ TimePasses(r)
    BY <1>7, TakeNodeRuns, RetireBuilderRuns, SolveBeginsRuns, TimePassesRuns, SteadyDrifts DEF Steady
  <1>8. CASE BuildBegins(r)
    <2>1. Turns(r, {"at", "sock", "was"}) BY <1>8, BuildBeginsRuns, TurnsMore
    <2>2. \A f \in Steady \ {"sock"} : runs'[r][f] = runs[r][f] BY <2>1 DEF Turns, Keeps, Field, Idle, Steady
    <2> QED BY <1>8, <2>2 DEF Drifts, Steady
  <1>9. CASE LookForBuilder(r)
    <2>1. Turns(r, {"at", "want"}) BY <1>9, LookForBuilderRuns
    <2>2. \A f \in Steady \ {"want"} : runs'[r][f] = runs[r][f] BY <2>1 DEF Turns, Keeps, Field, Idle, Steady
    <2> QED BY <1>9, <2>2 DEF Drifts, Steady
  <1>10. CASE BuildEnds(r)
    <2>1. CASE Turns(r, {"at", "sock", "was", "want"}) /\ runs'[r].sock = None /\ runs'[r].want = None
      <3>1. \A f \in Steady \ {"sock", "want"} : runs'[r][f] = runs[r][f] BY <2>1 DEF Turns, Keeps, Field, Idle, Steady
      <3> QED BY <2>1, <3>1 DEF Drifts, Steady
    <2> QED BY <1>f, <1>10, <2>1, BuildEndsRuns DEF AtNode, InHand
  <1>11. CASE PullImage(r)
    <2>1. CASE runs' = runs BY <2>1 DEF Drifts
    <2> QED BY <1>f, <1>11, <2>1 DEF PullImage, At, AtNode, InHand
  <1>12. CASE MakeContainer(r) BY <1>f, <1>12, MakeContainerRuns, SteadyDrifts DEF Steady, AtNode, InHand
  <1>13. CASE WaitForExit(r)
    <2>1. ASSUME Turns(r, {"at", "now", "todo", "seen", "clock", "waited"}), runs'[r].todo = runs[r].todo \ {Now(r)} PROVE Drifts(r)
      <3>1. \A f \in Steady \ {"todo"} : runs'[r][f] = runs[r][f] BY <2>1 DEF Turns, Keeps, Field, Idle, Steady
      <3> QED BY <2>1, <3>1 DEF Drifts, Steady
    <2>2. ASSUME Turns(r, {"at", "now", "todo", "failed", "clock", "waited"}), runs'[r].todo = runs[r].todo \ {Now(r)},
                 runs'[r].failed = runs[r].failed \cup {Now(r)}
          PROVE Drifts(r)
      <3>1. \A f \in Steady \ {"todo", "failed"} : runs'[r][f] = runs[r][f] BY <2>2 DEF Turns, Keeps, Field, Idle, Steady
      <3> QED BY <2>2, <3>1 DEF Drifts, Steady
    <2>3. ASSUME Turns(r, {"at", "clock", "waited"}) PROVE Drifts(r) BY <2>3, SteadyDrifts DEF Steady
    <2> QED BY <1>f, <1>13, <2>1, <2>2, <2>3, WaitForExitRuns DEF AtNode, InHand
  <1>14. ASSUME NEW entry, Answered(r, entry) PROVE Drifts(r)
    <2>1. /\ Turns(r, {"at", "now", "todo", "seen", "clock", "waited", "recreated", "bounced"})
          /\ runs'[r].todo = runs[r].todo \ {Now(r)} /\ runs'[r].bounced = runs[r].bounced \cup {Now(r)}
          /\ runs[r].recreated \subseteq runs'[r].recreated
      BY <1>14 DEF Answered
    <2>2. \A f \in Steady \ {"todo", "recreated", "bounced"} : runs'[r][f] = runs[r][f] BY <2>1 DEF Turns, Keeps, Field, Idle, Steady
    <2> QED BY <2>1, <2>2 DEF Drifts, Steady
  <1>15. CASE WaitForHealthy(r) BY <1>f, <1>14, <1>15, WaitForHealthyRuns DEF AtNode, InHand
  <1>16. CASE RecordSeeded(r)
    <2>1. Turns(r, {"at", "now", "todo", "seen"}) /\ runs'[r].todo = runs[r].todo \ {Now(r)} BY <1>16, RecordSeededRuns
    <2>2. \A f \in Steady \ {"todo"} : runs'[r][f] = runs[r][f] BY <2>1 DEF Turns, Keeps, Field, Idle, Steady
    <2> QED BY <2>1, <2>2 DEF Drifts, Steady
  <1>17. CASE RestartInPlace(r) BY <1>f, <1>14, <1>17, RestartInPlaceRuns DEF AtNode
  <1> QED BY <1>2, <1>3, <1>4, <1>5, <1>6, <1>7, <1>8, <1>9, <1>10, <1>11, <1>12, <1>13, <1>15, <1>16, <1>17 DEF Reads, Boxes

(* RunsApart: agents and builders.                                         *)

LEMMA EnvSame ==
  ASSUME Ready, [Next]_vars, ~\E r \in Run : BuildBegins(r) \/ BuildEnds(r)
  PROVE  builder'.env = builder.env
  <1>0. builder \in BuilderRec BY DEF Ready, Typed, RunTypes
  <1>1. ASSUME NEW r \in Run PROVE runs[r].want \in {None, "v1", "v2", DEFAULT} BY ReadyRun DEF RunRec
  <1>2. ASSUME NEW r \in Run, RetireBuilder(r) PROVE builder'.env = builder.env
    <2>1. builder' = retire_builder_if_image_changed(builder, runs[r].want) BY <1>2 DEF RetireBuilder
    <2>2. retire_builder_if_image_changed(builder, runs[r].want).env = builder.env
      <3>1. runs[r].want \in {None, "v1", "v2", DEFAULT} BY <1>1
      <3> QED BY <1>0, <3>1, RetiredSet, SMTT(60)
    <2> QED BY <2>1, <2>2
  <1>3. ASSUME NEW r \in Run, SolveBegins(r) PROVE builder'.env = builder.env
    <2>1. builder' = Bootstrap(builder, r, runs[r].want) BY <1>3 DEF SolveBegins
    <2>2. Bootstrap(builder, r, runs[r].want).env = builder.env
      <3>1. runs[r].want \in {None, "v1", "v2", DEFAULT} BY <1>1
      <3> QED BY <1>0, <3>1, BootSet, SMTT(60)
    <2> QED BY <2>1, <2>2
  <1>4. ASSUME NEW r \in Run, CallOff(r) PROVE builder'.env = builder.env BY <1>0, <1>4, DroppedSet DEF CallOff
  <1> QED BY <1>2, <1>3, <1>4, BuilderStep DEF Unbuilding

\* While it builds, a run goes from building to building, or is over with it.
LEMMA BuildingStep ==
  ASSUME Ready, NEW r \in Run, Reads(r) \/ Networks(r) \/ Boxes(r), runs[r].at \in Building
  PROVE  \/ LookForBuilder(r) \/ RetireBuilder(r) \/ SolveBegins(r) \/ BuildEnds(r) \/ TimePasses(r) \/ CallOff(r)
  <1>1. runs[r].at \in AtNode BY DEF Building, AtNode, InHand
  <1>2. runs[r].kind \in Main BY <1>1, ReadyRun
  <1>3. ~Begin(r) /\ ~RestoreSidecar(r) BY <1>2 DEF Begin, RestoreSidecar, Fresh, Active, Main
  <1> QED BY <1>3 DEF Building, Reads, Networks, Boxes, At, SidecarThere, Restored, Plan, NextNode, Finish, TakeNode, BuildBegins,
         PullImage, WaitForExit, WaitForHealthy, RecordSeeded, EnsureNetwork, ReadBack, PinNetwork, ReplaceSidecar,
         StopOutside, MakeContainer, RestartInPlace
LEMMA BuildingNext ==
  ASSUME Ready, NEW r \in Run, LookForBuilder(r) \/ RetireBuilder(r) \/ SolveBegins(r) \/ TimePasses(r), runs[r].at \in Building
  PROVE  runs'[r].at \in Building /\ (TimePasses(r) => runs'[r].at = runs[r].at)
  <1>1. ASSUME TimePasses(r) PROVE runs'[r].at = runs[r].at BY <1>1, TimePassesRuns DEF Turns, Keeps, Field, Idle
  <1>2. ASSUME LookForBuilder(r) \/ RetireBuilder(r) \/ SolveBegins(r) PROVE runs'[r].at \in Building /\ runs[r].at \notin {"make", "solve"}
    BY <1>2, LookForBuilderRuns, RetireBuilderRuns, SolveBeginsRuns DEF Building
  <1>3. TimePasses(r) => runs[r].at \in {"make", "solve"} BY DEF TimePasses
  <1> QED BY <1>1, <1>2, <1>3

LEMMA AgentInvStep ==
  ASSUME Ready, AgentInv, [Next]_vars
  PROVE  AgentInv'
  <1>1. ASSUME runs' = runs, builder'.env = builder.env PROVE AgentInv' BY <1>1 DEF AgentInv
  <1>2. ASSUME NEW q \in Run, Reads(q) \/ Networks(q) \/ Boxes(q) PROVE AgentInv'
    <2>0. \A s \in Run \ {q} : runs'[s] = runs[s] BY <1>2, OtherSame
    <2>1. ASSUME runs'[q].sock = None, builder'.env = builder.env PROVE AgentInv' BY <2>0, <2>1 DEF AgentInv
    <2>2. ASSUME runs'[q].sock = runs[q].sock, runs'[q].at \in Building \/ runs[q].sock = None, builder'.env = builder.env PROVE AgentInv'
      BY <2>0, <2>2 DEF AgentInv
    <2>3. CASE BuildBegins(q)
      <3>1. runs[q].sock = None BY <2>3, BuildBeginsRuns DEF AgentInv, Building
      <3>2. runs'[q].at \in Building BY <2>3, BuildBeginsRuns DEF FirstPhase, Building
      <3>3. CASE ~SshLocked /\ runs'[q].sock \in Agents /\ builder' = set_ssh_auth_sock(builder, runs'[q].sock)
        <4>1. \A s \in Run : runs[s].sock = None BY <3>3 DEF AgentInv, SshLocked
        <4>2. builder'.env = runs'[q].sock BY <3>3, SshSet DEF Ready, Typed, RunTypes
        <4>3. \A s \in Run \ {q} : runs'[s].sock = None BY <2>0, <4>1
        <4> QED BY <3>2, <4>2, <4>3 DEF AgentInv
      <3>4. CASE Turns(q, {"at"}) /\ UNCHANGED builder
        <4>1. runs'[q].sock = None BY <3>1, <3>4 DEF Turns, Keeps, Field, Idle
        <4> QED BY <2>1, <3>4, <4>1
      <3> QED BY <2>3, <3>3, <3>4, BuildBeginsRuns
    <2>4. CASE BuildEnds(q)
      <3>0. runs[q].at \in AtNode BY <2>4, BuildEndsRuns DEF AtNode, InHand
      <3>1. runs'[q].sock = None BY <2>4, <3>0, BuildEndsRuns, NodeFailsTurns, ReadyRun
      <3>2. runs[q].sock = None => builder'.env = builder.env BY <2>4, BuildEndsRuns, BuildOver
      <3>3. runs[q].sock # None => \A s \in Run \ {q} : runs'[s].sock = None BY <2>0 DEF AgentInv
      <3>4. CASE runs[q].sock = None BY <2>1, <3>1, <3>2, <3>4
      <3>5. CASE runs[q].sock # None BY <3>1, <3>3, <3>5 DEF AgentInv
      <3> QED BY <3>4, <3>5
    <2>5. CASE ~BuildBegins(q) /\ ~BuildEnds(q)
      <3>1. builder'.env = builder.env
        <4>1. ASSUME NEW s \in Run, s # q, BuildBegins(s) \/ BuildEnds(s) PROVE FALSE
          <5>1. runs'[s] = runs[s] BY <2>0, <4>1
          <5>2. runs[s].at \in {"build", "solve"} /\ runs'[s].at # runs[s].at
            <6>1. CASE BuildBegins(s) BY <6>1, BuildBeginsRuns DEF FirstPhase
            <6>2. CASE BuildEnds(s)
              <7>0. runs[s].at \in AtNode BY <6>2, BuildEndsRuns DEF AtNode, InHand
              <7> QED BY <6>2, <7>0, BuildEndsRuns, NodeFailsTurns, ReadyRun
            <6> QED BY <4>1, <6>1, <6>2
          <5> QED BY <5>1, <5>2
        <4> QED BY <2>5, <4>1, EnvSame
      <3>2. CASE runs'[q].sock = None BY <2>1, <3>1, <3>2
      <3>3. CASE runs'[q].sock # None
        <4>0. ~Begin(q) /\ ~RestoreSidecar(q) BY <3>3, BeginRuns, RestoreSidecarRuns DEF Keeps, Field, Idle
        <4>1. runs'[q] # Idle BY <3>3 DEF Idle
        <4>2. runs'[q].sock = runs[q].sock BY <1>2, <2>5, <3>3, <4>0, <4>1, DriftStep DEF Drifts
        <4>3. runs[q].at \in Building BY <3>3, <4>2 DEF AgentInv
        <4>4. ~CallOff(q) BY <4>1, ReadyRun, EndsTurns DEF CallOff
        <4>5. runs'[q].at \in Building BY <1>2, <2>5, <4>3, <4>4, BuildingStep, BuildingNext
        <4> QED BY <2>2, <3>1, <4>2, <4>5
      <3> QED BY <3>2, <3>3
    <2> QED BY <2>3, <2>4, <2>5
  <1>3. CASE (\E k \in Node : DeleteNode(k)) \/ Observe \/ Outside \/ UNCHANGED vars
    <2>1. runs' = runs BY <1>3 DEF DeleteNode, Observe, Outside, vars
    <2>2. ASSUME NEW s \in Run, BuildBegins(s) \/ BuildEnds(s) PROVE FALSE
      <3>1. CASE BuildBegins(s) BY <2>1, <3>1, BuildBeginsRuns DEF FirstPhase
      <3>2. CASE BuildEnds(s)
        <4>0. runs[s].at \in AtNode BY <3>2, BuildEndsRuns DEF AtNode, InHand
        <4> QED BY <2>1, <3>2, <4>0, BuildEndsRuns, NodeFailsTurns, ReadyRun
      <3> QED BY <2>2, <3>1, <3>2
    <2> QED BY <1>1, <2>1, <2>2, EnvSame
  <1> QED BY <1>2, <1>3, NextCases

\* Where a phase is entered from.
LEMMA PhaseFrom ==
  ASSUME Ready, NEW r \in Run, Reads(r) \/ Networks(r) \/ Boxes(r)
  PROVE  /\ runs'[r].at = "outside" => Plan(r) \/ StopOutside(r)
         /\ runs'[r].at \in {"start", "restart"} => NextNode(r)
         /\ runs'[r].at = "build" => TakeNode(r)
         /\ runs'[r].at = "look" => BuildBegins(r)
         /\ runs'[r].at = "retire" => LookForBuilder(r)
         /\ runs'[r].at = "boot" => RetireBuilder(r)
         /\ runs'[r].at = "solve" => BuildBegins(r) \/ SolveBegins(r) \/ (TimePasses(r) /\ runs[r].at = "solve")
         /\ runs'[r].at = "make" => TakeNode(r) \/ BuildEnds(r) \/ ((TimePasses(r) \/ PullImage(r)) /\ runs[r].at = "make")
         /\ runs'[r].at \in {"exit", "health"} => MakeContainer(r)
         /\ runs'[r].at = "seeded" => WaitForExit(r)
  <1> DEFINE Hard == {"outside", "seeded", "start", "restart"} \cup InHand
  <1>e. Ends(r) => runs'[r].at \notin Hard BY ReadyRun, EndsTurns DEF Idle, InHand
  <1>f. runs[r].at \in AtNode /\ NodeFails(r) => runs'[r].at \notin Hard BY ReadyRun, NodeFailsTurns DEF InHand
  <1>1. CASE runs'[r].at \notin Hard BY <1>1 DEF InHand
  <1>2. CASE Networks(r) \/ SidecarThere(r) \/ Begin(r) \/ RestoreSidecar(r)
    <2>1. runs'[r].at \notin Hard
      BY <1>e, <1>2, EnsureNetworkRuns, ReadBackRuns, PinNetworkRuns, ReplaceSidecarRuns, SidecarThereRuns, BeginRuns, RestoreSidecarRuns
         DEF Networks, InHand, After
    <2> QED BY <1>1, <2>1
  <1>3. CASE Restored(r) \/ Finish(r) \/ CallOff(r) BY <1>e, <1>1, <1>3 DEF Restored, Finish, CallOff
  <1>4. CASE Plan(r) BY <1>4, PlanRuns
  <1>5. CASE StopOutside(r)
    <2>1. runs[r].at = "outside" BY <1>5 DEF StopOutside, At
    <2>2. runs'[r].at \in {"outside", "next"} BY <1>5, <2>1, StopOutsideRuns DEF Turns, Keeps, Field, Idle
    <2> QED BY <1>5, <2>2
  <1>6. CASE NextNode(r)
    <2>1. \/ Turns(r, {"todo"}) \/ Turns(r, {"todo", "blocked"}) \/ runs'[r].at \in {"start", "restart"} BY <1>6, NextNodeRuns
    <2>2. runs[r].at = "next" BY <1>6 DEF NextNode, At
    <2>3. runs'[r].at \in {"next", "start", "restart"} BY <2>1, <2>2 DEF Turns, Keeps, Field, Idle
    <2> QED BY <1>6, <2>3
  <1>7. CASE TakeNode(r) BY <1>7, TakeNodeRuns
  <1>8. CASE BuildBegins(r) BY <1>8, BuildBeginsRuns DEF FirstPhase
  <1>9. CASE LookForBuilder(r) BY <1>9, LookForBuilderRuns
  <1>10. CASE RetireBuilder(r) BY <1>10, RetireBuilderRuns
  <1>11. CASE SolveBegins(r) BY <1>11, SolveBeginsRuns
  <1>12. CASE TimePasses(r)
    <2>1. runs'[r].at = runs[r].at BY <1>12, TimePassesRuns DEF Turns, Keeps, Field, Idle
    <2>2. runs[r].at \in {"make", "solve"} BY <1>12 DEF TimePasses
    <2> QED BY <1>12, <2>1, <2>2
  <1>13. CASE BuildEnds(r) BY <1>f, <1>1, <1>13, BuildEndsRuns DEF AtNode, InHand
  <1>14. CASE PullImage(r)
    <2>1. runs[r].at = "make" BY <1>14 DEF PullImage, At
    <2>2. CASE runs' = runs BY <1>14, <2>1, <2>2
    <2> QED BY <1>f, <1>1, <1>14, <2>1, <2>2 DEF PullImage, AtNode, InHand
  <1>15. CASE MakeContainer(r) BY <1>f, <1>1, <1>15, MakeContainerRuns DEF AtNode, InHand
  <1>16. CASE WaitForExit(r) BY <1>f, <1>1, <1>16, WaitForExitRuns DEF AtNode, InHand
  <1>17. CASE WaitForHealthy(r) BY <1>f, <1>1, <1>17, WaitForHealthyRuns DEF AtNode, InHand, Answered
  <1>18. CASE RecordSeeded(r) BY <1>18, RecordSeededRuns
  <1>19. CASE RestartInPlace(r) BY <1>f, <1>1, <1>19, RestartInPlaceRuns DEF AtNode, InHand, Answered
  <1> QED BY <1>2, <1>3, <1>4, <1>5, <1>6, <1>7, <1>8, <1>9, <1>10, <1>11, <1>12, <1>13, <1>14, <1>15, <1>16, <1>17, <1>18, <1>19 DEF Reads, Boxes

\* What becomes of the BuildKit container and of what solves on it.
LEMMA KitStep ==
  ASSUME Ready, [Next]_vars
  PROVE  /\ builder'.host = builder.host \/ builder'.host # None
         /\ \/ builder'.kit = builder.kit /\ builder'.solving = builder.solving
            \/ \E r \in Run : BuildEnds(r) \/ CallOff(r) \/ RetireBuilder(r) \/ SolveBegins(r)
         /\ \A r \in Run :
              /\ BuildEnds(r) \/ CallOff(r) => builder'.kit = builder.kit /\ builder'.solving = builder.solving \ {r}
              /\ RetireBuilder(r) =>
                   \/ builder'.kit = builder.kit /\ builder'.solving = builder.solving /\ (runs[r].want = DEFAULT \/ builder.kit \in {runs[r].want, None})
                   \/ builder'.kit = None /\ builder'.solving = {}
              /\ SolveBegins(r) => /\ builder'.solving = builder.solving \cup {r}
                                   /\ builder'.kit = IF builder.kit = None THEN runs[r].want ELSE builder.kit
  <1>0. builder \in BuilderRec BY DEF Ready, Typed, RunTypes
  <1>1. ASSUME NEW r \in Run PROVE runs[r].want \in {None, "v1", "v2", DEFAULT} BY ReadyRun DEF RunRec
  <1>2. ASSUME NEW r \in Run, RetireBuilder(r)
        PROVE  /\ builder'.host = builder.host
               /\ \/ builder'.kit = builder.kit /\ builder'.solving = builder.solving /\ (runs[r].want = DEFAULT \/ builder.kit \in {runs[r].want, None})
                  \/ builder'.kit = None /\ builder'.solving = {}
    <2>1. builder' = retire_builder_if_image_changed(builder, runs[r].want) BY <1>2 DEF RetireBuilder
    <2> QED BY <1>0, <1>1, <2>1, RetiredSet
  <1>3. ASSUME NEW r \in Run, SolveBegins(r)
        PROVE  /\ builder'.host = builder.host /\ builder'.solving = builder.solving \cup {r}
               /\ builder'.kit = IF builder.kit = None THEN runs[r].want ELSE builder.kit
    <2>1. builder' = Bootstrap(builder, r, runs[r].want) BY <1>3 DEF SolveBegins
    <2> DEFINE w == runs[r].want
    <2>2. w \in {None, "v1", "v2", DEFAULT} BY <1>1
    <2> HIDE DEF w
    <2>3. /\ Bootstrap(builder, r, w).host = builder.host /\ Bootstrap(builder, r, w).solving = builder.solving \cup {r}
          /\ Bootstrap(builder, r, w).kit = IF builder.kit = None THEN w ELSE builder.kit
      BY <1>0, <2>2, BootSet, SMTT(40)
    <2> QED BY <2>1, <2>3 DEF w
  <1>4. ASSUME NEW r \in Run, CallOff(r) PROVE builder'.host = builder.host /\ builder'.kit = builder.kit /\ builder'.solving = builder.solving \ {r}
    BY <1>0, <1>4, DroppedSet DEF CallOff
  <1>5. ASSUME NEW r \in Run, BuildEnds(r) PROVE builder'.host = builder.host /\ builder'.kit = builder.kit /\ builder'.solving = builder.solving \ {r}
    BY <1>5, BuildEndsRuns, BuildOver
  <1>6. ASSUME NEW r \in Run, BuildBegins(r) PROVE builder'.host = builder.host /\ builder'.kit = builder.kit /\ builder'.solving = builder.solving
    BY <1>0, <1>6, BuildBeginsRuns, SshSet
  <1> QED BY <1>2, <1>3, <1>4, <1>5, <1>6, BuilderStep DEF Unbuilding

\* These steps show on their run.
LEMMA MovesOn ==
  ASSUME Ready, NEW r \in Run,
         \/ Begin(r) \/ PinNetwork(r) \/ BuildBegins(r) \/ LookForBuilder(r) \/ RetireBuilder(r) \/ SolveBegins(r) \/ BuildEnds(r)
         \/ MakeContainer(r) \/ WaitForExit(r) \/ RecordSeeded(r) \/ RestartInPlace(r) \/ CallOff(r) \/ ReplaceSidecar(r)
  PROVE  runs'[r] # runs[r]
  <1>f. runs[r].at \in AtNode /\ NodeFails(r) => runs'[r].at = "next" BY ReadyRun, NodeFailsTurns
  <1>e. Ends(r) => runs'[r].kind = "idle" BY ReadyRun, EndsTurns DEF Idle
  <1>1. CASE Begin(r) BY <1>1, BeginRuns DEF Idle, Main
  <1>2. CASE PinNetwork(r)
    <2>1. runs[r].at = "pin" BY <1>2 DEF PinNetwork, At
    <2> QED BY <1>2, <2>1, PinNetworkRuns
  <1>3. CASE BuildBegins(r) BY <1>3, BuildBeginsRuns DEF FirstPhase
  <1>4. CASE LookForBuilder(r) \/ RetireBuilder(r) \/ SolveBegins(r) BY <1>4, LookForBuilderRuns, RetireBuilderRuns, SolveBeginsRuns
  <1>5. CASE BuildEnds(r) BY <1>f, <1>5, BuildEndsRuns DEF AtNode, InHand
  <1>6. CASE MakeContainer(r) BY <1>f, <1>6, MakeContainerRuns DEF AtNode, InHand
  <1>7. CASE WaitForExit(r) BY <1>f, <1>7, WaitForExitRuns DEF AtNode, InHand
  <1>8. CASE RecordSeeded(r) BY <1>8, RecordSeededRuns
  <1>9. CASE RestartInPlace(r) BY <1>f, <1>9, RestartInPlaceRuns DEF AtNode, InHand, Answered
  <1>10. CASE CallOff(r) BY <1>e, <1>10 DEF CallOff, Starting
  <1>11. CASE ReplaceSidecar(r)
    <2>1. runs[r].at = "replace" BY <1>11 DEF ReplaceSidecar, At
    <2>2. runs[r].kind # "idle" BY <2>1, ReadyRun DEF Sound, Idle
    <2> QED BY <1>e, <1>11, <2>1, <2>2, ReplaceSidecarRuns DEF After
  <1> QED BY <1>1, <1>2, <1>3, <1>4, <1>5, <1>6, <1>7, <1>8, <1>9, <1>10, <1>11

LEMMA KitInvStep ==
  ASSUME Ready, KitInv, [Next]_vars
  PROVE  KitInv'
  <1> DEFINE A == {"retire", "boot"}
  <1>0. /\ builder'.host = builder.host \/ builder'.host # None
        /\ ghost'.mixed \/ ~ghost.mixed
        /\ builder \in BuilderRec /\ builder.solving \subseteq Run
    BY KitStep, GhostGrows DEF Ready, Typed, RunTypes, BuilderRec
  <1>1. ASSUME runs' = runs, builder'.kit = builder.kit, builder'.solving = builder.solving PROVE KitInv' BY <1>0, <1>1 DEF KitInv
  <1>2. ASSUME NEW q \in Run, Reads(q) \/ Networks(q) \/ Boxes(q) PROVE KitInv'
    <2>0. \A s \in Run \ {q} : runs'[s] = runs[s] BY <1>2, OtherSame
    <2>a. runs'[q].at = "look" => builder.host # None BY <1>2, PhaseFrom, BuildBeginsRuns DEF FirstPhase, default_builder
    <2>1. CASE BuildEnds(q) \/ CallOff(q)
      <3>1. runs'[q].at \notin Building BY <2>1, EndsTurns, ReadyRun, BuildEndsRuns, NodeFailsTurns DEF CallOff, Building, Idle, AtNode, InHand
      <3>2. builder'.kit = builder.kit /\ builder'.solving = builder.solving \ {q} BY <2>1, KitStep
      <3> QED BY <1>0, <2>0, <3>1, <3>2 DEF KitInv, Building
    <2>2. CASE RetireBuilder(q)
      <3>1. runs[q].at = "retire" /\ runs'[q].at = "boot" /\ runs'[q].want = runs[q].want
        BY <2>2, RetireBuilderRuns DEF Turns, Keeps, Field, Idle
      <3>2. q \notin builder.solving BY <3>1 DEF KitInv
      <3>3. CASE builder'.kit = builder.kit /\ builder'.solving = builder.solving /\ (runs[q].want = DEFAULT \/ builder.kit \in {runs[q].want, None})
        BY <1>0, <2>0, <3>1, <3>2, <3>3 DEF KitInv
      <3>4. CASE builder'.kit = None /\ builder'.solving = {}
        BY <1>0, <2>0, <3>1, <3>4 DEF KitInv
      <3> QED BY <2>2, <3>3, <3>4, KitStep
    <2>3. CASE SolveBegins(q)
      <3>1. runs[q].at = "boot" /\ runs'[q].at = "solve" /\ runs'[q].want = runs[q].want /\ runs[q].want # None
        BY <2>3, SolveBeginsRuns DEF Turns, Keeps, Field, Idle, KitInv
      <3>2. builder'.solving = builder.solving \cup {q} /\ builder'.kit = IF builder.kit = None THEN runs[q].want ELSE builder.kit
        BY <2>3, KitStep
      <3>3. builder'.kit # None /\ (builder.kit = None => builder.solving = {}) BY <3>1, <3>2 DEF KitInv
      <3>4. ~ghost.mixed => \A s \in Run \ {q} : runs[s].at \notin A BY <3>1 DEF KitInv
      <3>5. ~ghost.mixed => runs[q].want \in {builder'.kit, DEFAULT} BY <3>1, <3>2, <3>3 DEF KitInv
      <3>6. ~ghost.mixed => \A s \in builder.solving : runs[s].want \in {builder'.kit, DEFAULT} BY <3>2, <3>3 DEF KitInv
      <3>7. \A s \in builder.solving : runs[s].at = "solve" BY DEF KitInv
      <3>8. q \notin builder.solving BY <3>1, <3>7
      <3>9. \A s \in builder'.solving : runs'[s].at = "solve" /\ builder'.kit # None BY <1>0, <2>0, <3>1, <3>2, <3>3, <3>7, <3>8
      <3>10. ~ghost'.mixed => \A s \in builder'.solving : runs'[s].want \in {builder'.kit, DEFAULT} BY <1>0, <2>0, <3>1, <3>2, <3>5, <3>6, <3>8
      <3>11. ~ghost'.mixed => \A s \in Run : runs'[s].at \notin A BY <1>0, <2>0, <3>1, <3>4
      <3>12. \A s \in Run : runs'[s].at \in A => runs'[s].want # None BY <2>0, <3>1 DEF KitInv
      <3>13. \A s \in Run : runs'[s].at = "look" => builder'.host # None BY <1>0, <2>0, <3>1 DEF KitInv
      <3> QED BY <3>9, <3>10, <3>11, <3>12, <3>13 DEF KitInv
    <2>4. CASE LookForBuilder(q)
      <3>1. runs[q].at = "look" /\ runs'[q].at = "retire" /\ runs'[q].want \in {builder.host, DEFAULT} BY <2>4, LookForBuilderRuns
      <3>2. runs'[q].want # None BY <3>1, DefaultAssumption DEF KitInv
      <3>3. ghost'.mixed \/ \A s \in Run \ {q} : runs[s].at \notin A BY <2>4, LookSet DEF Ready
      <3>4. builder' = builder BY <2>4 DEF LookForBuilder
      <3>5. q \notin builder.solving BY <3>1 DEF KitInv
      <3> QED BY <1>0, <2>0, <3>1, <3>2, <3>3, <3>4, <3>5 DEF KitInv
    <2>5. CASE ~(BuildEnds(q) \/ CallOff(q) \/ RetireBuilder(q) \/ SolveBegins(q) \/ LookForBuilder(q))
      <3>1. builder'.kit = builder.kit /\ builder'.solving = builder.solving BY <1>2, <2>0, <2>5, KitStep, MovesOn
      <3>2. runs'[q].at \notin A BY <1>2, <2>5, PhaseFrom
      <3>3. ASSUME q \in builder.solving PROVE runs'[q].at = "solve" /\ runs'[q].want = runs[q].want
        <4>1. runs[q].at = "solve" BY <3>3 DEF KitInv
        <4>2. TimePasses(q) BY <1>2, <2>5, <4>1, BuildingStep DEF Building
        <4> QED BY <4>1, <4>2, TimePassesRuns DEF Turns, Keeps, Field, Idle
      <3> QED BY <1>0, <2>0, <2>a, <3>1, <3>2, <3>3 DEF KitInv
    <2> QED BY <2>1, <2>2, <2>3, <2>4, <2>5
  <1>3. CASE (\E k \in Node : DeleteNode(k)) \/ Observe \/ Outside \/ UNCHANGED vars
    <2>1. runs' = runs BY <1>3 DEF DeleteNode, Observe, Outside, vars
    <2> QED BY <1>1, <2>1, KitStep, MovesOn
  <1> QED BY <1>2, <1>3, NextCases

Apart == Ready /\ ApartInv
LEMMA InitApart ==
  ASSUME Init
  PROVE  Apart
  <1>1. Ready BY InitReady
  <1>2. \A r \in Run : runs[r] = Idle BY DEF Init
  <1>3. BoxInv BY InitBox, NoneAssumption DEF BoxInv, Init
  <1>4. HandInv /\ AgentInv BY <1>2 DEF HandInv, AgentInv, Idle, InHand
  <1>5. builder.solving = {} BY DEF Init
  <1>6. KitInv BY <1>2, <1>5 DEF KitInv, Idle
  <1> QED BY <1>1, <1>3, <1>4, <1>6 DEF Apart, ApartInv, Ready
LEMMA ApartStep ==
  ASSUME Apart, [Next]_vars
  PROVE  Apart'
  <1>1. Ready' BY ReadyStep DEF Apart
  <1>2. BoxInv' /\ HandInv' /\ AgentInv' /\ KitInv' BY BoxInvStep, HandInvStep, AgentInvStep, KitInvStep DEF Apart, ApartInv
  <1> QED BY <1>1, <1>2 DEF Apart, ApartInv, Ready
LEMMA ApartHolds ==
  ASSUME Apart
  PROVE  RunsApart
  <1>0. Ready /\ ApartInv BY DEF Apart
  <1>1. /\ box \in [Node -> [status : {"none", "running", "exited"}, code : {None, 0, 1}, id : Nat,
                             health : {None, "starting", "healthy", "unhealthy"}, dns : {None, SIDECAR, SIDECAR + 1}]]
        /\ net \in {"none", "open", "pinned"} /\ sidecar \in {None, SIDECAR, SIDECAR + 1} /\ holder \in Node \cup {None}
    BY <1>0 DEF Ready, Typed, EngineTypes, Box, Address
  <1>2. (\A n \in Node : box[n].status = "exited" <=> box[n].code # None) /\ (holder # None => Running(holder))
    BY <1>0 DEF ApartInv, BoxInv
  <1>3. \A r \in Run : runs[r].at \in InHand => Now(r) \in runs[r].todo BY <1>0, ReadyRun DEF AtNode
  <1>4. \A r \in Run : runs[r].at \in InHand => \A s \in Run \ {r} : runs[s].at \in InHand => Now(s) # Now(r)
    BY <1>0 DEF ApartInv, HandInv
  <1>5. TypeOK BY <1>1, <1>2, <1>3, <1>4 DEF TypeOK
  <1>6. WaitsBounded
    <2> SUFFICES ASSUME NEW r \in Run PROVE runs[r].waited <= RUN_LIMIT BY DEF WaitsBounded
    <2>1. runs[r].waited \in Nat /\ runs[r].clock \in Nat BY <1>0, ReadyRun DEF RunRec
    <2> QED BY <1>0, <2>1, LimitAssumption DEF ApartInv, WaitInv
  <1>7. RightAgent BY <1>0 DEF ApartInv, AgentInv, RightAgent
  <1>8. SameBuildKit BY <1>0 DEF ApartInv, KitInv, SameBuildKit
  <1> QED BY <1>5, <1>6, <1>7, <1>8 DEF RunsApart

\* RunsApart (orchestrate.rs, health.rs, image.rs): however many runs of a workspace interleave, with
\* whatever faults and outside events, none takes a node another has locked, waits
\* past the run limit, solves with another's ssh agent or on another's BuildKit.
THEOREM RunsStayApart == Spec => []RunsApart
  <1>1. Init => Apart BY InitApart
  <1>2. Apart /\ [Next]_vars => Apart' BY ApartStep
  <1>3. Apart => RunsApart BY ApartHolds
  <1> QED BY <1>1, <1>2, <1>3, PTL DEF Spec

----------------------------------------------------------------------------
(* DnsReaches.                                                             *)

\* Where a container that is there comes from.
LEMMA BoxFrom ==
  ASSUME Ready, [Next]_vars, NEW n \in Node
  PROVE  /\ box'[n].status = "running" =>
              \/ Running(n)
              \/ \E r \in Run : (Makes(r) \/ Restarts(r)) /\ n = Now(r)
         /\ box'[n].status # "none" =>
              \/ box[n].status # "none" /\ box'[n].dns = box[n].dns
              \/ \E r \in Run : Makes(r) /\ n = Now(r) /\ box'[n].dns = runs[r].dns
  <1>0. Typed BY DEF Ready
  <1>1. CASE UNCHANGED <<box, holder>> BY <1>1 DEF Running
  <1>2. ASSUME NEW k \in Node, stop_container(k) \/ stop_and_remove(k) \/ TaskExits(k) \/ HealthReports(k)
        PROVE  /\ box'[n].status = "running" => Running(n)
               /\ box'[n].status # "none" => box[n].status # "none" /\ box'[n].dns = box[n].dns
    <2>1. CASE stop_container(k) BY <1>0, <2>1, StopContainerBox DEF Running
    <2>2. CASE stop_and_remove(k) BY <1>0, <2>2, RemoveBox DEF Only, Running
    <2>3. CASE TaskExits(k) BY <1>0, <2>3, ExitBox DEF Only, Running
    <2>4. CASE HealthReports(k) BY <1>0, <2>4, HealthBox DEF Only, Running, HealthReports
    <2> QED BY <1>2, <2>1, <2>2, <2>3, <2>4
  <1>3. ASSUME NEW r \in Run, Makes(r)
        PROVE  /\ Only(Now(r)) /\ box'[Now(r)].dns = runs[r].dns /\ Now(r) \in Node
    BY <1>0, <1>3, MadeBox DEF Makes
  <1>4. ASSUME NEW r \in Run, Makes(r) \/ Restarts(r), n # Now(r) PROVE box'[n] = box[n] BY <1>3, <1>4 DEF Restarts, Only
  <1>5. ASSUME NEW r \in Run, Restarts(r) PROVE box[Now(r)].status # "none" /\ box'[Now(r)].dns = box[Now(r)].dns BY <1>5 DEF Restarts
  <1>6. CASE \E r \in Run : Makes(r) \/ Restarts(r)
    <2>1. PICK r \in Run : Makes(r) \/ Restarts(r) BY <1>6
    <2>2. CASE n # Now(r) BY <1>4, <2>1, <2>2 DEF Running
    <2>3. CASE n = Now(r) BY <1>3, <1>5, <2>1, <2>3
    <2> QED BY <2>2, <2>3
  <1> QED BY <1>1, <1>2, <1>6, BoxStep

\* Docker never hands out the reserved address on a pinned network.
LEMMA PinnedApart ==
  ASSUME Ready, net = "pinned"
  PROVE  SIDECAR \notin Handed /\ sidecar_address = SIDECAR
  <1>1. Layout(shop.prefix) # None BY DEF Ready, SplitInv
  <1>2. shop.prefix \in 1..29 BY <1>1 DEF Layout
  <1>3. Layout(shop.prefix) = [sidecar |-> SIDECAR, dynamic |-> {32 - shop.prefix}] BY <1>2 DEF Layout
  <1>4. Dynamic = {32 - shop.prefix} /\ sidecar_address = SIDECAR BY <1>3 DEF Dynamic, sidecar_address
  <1>5. SIDECAR \notin Dynamic BY <1>2, <1>4 DEF SIDECAR
  <1> QED BY <1>4, <1>5 DEF Handed

LEMMA NewSidecar ==
  ASSUME Ready, NEW r \in Run, ReplaceSidecar(r), sidecar' # sidecar
  PROVE  net # "none" /\ sidecar' \in {SIDECAR, SIDECAR + 1} /\ (net = "pinned" => sidecar' = SIDECAR)
  <1>1. ~Taken /\ sidecar' \in IF sidecar_address = None THEN Handed ELSE {sidecar_address} BY ReplaceSidecarRuns
  <1>2. net # "none" BY <1>1 DEF Taken
  <1>3. CASE net = "pinned" BY <1>1, <1>2, <1>3, PinnedApart, NoneAssumption
  <1>4. CASE net # "pinned"
    <2>1. sidecar_address = None BY <1>4 DEF sidecar_address
    <2> QED BY <1>1, <1>2, <1>4, <2>1 DEF Handed
  <1> QED BY <1>3, <1>4

LEMMA SidecarReplaced ==
  ASSUME Ready, NEW r \in Run, ReplaceSidecar(r), runs'[r] # Idle
  PROVE  /\ net # "none" /\ runs'[r].dns = sidecar' /\ sidecar' \in {SIDECAR, SIDECAR + 1} /\ (net = "pinned" => sidecar' = SIDECAR)
  <1>0. ~Ends(r) BY ReadyRun, EndsTurns
  <1>1. /\ ~Taken /\ sidecar' \in IF sidecar_address = None THEN Handed ELSE {sidecar_address}
        /\ runs'[r].dns = sidecar'
    BY <1>0, ReplaceSidecarRuns
  <1>2. net # "none" BY <1>1 DEF Taken
  <1>3. CASE net = "pinned" BY <1>1, <1>2, <1>3, PinnedApart, NoneAssumption
  <1>4. CASE net # "pinned"
    <2>1. sidecar_address = None BY <1>4 DEF sidecar_address
    <2> QED BY <1>1, <1>2, <1>4, <2>1 DEF Handed
  <1> QED BY <1>3, <1>4

LEMMA AddressedStep ==
  ASSUME Ready, Addressed, [Next]_vars
  PROVE  Addressed'
  <1>1. CASE runs' = runs BY <1>1 DEF Addressed
  <1>2. ASSUME NEW q \in Run, Reads(q) \/ Networks(q) \/ Boxes(q) PROVE Addressed'
    <2>0. \A s \in Run \ {q} : runs'[s] = runs[s] BY <1>2, OtherSame
    <2>1. SUFFICES ASSUME runs'[q].kind \in Main, runs'[q].at \notin Early \ {"plan"} PROVE runs'[q].dns # None BY <2>0 DEF Addressed
    <2>i. runs'[q] # Idle /\ ~Ends(q) BY <2>1, ReadyRun, EndsTurns DEF Idle, Main
    <2>2. CASE SidecarThere(q) BY <2>1, <2>2, SidecarThereRuns DEF Early
    <2>3. CASE ReplaceSidecar(q) BY <2>i, <2>3, SidecarReplaced, NoneAssumption
    <2>4. CASE EnsureNetwork(q) \/ ReadBack(q) \/ PinNetwork(q) BY <2>1, <2>i, <2>4, EnsureNetworkRuns, ReadBackRuns, PinNetworkRuns DEF Early
    <2>5. CASE Begin(q) \/ RestoreSidecar(q) BY <2>1, <2>5, BeginRuns, RestoreSidecarRuns DEF Early, Main
    <2>6. CASE ~(SidecarThere(q) \/ Networks(q) \/ Begin(q) \/ RestoreSidecar(q))
      <3>1. Drifts(q) BY <1>2, <2>i, <2>6, DriftStep
      <3>2. runs'[q].kind = runs[q].kind /\ runs'[q].dns = runs[q].dns BY <2>6, <3>1 DEF Drifts, Networks
      <3>3. ~CallOff(q) BY <2>i DEF CallOff
      <3>4. runs[q].at \notin Early \ {"plan"}
        BY <1>2, <2>6, <3>3 DEF Early, Reads, Boxes, At, Restored, Plan, NextNode, Finish, TakeNode, BuildBegins, LookForBuilder,
           RetireBuilder, SolveBegins, BuildEnds, PullImage, WaitForExit, WaitForHealthy, RecordSeeded, TimePasses,
           StopOutside, MakeContainer, RestartInPlace
      <3> QED BY <2>1, <3>2, <3>4 DEF Addressed
    <2> QED BY <2>2, <2>3, <2>4, <2>5, <2>6 DEF Networks
  <1>3. CASE (\E k \in Node : DeleteNode(k)) \/ Observe \/ Outside \/ UNCHANGED vars BY <1>1, <1>3 DEF DeleteNode, Observe, Outside, vars
  <1> QED BY <1>2, <1>3, NextCases

LEMMA NetworksNet ==
  ASSUME Ready, NEW r \in Run, Networks(r)
  PROVE  /\ net' = "none" => net = "none" \/ ~Attached
         /\ net' = "pinned" /\ net # "pinned" => PinNetwork(r) /\ net = "none"
         /\ net = "pinned" => net' # "open"
         /\ sidecar' = sidecar \/ ReplaceSidecar(r)
  BY DEF Networks, EnsureNetwork, ReadBack, PinNetwork, ReplaceSidecar

LEMMA UnattachedStep ==
  ASSUME Ready, Unattached, [Next]_vars
  PROVE  Unattached'
  <1> SUFFICES ASSUME net' = "none" PROVE sidecar' = None /\ \A n \in Node : box'[n].status # "running" BY DEF Unattached, Attached, Running
  <1>1. net = "none" \/ ~Attached BY NetStep, NetworksNet
  <1>2. ~Attached BY <1>1 DEF Unattached
  <1>3. ASSUME NEW r \in Run, Makes(r) \/ Restarts(r) PROVE FALSE
    <2>1. net # "none" /\ net' = net BY <1>3 DEF Makes, Restarts, MakeContainer, CallOff, RestartInPlace
    <2> QED BY <2>1
  <1>4. \A n \in Node : box'[n].status # "running" BY <1>2, <1>3, BoxFrom DEF Attached
  <1>5. ASSUME NEW r \in Run, ReplaceSidecar(r), sidecar' # sidecar PROVE FALSE
    <2>1. net' = net BY <1>5 DEF ReplaceSidecar
    <2> QED BY <1>5, <2>1, NewSidecar
  <1>6. sidecar' = None BY <1>2, <1>5, NetStep DEF Attached
  <1> QED BY <1>4, <1>6

LEMMA ReservedStep ==
  ASSUME Ready, BoxInv, Unattached, Reserved, [Next]_vars
  PROVE  Reserved'
  <1> SUFFICES ASSUME net' = "pinned" PROVE holder' = None /\ sidecar' # SIDECAR + 1 BY DEF Reserved
  <1>1. CASE net = "pinned"
    <2>1. holder = None /\ sidecar # SIDECAR + 1 /\ SIDECAR \notin Handed BY <1>1, PinnedApart DEF Reserved
    <2>2. holder' = None
      <3>1. ASSUME NEW n \in Node, stop_container(n) \/ stop_and_remove(n) \/ TaskExits(n) \/ HealthReports(n) PROVE holder' = None
        BY <2>1, <3>1 DEF stop_container, stop_and_remove, TaskExits, HealthReports, Released
      <3>2. ASSUME NEW r \in Run, Makes(r) PROVE holder' = None BY <2>1, <3>2, MadeBox DEF Makes, Ready
      <3>3. ASSUME NEW r \in Run, Restarts(r) PROVE holder' = None BY <2>1, <3>3 DEF Restarts
      <3> QED BY <2>1, <3>1, <3>2, <3>3, BoxStep
    <2>3. sidecar' # SIDECAR + 1
      <3>1. ASSUME NEW r \in Run, ReplaceSidecar(r), sidecar' # sidecar PROVE sidecar' # SIDECAR + 1 BY <1>1, <3>1, NewSidecar DEF SIDECAR
      <3> QED BY <2>1, <3>1, NetStep, NoneAssumption
    <2> QED BY <2>2, <2>3
  <1>2. CASE net # "pinned"
    <2>1. PICK r \in Run : PinNetwork(r) /\ net = "none" BY <1>2, NetStep, NetworksNet
    <2>2. UNCHANGED <<holder, sidecar>> BY <2>1 DEF PinNetwork
    <2>3. sidecar = None /\ \A n \in Node : ~Running(n) BY <2>1 DEF Unattached, Attached
    <2>4. holder = None BY <2>3 DEF BoxInv, Ready, Typed, EngineTypes
    <2> QED BY <2>2, <2>3, <2>4, NoneAssumption
  <1> QED BY <1>1, <1>2

LEMMA ReachedStep ==
  ASSUME Ready, BoxInv, NetInv, [Next]_vars
  PROVE  Reached'
  <1> SUFFICES ASSUME net' = "pinned", ~ghost'.raced
               PROVE  /\ \A n \in Node : box'[n].status = "running" => box'[n].dns = SIDECAR
                      /\ \A r \in Run : runs'[r].kind \in Main => runs'[r].dns # SIDECAR + 1
                      /\ \A r \in Run : runs'[r].at = "restart" => box'[runs'[r].now].status = "none" \/ box'[runs'[r].now].dns = SIDECAR
    BY DEF Reached, Running, Now
  <1>0. ~ghost.raced BY GhostGrows
  <1>s. SIDECAR # None /\ SIDECAR + 1 # None /\ SIDECAR # SIDECAR + 1 BY NoneAssumption DEF SIDECAR
  <1>1. CASE net = "pinned"
    <2>0. /\ \A n \in Node : Running(n) => box[n].dns = SIDECAR
          /\ \A r \in Run : runs[r].kind \in Main => runs[r].dns # SIDECAR + 1
          /\ \A r \in Run : runs[r].at = "restart" => box[Now(r)].status = "none" \/ box[Now(r)].dns = SIDECAR
          /\ sidecar # SIDECAR + 1
      BY <1>0, <1>1 DEF NetInv, Reached, Reserved
    <2>1. ASSUME NEW r \in Run, Makes(r) PROVE runs[r].dns = SIDECAR
      <3>1. runs[r].at = "make" /\ runs[r].dns \in Address BY <2>1 DEF Makes
      <3>2. runs[r].kind \in Main BY <3>1, ReadyRun DEF AtNode, InHand
      <3>3. runs[r].dns # None BY <3>1, <3>2 DEF NetInv, Addressed, Early
      <3> QED BY <2>0, <3>1, <3>2, <3>3 DEF Address
    <2>2. ASSUME NEW n \in Node, box'[n].status = "running" PROVE box'[n].dns = SIDECAR
      <3>1. CASE \E r \in Run : Makes(r) /\ n = Now(r) /\ box'[n].dns = runs[r].dns BY <2>1, <3>1
      <3>2. CASE Running(n) /\ box'[n].dns = box[n].dns BY <2>0, <3>2
      <3>3. ASSUME NEW r \in Run, Restarts(r), n = Now(r) PROVE box'[n].dns = SIDECAR
        <4>1. runs[r].at = "restart" BY <3>3, RestartInPlaceRuns DEF Restarts
        <4> QED BY <2>0, <3>3, <4>1 DEF Restarts
      <3>4. ASSUME NEW r \in Run, Makes(r), n = Now(r) PROVE box'[n].dns = SIDECAR BY <2>1, <3>4, MadeBox DEF Makes, Ready
      <3> QED BY <2>2, <3>1, <3>2, <3>3, <3>4, BoxFrom
    <2>3. ASSUME NEW n \in Node, box[n].status = "none" \/ box[n].dns = SIDECAR PROVE box'[n].status = "none" \/ box'[n].dns = SIDECAR
      BY <2>1, <2>3, BoxFrom
    <2>4. ASSUME NEW r \in Run, runs'[r].kind \in Main PROVE runs'[r].dns # SIDECAR + 1
      <3>1. CASE runs'[r] = runs[r] BY <2>0, <2>4, <3>1
      <3>2. CASE Begin(r) BY <1>s, <3>2, BeginRuns DEF Keeps, Field, Idle
      <3>3. CASE RestoreSidecar(r) BY <2>4, <3>3, RestoreSidecarRuns DEF Main
      <3>4. CASE SidecarThere(r) BY <2>0, <3>4, SidecarThereRuns
      <3>i. runs'[r] # Idle BY <2>4 DEF Idle, Main
      <3>5. CASE ReplaceSidecar(r) BY <1>1, <1>s, <3>i, <3>5, SidecarReplaced
      <3>6. CASE ~SidecarThere(r) /\ ~ReplaceSidecar(r) /\ Drifts(r) BY <2>0, <2>4, <3>6 DEF Drifts
      <3>7. ASSUME NEW q \in Run, Reads(q) \/ Networks(q) \/ Boxes(q), q # r PROVE runs'[r] = runs[r] BY <3>7, OtherSame
      <3>8. CASE (\E k \in Node : DeleteNode(k)) \/ Observe \/ Outside \/ UNCHANGED vars BY <3>1, <3>8 DEF DeleteNode, Observe, Outside, vars
      <3> QED BY <3>1, <3>2, <3>3, <3>4, <3>i, <3>5, <3>6, <3>7, <3>8, DriftStep, NextCases
    <2>5. ASSUME NEW r \in Run, runs'[r].at = "restart" PROVE box'[runs'[r].now].status = "none" \/ box'[runs'[r].now].dns = SIDECAR
      <3>0. runs'[r].now \in Node
        <4>1. runs'[r] \in RunRec /\ runs'[r].now \in runs'[r].todo BY <2>5, FitsAll DEF Fits, Sound, AtNode
        <4> QED BY <4>1 DEF RunRec
      <3>1. CASE runs'[r] = runs[r] BY <2>0, <2>3, <2>5, <3>0, <3>1 DEF Now
      <3>2. CASE NextNode(r)
        <4>1. PICK n \in First(runs[r].todo) :
               /\ n \in Node /\ runs[r].at = "next"
               /\ \/ Turns(r, {"todo"}) \/ Turns(r, {"todo", "blocked"})
                  \/ runs'[r].at = Choice(runs[r], n) /\ runs'[r].now = n
          BY <3>2, NextNodeRuns
        <4>2. runs'[r].at = Choice(runs[r], n) /\ runs'[r].now = n BY <2>5, <4>1 DEF Turns, Keeps, Field, Idle
        <4>3. Running(n) BY <2>5, <4>2, ChoiceNeeds
        <4> QED BY <2>0, <2>3, <4>1, <4>2, <4>3
      <3>3. ASSUME NEW q \in Run, Reads(q) \/ Networks(q) \/ Boxes(q) PROVE runs'[r] = runs[r] \/ NextNode(r)
        BY <2>5, <3>3, OtherSame, PhaseFrom
      <3>4. CASE (\E k \in Node : DeleteNode(k)) \/ Observe \/ Outside \/ UNCHANGED vars BY <3>1, <3>4 DEF DeleteNode, Observe, Outside, vars
      <3> QED BY <3>1, <3>2, <3>3, <3>4, NextCases
    <2> QED BY <2>2, <2>4, <2>5
  <1>2. CASE net # "pinned"
    <2>1. PICK q \in Run : PinNetwork(q) /\ net = "none" BY <1>2, NetStep, NetworksNet
    <2>2. box' = box BY <2>1 DEF PinNetwork
    <2>3. \A n \in Node : ~Running(n) BY <2>1 DEF NetInv, Unattached, Attached
    <2>4. \A s \in Run : runs[s].kind # "restore" => runs[s].dns = None BY <2>1, PinSet DEF Ready
    <2>5. /\ (\A s \in Run \ {q} : runs'[s] = runs[s]) /\ runs'[q].at = "sidecar"
          /\ runs'[q].dns = runs[q].dns /\ runs'[q].kind = runs[q].kind
      BY <2>1, PinNetworkRuns DEF Turns, Keeps, Field, Idle, Others
    <2>6. \A r \in Run : runs'[r].kind \in Main => runs'[r].dns = None BY <2>4, <2>5 DEF Main
    <2>7. ASSUME NEW r \in Run, runs'[r].at = "restart" PROVE FALSE
      <3>1. runs'[r] = runs[r] BY <2>5, <2>7
      <3>2. runs[r].kind \in Main /\ runs[r].at = "restart" BY <2>7, <3>1, ReadyRun DEF AtNode
      <3>3. runs[r].dns # None BY <3>2 DEF NetInv, Addressed, Early
      <3> QED BY <2>4, <3>2, <3>3 DEF Main
    <2> QED BY <1>s, <2>2, <2>3, <2>6, <2>7 DEF Running
  <1> QED BY <1>1, <1>2

Net == Apart /\ NetInv
LEMMA InitNet ==
  ASSUME Init
  PROVE  Net
  <1>1. Apart BY InitApart
  <1>2. \A r \in Run : runs[r] = Idle BY DEF Init
  <1>3. /\ net = shop.net /\ sidecar = shop.sidecar /\ holder = None /\ shop.sidecar \in Address
    BY InitShop DEF Init, Workspace, Address
  <1>4. Found(shop) BY InitShop
  <1>5. \A n \in Node : Running(n) <=> n \in shop.up \ shop.tasks BY InitBox DEF Running, IsTask
  <1>6. Unattached BY <1>3, <1>4, <1>5 DEF Unattached, Attached, Found
  <1>7. Addressed BY <1>2 DEF Addressed, Idle, Main
  <1>8. Reserved BY <1>3, <1>4 DEF Reserved, Found
  <1>9. Reached
    <2>1. ASSUME NEW n \in Node, net = "pinned", Running(n) PROVE box[n].dns = SIDECAR
      <3>1. n \in shop.up \ shop.tasks BY <1>5, <2>1
      <3>2. sidecar # None /\ sidecar # SIDECAR + 1 BY <1>3, <1>4, <2>1, <3>1 DEF Found
      <3>3. sidecar = SIDECAR BY <1>3, <3>2 DEF Address
      <3> QED BY <3>1, <3>3, InitBox
    <2> QED BY <1>2, <2>1 DEF Reached, Idle, Main
  <1> QED BY <1>1, <1>6, <1>7, <1>8, <1>9 DEF Net, NetInv
LEMMA NetInvStep ==
  ASSUME Net, [Next]_vars
  PROVE  Net'
  <1>0. Apart /\ Ready /\ BoxInv /\ Unattached /\ Addressed /\ Reserved /\ NetInv BY DEF Net, NetInv, Apart, ApartInv
  <1>1. Apart' BY <1>0, ApartStep
  <1>2. Unattached' /\ Addressed' /\ Reserved' /\ Reached' BY <1>0, UnattachedStep, AddressedStep, ReservedStep, ReachedStep
  <1> QED BY <1>1, <1>2 DEF Net, NetInv

\* DnsReaches (network.rs, sidecar.rs): on a pinned network no container ever holds the
\* sidecar's address, and every running one was given that address for its DNS,
\* whatever order networks, sidecars and containers are made, lost and made again in.
THEOREM DnsAlwaysReaches == Spec => []DnsReaches
  <1>1. Init => Net BY InitNet
  <1>2. Net /\ [Next]_vars => Net' BY NetInvStep
  <1>3. Net => DnsReaches
    <2> SUFFICES ASSUME Net, net = "pinned"
                 PROVE  holder = None /\ sidecar \in {None, SIDECAR} /\ (ghost.raced \/ \A n \in Node : Running(n) => box[n].dns = SIDECAR)
      BY DEF DnsReaches
    <2>1. sidecar \in Address BY DEF Net, Apart, Ready, Typed, EngineTypes
    <2> QED BY <2>1 DEF Net, NetInv, Reserved, Reached, Address
  <1> QED BY <1>1, <1>2, <1>3, PTL DEF Spec

----------------------------------------------------------------------------
(* What becomes of a store's data.                                         *)

\* As long as no two starts crossed there is one main run.
LEMMA Sole ==
  ASSUME Ready, ~ghost.crossed, NEW r \in Run, NEW s \in Run, runs[r].kind \in Main, runs[s].kind \in Main
  PROVE  r = s
  BY DEF Ready, RunInv, Alone

LEMMA VolumeStep ==
  ASSUME Ready, [Next]_vars
  PROVE  \/ vol' = vol
         \/ \E r \in Run : MakeContainer(r) /\ Now(r) \in Node /\ ensure_volume(Now(r))
         \/ \E n \in Node : VolumeRemoved(n) /\ UNCHANGED <<kept, runs, ghost>>
  <1>1. ASSUME NEW r \in Run, Boxes(r) PROVE vol' = vol \/ (MakeContainer(r) /\ Now(r) \in Node /\ ensure_volume(Now(r)))
    <2>1. CASE MakeContainer(r)
      <3>1. Now(r) \in Node BY <2>1, MakeContainerRuns
      <3> QED BY <2>1, <3>1 DEF MakeContainer
    <2> QED BY <1>1, <2>1 DEF Boxes, StopOutside, RestartInPlace, CallOff
  <1>2. CASE Outside
    BY <1>2 DEF Outside, TaskExits, HealthReports, ServiceDies, ConfigEdited, SidecarDies, NetworkRemoved, engineVars
  <1>3. CASE (\E k \in Node : DeleteNode(k)) \/ Observe \/ UNCHANGED vars BY <1>3 DEF DeleteNode, Observe, vars, engineVars
  <1>4. ASSUME NEW r \in Run, Reads(r) \/ Networks(r) PROVE vol' = vol BY <1>4, ReadsNothing, NetworksNothing DEF engineVars
  <1> QED BY <1>1, <1>2, <1>3, <1>4, NextCases

\* A task's work is lost with the container or the volume it was done in.
LEMMA FilledStep ==
  ASSUME Ready, [Next]_vars, NEW m \in Node, NEW s \in Node, <<m, s>> \in filled, <<m, s>> \notin filled'
  PROVE  \/ \E r \in Run : Makes(r) /\ Now(r) = s /\ ~HasVolume(s)
         \/ VolumeRemoved(s)
  <1>1. ASSUME NEW r \in Run, NEW n \in Node, NEW dns, Made(n, dns) PROVE n = s /\ ~HasVolume(s) BY <1>1 DEF Made
  <1>2. ASSUME NEW r \in Run, Boxes(r) PROVE Makes(r) /\ Now(r) = s /\ ~HasVolume(s)
    <2>0. runs[r].dns \in Address BY ReadyRun DEF RunRec
    <2>1. CASE MakeContainer(r)
      <3>1. Now(r) \in Node /\ runs[r].at = "make" BY <2>1, MakeContainerRuns
      <3>2. net # "none" /\ Made(Now(r), runs[r].dns) BY <2>1, MakeContainerRuns DEF Removed
      <3> QED BY <1>1, <2>0, <2>1, <3>1, <3>2 DEF Makes
    <2>2. CASE CallOff(r)
      <3>1. At(r, "make") /\ net # "none" /\ (HasVolume(Now(r)) => vol[Now(r)].there) /\ Made(Now(r), runs[r].dns)
        BY <2>2 DEF CallOff, Removed
      <3>2. Now(r) \in Node BY <3>1, ReadyRun DEF At, AtNode, InHand
      <3>3. vol' = vol BY <2>2 DEF CallOff
      <3> QED BY <1>1, <2>0, <2>2, <3>1, <3>2, <3>3 DEF Makes, At
    <2> QED BY <1>2, <2>1, <2>2 DEF Boxes, StopOutside, RestartInPlace
  <1>3. CASE Outside
    <2>1. ASSUME NEW n \in Node, TaskExits(n) PROVE FALSE BY <2>1 DEF TaskExits
    <2>2. ASSUME NEW n \in Node, VolumeRemoved(n) PROVE n = s BY <2>2 DEF VolumeRemoved
    <2> QED BY <1>3, <2>1, <2>2 DEF Outside, HealthReports, ServiceDies, ConfigEdited, SidecarDies, NetworkRemoved, engineVars
  <1>4. CASE (\E k \in Node : DeleteNode(k)) \/ Observe \/ UNCHANGED vars BY <1>4 DEF DeleteNode, Observe, vars, engineVars
  <1>5. ASSUME NEW r \in Run, Reads(r) \/ Networks(r) PROVE FALSE BY <1>5, ReadsNothing, NetworksNothing DEF engineVars
  <1> QED BY <1>2, <1>3, <1>4, <1>5, NextCases

\* The number of a container, and of a volume, only grows.
LEMMA IdStep ==
  ASSUME Ready, [Next]_vars, NEW s \in Node
  PROVE  \/ box'[s].id = box[s].id
         \/ \E r \in Run : Makes(r) /\ Now(r) = s /\ box'[s].id = NewId(s)
  <1>0. Typed BY DEF Ready
  <1>1. CASE UNCHANGED <<box, holder>> BY <1>1
  <1>2. ASSUME NEW k \in Node, stop_container(k) \/ stop_and_remove(k) \/ TaskExits(k) \/ HealthReports(k) PROVE box'[s].id = box[s].id
    BY <1>0, <1>2, StopContainerBox, RemoveBox, ExitBox, HealthBox DEF Only
  <1>3. ASSUME NEW r \in Run, Makes(r) PROVE box'[s].id = box[s].id \/ (Now(r) = s /\ box'[s].id = NewId(s))
    BY <1>0, <1>3, MadeBox DEF Makes, Only
  <1>4. ASSUME NEW r \in Run, Restarts(r) PROVE box'[s].id = box[s].id BY <1>4 DEF Restarts, Only
  <1> QED BY <1>1, <1>2, <1>3, <1>4, BoxStep
LEMMA CreatedStep ==
  ASSUME Ready, [Next]_vars, NEW s \in Node
  PROVE  \/ vol'[s].created = vol[s].created /\ (vol'[s].there => vol[s].there)
         \/ vol'[s].created = vol[s].created + 1
  <1>0. Typed /\ vol \in [Node -> Volume] BY DEF Ready, Typed, EngineTypes
  <1>1. CASE vol' = vol BY <1>1
  <1>2. ASSUME NEW n \in Node, ensure_volume(n)
        PROVE  \/ vol'[s].created = vol[s].created /\ (vol'[s].there => vol[s].there)
               \/ vol'[s].created = vol[s].created + 1
    BY <1>0, <1>2, VolumeType
  <1>3. ASSUME NEW n \in Node, VolumeRemoved(n) PROVE vol'[s].created = vol[s].created /\ (vol'[s].there => vol[s].there)
    <2>1. vol' = [vol EXCEPT ![n].there = FALSE] BY <1>3 DEF VolumeRemoved
    <2> QED BY <1>0, <2>1 DEF Volume
  <1> QED BY <1>1, <1>2, <1>3, VolumeStep

\* Who fills a store is a task, and a store is none.
LEMMA StoreTask ==
  ASSUME Ready, NEW m \in Node, NEW s \in Stores(m)
  PROVE  s \in Node /\ m \in shop.tasks /\ s \notin shop.tasks
  <1>1. shop \in Workspace /\ Resolved(shop) BY DEF Ready, Typed, EngineTypes
  <1>2. shop.seeds[m] \subseteq Node /\ shop.migrates[m] \in Node \cup {None} BY <1>1 DEF Workspace
  <1>3. CASE s \in shop.seeds[m] BY <1>1, <1>2, <1>3 DEF Resolved
  <1>4. CASE s = shop.migrates[m] /\ s # None BY <1>1, <1>2, <1>4 DEF Resolved
  <1> QED BY <1>3, <1>4 DEF Stores

LEMMA DataGrows ==
  ASSUME Ready, [Next]_vars, NEW m \in Node, NEW s \in Stores(m)
  PROVE  /\ DataOf(s) \in Nat /\ DataOf(s)' \in Nat /\ DataOf(s) <= DataOf(s)'
         /\ HasVolume(s)' = HasVolume(s)
         /\ HasVolume(s) /\ ~vol[s].there /\ vol'[s].there => DataOf(s) < DataOf(s)'
         /\ \A r \in Run : Makes(r) /\ Now(r) = s /\ ~HasVolume(s) => DataOf(s) < DataOf(s)'
  <1>0. Typed /\ Typed' /\ s \in Node /\ m \in shop.tasks BY TypedStep, StoreTask DEF Ready
  <1>1. DataOf(s) \in Nat BY <1>0, DataType
  <1>2. vol \in [Node -> Volume] /\ vol' \in [Node -> Volume] /\ box' \in [Node -> Box] /\ box \in [Node -> Box]
    BY <1>0 DEF Typed, EngineTypes
  <1>3. shop' = shop BY ShopSame
  <1>4. HasVolume(s)' = HasVolume(s) BY <1>3 DEF HasVolume
  <1>5. CASE HasVolume(s)
    <2>1. DataOf(s) = vol[s].created /\ DataOf(s)' = vol'[s].created BY <1>3, <1>5 DEF DataOf, HasVolume
    <2>2. vol'[s].created \in Nat /\ vol[s].created \in Nat BY <1>0, <1>2 DEF Volume
    <2> QED BY <1>0, <1>4, <1>5, <2>1, <2>2, CreatedStep
  <1>6. CASE ~HasVolume(s)
    <2>1. DataOf(s) = box[s].id /\ DataOf(s)' = box'[s].id BY <1>3, <1>6 DEF DataOf, HasVolume
    <2>2. box'[s].id \in Nat /\ box[s].id \in Nat BY <1>0, <1>2 DEF Box
    <2>3. NewId(s) = box[s].id + 1 BY <1>0, <1>6 DEF NewId
    <2>4. ASSUME NEW r \in Run, Makes(r), Now(r) = s PROVE box'[s].id = NewId(s) BY <1>0, <2>4, MadeBox DEF Makes
    <2> QED BY <1>0, <1>4, <1>6, <2>1, <2>2, <2>3, <2>4, IdStep
  <1> QED BY <1>5, <1>6

LEMMA VolumeInvStep ==
  ASSUME Ready, VolumeInv, [Next]_vars
  PROVE  VolumeInv'
  <1>1. SUFFICES ASSUME NEW n \in Node, HasVolume(n), box'[n].status # "none" PROVE vol'[n].there
    <2>1. shop' = shop BY ShopSame
    <2> QED BY <1>1, <2>1 DEF VolumeInv, HasVolume
  <1>0. Typed /\ vol \in [Node -> Volume] BY DEF Ready, Typed, EngineTypes
  <1>2. ASSUME NEW r \in Run, Makes(r), n = Now(r) PROVE vol'[n].there
    <2>1. CASE MakeContainer(r)
      <3>1. ensure_volume(n) BY <1>2, <2>1 DEF MakeContainer
      <3> QED BY <1>0, <1>1, <3>1, VolumeType
    <2>2. CASE vol' = vol /\ (HasVolume(n) => vol[n].there) BY <1>1, <2>2
    <2> QED BY <1>2, <2>1, <2>2 DEF Makes
  <1>3. CASE box[n].status # "none"
    <2>1. vol[n].there BY <1>1, <1>3 DEF VolumeInv
    <2>2. ASSUME NEW k \in Node, VolumeRemoved(k) PROVE vol'[n] = vol[n]
      <3>1. k # n BY <1>3, <2>2 DEF VolumeRemoved
      <3> QED BY <1>0, <2>2, <3>1 DEF VolumeRemoved
    <2>3. ASSUME NEW k \in Node, ensure_volume(k) PROVE vol'[n] = vol[n] BY <1>0, <2>1, <2>3, VolumeType
    <2> QED BY <2>1, <2>2, <2>3, VolumeStep
  <1> QED BY <1>1, <1>2, <1>3, BoxFrom

(* What is on record of a seed.                                            *)

LEMMA IdentityIs ==
  ASSUME NEW s
  PROVE  /\ data_identity(s) # None => box[s].status # "none"
         /\ box[s].status # "none" => data_identity(s) = <<Tag(s), DataOf(s)>>
  BY DEF data_identity, Tag, DataOf
LEMMA SeededIs ==
  ASSUME NEW n, seeded_data(n) # None
  PROVE  /\ seeded_data(n) = [s \in shop.seeds[n] |-> <<Tag(s), DataOf(s)>>]
         /\ \A s \in shop.seeds[n] : data_identity(s) # None /\ box[s].status # "none"
  <1>1. \A s \in shop.seeds[n] : data_identity(s) # None BY DEF seeded_data
  <1>2. \A s \in shop.seeds[n] : data_identity(s) = <<Tag(s), DataOf(s)>> /\ box[s].status # "none" BY <1>1, IdentityIs
  <1>3. seeded_data(n) = [s \in shop.seeds[n] |-> data_identity(s)] BY <1>1 DEF seeded_data
  <1> QED BY <1>1, <1>2, <1>3
LEMMA SeedStores ==
  ASSUME Ready, NEW n \in Node
  PROVE  /\ shop.seeds[n] \subseteq Stores(n)
         /\ \A s \in shop.seeds[n] : s \in Node /\ DataOf(s) \in Nat /\ Tag(s) \in {"volume", "container"}
  BY StoreTask, DataType DEF Stores, Tag, Ready

LEMMA KeptInvStep ==
  ASSUME Ready, KeptInv, ExitInv, [Next]_vars
  PROVE  KeptInv'
  <1>0. shop' = shop /\ (ghost.crossed => ghost'.crossed) BY ShopSame, GhostGrows
  <1>t. \A s : Tag(s)' = Tag(s) BY <1>0 DEF Tag, HasVolume
  <1>1. SUFFICES ASSUME NEW n \in Node, kept'[n] # None
                 PROVE  /\ kept'[n] \in [shop.seeds[n] -> {"volume", "container"} \X Nat]
                        /\ \A s \in shop.seeds[n] :
                             /\ kept'[n][s][1] = Tag(s) /\ kept'[n][s][2] <= DataOf(s)'
                             /\ ~ghost'.crossed /\ kept'[n][s][2] = DataOf(s)' /\ (HasVolume(s) => vol'[s].there) => <<n, s>> \in filled'
    BY <1>0, <1>t DEF KeptInv, HasVolume
  <1>2. CASE kept'[n] = kept[n]
    <2>1. kept[n] \in [shop.seeds[n] -> {"volume", "container"} \X Nat] BY <1>1, <1>2 DEF KeptInv
    <2>2. ASSUME NEW s \in shop.seeds[n]
          PROVE  /\ kept[n][s][1] = Tag(s) /\ kept[n][s][2] <= DataOf(s)'
                 /\ ~ghost'.crossed /\ kept[n][s][2] = DataOf(s)' /\ (HasVolume(s) => vol'[s].there) => <<n, s>> \in filled'
      <3>1. s \in Stores(n) /\ s \in Node BY <2>2, SeedStores
      <3>2. /\ kept[n][s][1] = Tag(s) /\ kept[n][s][2] <= DataOf(s)
            /\ ~ghost.crossed /\ kept[n][s][2] = DataOf(s) /\ (HasVolume(s) => vol[s].there) => <<n, s>> \in filled
        BY <1>1, <1>2, <2>2 DEF KeptInv
      <3>3. kept[n][s][2] \in Nat BY <2>1, <2>2
      <3>4. DataOf(s) \in Nat /\ DataOf(s)' \in Nat /\ DataOf(s) <= DataOf(s)' BY <3>1, DataGrows
      <3>5. ASSUME ~ghost'.crossed, kept[n][s][2] = DataOf(s)', HasVolume(s) => vol'[s].there PROVE <<n, s>> \in filled'
        <4>1. DataOf(s) = DataOf(s)' /\ kept[n][s][2] = DataOf(s) BY <3>2, <3>3, <3>4, <3>5
        <4>2. HasVolume(s) => vol[s].there BY <3>1, <3>4, <3>5, <4>1, DataGrows
        <4>3. <<n, s>> \in filled BY <1>0, <3>2, <3>5, <4>1, <4>2
        <4>4. ~\E r \in Run : Makes(r) /\ Now(r) = s /\ ~HasVolume(s) BY <3>1, <3>4, <4>1, DataGrows
        <4>5. ~VolumeRemoved(s)
          <5>1. SUFFICES ASSUME VolumeRemoved(s) PROVE FALSE OBVIOUS
          <5>2. vol \in [Node -> Volume] BY DEF Ready, Typed, EngineTypes
          <5>3. HasVolume(s) /\ vol' = [vol EXCEPT ![s].there = FALSE] BY <5>1 DEF VolumeRemoved
          <5> QED BY <3>1, <3>5, <5>2, <5>3 DEF Volume
        <4> QED BY <3>1, <4>3, <4>4, <4>5, FilledStep
      <3> QED BY <3>2, <3>3, <3>4, <3>5
    <2> QED BY <1>2, <2>1, <2>2
  <1>3. CASE kept'[n] # kept[n]
    <2>1. PICK r \in Run : RecordSeeded(r) /\ save_seed(Now(r)) BY <1>3, KeptStep
    <2>2. runs[r].at = "seeded" /\ Now(r) \in Node BY <2>1, RecordSeededRuns
    <2>3. kept' = [kept EXCEPT ![Now(r)] = seeded_data(Now(r))] BY <2>1 DEF save_seed
    <2>4. n = Now(r) /\ kept'[n] = seeded_data(n) BY <1>3, <2>3, KeptStep DEF Ready, Typed, RunTypes
    <2>5. /\ kept'[n] = [s \in shop.seeds[n] |-> <<Tag(s), DataOf(s)>>]
          /\ \A s \in shop.seeds[n] : box[s].status # "none"
      BY <1>1, <2>4, SeededIs
    <2>6. UNCHANGED <<box, vol, filled>> /\ \A s : DataOf(s)' = DataOf(s)
      <3>1. UNCHANGED <<box, vol, filled>> BY <2>1 DEF RecordSeeded, engineVars
      <3> QED BY <1>0, <3>1 DEF DataOf, HasVolume
    <2>7. ~ghost.crossed => \A s \in shop.seeds[n] : <<n, s>> \in filled BY <2>2, <2>4, <2>5, SeedStores DEF ExitInv
    <2>8. \A s \in shop.seeds[n] : s \in Node /\ DataOf(s) \in Nat /\ Tag(s) \in {"volume", "container"} BY SeedStores
    <2>9. kept'[n] \in [shop.seeds[n] -> {"volume", "container"} \X Nat] BY <2>5, <2>8
    <2>10. \A s \in shop.seeds[n] : kept'[n][s][1] = Tag(s) /\ kept'[n][s][2] = DataOf(s) BY <2>5
    <2> QED BY <1>0, <2>6, <2>7, <2>8, <2>9, <2>10
  <1> QED BY <1>2, <1>3

\* What is told is what is kept.
LEMMA ToldStep ==
  ASSUME Ready, [Next]_vars
  PROVE  \/ kept' = kept /\ ghost'.told = ghost.told
         \/ \E r \in Run : /\ RecordSeeded(r) /\ Now(r) \in Node /\ seeded_data(Now(r)) # None /\ save_seed(Now(r))
                           /\ ghost'.told = ghost.told \cup {<<Now(r), s, DataOf(s)>> : s \in shop.seeds[Now(r)]}
  <1>1. ASSUME NEW r \in Run, RecordSeeded(r)
        PROVE  \/ kept' = kept /\ ghost'.told = ghost.told
               \/ /\ RecordSeeded(r) /\ Now(r) \in Node /\ seeded_data(Now(r)) # None /\ save_seed(Now(r))
                  /\ ghost'.told = ghost.told \cup {<<Now(r), s, DataOf(s)>> : s \in shop.seeds[Now(r)]}
    <2>1. Now(r) \in Node BY <1>1, RecordSeededRuns
    <2>2. CASE UNCHANGED <<kept, ghost>> BY <2>2
    <2>3. CASE /\ seeded_data(Now(r)) # None /\ save_seed(Now(r))
               /\ ghost' = [ghost EXCEPT !.told = @ \cup {<<Now(r), s, DataOf(s)>> : s \in shop.seeds[Now(r)]}]
      BY <1>1, <2>1, <2>3, ToldSet DEF Ready
    <2> QED BY <1>1, <2>2, <2>3 DEF RecordSeeded
  <1>2. CASE ~\E r \in Run : RecordSeeded(r)
    <2>1. kept' = kept BY <1>2, KeptStep
    <2>2. ghost'.told = ghost.told BY <1>2, GhostStep DEF Recalls, GhostField
    <2> QED BY <2>1, <2>2
  <1> QED BY <1>1, <1>2

LEMMA ToldInvStep ==
  ASSUME Ready, KeptInv, ToldInv, [Next]_vars
  PROVE  ToldInv'
  <1>0. shop' = shop BY ShopSame
  <1>1. CASE kept' = kept /\ ghost'.told = ghost.told BY <1>0, <1>1 DEF ToldInv
  <1>2. ASSUME NEW r \in Run, Now(r) \in Node, seeded_data(Now(r)) # None, save_seed(Now(r)),
               ghost'.told = ghost.told \cup {<<Now(r), s, DataOf(s)>> : s \in shop.seeds[Now(r)]}
        PROVE  ToldInv'
    <2> DEFINE n == Now(r)
    <2>1. kept' = [kept EXCEPT ![n] = seeded_data(n)] BY <1>2 DEF save_seed
    <2>2. DOMAIN kept = Node BY DEF Ready, Typed, RunTypes
    <2>3. kept'[n] # None /\ \A k \in Node \ {n} : kept'[k] = kept[k] BY <1>2, <2>1, <2>2
    <2>4. kept'[n] = [s \in shop.seeds[n] |-> <<Tag(s), DataOf(s)>>] BY <1>2, <2>1, <2>2, SeededIs
    <2>5. \A s \in shop.seeds[n] : kept'[n][s][2] = DataOf(s) /\ DataOf(s) \in Nat BY <1>2, <2>4, SeedStores
    <2>6. SUFFICES ASSUME NEW e \in ghost'.told PROVE e[2] \in shop.seeds[e[1]] /\ kept'[e[1]] # None /\ e[3] <= kept'[e[1]][e[2]][2]
      BY <1>0 DEF ToldInv
    <2>7. CASE e \in ghost.told
      <3>1. e \in Node \X Node \X Nat BY <2>7 DEF Ready, Typed, RunTypes, GhostRec
      <3>2. e[1] \in Node /\ e[2] \in Node /\ e[3] \in Nat BY <3>1
      <3>3. e[2] \in shop.seeds[e[1]] /\ kept[e[1]] # None /\ e[3] <= kept[e[1]][e[2]][2] BY <2>7 DEF ToldInv
      <3>4. CASE e[1] # n BY <2>3, <3>2, <3>3, <3>4
      <3>5. CASE e[1] = n
        <4>1. kept[n][e[2]][2] <= DataOf(e[2]) /\ kept[n] \in [shop.seeds[n] -> {"volume", "container"} \X Nat]
          BY <1>2, <3>3, <3>5 DEF KeptInv
        <4>2. kept[n][e[2]][2] \in Nat /\ kept'[n][e[2]][2] = DataOf(e[2]) /\ DataOf(e[2]) \in Nat BY <2>5, <3>3, <3>5, <4>1
        <4>3. e[3] <= kept'[n][e[2]][2]
          <5> HIDE DEF n
          <5> QED BY <3>2, <3>3, <3>5, <4>1, <4>2
        <4> QED BY <2>3, <3>3, <3>5, <4>3
      <3> QED BY <3>4, <3>5
    <2>8. CASE e \notin ghost.told
      <3>1. PICK s \in shop.seeds[n] : e = <<n, s, DataOf(s)>> BY <1>2, <2>6, <2>8
      <3>2. e[1] = n /\ e[2] = s /\ e[3] = DataOf(s) BY <3>1
      <3>3. kept'[n][s][2] = DataOf(s) /\ DataOf(s) \in Nat BY <2>5
      <3> QED BY <2>3, <3>2, <3>3
    <2> QED BY <2>7, <2>8
  <1> QED BY <1>1, <1>2, ToldStep

(* Tasks that end.                                                         *)

LEMMA CodeStep ==
  ASSUME Ready, [Next]_vars, NEW n \in Node, box'[n].code = 0, box[n].code # 0
  PROVE  TaskExits(n)
  <1>0. Typed /\ None # 0 BY NoneAssumption DEF Ready
  <1>1. CASE UNCHANGED <<box, holder>> BY <1>1
  <1>2. ASSUME NEW k \in Node, stop_container(k) PROVE FALSE
    <2>1. CASE k # n BY <1>0, <1>2, <2>1, StopContainerBox
    <2>2. CASE k = n /\ Running(n) BY <1>0, <1>2, <2>2, StopContainerBox
    <2>3. CASE k = n /\ ~Running(n) BY <1>0, <1>2, <2>3, StopContainerBox
    <2> QED BY <2>1, <2>2, <2>3
  <1>3. ASSUME NEW k \in Node, stop_and_remove(k) PROVE FALSE BY <1>0, <1>3, RemoveBox DEF Only
  <1>4. ASSUME NEW k \in Node, HealthReports(k) PROVE FALSE BY <1>0, <1>4, HealthBox DEF Only
  <1>5. ASSUME NEW k \in Node, TaskExits(k) PROVE k = n BY <1>0, <1>5, ExitBox DEF Only
  <1>6. ASSUME NEW r \in Run, Makes(r) PROVE FALSE BY <1>0, <1>6, MadeBox DEF Makes, Only
  <1>7. ASSUME NEW r \in Run, Restarts(r) PROVE FALSE BY <1>0, <1>7 DEF Restarts, Only
  <1> QED BY <1>1, <1>2, <1>3, <1>4, <1>5, <1>6, <1>7, BoxStep

\* Who is past its start stays there, or is over.
LEMMA ExitFrom ==
  ASSUME Ready, [Next]_vars, NEW r \in Run, runs'[r].at \in {"exit", "seeded"}
  PROVE  \/ runs'[r] = runs[r]
         \/ MakeContainer(r) /\ Makes(r) /\ runs'[r].at = "exit" /\ runs'[r].now = Now(r)
         \/ WaitForExit(r) /\ runs'[r].at = "seeded" /\ runs[r].at = "exit" /\ box[Now(r)].code = 0 /\ runs'[r].now = Now(r)
  <1>1. ASSUME NEW q \in Run, q # r, Reads(q) \/ Networks(q) \/ Boxes(q) PROVE runs'[r] = runs[r] BY <1>1, OtherSame
  <1>2. CASE (\E k \in Node : DeleteNode(k)) \/ Observe \/ Outside \/ UNCHANGED vars BY <1>2 DEF DeleteNode, Observe, Outside, vars
  <1>3. ASSUME MakeContainer(r), runs'[r].at = "exit" PROVE Makes(r) /\ runs'[r].now = Now(r)
    <2>1. runs[r].dns \in Address BY ReadyRun DEF RunRec
    <2>2. ASSUME NodeFails(r) PROVE FALSE
      <3>1. Now(r) \in Node BY <1>3, MakeContainerRuns
      <3> QED BY <1>3, <2>2, <3>1, ReadyRun, NodeFailsTurns
    <2>3. /\ Turns(r, {"at"}) /\ runs[r].at = "make" /\ Now(r) \in Node /\ net # "none" /\ Made(Now(r), runs[r].dns)
      BY <1>3, <2>2, MakeContainerRuns
    <2>4. runs'[r].now = Now(r) BY <2>3 DEF Turns, Keeps, Field, Idle, Now
    <2> QED BY <1>3, <2>1, <2>3, <2>4 DEF Makes
  <1>4. ASSUME WaitForExit(r), runs'[r].at = "seeded" PROVE runs[r].at = "exit" /\ box[Now(r)].code = 0 /\ runs'[r].now = Now(r)
    <2>1. runs[r].at = "exit" /\ Now(r) \in Node BY <1>4, WaitForExitRuns
    <2>2. ASSUME NodeFails(r) PROVE FALSE BY <1>4, <2>1, <2>2, ReadyRun, NodeFailsTurns
    <2>3. box[Now(r)].code = 0 /\ Turns(r, {"at", "clock", "waited"}) BY <1>4, <2>2, WaitForExitRuns
    <2>4. runs'[r].now = Now(r) BY <2>3 DEF Turns, Keeps, Field, Idle, Now
    <2> QED BY <2>1, <2>3, <2>4
  <1>5. ASSUME Reads(r) \/ Networks(r) \/ Boxes(r) PROVE (MakeContainer(r) /\ runs'[r].at = "exit") \/ (WaitForExit(r) /\ runs'[r].at = "seeded")
    BY <1>5, PhaseFrom
  <1> QED BY <1>1, <1>2, <1>3, <1>4, <1>5, NextCases

LEMMA ExitInvStep ==
  ASSUME Ready, ExitInv, [Next]_vars
  PROVE  ExitInv'
  <1>0. Typed /\ shop' = shop /\ (ghost.crossed => ghost'.crossed) BY ShopSame, GhostGrows DEF Ready
  <1>1. SUFFICES ASSUME NEW r \in Run, ~ghost'.crossed,
                        runs'[r].at = "seeded" \/ (runs'[r].at = "exit" /\ box'[runs'[r].now].code = 0),
                        NEW s \in Stores(runs'[r].now), box'[s].status # "none"
                 PROVE  <<runs'[r].now, s>> \in filled'
    BY <1>0 DEF ExitInv, Now, Stores
  <1>2. ~ghost.crossed BY <1>0, <1>1
  <1> DEFINE n == runs'[r].now
  <1>3. n \in Node
    <2>1. runs' \in [Run -> RunRec] /\ Sound(runs'[r]) BY FitsAll DEF Fits
    <2>2. n \in runs'[r].todo BY <1>1, <2>1 DEF Sound, AtNode, InHand
    <2> QED BY <2>1, <2>2 DEF RunRec
  <1>4. s \in Node /\ n \in shop.tasks /\ s \notin shop.tasks BY <1>1, <1>3, StoreTask
  <1>5. CASE WaitForExit(r) /\ runs[r].at = "exit" /\ box[Now(r)].code = 0 /\ n = Now(r)
    <2>1. UNCHANGED <<box, filled>> BY <1>5 DEF WaitForExit, engineVars
    <2> QED BY <1>1, <1>2, <1>5, <2>1 DEF ExitInv
  <1>6. CASE Makes(r) /\ runs'[r].at = "exit" /\ n = Now(r)
    <2>1. box'[n].code = None BY <1>0, <1>6, MadeBox DEF Makes
    <2> QED BY <1>1, <1>6, <2>1, NoneAssumption
  <1>7. CASE runs'[r] = runs[r]
    <2>0. n = Now(r) BY <1>7 DEF Now
    <2>1. runs[r].at \in {"seeded", "exit"} /\ runs[r].kind \in Main BY <1>1, <1>7, ReadyRun DEF AtNode, InHand
    <2>2. CASE TaskExits(n) /\ box'[n].code = 0
      <3>1. filled' = filled \cup ({n} \X Stores(n)) BY <1>0, <1>3, <2>2, ExitBox
      <3> QED BY <1>1, <3>1
    <2>3. CASE runs[r].at = "seeded" \/ (runs[r].at = "exit" /\ box[n].code = 0)
      <3>1. ASSUME NEW q \in Run, Makes(q) PROVE Now(q) # s
        <4>1. runs[q].kind \in Main BY <3>1, ReadyRun DEF Makes, AtNode, InHand
        <4>2. q = r BY <1>2, <2>1, <4>1, Sole
        <4> QED BY <2>1, <3>1, <4>2 DEF Makes
      <3>2. box[s].status # "none" BY <1>1, <1>4, <3>1, BoxFrom
      <3>3. <<n, s>> \in filled BY <1>1, <1>2, <2>0, <2>3, <3>2 DEF ExitInv
      <3>4. ~VolumeRemoved(s) BY <3>2 DEF VolumeRemoved
      <3> QED BY <1>3, <1>4, <3>1, <3>3, <3>4, FilledStep
    <2> QED BY <1>1, <1>3, <1>7, <2>1, <2>2, <2>3, CodeStep
  <1> QED BY <1>1, <1>5, <1>6, <1>7, ExitFrom

(* Seeds on their way to a start.                                          *)

LEMMA GoingFrom ==
  ASSUME Ready, NEW r \in Run, Reads(r) \/ Networks(r) \/ Boxes(r), runs'[r].at \in Going
  PROVE  NextNode(r) \/ (runs[r].at \in Going /\ runs'[r].now = Now(r))
  <1>1. CASE runs'[r].at \in {"start", "restart"} BY <1>1, PhaseFrom
  <1>2. CASE runs'[r].at \in InHand
    <2>1. runs'[r].now = Now(r) BY <1>2, HandFrom DEF Now
    <2>2. runs[r].at \in Going
      <3>1. ASSUME TakeNode(r) PROVE runs[r].at = "start" BY <3>1, TakeNodeRuns
      <3>2. ASSUME BuildBegins(r) PROVE runs[r].at = "build" BY <3>2, BuildBeginsRuns
      <3>3. ASSUME LookForBuilder(r) PROVE runs[r].at = "look" BY <3>3, LookForBuilderRuns
      <3>4. ASSUME RetireBuilder(r) PROVE runs[r].at = "retire" BY <3>4, RetireBuilderRuns
      <3>5. ASSUME SolveBegins(r) PROVE runs[r].at = "boot" BY <3>5, SolveBeginsRuns
      <3>6. ASSUME BuildEnds(r) PROVE runs[r].at = "solve" BY <3>6, BuildEndsRuns
      <3>7. runs'[r].at \in {"build", "look", "retire", "boot", "solve", "make"} BY <1>2 DEF Going, InHand
      <3>8. runs[r].at \in {"start", "build", "look", "retire", "boot", "solve", "make"}
        BY <3>1, <3>2, <3>3, <3>4, <3>5, <3>6, <3>7, PhaseFrom
      <3> QED BY <3>8 DEF Going, AtNode, InHand
    <2> QED BY <2>1, <2>2
  <1> QED BY <1>1, <1>2 DEF Going, AtNode

\* No one else makes a seed's data anew, or records it, under a sole run.
LEMMA AlreadyStep ==
  ASSUME Ready, KeptInv, [Next]_vars, ~ghost.crossed, NEW r \in Run, runs[r].at \in Going, NEW n \in Node, n = Now(r), already_seeded(n)'
  PROVE  already_seeded(n)
  <1>0. runs[r].kind \in Main /\ shop' = shop BY ReadyRun, ShopSame DEF Going
  <1>1. kept'[n] # None /\ kept'[n] = seeded_data(n)' BY DEF already_seeded
  <1>2. \A s \in shop.seeds[n] : data_identity(s)' # None BY <1>0, <1>1 DEF seeded_data
  <1>3. \A s \in shop.seeds[n] : box'[s].status # "none" /\ data_identity(s)' = <<Tag(s), DataOf(s)'>>
    BY <1>0, <1>2 DEF data_identity, Tag, DataOf, HasVolume
  <1>4. kept'[n] = [s \in shop.seeds[n] |-> data_identity(s)'] BY <1>0, <1>1, <1>2 DEF seeded_data
  <1>5. kept'[n] = kept[n]
    <2>1. ASSUME NEW q \in Run, RecordSeeded(q) PROVE FALSE
      <3>1. runs[q].at = "seeded" BY <2>1, RecordSeededRuns
      <3>2. runs[q].kind \in Main BY <3>1, ReadyRun DEF AtNode
      <3> QED BY <1>0, <3>1, <3>2, Sole DEF Going
    <2> QED BY <2>1, KeptStep
  <1>6. ASSUME NEW s \in shop.seeds[n] PROVE data_identity(s) = data_identity(s)'
    <2>0. s \in Node /\ s \in Stores(n) BY <1>0, SeedStores
    <2>1. kept[n] \in [shop.seeds[n] -> {"volume", "container"} \X Nat] /\ kept[n][s][2] <= DataOf(s) BY <1>0, <1>1, <1>5 DEF KeptInv
    <2>2. kept[n][s] = <<Tag(s), DataOf(s)'>> BY <1>3, <1>4, <1>5
    <2>3. kept[n][s][2] = DataOf(s)' BY <2>2
    <2>4. DataOf(s) = DataOf(s)' BY <1>0, <2>0, <2>1, <2>3, DataGrows
    <2>5. ASSUME NEW q \in Run, Makes(q), Now(q) = s PROVE FALSE
      <3>1. runs[q].kind \in Main BY <2>5, ReadyRun DEF Makes, AtNode, InHand
      <3>2. q = r BY <1>0, <3>1, Sole
      <3> QED BY <1>0, <2>0, <2>5, <3>2, StoreTask
    <2>6. box[s].status # "none" BY <1>3, <2>0, <2>5, BoxFrom
    <2> QED BY <1>3, <2>4, <2>6, IdentityIs
  <1>7. kept[n] = [s \in shop.seeds[n] |-> data_identity(s)] BY <1>4, <1>5, <1>6
  <1>8. seeded_data(n) = kept[n] BY <1>2, <1>6, <1>7 DEF seeded_data
  <1> QED BY <1>1, <1>5, <1>8 DEF already_seeded

LEMMA SeedInvStep ==
  ASSUME Ready, KeptInv, SeedInv, [Next]_vars
  PROVE  SeedInv'
  <1>0. shop' = shop /\ (ghost.crossed => ghost'.crossed) BY ShopSame, GhostGrows
  <1>1. SUFFICES ASSUME NEW r \in Run, NEW n \in Node, ~ghost'.crossed, runs'[r].at \in Going, runs'[r].now = n, ~Forced(runs'[r], n),
                        shop.seeds[n] # {}, already_seeded(n)'
                 PROVE  FALSE
    BY <1>0 DEF SeedInv, Now, Forced
  <1>2. ~ghost.crossed BY <1>0, <1>1
  <1>3. CASE NextNode(r)
    <2>1. Choice(runs[r], n) \in {"start", "restart"} /\ runs'[r].kind = runs[r].kind /\ runs'[r].of = runs[r].of
      <3>1. PICK k \in First(runs[r].todo) :
           /\ runs[r].at = "next"
           /\ \/ Turns(r, {"todo"}) \/ Turns(r, {"todo", "blocked"})
              \/ Choice(runs[r], k) \in {"start", "restart"} /\ Turns(r, {"at", "now"}) /\ runs'[r].now = k
        BY <1>3, NextNodeRuns
      <3>2. CASE Turns(r, {"todo"}) \/ Turns(r, {"todo", "blocked"})
        <4>1. runs'[r].at = "next" BY <3>1, <3>2 DEF Turns, Keeps, Field, Idle
        <4> QED BY <1>1, <4>1 DEF Going, AtNode, InHand
      <3>3. CASE Choice(runs[r], k) \in {"start", "restart"} /\ Turns(r, {"at", "now"}) /\ runs'[r].now = k
        <4>1. runs'[r].kind = runs[r].kind /\ runs'[r].of = runs[r].of BY <3>3 DEF Turns, Keeps, Field, Idle
        <4> QED BY <1>1, <3>3, <4>1
      <3> QED BY <3>1, <3>2, <3>3
    <2>2. ~Forced(runs[r], n) BY <1>1, <2>1 DEF Forced
    <2>3. ~already_seeded(n) BY <1>1, <2>1, <2>2, ChoiceNeeds
    <2>4. UNCHANGED <<box, vol, kept>> BY <1>3 DEF NextNode, engineVars
    <2>5. already_seeded(n)' = already_seeded(n)
      BY <1>0, <2>4 DEF already_seeded, seeded_data, data_identity, HasVolume
    <2> QED BY <1>1, <2>1, <2>3, <2>5
  <1>4. CASE runs[r].at \in Going /\ runs'[r].now = Now(r) /\ runs'[r].kind = runs[r].kind /\ runs'[r].of = runs[r].of
    <2>1. ~Forced(runs[r], n) /\ Now(r) = n BY <1>1, <1>4 DEF Forced
    <2>2. already_seeded(n) BY <1>1, <1>2, <1>4, <2>1, AlreadyStep
    <2> QED BY <1>1, <1>2, <1>4, <2>1, <2>2 DEF SeedInv
  <1>5. ASSUME Reads(r) \/ Networks(r) \/ Boxes(r), ~NextNode(r) PROVE FALSE
    <2>1. ~Begin(r) /\ ~RestoreSidecar(r) BY <1>1, BeginRuns, RestoreSidecarRuns DEF Going, AtNode, InHand
    <2>2. runs'[r] # Idle BY <1>1 DEF Going, AtNode, InHand, Idle
    <2>3. Drifts(r) BY <1>5, <2>1, <2>2, DriftStep
    <2> QED BY <1>1, <1>4, <1>5, <2>3, GoingFrom DEF Drifts
  <1>6. ASSUME runs'[r] = runs[r] PROVE FALSE BY <1>1, <1>4, <1>6 DEF Now
  <1>7. ASSUME NEW q \in Run, q # r, Reads(q) \/ Networks(q) \/ Boxes(q) PROVE FALSE BY <1>6, <1>7, OtherSame
  <1>8. CASE (\E k \in Node : DeleteNode(k)) \/ Observe \/ Outside \/ UNCHANGED vars BY <1>6, <1>8 DEF DeleteNode, Observe, Outside, vars
  <1> QED BY <1>3, <1>5, <1>7, <1>8, NextCases

\* A seed whose data is on record is not started.
LEMMA AgainStep ==
  ASSUME Ready, KeptInv, ToldInv, SeedInv, NEW r \in Run, runs[r].at \in Going
  PROVE  ~Again(r, Now(r))
  <1>1. SUFFICES ASSUME Again(r, Now(r)) PROVE FALSE OBVIOUS
  <1> DEFINE n == Now(r)
  <1>2. n \in Node BY ReadyRun DEF Going
  <1>3. ~ghost.crossed /\ ~Forced(runs[r], n) /\ shop.seeds[n] # {} /\ seeded_data(n) # None
        /\ \A s \in shop.seeds[n] : <<n, s, DataOf(s)>> \in ghost.told
    BY <1>1 DEF Again
  <1>4. ~already_seeded(n) BY <1>2, <1>3 DEF SeedInv
  <1>5. seeded_data(n) = [s \in shop.seeds[n] |-> <<Tag(s), DataOf(s)>>] BY <1>3, SeededIs
  <1>6. ASSUME NEW s \in shop.seeds[n] PROVE kept[n] # None /\ DataOf(s) <= kept[n][s][2]
    <2>1. <<n, s, DataOf(s)>> \in ghost.told BY <1>3
    <2> QED BY <2>1 DEF ToldInv
  <1>7. kept[n] # None BY <1>3, <1>6
  <1>8. kept[n] \in [shop.seeds[n] -> {"volume", "container"} \X Nat] BY <1>2, <1>7 DEF KeptInv
  <1>9. ASSUME NEW s \in shop.seeds[n] PROVE kept[n][s] = <<Tag(s), DataOf(s)>>
    <2>1. kept[n][s][1] = Tag(s) /\ kept[n][s][2] <= DataOf(s) BY <1>2, <1>7 DEF KeptInv
    <2>2. kept[n][s] \in {"volume", "container"} \X Nat /\ DataOf(s) \in Nat BY <1>2, <1>8, SeedStores
    <2>3. kept[n][s][2] = DataOf(s) BY <1>6, <2>1, <2>2
    <2> QED BY <2>1, <2>2, <2>3
  <1>10. kept[n] = seeded_data(n) BY <1>5, <1>8, <1>9
  <1> QED BY <1>3, <1>4, <1>10 DEF already_seeded

----------------------------------------------------------------------------
(* What a run's step does to what it has ahead, and to what is owed.       *)

\* It ends, before its first node, after its last, or called off.
Leaves(r) ==
  /\ Ends(r) /\ runs'[r] = Idle
  /\ \/ runs[r].todo = {} /\ ghost'.owed = ghost.owed
     \/ CallOff(r) /\ ghost'.owed = ghost.owed \cup Ahead(r)
\* Its node fails.
Gives(r) ==
  /\ runs[r].at \in AtNode /\ Now(r) \in Node
  /\ Turns(r, {"at", "now", "todo", "failed", "sock", "was", "want", "clock", "waited"})
  /\ runs'[r].at = "next" /\ runs'[r].todo = runs[r].todo \ {Now(r)} /\ runs'[r].failed = runs[r].failed \cup {Now(r)}
  /\ Cleared(Now(r)) /\ ghost'.owed = ghost.owed \cup Ahead(r)
\* Its task ended well.
Done(r) ==
  /\ WaitForExit(r) /\ runs[r].at = "exit" /\ Now(r) \in Node /\ ~Running(Now(r)) /\ box[Now(r)].code = 0
  /\ ghost'.owed = ghost.owed \ {Now(r)}
  /\ \/ /\ Turns(r, {"at", "now", "todo", "seen", "clock", "waited"}) /\ shop.seeds[Now(r)] = {}
        /\ runs'[r].at = "next" /\ runs'[r].todo = runs[r].todo \ {Now(r)}
        /\ runs'[r].seen = [runs[r].seen EXCEPT ![Now(r)] = Started(Now(r))] /\ record' = [record EXCEPT ![Now(r)] = Started(Now(r))]
     \/ /\ Turns(r, {"at", "clock", "waited"}) /\ runs'[r].at = "seeded" /\ shop.seeds[Now(r)] # {} /\ UNCHANGED record
\* Its service is up, new or restarted.
Answers(r) ==
  /\ Now(r) \in Node /\ ghost'.owed = ghost.owed /\ (\E entry \in EntryRec : ~entry.busy /\ Answered(r, entry))
  /\ (runs[r].at = "health" /\ UNCHANGED ghost) \/ Restarts(r)
\* It chooses what to do, or writes down what it did.
Looks(r) == (NextNode(r) \/ Plan(r) \/ StopOutside(r) \/ RecordSeeded(r)) /\ ghost'.owed = ghost.owed
\* It goes on with what it has in hand.
Quiet(r) ==
  /\ Turns(r, {"at", "dns", "sock", "was", "want", "clock"}) /\ UNCHANGED record
  /\ ghost'.owed = ghost.owed /\ runs[r].at \notin {"exit", "health", "seeded"}

LEMMA FailsGives ==
  ASSUME Ready, NEW r \in Run, runs[r].at \in AtNode, NodeFails(r)
  PROVE  Gives(r)
  <1>1. Now(r) \in Node BY ReadyRun
  <1>2. /\ Turns(r, {"at", "now", "todo", "failed", "sock", "was", "want"})
        /\ runs'[r].at = "next" /\ runs'[r].todo = runs[r].todo \ {Now(r)} /\ runs'[r].failed = runs[r].failed \cup {Now(r)}
    BY <1>1, ReadyRun, NodeFailsTurns
  <1>3. Turns(r, {"at", "now", "todo", "failed", "sock", "was", "want", "clock", "waited"}) BY <1>2, TurnsMore
  <1>4. Cleared(Now(r)) /\ ghost'.owed = ghost.owed \cup Ahead(r) BY FailsOwed DEF NodeFails
  <1> QED BY <1>1, <1>2, <1>3, <1>4 DEF Gives

LEMMA EarlyEnds ==
  ASSUME Ready, NEW r \in Run, Ends(r), runs[r].at \in Early \cup {"over"} \/ runs[r].todo = {}, UNCHANGED ghost
  PROVE  Leaves(r)
  <1>1. runs[r].todo = {} BY ReadyRun DEF Sound, Early, AtNode, InHand
  <1> QED BY <1>1, ReadyRun, EndsTurns DEF Leaves

LEMMA WaitFate ==
  ASSUME Ready, NEW r \in Run, WaitForExit(r)
  PROVE  Gives(r) \/ Done(r)
  <1>1. runs[r].at = "exit" /\ Now(r) \in Node BY WaitForExitRuns
  <1>2. ASSUME ghost' = [ghost EXCEPT !.owed = @ \ {Now(r)}] PROVE ghost'.owed = ghost.owed \ {Now(r)} BY <1>2, DoneOwed
  <1>3. ASSUME ghost' = [ghost EXCEPT !.owed = @ \cup Ahead(r)] PROVE ghost'.owed = ghost.owed \cup Ahead(r) BY <1>3, FailsOwed
  <1>4. ASSUME Turns(r, {"at", "now", "todo", "failed", "clock", "waited"})
        PROVE  Turns(r, {"at", "now", "todo", "failed", "sock", "was", "want", "clock", "waited"})
    BY <1>4, TurnsMore
  <1>5. CASE NodeFails(r) BY <1>1, <1>5, FailsGives DEF AtNode, InHand
  <1>6. CASE Running(Now(r)) /\ ~NodeFails(r)
    <2>1. /\ Turns(r, {"at", "now", "todo", "failed", "clock", "waited"})
          /\ runs'[r].at = "next" /\ runs'[r].todo = runs[r].todo \ {Now(r)} /\ runs'[r].failed = runs[r].failed \cup {Now(r)}
          /\ Cleared(Now(r)) /\ ghost' = [ghost EXCEPT !.owed = @ \cup Ahead(r)]
      BY <1>6, WaitForExitRuns
    <2> QED BY <1>1, <1>3, <1>4, <2>1 DEF Gives, AtNode, InHand
  <1>7. CASE ~Running(Now(r)) /\ ~NodeFails(r)
    <2>1. box[Now(r)].code = 0 /\ ghost' = [ghost EXCEPT !.owed = @ \ {Now(r)}] BY <1>7, WaitForExitRuns
    <2>2. \/ /\ Turns(r, {"at", "now", "todo", "seen", "clock", "waited"}) /\ shop.seeds[Now(r)] = {}
             /\ runs'[r].at = "next" /\ runs'[r].todo = runs[r].todo \ {Now(r)}
             /\ runs'[r].seen = [runs[r].seen EXCEPT ![Now(r)] = Started(Now(r))] /\ record' = [record EXCEPT ![Now(r)] = Started(Now(r))]
          \/ /\ Turns(r, {"at", "clock", "waited"}) /\ runs'[r].at = "seeded" /\ shop.seeds[Now(r)] # {} /\ UNCHANGED record
      BY <1>7, WaitForExitRuns
    <2> QED BY <1>1, <1>2, <1>7, <2>1, <2>2 DEF Done
  <1> QED BY <1>5, <1>6, <1>7

LEMMA AnswersFate ==
  ASSUME Ready, NEW r \in Run, WaitForHealthy(r) \/ RestartInPlace(r)
  PROVE  Gives(r) \/ Answers(r)
  <1>0. Typed BY DEF Ready
  <1>1. runs[r].at \in AtNode /\ Now(r) \in Node BY WaitForHealthyRuns, RestartInPlaceRuns DEF AtNode, InHand
  <1>2. CASE NodeFails(r) BY <1>1, <1>2, FailsGives
  <1>3. CASE WaitForHealthy(r) /\ ~NodeFails(r)
    <2>1. runs[r].at = "health" /\ Answered(r, Started(Now(r))) /\ UNCHANGED ghost BY <1>3, WaitForHealthyRuns
    <2>2. Started(Now(r)) \in EntryRec /\ ~Started(Now(r)).busy BY <1>0, <1>1, StartedType DEF Started
    <2> QED BY <1>1, <2>1, <2>2 DEF Answers
  <1>4. CASE RestartInPlace(r) /\ ~NodeFails(r)
    <2>1. Restarts(r) BY <1>4, RestartsStep
    <2>2. \E entry \in EntryRec : ~entry.busy /\ Answered(r, entry) BY <1>4, RestartInPlaceRuns
    <2>3. ghost'.owed = ghost.owed BY <1>0, <2>1, StartsSet DEF Restarts, Recalls, GhostField
    <2> QED BY <1>1, <2>1, <2>2, <2>3 DEF Answers
  <1> QED BY <1>2, <1>3, <1>4

LEMMA NetworkFate ==
  ASSUME Ready, NEW r \in Run, Networks(r) \/ SidecarThere(r) \/ Restored(r)
  PROVE  Leaves(r) \/ Quiet(r)
  <1>1. runs[r].at \in Early \cup {"over"}
    BY DEF Networks, EnsureNetwork, ReadBack, PinNetwork, SidecarThere, ReplaceSidecar, Restored, At, Early
  <1>2. ghost'.owed = ghost.owed /\ (Ends(r) => UNCHANGED ghost)
    <2>1. CASE PinNetwork(r)
      <3>1. ~Ends(r)
        <4>1. runs'[r].at = "sidecar" BY <2>1, PinNetworkRuns
        <4> QED BY <4>1, ReadyRun, EndsTurns DEF Idle
      <3> QED BY <2>1, <3>1, PinSet DEF Recalls, GhostField, Ready
    <2> QED BY <2>1 DEF Networks, EnsureNetwork, ReadBack, SidecarThere, ReplaceSidecar, Restored, Fails
  <1>3. Ends(r) \/ (Turns(r, {"at", "dns", "sock", "was", "want", "clock"}) /\ UNCHANGED record)
    <2>1. CASE EnsureNetwork(r) \/ PinNetwork(r) \/ SidecarThere(r)
      <3>1. UNCHANGED record BY <2>1 DEF EnsureNetwork, PinNetwork, SidecarThere
      <3> QED BY <2>1, <3>1, EnsureNetworkRuns, PinNetworkRuns, SidecarThereRuns, TurnsMore
    <2>2. CASE ReadBack(r) \/ ReplaceSidecar(r) BY <2>2, ReadBackRuns, ReplaceSidecarRuns, TurnsMore
    <2> QED BY <2>1, <2>2 DEF Networks, Restored
  <1>4. runs[r].at \notin {"exit", "health", "seeded"} BY <1>1 DEF Early
  <1> QED BY <1>1, <1>2, <1>3, <1>4, EarlyEnds DEF Quiet

LEMMA BuildFate ==
  ASSUME Ready, NEW r \in Run,
         \/ TakeNode(r) \/ BuildBegins(r) \/ LookForBuilder(r) \/ RetireBuilder(r) \/ SolveBegins(r) \/ BuildEnds(r) \/ TimePasses(r)
         \/ PullImage(r) \/ MakeContainer(r)
  PROVE  Gives(r) \/ Quiet(r)
  <1>0. Typed BY DEF Ready
  <1>1. runs[r].at \in AtNode \ {"exit", "health", "seeded"}
    BY DEF TakeNode, BuildBegins, LookForBuilder, RetireBuilder, SolveBegins, BuildEnds, TimePasses, PullImage, MakeContainer, At, AtNode, InHand
  <1>2. CASE NodeFails(r) BY <1>1, <1>2, FailsGives
  <1>3. CASE ~NodeFails(r)
    <2>1. ghost'.owed = ghost.owed
      <3>1. CASE LookForBuilder(r) BY <1>0, <3>1, LookSet DEF Recalls, GhostField
      <3>2. CASE MakeContainer(r)
        <4>1. Now(r) \in Node /\ Starts(r, Now(r)) BY <1>3, <3>2, MakeContainerRuns
        <4> QED BY <1>0, <4>1, StartsSet DEF Recalls, GhostField
      <3>3. CASE BuildEnds(r) \/ PullImage(r) BY <1>3, <3>3 DEF BuildEnds, PullImage
      <3>4. CASE TakeNode(r) \/ BuildBegins(r) \/ RetireBuilder(r) \/ SolveBegins(r) \/ TimePasses(r)
        BY <3>4 DEF TakeNode, BuildBegins, RetireBuilder, SolveBegins, TimePasses
      <3> QED BY <3>1, <3>2, <3>3, <3>4
    <2>2. UNCHANGED record
      <3>1. CASE BuildEnds(r) \/ PullImage(r) \/ MakeContainer(r) BY <1>3, <3>1 DEF BuildEnds, PullImage, MakeContainer
      <3> QED BY <3>1 DEF TakeNode, BuildBegins, LookForBuilder, RetireBuilder, SolveBegins, TimePasses
    <2>3. Turns(r, {"at", "dns", "sock", "was", "want", "clock"})
      <3>1. CASE BuildEnds(r) BY <1>3, <3>1, BuildEndsRuns, TurnsMore
      <3>2. CASE PullImage(r)
        <4>1. runs' = runs BY <1>3, <3>2 DEF PullImage
        <4> QED BY <4>1, ReadyRun DEF Turns, Others, Keeps
      <3>3. CASE MakeContainer(r) BY <1>3, <3>3, MakeContainerRuns, TurnsMore
      <3>4. CASE BuildBegins(r) BY <3>4, BuildBeginsRuns, TurnsMore
      <3>5. CASE TakeNode(r) \/ LookForBuilder(r) \/ RetireBuilder(r) \/ SolveBegins(r) \/ TimePasses(r)
        BY <3>5, TakeNodeRuns, LookForBuilderRuns, RetireBuilderRuns, SolveBeginsRuns, TimePassesRuns, TurnsMore
      <3> QED BY <3>1, <3>2, <3>3, <3>4, <3>5
    <2> QED BY <1>1, <2>1, <2>2, <2>3 DEF Quiet
  <1> QED BY <1>2, <1>3

\* Every step of a run that is on is one of these.
LEMMA Fate ==
  ASSUME Ready, NEW r \in Run, Reads(r) \/ Networks(r) \/ Boxes(r), ~Begin(r), ~RestoreSidecar(r)
  PROVE  Leaves(r) \/ Gives(r) \/ Done(r) \/ Answers(r) \/ Looks(r) \/ Quiet(r)
  <1>1. CASE Finish(r) BY <1>1, EarlyEnds DEF Finish
  <1>2. CASE CallOff(r)
    <2>1. Ends(r) /\ ghost'.owed = ghost.owed \cup Ahead(r) BY <1>2, FailsOwed DEF CallOff
    <2> QED BY <1>2, <2>1, ReadyRun, EndsTurns DEF Leaves
  <1>3. CASE NextNode(r) \/ Plan(r) \/ StopOutside(r) BY <1>3 DEF NextNode, Plan, StopOutside, Looks
  <1>4. CASE RecordSeeded(r)
    <2>1. Now(r) \in Node /\ Typed BY <1>4, RecordSeededRuns DEF Ready
    <2>2. ghost'.owed = ghost.owed BY <1>4, <2>1, ToldSet DEF RecordSeeded, Recalls, GhostField
    <2> QED BY <1>4, <2>2 DEF Looks
  <1> QED BY <1>1, <1>2, <1>3, <1>4, NetworkFate, BuildFate, WaitFate, AnswersFate DEF Reads, Boxes

\* Only a task that ended well is owed no more.
LEMMA OwedStep ==
  ASSUME Ready, [Next]_vars
  PROVE  ghost.owed \subseteq ghost'.owed \/ \E r \in Run : Done(r)
  <1>1. ASSUME NEW r \in Run, Reads(r) \/ Networks(r) \/ Boxes(r) PROVE ghost.owed \subseteq ghost'.owed \/ Done(r)
    <2>1. CASE Begin(r) BY <2>1, BeginSet DEF Recalls, GhostField, Ready
    <2>2. CASE RestoreSidecar(r) BY <2>2 DEF RestoreSidecar
    <2>3. CASE ~Begin(r) /\ ~RestoreSidecar(r) BY <1>1, <2>3, Fate DEF Leaves, Gives, Answers, Looks, Quiet
    <2> QED BY <2>1, <2>2, <2>3
  <1>2. CASE (\E k \in Node : DeleteNode(k)) \/ Observe \/ Outside \/ UNCHANGED vars BY <1>2 DEF DeleteNode, Observe, Outside, vars
  <1> QED BY <1>1, <1>2, NextCases

\* A new container is gone on with, or its run is called off.
LEMMA MakesFate ==
  ASSUME Ready, NEW r \in Run, Makes(r)
  PROVE  /\ runs[r].kind \in Main /\ Now(r) \in runs[r].todo
         /\ \/ /\ MakeContainer(r) /\ Turns(r, {"at"}) /\ runs'[r].now = Now(r) /\ Starts(r, Now(r))
               /\ runs'[r].at = IF IsTask(Now(r)) THEN "exit" ELSE "health"
            \/ CallOff(r) /\ ghost'.owed = ghost.owed \cup Ahead(r)
  <1>0. Typed /\ runs[r].at = "make" /\ Now(r) \in Node BY DEF Makes, Ready
  <1>1. runs[r].kind \in Main /\ Now(r) \in runs[r].todo BY <1>0, ReadyRun DEF AtNode, InHand
  <1>2. CASE CallOff(r) BY <1>1, <1>2, FailsOwed DEF CallOff
  <1>3. CASE MakeContainer(r)
    <2>1. ~Removed(r)
      <3>1. box'[Now(r)].status = "running" BY <1>0, MadeBox DEF Makes
      <3> QED BY <1>0, <3>1, RemoveBox DEF Removed
    <2>2. /\ Turns(r, {"at"}) /\ runs'[r].at = (IF IsTask(Now(r)) THEN "exit" ELSE "health") /\ Starts(r, Now(r))
      BY <1>3, <2>1, MakeContainerRuns
    <2>3. runs'[r].now = Now(r) BY <2>2 DEF Turns, Keeps, Field, Idle, Now
    <2> QED BY <1>1, <1>3, <2>2, <2>3
  <1> QED BY <1>2, <1>3 DEF Makes

\* A run that waits for a task goes on waiting, or the task is owed.
LEMMA WaitingStep ==
  ASSUME Ready, [Next]_vars, NEW r \in Run, runs[r].at = "exit", Running(Now(r))
  PROVE  runs'[r] = runs[r] \/ Now(r) \in ghost'.owed
  <1>0. Now(r) \in runs[r].todo /\ Now(r) \in shop.tasks BY ReadyRun DEF Sound, AtNode, InHand, Now
  <1>1. Now(r) \in Ahead(r) BY <1>0 DEF Ahead
  <1>2. ASSUME Reads(r) \/ Networks(r) \/ Boxes(r) PROVE Now(r) \in ghost'.owed
    <2>1. ~Begin(r) /\ ~RestoreSidecar(r) BY BeginRuns, RestoreSidecarRuns DEF Idle
    <2>2. ~Answers(r) BY DEF Answers, Restarts, RestartInPlace, At
    <2>3. ~Looks(r) BY DEF Looks, NextNode, Plan, StopOutside, RecordSeeded, At
    <2>4. ~Quiet(r) /\ ~Done(r) BY DEF Quiet, Done
    <2>5. Leaves(r) \/ Gives(r) BY <1>2, <2>1, <2>2, <2>3, <2>4, Fate
    <2> QED BY <1>0, <1>1, <2>5 DEF Leaves, Gives
  <1>3. ASSUME NEW q \in Run, q # r, Reads(q) \/ Networks(q) \/ Boxes(q) PROVE runs'[r] = runs[r] BY <1>3, OtherSame
  <1>4. CASE (\E k \in Node : DeleteNode(k)) \/ Observe \/ Outside \/ UNCHANGED vars BY <1>4 DEF DeleteNode, Observe, Outside, vars
  <1> QED BY <1>2, <1>3, <1>4, NextCases

LEMMA TaskInvStep ==
  ASSUME Ready, TaskInv, [Next]_vars
  PROVE  TaskInv'
  <1>0. Typed /\ shop' = shop /\ (ghost.crossed => ghost'.crossed) BY ShopSame, GhostGrows DEF Ready
  <1>1. SUFFICES ASSUME ~ghost'.crossed
                 PROVE  /\ \A m \in shop.tasks : box'[m].status = "running" => m \in ghost'.owed \/ \E r \in Run : runs'[r].at = "exit" /\ runs'[r].now = m
                        /\ \A r \in Run : runs'[r].at = "restart" /\ runs'[r].now \in shop.tasks => runs'[r].now \in ghost'.owed
    BY <1>0 DEF TaskInv, Running, Now
  <1>2. ~ghost.crossed BY <1>0, <1>1
  <1>3. shop.tasks \subseteq Node BY DEF Ready, Typed, EngineTypes, Workspace
  <1>4. ASSUME NEW m \in shop.tasks, box'[m].status = "running" PROVE m \in ghost'.owed \/ \E r \in Run : runs'[r].at = "exit" /\ runs'[r].now = m
    <2>0. m \in Node BY <1>3
    <2>1. CASE Running(m)
      <3>1. CASE m \in ghost.owed BY <2>1, <3>1, OwedStep DEF Done
      <3>2. CASE m \notin ghost.owed
        <4>1. PICK r \in Run : runs[r].at = "exit" /\ Now(r) = m BY <1>2, <2>1, <3>2 DEF TaskInv
        <4> QED BY <2>1, <4>1, WaitingStep DEF Now
      <3> QED BY <3>1, <3>2
    <2>2. ASSUME NEW r \in Run, Makes(r), m = Now(r) PROVE m \in ghost'.owed \/ (runs'[r].at = "exit" /\ runs'[r].now = m)
      <3>1. m \in Ahead(r) BY <2>2, MakesFate DEF Ahead
      <3> QED BY <2>2, <3>1, MakesFate DEF IsTask
    <2>3. ASSUME NEW r \in Run, Restarts(r), m = Now(r) PROVE m \in ghost'.owed
      <3>1. runs[r].at = "restart" BY <2>3 DEF Restarts, RestartInPlace, At
      <3>2. m \in ghost.owed BY <1>2, <2>3, <3>1 DEF TaskInv
      <3>3. ghost'.owed = ghost.owed BY <1>0, <2>0, <2>3, StartsSet DEF Restarts, Recalls, GhostField
      <3> QED BY <3>2, <3>3
    <2> QED BY <1>4, <2>0, <2>1, <2>2, <2>3, BoxFrom
  <1>5. ASSUME NEW r \in Run, runs'[r].at = "restart", runs'[r].now \in shop.tasks PROVE runs'[r].now \in ghost'.owed
    <2>1. CASE runs'[r] = runs[r]
      <3>1. runs[r].at = "restart" /\ Now(r) \in ghost.owed BY <1>2, <1>5, <2>1 DEF TaskInv, Now
      <3>2. ~\E q \in Run : Done(q)
        <4>1. SUFFICES ASSUME NEW q \in Run, Done(q) PROVE FALSE OBVIOUS
        <4>2. runs[q].at = "exit" BY <4>1 DEF Done
        <4>3. runs[q].kind \in Main /\ runs[r].kind \in Main BY <3>1, <4>2, ReadyRun DEF AtNode, InHand
        <4> QED BY <1>2, <3>1, <4>2, <4>3, Sole
      <3> QED BY <2>1, <3>1, <3>2, OwedStep DEF Now
    <2>2. ASSUME Reads(r) \/ Networks(r) \/ Boxes(r) PROVE runs'[r].now \in ghost'.owed
      <3>1. NextNode(r) BY <1>5, <2>2, PhaseFrom
      <3>2. PICK n \in First(runs[r].todo) :
           /\ n \in Node /\ runs[r].at = "next"
           /\ \/ Turns(r, {"todo"}) \/ Turns(r, {"todo", "blocked"})
              \/ runs'[r].at = Choice(runs[r], n) /\ runs'[r].now = n
        BY <3>1, NextNodeRuns
      <3>3. runs'[r].at = Choice(runs[r], n) /\ runs'[r].now = n
        <4>1. ASSUME Turns(r, {"todo"}) \/ Turns(r, {"todo", "blocked"}) PROVE FALSE
          <5>1. runs'[r].at = "next" BY <3>2, <4>1 DEF Turns, Keeps, Field, Idle
          <5> QED BY <1>5, <5>1
        <4> QED BY <3>2, <4>1
      <3>4. Running(n) BY <1>5, <3>3, ChoiceNeeds
      <3>5. ~\E q \in Run : runs[q].at = "exit"
        <4>1. SUFFICES ASSUME NEW q \in Run, runs[q].at = "exit" PROVE FALSE OBVIOUS
        <4>2. runs[q].kind \in Main /\ runs[r].kind \in Main BY <3>2, <4>1, ReadyRun DEF AtNode, InHand
        <4> QED BY <1>2, <3>2, <4>1, <4>2, Sole
      <3>6. n \in ghost.owed BY <1>2, <1>5, <3>3, <3>4, <3>5 DEF TaskInv
      <3>7. ghost' = ghost BY <3>1 DEF NextNode
      <3> QED BY <3>3, <3>6, <3>7
    <2>3. ASSUME NEW q \in Run, q # r, Reads(q) \/ Networks(q) \/ Boxes(q) PROVE runs'[r].now \in ghost'.owed BY <2>1, <2>3, OtherSame
    <2>4. CASE (\E k \in Node : DeleteNode(k)) \/ Observe \/ Outside \/ UNCHANGED vars BY <2>1, <2>4 DEF DeleteNode, Observe, Outside, vars
    <2> QED BY <2>2, <2>3, <2>4, NextCases
  <1> QED BY <1>1, <1>4, <1>5

LEMMA OwedInvStep ==
  ASSUME Ready, OwedInv, [Next]_vars
  PROVE  OwedInv'
  <1>0. Typed /\ shop' = shop /\ (ghost.crossed => ghost'.crossed) BY ShopSame, GhostGrows DEF Ready
  <1>1. SUFFICES ASSUME NEW r \in Run, ~ghost'.crossed, runs'[r].failed # {}, NEW m \in runs'[r].todo, m \in shop.tasks
                 PROVE  m \in ghost'.owed \/ (runs'[r].at = "seeded" /\ runs'[r].now = m)
    BY <1>0 DEF OwedInv, Ahead, Now
  <1>2. ~ghost.crossed BY <1>0, <1>1
  <1>3. CASE runs'[r] = runs[r]
    <2>1. m \in ghost.owed \/ (runs[r].at = "seeded" /\ Now(r) = m) BY <1>1, <1>2, <1>3 DEF OwedInv, Ahead
    <2>2. runs[r].kind \in Main
      <3>1. runs[r].kind # "idle" BY <1>1, <1>3, ReadyRun DEF Sound, Idle
      <3>2. runs[r].kind # "restore" BY <1>1, <1>3, ReadyRun DEF Sound, AtNode, InHand
      <3> QED BY <3>1, <3>2, ReadyRun DEF RunRec, Main
    <2>3. ~\E q \in Run : Done(q)
      <3>1. SUFFICES ASSUME NEW q \in Run, Done(q) PROVE FALSE OBVIOUS
      <3>2. runs[q].at = "exit" /\ WaitForExit(q) BY <3>1 DEF Done
      <3>3. runs[q].kind \in Main BY <3>2, ReadyRun DEF AtNode, InHand
      <3>4. q = r BY <1>2, <2>2, <3>3, Sole
      <3> QED BY <1>3, <3>2, <3>4, MovesOn
    <2> QED BY <1>3, <2>1, <2>3, OwedStep DEF Now
  <1>4. ASSUME Reads(r) \/ Networks(r) \/ Boxes(r) PROVE m \in ghost'.owed \/ (runs'[r].at = "seeded" /\ runs'[r].now = m)
    <2>1. ~Begin(r) /\ ~RestoreSidecar(r)
      <3>1. ASSUME Begin(r) PROVE FALSE
        <4>1. Keeps(Idle, runs'[r], {"kind", "of", "at", "seen"}) BY <3>1, BeginRuns
        <4> QED BY <1>1, <4>1 DEF Keeps, Field, Idle
      <3>2. ASSUME RestoreSidecar(r) PROVE FALSE
        <4>1. Keeps(Idle, runs'[r], {"kind", "at"}) BY <3>2, RestoreSidecarRuns
        <4> QED BY <1>1, <4>1 DEF Keeps, Field, Idle
      <3> QED BY <3>1, <3>2
    <2>2. CASE Leaves(r) BY <1>1, <2>2 DEF Leaves, Idle
    <2>3. CASE Gives(r) BY <1>1, <2>3 DEF Gives, Ahead
    <2>4. ASSUME runs'[r].failed = runs[r].failed, m \in runs[r].todo
          PROVE  m \in ghost.owed \/ (runs[r].at = "seeded" /\ Now(r) = m)
      BY <1>1, <1>2, <2>4 DEF OwedInv, Ahead
    <2>5. CASE Done(r)
      <3>1. CASE Turns(r, {"at", "now", "todo", "seen", "clock", "waited"}) /\ runs'[r].todo = runs[r].todo \ {Now(r)}
        <4>1. runs'[r].failed = runs[r].failed BY <3>1 DEF Turns, Keeps, Field, Idle
        <4> QED BY <1>1, <2>4, <2>5, <3>1, <4>1 DEF Done
      <3>2. CASE Turns(r, {"at", "clock", "waited"}) /\ runs'[r].at = "seeded"
        <4>1. runs'[r].failed = runs[r].failed /\ runs'[r].todo = runs[r].todo /\ runs'[r].now = Now(r)
          BY <3>2 DEF Turns, Keeps, Field, Idle, Now
        <4> QED BY <1>1, <2>4, <2>5, <3>2, <4>1 DEF Done
      <3> QED BY <2>5, <3>1, <3>2 DEF Done
    <2>6. CASE Answers(r)
      <3>1. PICK entry : Answered(r, entry) BY <2>6 DEF Answers
      <3>2. runs'[r].failed = runs[r].failed /\ runs'[r].todo \subseteq runs[r].todo BY <3>1 DEF Answered, Turns, Keeps, Field, Idle
      <3>3. runs[r].at # "seeded" BY <2>6 DEF Answers, Restarts, RestartInPlace, At
      <3> QED BY <1>1, <2>4, <2>6, <3>2, <3>3 DEF Answers
    <2>7. CASE Quiet(r)
      <3>1. runs'[r].failed = runs[r].failed /\ runs'[r].todo = runs[r].todo BY <2>7 DEF Quiet, Turns, Keeps, Field, Idle
      <3> QED BY <1>1, <2>4, <2>7, <3>1 DEF Quiet
    <2>8. CASE Looks(r)
      <3>1. CASE RecordSeeded(r)
        <4>1. Turns(r, {"at", "now", "todo", "seen"}) /\ runs'[r].todo = runs[r].todo \ {Now(r)} BY <3>1, RecordSeededRuns
        <4>2. runs'[r].failed = runs[r].failed BY <4>1 DEF Turns, Keeps, Field, Idle
        <4> QED BY <1>1, <2>4, <2>8, <4>1, <4>2 DEF Looks
      <3>2. CASE Plan(r)
        <4>1. runs[r].at = "plan" BY <3>2 DEF Plan, At
        <4>2. runs[r].failed = {} BY <4>1, ReadyRun DEF Sound, AtNode, InHand
        <4>3. Turns(r, {"at", "targets", "todo", "outside"}) BY <3>2, PlanRuns
        <4>4. runs'[r].failed = runs[r].failed BY <4>3 DEF Turns, Keeps, Field, Idle
        <4> QED BY <1>1, <4>2, <4>4
      <3>3. CASE StopOutside(r)
        <4>1. runs[r].at = "outside" BY <3>3 DEF StopOutside, At
        <4>s. Turns(r, {"at"}) \/ Turns(r, {"outside", "seen"}) BY <3>3, StopOutsideRuns
        <4>2. runs'[r].failed = runs[r].failed /\ runs'[r].todo = runs[r].todo BY <4>s DEF Turns, Keeps, Field, Idle
        <4> QED BY <1>1, <2>4, <2>8, <4>1, <4>2 DEF Looks
      <3>4. CASE NextNode(r)
        <4>1. runs[r].at = "next" BY <3>4 DEF NextNode, At
        <4>2. \/ Turns(r, {"todo"}) /\ runs'[r].todo \subseteq runs[r].todo
              \/ Turns(r, {"todo", "blocked"}) /\ runs'[r].todo \subseteq runs[r].todo
              \/ Turns(r, {"at", "now"})
          BY <3>4, NextNodeRuns
        <4>3. runs'[r].failed = runs[r].failed /\ runs'[r].todo \subseteq runs[r].todo
          BY <4>2 DEF Turns, Keeps, Field, Idle
        <4> QED BY <1>1, <2>4, <2>8, <4>1, <4>3 DEF Looks
      <3> QED BY <2>8, <3>1, <3>2, <3>3, <3>4 DEF Looks
    <2> QED BY <1>4, <2>1, <2>2, <2>3, <2>5, <2>6, <2>7, <2>8, Fate
  <1>5. ASSUME NEW q \in Run, q # r, Reads(q) \/ Networks(q) \/ Boxes(q) PROVE runs'[r] = runs[r] BY <1>5, OtherSame
  <1>6. CASE (\E k \in Node : DeleteNode(k)) \/ Observe \/ Outside \/ UNCHANGED vars BY <1>3, <1>6 DEF DeleteNode, Observe, Outside, vars
  <1> QED BY <1>3, <1>4, <1>5, <1>6, NextCases

----------------------------------------------------------------------------
(* Marks.                                                                  *)

\* A run that ends leaves no mark on what it was for.
LEMMA UnmarkBusy ==
  ASSUME Ready, NEW r \in Run, Ends(r), NEW n \in Node, record'[n] # None, record'[n].busy
  PROVE  record[n] # None /\ record[n].busy /\ n # runs[r].of /\ n \notin runs[r].targets
  <1>1. record \in Records BY DEF Ready, Typed, RunTypes
  <1>2. record'[n] = IF record[n] = None \/ n \notin {runs[r].of} \cup runs[r].targets THEN record[n]
                     ELSE IF record[n].status = "none" THEN None ELSE [record[n] EXCEPT !.busy = FALSE]
    BY DEF Ends, Unmark
  <1>3. record[n] \in EntryRec \cup {None} BY <1>1 DEF Records
  <1>4. record[n] \in EntryRec => ~[record[n] EXCEPT !.busy = FALSE].busy BY DEF EntryRec
  <1> QED BY <1>2, <1>3, <1>4

LEMMA SetEntry ==
  ASSUME Ready, NEW n \in Node, NEW entry, ~entry.busy, record' = [record EXCEPT ![n] = entry], NEW k \in Node, record'[k].busy
  PROVE  record'[k] = record[k]
  <1>1. record \in Records BY DEF Ready, Typed, RunTypes
  <1> QED BY <1>1 DEF Records

LEMMA NextMarks ==
  ASSUME Ready, NEW r \in Run, NextNode(r), NEW n \in Node, record'[n] # record[n]
  PROVE  n \in runs'[r].targets /\ runs'[r].kind \in Main
  <1>0. Typed BY DEF Ready
  <1>1. PICK k \in First(runs[r].todo) :
           /\ k \in Node /\ runs[r].at = "next"
           /\ UNCHANGED record \/ (Turns(r, {"at", "now"}) /\ Marked(k))
    BY NextNodeRuns
  <1>2. Turns(r, {"at", "now"}) /\ Marked(k) BY <1>1
  <1>3. n = k BY <1>0, <1>1, <1>2, MarkedType
  <1>4. n \in runs[r].targets BY <1>3, ReadyRun DEF First, Ordered
  <1>5. runs'[r].targets = runs[r].targets /\ runs'[r].kind = runs[r].kind BY <1>2 DEF Turns, Keeps, Field, Idle
  <1> QED BY <1>1, <1>4, <1>5, ReadyRun

LEMMA RunMarks ==
  ASSUME Ready, NEW r \in Run, Reads(r) \/ Networks(r) \/ Boxes(r), ~Begin(r), ~RestoreSidecar(r), NEW n \in Node,
         record'[n] # None, record'[n].busy, ~NextNode(r)
  PROVE  record[n] # None /\ record[n].busy
  <1>0. Typed /\ record \in Records BY DEF Ready, Typed, RunTypes
  <1>1. CASE Leaves(r) BY <1>1, UnmarkBusy DEF Leaves
  <1>2. CASE Gives(r)
    <2>1. record' \in Records /\ (\A k \in Node \ {Now(r)} : record'[k] = record[k]) /\ (record'[Now(r)] \in EntryRec => ~record'[Now(r)].busy \/ record'[Now(r)] = None)
      BY <1>0, <1>2, ClearedType DEF Gives
    <2>2. record'[n] \in EntryRec BY <2>1 DEF Records
    <2> QED BY <2>1, <2>2
  <1>3. ASSUME NEW k \in Node, record' = [record EXCEPT ![k] = Started(k)] PROVE record[n] # None /\ record[n].busy
    <2>1. ~Started(k).busy BY DEF Started
    <2> QED BY <1>3, <2>1, SetEntry
  <1>4. CASE Done(r) BY <1>3, <1>4 DEF Done
  <1>5. CASE Answers(r)
    <2>1. PICK entry : ~entry.busy /\ record' = [record EXCEPT ![Now(r)] = entry] BY <1>5 DEF Answers, Answered
    <2>2. Now(r) \in Node BY <1>5 DEF Answers
    <2> QED BY <2>1, <2>2, SetEntry
  <1>6. CASE RecordSeeded(r) BY <1>3, <1>6, RecordSeededRuns
  <1>7. CASE Plan(r) \/ Quiet(r) BY <1>7 DEF Plan, Quiet
  <1>8. CASE StopOutside(r)
    <2>1. UNCHANGED record \/ \E k \in Node : /\ \A j \in Node \ {k} : record'[j] = record[j]
                                              /\ record'[k].busy = record[k].busy /\ record[k] \in EntryRec
      BY <1>8, StopOutsideRuns
    <2>2. \A e \in EntryRec : e # None BY EntryAssumption
    <2> QED BY <2>1, <2>2
  <1> QED BY <1>1, <1>2, <1>4, <1>5, <1>6, <1>7, <1>8, Fate DEF Looks

\* Only Begin and the choice of a node mark one.
LEMMA MarkStep ==
  ASSUME Ready, [Next]_vars, NEW n \in Node, record'[n] # None, record'[n].busy
  PROVE  \/ record[n] # None /\ record[n].busy
         \/ \E r \in Run : runs'[r].kind \in Main /\ (n = runs'[r].of \/ n \in runs'[r].targets)
  <1>0. Typed /\ record \in Records BY DEF Ready, Typed, RunTypes
  <1>1. CASE record'[n] = record[n] BY <1>1
  <1>2. CASE record'[n] # record[n]
    <2>1. ASSUME NEW r \in Run, Begin(r) PROVE runs'[r].kind \in Main /\ n = runs'[r].of BY <1>2, <2>1, BeginRuns DEF Main
    <2>2. ASSUME NEW r \in Run, NextNode(r) PROVE runs'[r].kind \in Main /\ n \in runs'[r].targets BY <1>2, <2>2, NextMarks
    <2>3. ASSUME NEW r \in Run, Reads(r) \/ Networks(r) \/ Boxes(r), ~Begin(r), ~NextNode(r) PROVE record[n] # None /\ record[n].busy
      <3>1. CASE RestoreSidecar(r) BY <1>2, <3>1 DEF RestoreSidecar
      <3> QED BY <2>3, <3>1, RunMarks
    <2>4. ASSUME NEW k \in Node, DeleteNode(k) PROVE record[n] # None /\ record[n].busy
      <3>1. record' = [record EXCEPT ![k] = None] BY <2>4 DEF DeleteNode
      <3> QED BY <1>0, <1>2, <3>1 DEF Records
    <2>5. CASE Observe
      <3>1. record[n] \in EntryRec \cup {None} BY <1>0 DEF Records
      <3> QED BY <1>0, <2>5, <3>1, ObserveType, EntryAssumption
    <2>6. CASE Outside \/ UNCHANGED vars BY <1>2, <2>6 DEF Outside, vars
    <2> QED BY <2>1, <2>2, <2>3, <2>4, <2>5, <2>6, NextCases
  <1> QED BY <1>1, <1>2

LEMMA SetSeen ==
  ASSUME Ready, NEW r \in Run, runs[r].seen \in Records, NEW k \in Node, NEW entry, ~entry.busy,
         runs'[r].seen = [runs[r].seen EXCEPT ![k] = entry], NEW n \in Node, runs'[r].seen[n].busy
  PROVE  runs'[r].seen[n] = runs[r].seen[n]
  BY DEF Records

\* What a start saw marked when it began is all it ever sees marked.
LEMMA SeenStep ==
  ASSUME Ready, NEW r \in Run, Reads(r) \/ Networks(r) \/ Boxes(r), ~Begin(r), ~RestoreSidecar(r), runs[r].kind = "start",
         NEW n \in Node, runs'[r] # Idle, runs'[r].seen[n].busy
  PROVE  runs'[r].seen[n] = runs[r].seen[n]
  <1>0. runs[r].seen \in Records BY ReadyRun DEF Sound, Main
  <1>1. ASSUME runs'[r].seen = runs[r].seen PROVE runs'[r].seen[n] = runs[r].seen[n] BY <1>1
  <1>2. ASSUME NEW k \in Node, runs'[r].seen = [runs[r].seen EXCEPT ![k] = Started(k)] PROVE runs'[r].seen[n] = runs[r].seen[n]
    <2>1. ~Started(k).busy BY DEF Started
    <2> QED BY <1>0, <1>2, <2>1, SetSeen
  <1>3. CASE Leaves(r) BY <1>3 DEF Leaves
  <1>4. CASE Gives(r) BY <1>1, <1>4 DEF Gives, Turns, Keeps, Field, Idle
  <1>5. CASE Done(r)
    <2>1. CASE Turns(r, {"at", "clock", "waited"}) BY <1>1, <2>1 DEF Turns, Keeps, Field, Idle
    <2> QED BY <1>2, <1>5, <2>1 DEF Done
  <1>6. CASE Answers(r)
    <2>1. PICK entry : ~entry.busy /\ runs'[r].seen = [runs[r].seen EXCEPT ![Now(r)] = entry] BY <1>6 DEF Answers, Answered
    <2>2. Now(r) \in Node BY <1>6 DEF Answers
    <2> QED BY <1>0, <2>1, <2>2, SetSeen
  <1>7. CASE Quiet(r) BY <1>1, <1>7 DEF Quiet, Turns, Keeps, Field, Idle
  <1>8. CASE RecordSeeded(r) BY <1>2, <1>8, RecordSeededRuns
  <1>9. CASE Plan(r)
    <2>1. Turns(r, {"at", "targets", "todo", "outside"}) BY <1>9, PlanRuns
    <2> QED BY <1>1, <2>1 DEF Turns, Keeps, Field, Idle
  <1>10. CASE StopOutside(r)
    <2>1. runs[r].outside = {} BY ReadyRun DEF Sound
    <2>2. Turns(r, {"at"}) BY <1>10, <2>1, StopOutsideRuns
    <2> QED BY <1>1, <2>2 DEF Turns, Keeps, Field, Idle
  <1>11. CASE NextNode(r)
    <2>1. Turns(r, {"todo"}) \/ Turns(r, {"todo", "blocked"}) \/ Turns(r, {"at", "now"}) BY <1>11, NextNodeRuns
    <2> QED BY <1>1, <2>1 DEF Turns, Keeps, Field, Idle
  <1> QED BY <1>3, <1>4, <1>5, <1>6, <1>7, <1>8, <1>9, <1>10, <1>11, Fate DEF Looks

LEMMA BusyInvStep ==
  ASSUME Ready, BusyInv, [Next]_vars
  PROVE  BusyInv'
  <1>0. shop' = shop /\ (ghost.crossed => ghost'.crossed) BY ShopSame, GhostGrows
  <1>1. SUFFICES ASSUME ~ghost'.crossed
                 PROVE  /\ \A n \in Node : record'[n] # None /\ record'[n].busy =>
                             \E r \in Run : runs'[r].kind \in Main /\ (n = runs'[r].of \/ n \in runs'[r].targets)
                        /\ \A r \in Run, n \in Node : runs'[r].kind = "start" /\ runs'[r].seen[n] # None /\ runs'[r].seen[n].busy => n = runs'[r].of
    BY DEF BusyInv
  <1>2. ~ghost.crossed BY <1>0, <1>1
  <1>3. ASSUME NEW n \in Node, record'[n] # None, record'[n].busy, record[n] # None, record[n].busy
        PROVE  \E r \in Run : runs'[r].kind \in Main /\ (n = runs'[r].of \/ n \in runs'[r].targets)
    <2>1. PICK r \in Run : runs[r].kind \in Main /\ (n = runs[r].of \/ n \in runs[r].targets) BY <1>2, <1>3 DEF BusyInv
    <2>2. CASE runs'[r] = runs[r] BY <2>1, <2>2
    <2>3. ASSUME Reads(r) \/ Networks(r) \/ Boxes(r) PROVE runs'[r].kind \in Main /\ (n = runs'[r].of \/ n \in runs'[r].targets)
      <3>1. ~Begin(r) /\ ~RestoreSidecar(r) BY <2>1, BeginRuns, RestoreSidecarRuns DEF Idle, Main
      <3>2. runs'[r] # Idle
        <4>1. ASSUME Leaves(r) PROVE FALSE BY <1>3, <2>1, <4>1, UnmarkBusy DEF Leaves
        <4>2. runs'[r].at = "next" => runs'[r] # Idle BY DEF Idle
        <4>3. ASSUME runs'[r].kind = runs[r].kind PROVE runs'[r] # Idle BY <2>1, <4>3 DEF Idle, Main
        <4>4. ASSUME NextNode(r) \/ Plan(r) PROVE runs'[r] # Idle
          <5>1. \/ Turns(r, {"todo"}) \/ Turns(r, {"todo", "blocked"}) \/ Turns(r, {"at", "now"})
                \/ Turns(r, {"at", "targets", "todo", "outside"})
            BY <4>4, NextNodeRuns, PlanRuns
          <5> QED BY <4>3, <5>1, TurnsKind
        <4>5. ASSUME StopOutside(r) \/ RecordSeeded(r) PROVE runs'[r] # Idle
          <5>1. Turns(r, {"at"}) \/ Turns(r, {"outside", "seen"}) \/ runs'[r].at = "next" BY <4>5, StopOutsideRuns, RecordSeededRuns
          <5> QED BY <4>2, <4>3, <5>1, TurnsKind
        <4>6. ASSUME Quiet(r) PROVE runs'[r] # Idle BY <4>3, <4>6, TurnsKind DEF Quiet
        <4>7. ASSUME Gives(r) \/ Answers(r) PROVE runs'[r] # Idle BY <4>2, <4>7 DEF Gives, Answers, Answered
        <4>8. ASSUME Done(r) PROVE runs'[r] # Idle BY <4>2, <4>8 DEF Done, Idle
        <4> QED BY <2>3, <3>1, <4>1, <4>4, <4>5, <4>6, <4>7, <4>8, Fate DEF Looks
      <3>3. Drifts(r) BY <2>3, <3>1, <3>2, DriftStep
      <3>4. Plan(r) => runs[r].targets = {}
        <4>1. Plan(r) => runs[r].at = "plan" BY DEF Plan, At
        <4> QED BY <4>1, ReadyRun DEF Sound, AtNode, InHand
      <3> QED BY <2>1, <3>3, <3>4 DEF Drifts
    <2>4. ASSUME NEW q \in Run, q # r, Reads(q) \/ Networks(q) \/ Boxes(q) PROVE runs'[r] = runs[r] BY <2>4, OtherSame
    <2>5. CASE (\E k \in Node : DeleteNode(k)) \/ Observe \/ Outside \/ UNCHANGED vars BY <2>2, <2>5 DEF DeleteNode, Observe, Outside, vars
    <2> QED BY <2>2, <2>3, <2>4, <2>5, NextCases
  <1>4. ASSUME NEW r \in Run, NEW n \in Node, runs'[r].kind = "start", runs'[r].seen[n] # None, runs'[r].seen[n].busy PROVE n = runs'[r].of
    <2>1. CASE runs'[r] = runs[r] BY <1>2, <1>4, <2>1 DEF BusyInv
    <2>2. CASE Begin(r)
      <3>1. record'[n] # None /\ record'[n].busy BY <1>4, <2>2, BeginRuns
      <3>2. ~\E s \in Run : runs[s].kind \in Main
        <4>1. \A s \in Run : runs[s].kind \notin {"flow", "node"} BY <2>2, BeginRuns DEF Main
        <4>2. \A s \in Run : runs[s].kind # "start" BY <1>1, <2>2, BeginSet DEF Ready
        <4> QED BY <4>1, <4>2 DEF Main
      <3>3. ~(record[n] # None /\ record[n].busy) BY <1>2, <3>2 DEF BusyInv
      <3> QED BY <1>4, <2>2, <3>1, <3>3, BeginRuns
    <2>3. ASSUME Reads(r) \/ Networks(r) \/ Boxes(r), ~Begin(r) PROVE n = runs'[r].of
      <3>1. ~RestoreSidecar(r) BY <1>4, RestoreSidecarRuns
      <3>2. runs'[r] # Idle BY <1>4 DEF Idle
      <3>3. runs'[r].kind = runs[r].kind /\ runs'[r].of = runs[r].of BY <2>3, <3>1, <3>2, DriftStep DEF Drifts
      <3>4. runs'[r].seen[n] = runs[r].seen[n] BY <1>4, <2>3, <3>1, <3>2, <3>3, SeenStep
      <3> QED BY <1>2, <1>4, <3>3, <3>4 DEF BusyInv
    <2>4. ASSUME NEW q \in Run, q # r, Reads(q) \/ Networks(q) \/ Boxes(q) PROVE runs'[r] = runs[r] BY <2>4, OtherSame
    <2>5. CASE (\E k \in Node : DeleteNode(k)) \/ Observe \/ Outside \/ UNCHANGED vars BY <2>1, <2>5 DEF DeleteNode, Observe, Outside, vars
    <2> QED BY <2>1, <2>2, <2>3, <2>4, <2>5, NextCases
  <1> QED BY <1>1, <1>3, <1>4, MarkStep

----------------------------------------------------------------------------
(* Migrations.                                                             *)

LEMMA MigrateFacts ==
  ASSUME Ready, NEW m \in Node, NEW d, d = shop.migrates[m], d # None
  PROVE  /\ d \in Node /\ d \in Stores(m) /\ m \in shop.tasks \ shop.once /\ d \notin shop.tasks /\ m # d
         /\ shop.seeds[m] = {} /\ <<m, d>> \in shop.requires
  <1>1. shop \in Workspace /\ Resolved(shop) BY DEF Ready, Typed, EngineTypes
  <1>2. d \in Stores(m) BY DEF Stores
  <1>3. d \in Node /\ m \in shop.tasks /\ d \notin shop.tasks BY <1>2, StoreTask
  <1>4. m \in shop.tasks \ shop.once /\ shop.seeds[m] = {} /\ <<m, d>> \in shop.requires BY <1>1 DEF Resolved
  <1> QED BY <1>2, <1>3, <1>4

\* A store comes with its migration, and before it.
LEMMA StoreAhead ==
  ASSUME Ready, NEW r \in Run, NEW m \in Node, NEW d, d = shop.migrates[m], d # None, d \in runs[r].todo
  PROVE  m \in runs[r].todo
  <1>1. Ordered(runs[r]) /\ <<m, d>> \in shop.requires BY ReadyRun, MigrateFacts
  <1>2. m \in runs[r].targets BY <1>1 DEF Ordered
  <1> QED BY <1>1, <1>2 DEF Ordered

LEMMA ChoiceSkip ==
  ASSUME NEW run, NEW n, Choice(run, n) = "skip"
  PROVE  \/ Running(n)
         \/ ~Forced(run, n) /\ (Settled(run, n) \/ shop.seeds[n] # {})
  BY DEF Choice, top_up_may_skip

\* The loop passes over a migration of a store it made anew only if it is owed.
LEMMA SkipDue ==
  ASSUME Ready, TaskInv, OwedInv, BusyInv, ~ghost.crossed, NEW r \in Run, runs[r].at = "next",
         NEW m \in Node, m \in runs[r].todo, shop.migrates[m] # None, shop.migrates[m] \in runs[r].recreated,
         Choice(runs[r], m) \in {"skip", "block"}
  PROVE  m \in ghost.owed
  <1>0. m \in shop.tasks \ shop.once /\ shop.seeds[m] = {} BY MigrateFacts
  <1>1. runs[r].kind \in Main BY ReadyRun
  <1>2. ASSUME Running(m) PROVE m \in ghost.owed
    <2>1. ASSUME NEW q \in Run, runs[q].at = "exit" PROVE FALSE
      <3>1. runs[q].kind \in Main BY <2>1, ReadyRun DEF AtNode, InHand
      <3> QED BY <1>1, <2>1, <3>1, Sole
    <2> QED BY <1>0, <1>2, <2>1 DEF TaskInv
  <1>3. CASE Choice(runs[r], m) = "block"
    <2>1. blocked_by(runs[r], m) BY <1>3, ChoiceNeeds
    <2>2. runs[r].failed # {} BY <2>1, ReadyRun DEF blocked_by, Sound
    <2> QED BY <1>0, <2>2 DEF OwedInv, Ahead
  <1>4. CASE Choice(runs[r], m) = "skip" /\ ~Running(m)
    <2>1. ~Forced(runs[r], m) /\ Settled(runs[r], m) BY <1>0, <1>4, ChoiceSkip
    <2>2. CASE runs[r].kind = "start"
      <3>1. runs[r].seen[m] # None /\ runs[r].seen[m].busy BY <2>1, <2>2 DEF Settled, store_recreated
      <3>2. m = runs[r].of BY <2>2, <3>1 DEF BusyInv
      <3> QED BY <2>1, <2>2, <3>2 DEF Forced
    <2>3. CASE runs[r].kind # "start" BY <1>0, <2>1, <2>3 DEF Settled, task_already_done
    <2> QED BY <2>2, <2>3
  <1> QED BY <1>2, <1>3, <1>4

\* What is due stays due until it is done or owed.
LEMMA DueRuns ==
  ASSUME Ready, TaskInv, OwedInv, BusyInv, ExitInv, ~ghost.crossed, NEW r \in Run, Reads(r) \/ Networks(r) \/ Boxes(r),
         NEW m \in Node, NEW d, d = shop.migrates[m], d # None, Due(m, runs[r])
  PROVE  Due(m, runs'[r]) \/ m \in ghost'.owed \/ (UNCHANGED <<box, filled>> /\ (box[d].status = "none" \/ <<m, d>> \in filled))
  <1>0. /\ d \in Node /\ d \in Stores(m) /\ m \in shop.tasks /\ d \notin shop.tasks /\ m # d /\ shop.seeds[m] = {}
    BY MigrateFacts
  <1>1. m \in runs[r].todo /\ (d \in runs[r].recreated \/ (runs[r].now = d /\ runs[r].at = "health")) BY DEF Due
  <1>2. m \in Ahead(r) BY <1>0, <1>1 DEF Ahead
  <1>3. ASSUME m \in runs'[r].todo, d \in runs'[r].recreated PROVE Due(m, runs'[r]) BY <1>3 DEF Due
  <1>4. ~Begin(r) /\ ~RestoreSidecar(r) BY <1>1, BeginRuns, RestoreSidecarRuns DEF Idle
  <1>5. CASE Leaves(r) BY <1>1, <1>2, <1>5 DEF Leaves
  <1>6. CASE Gives(r) BY <1>2, <1>6 DEF Gives
  <1>7. CASE Done(r)
    <2>1. runs[r].at = "exit" /\ d \in runs[r].recreated /\ box[Now(r)].code = 0 BY <1>1, <1>7 DEF Done
    <2>2. CASE Now(r) = m
      <3>1. UNCHANGED <<box, filled>> BY <1>7 DEF Done, WaitForExit, engineVars
      <3> QED BY <1>0, <2>1, <2>2, <3>1 DEF ExitInv
    <2>3. CASE Now(r) # m
      <3>1. \/ Turns(r, {"at", "now", "todo", "seen", "clock", "waited"}) /\ runs'[r].todo = runs[r].todo \ {Now(r)}
            \/ Turns(r, {"at", "clock", "waited"})
        BY <1>7 DEF Done
      <3>2. runs'[r].recreated = runs[r].recreated BY <3>1 DEF Turns, Keeps, Field, Idle
      <3>3. m \in runs'[r].todo BY <1>1, <2>3, <3>1 DEF Turns, Keeps, Field, Idle
      <3> QED BY <1>3, <2>1, <3>2, <3>3
    <2> QED BY <2>2, <2>3
  <1>8. CASE Answers(r)
    <2>1. PICK entry : Answered(r, entry) BY <1>8 DEF Answers
    <2>2. /\ runs'[r].todo = runs[r].todo \ {Now(r)}
          /\ runs'[r].recreated = IF runs[r].at = "health" THEN runs[r].recreated \cup {Now(r)} ELSE runs[r].recreated
      BY <2>1 DEF Answered
    <2>3. d \in runs'[r].recreated BY <1>1, <2>2 DEF Now
    <2>4. CASE runs[r].at = "health"
      <3>1. Now(r) \notin shop.tasks BY <2>4, ReadyRun DEF Sound, Now
      <3> QED BY <1>0, <1>1, <1>3, <2>2, <2>3, <3>1
    <2>5. CASE Restarts(r)
      <3>1. runs[r].at = "restart" BY <2>5 DEF Restarts, RestartInPlace, At
      <3>2. CASE Now(r) = m BY <1>0, <1>8, <3>1, <3>2 DEF TaskInv, Answers
      <3>3. CASE Now(r) # m BY <1>1, <1>3, <2>2, <2>3, <3>3
      <3> QED BY <3>2, <3>3
    <2> QED BY <1>8, <2>4, <2>5 DEF Answers
  <1>9. CASE Quiet(r)
    <2>1. runs'[r].todo = runs[r].todo /\ runs'[r].recreated = runs[r].recreated BY <1>9 DEF Quiet, Turns, Keeps, Field, Idle
    <2> QED BY <1>1, <1>3, <1>9, <2>1 DEF Quiet
  <1>10. CASE Looks(r)
    <2>1. CASE NextNode(r)
      <3>1. PICK n \in First(runs[r].todo) :
           /\ n \in Node /\ runs[r].at = "next"
           /\ \/ /\ Choice(runs[r], n) \in {"skip", "block"} /\ runs'[r].todo = runs[r].todo \ {n}
                 /\ Turns(r, {"todo"}) \/ Turns(r, {"todo", "blocked"})
              \/ Turns(r, {"at", "now"})
        BY <2>1, NextNodeRuns
      <3>2. d \in runs[r].recreated BY <1>1, <3>1
      <3>3. runs'[r].recreated = runs[r].recreated BY <3>1 DEF Turns, Keeps, Field, Idle
      <3>4. CASE m \in runs'[r].todo BY <1>3, <3>2, <3>3, <3>4
      <3>5. CASE m \notin runs'[r].todo
        <4>1. ~Turns(r, {"at", "now"}) BY <1>1, <3>5 DEF Turns, Keeps, Field, Idle
        <4>2. n = m /\ Choice(runs[r], n) \in {"skip", "block"} BY <1>1, <3>1, <3>5, <4>1
        <4>3. m \in ghost.owed BY <1>1, <3>1, <3>2, <4>2, SkipDue
        <4> QED BY <1>10, <4>3 DEF Looks
      <3> QED BY <3>4, <3>5
    <2>2. CASE Plan(r)
      <3>1. runs[r].at = "plan" BY <2>2 DEF Plan, At
      <3>2. runs[r].todo = {} BY <3>1, ReadyRun DEF Sound, AtNode, InHand
      <3> QED BY <1>1, <3>2
    <2>3. CASE StopOutside(r)
      <3>1. runs[r].at = "outside" BY <2>3 DEF StopOutside, At
      <3>2. Turns(r, {"at"}) \/ Turns(r, {"outside", "seen"}) BY <2>3, StopOutsideRuns
      <3>3. runs'[r].todo = runs[r].todo /\ runs'[r].recreated = runs[r].recreated BY <3>2 DEF Turns, Keeps, Field, Idle
      <3> QED BY <1>1, <1>3, <3>1, <3>3
    <2>4. CASE RecordSeeded(r)
      <3>1. runs[r].at = "seeded" /\ Turns(r, {"at", "now", "todo", "seen"}) /\ runs'[r].todo = runs[r].todo \ {Now(r)} BY <2>4, RecordSeededRuns
      <3>2. Now(r) # m BY <1>0, <3>1, ReadyRun DEF Sound, Now
      <3>3. runs'[r].recreated = runs[r].recreated BY <3>1 DEF Turns, Keeps, Field, Idle
      <3> QED BY <1>1, <1>3, <3>1, <3>2, <3>3
    <2> QED BY <1>10, <2>1, <2>2, <2>3, <2>4 DEF Looks
  <1> QED BY <1>4, <1>5, <1>6, <1>7, <1>8, <1>9, <1>10, Fate

LEMMA MigrateInvStep ==
  ASSUME Ready, TaskInv, OwedInv, BusyInv, ExitInv, MigrateInv, [Next]_vars
  PROVE  MigrateInv'
  <1>0. shop' = shop /\ (ghost.crossed => ghost'.crossed) BY ShopSame, GhostGrows
  <1>1. SUFFICES ASSUME ~ghost'.crossed, NEW m \in Node, NEW d, d = shop.migrates[m], d # None
                 PROVE  \/ m \in ghost'.owed \/ <<m, d>> \in filled' \/ box'[d].status = "none"
                        \/ \E r \in Run : Due(m, runs'[r])
    <2>1. \A m \in Node, r \in Run : Due(m, runs[r])' <=> Due(m, runs'[r]) BY <1>0 DEF Due
    <2> QED BY <1>0, <1>1, <2>1 DEF MigrateInv
  <1>2. ~ghost.crossed BY <1>0, <1>1
  <1>3. d \in Node /\ d \in Stores(m) /\ m \in shop.tasks /\ d \notin shop.tasks BY <1>1, MigrateFacts
  <1>4. ASSUME NEW r \in Run, Makes(r), Now(r) = d PROVE Due(m, runs'[r]) \/ m \in ghost'.owed
    <2>1. m \in runs[r].todo BY <1>1, <1>4, MakesFate, StoreAhead
    <2>2. CASE CallOff(r) /\ ghost'.owed = ghost.owed \cup Ahead(r) BY <1>3, <2>1, <2>2 DEF Ahead
    <2>3. CASE Turns(r, {"at"}) /\ runs'[r].now = Now(r) /\ runs'[r].at = IF IsTask(Now(r)) THEN "exit" ELSE "health"
      <3>1. runs'[r].todo = runs[r].todo BY <2>3 DEF Turns, Keeps, Field, Idle
      <3> QED BY <1>1, <1>3, <1>4, <2>1, <2>3, <3>1 DEF Due, IsTask
    <2> QED BY <1>4, <2>2, <2>3, MakesFate
  <1>5. CASE box[d].status = "none" BY <1>3, <1>4, <1>5, BoxFrom
  <1>6. CASE <<m, d>> \in filled
    <2>1. ASSUME VolumeRemoved(d) PROVE box'[d].status = "none" BY <2>1 DEF VolumeRemoved
    <2> QED BY <1>3, <1>4, <1>6, <2>1, FilledStep
  <1>7. CASE m \in ghost.owed
    <2>1. ASSUME NEW r \in Run, Done(r), Now(r) = m PROVE <<m, d>> \in filled' \/ box'[d].status = "none"
      <3>1. UNCHANGED <<box, filled>> BY <2>1 DEF Done, WaitForExit, engineVars
      <3> QED BY <1>2, <1>3, <2>1, <3>1 DEF Done, ExitInv
    <2>2. ASSUME NEW r \in Run, Done(r), Now(r) # m PROVE m \in ghost'.owed BY <1>7, <2>2 DEF Done
    <2> QED BY <1>7, <2>1, <2>2, OwedStep
  <1>8. ASSUME NEW r \in Run, Due(m, runs[r])
        PROVE  Due(m, runs'[r]) \/ m \in ghost'.owed \/ box'[d].status = "none" \/ <<m, d>> \in filled'
    <2>1. ASSUME Reads(r) \/ Networks(r) \/ Boxes(r)
          PROVE  Due(m, runs'[r]) \/ m \in ghost'.owed \/ box'[d].status = "none" \/ <<m, d>> \in filled'
      BY <1>1, <1>2, <1>8, <2>1, DueRuns
    <2>2. ASSUME NEW q \in Run, q # r, Reads(q) \/ Networks(q) \/ Boxes(q) PROVE runs'[r] = runs[r] BY <2>2, OtherSame
    <2>3. CASE (\E k \in Node : DeleteNode(k)) \/ Observe \/ Outside \/ UNCHANGED vars BY <1>8, <2>3 DEF DeleteNode, Observe, Outside, vars
    <2> QED BY <1>8, <2>1, <2>2, <2>3, NextCases
  <1> QED BY <1>1, <1>2, <1>5, <1>6, <1>7, <1>8 DEF MigrateInv

\* A service is started after the migrations it requires.
LEMMA EarlyStep ==
  ASSUME Ready, MigrateInv, NEW r \in Run, runs[r].at \in AtNode
  PROVE  ~TooEarly(Now(r))
  <1>1. SUFFICES ASSUME TooEarly(Now(r)) PROVE FALSE OBVIOUS
  <1>2. ~ghost.crossed BY <1>1 DEF TooEarly
  <1>3. PICK m \in Migrations(Now(r)) \ ghost.owed : box[shop.migrates[m]].status # "none" /\ <<m, shop.migrates[m]>> \notin filled
    BY <1>1 DEF TooEarly
  <1>4. m \in Node /\ <<Now(r), m>> \in shop.requires /\ shop.migrates[m] # None
    BY <1>3 DEF Migrations, Ready, Typed, EngineTypes, Workspace
  <1>5. PICK q \in Run : Due(m, runs[q]) BY <1>2, <1>3, <1>4 DEF MigrateInv
  <1>6. m \in runs[q].todo BY <1>5 DEF Due
  <1>7. runs[q].kind \in Main
    <2>1. runs[q].kind # "idle" BY <1>6, ReadyRun DEF Sound, Idle
    <2>2. runs[q].kind # "restore" BY <1>6, ReadyRun DEF Sound, AtNode, InHand
    <2> QED BY <2>1, <2>2, ReadyRun DEF RunRec, Main
  <1>8. q = r BY <1>2, <1>7, ReadyRun, Sole
  <1> QED BY <1>4, <1>6, <1>8, ReadyRun DEF Ordered, Now

LEMMA LaunchAt ==
  ASSUME Ready, NEW r \in Run, Launches(r)
  PROVE  runs[r].at \in Going /\ runs[r].at \in AtNode /\ runs[r].kind \in Main
  <1>1. runs[r].at \in {"make", "restart"} BY DEF Launches, MakeContainer, RestartInPlace, At
  <1> QED BY <1>1, ReadyRun DEF Going, AtNode, InHand

LEMMA StartInvStep ==
  ASSUME Ready, KeptInv, ToldInv, SeedInv, MigrateInv, ~ghost.early, ~ghost.again, [Next]_vars
  PROVE  ~ghost'.early /\ ~ghost'.again
  <1>1. ASSUME NEW r \in Run, Launches(r) PROVE ~ghost'.early /\ ~ghost'.again
    <2>1. ~TooEarly(Now(r)) /\ ~Again(r, Now(r)) BY <1>1, LaunchAt, EarlyStep, AgainStep
    <2>2. ghost'.early = (ghost.early \/ TooEarly(Now(r))) /\ ghost'.again = (ghost.again \/ Again(r, Now(r)))
      BY <1>1, StartsSet DEF Launches, Ready
    <2> QED BY <2>1, <2>2
  <1>2. CASE ghost'.early = ghost.early /\ ghost'.again = ghost.again BY <1>2
  <1> QED BY <1>1, <1>2, GhostStep DEF Recalls, GhostField

Store == Ready /\ BusyInv /\ StoreInv
LEMMA StoreStep ==
  ASSUME Store, [Next]_vars
  PROVE  Store'
  <1>1. /\ Ready /\ BusyInv /\ VolumeInv /\ KeptInv /\ ToldInv /\ ExitInv /\ SeedInv /\ TaskInv /\ OwedInv /\ MigrateInv
        /\ ~ghost.early /\ ~ghost.again
    BY DEF Store, StoreInv
  <1>2. Ready' /\ BusyInv' BY <1>1, ReadyStep, BusyInvStep
  <1>3. VolumeInv' /\ KeptInv' /\ ToldInv' /\ ExitInv' BY <1>1, VolumeInvStep, KeptInvStep, ToldInvStep, ExitInvStep
  <1>4. SeedInv' /\ TaskInv' /\ OwedInv' /\ MigrateInv' BY <1>1, SeedInvStep, TaskInvStep, OwedInvStep, MigrateInvStep
  <1>5. ~ghost'.early /\ ~ghost'.again BY <1>1, StartInvStep
  <1> QED BY <1>2, <1>3, <1>4, <1>5 DEF Store, StoreInv

LEMMA InitStore ==
  ASSUME Init
  PROVE  Store
  <1>0. Ready /\ shop \in Workspace /\ Resolved(shop) /\ Found(shop) BY InitReady, InitShop
  <1>1. /\ runs = [r \in Run |-> Idle] /\ ~ghost.early /\ ~ghost.again /\ ghost.owed = {}
        /\ ghost.told = UNION {{<<t, s, DataOf(s)>> : s \in shop.seeds[t]} : t \in {n \in Node : kept[n] # None}}
    BY DEF Init
  <1>2. \A r \in Run : runs[r].kind = "idle" /\ runs[r].at = "idle" /\ runs[r].failed = {} BY <1>1 DEF Idle
  <1>3. \A n \in Node : box[n].status # "none" <=> n \in shop.up
    <2>1. \A n \in Node : box[n].status \in {"none", "running", "exited"} BY InitBox DEF Box
    <2> QED BY <2>1, InitBox
  <1>4. VolumeInv
    <2>1. vol = [n \in Node |-> [there |-> n \in shop.up /\ HasVolume(n), created |-> 0]] BY DEF Init
    <2> QED BY <1>3, <2>1 DEF VolumeInv
  <1>5. \A n \in Node, s \in Node : n \in shop.up /\ s \in Stores(n) /\ s \in shop.up => <<n, s>> \in filled
    <2>1. filled = UNION {{t} \X (Stores(t) \cap shop.up) : t \in shop.tasks \cap shop.up} BY DEF Init
    <2>2. \A n \in Node : \A s \in Stores(n) : n \in shop.tasks BY <1>0, StoreTask
    <2> QED BY <2>1, <2>2
  <1>6. \A n \in Node : kept[n] # None => n \in shop.up /\ kept[n] = seeded_data(n) BY DEF Init
  <1>7. KeptInv
    <2>1. SUFFICES ASSUME NEW n \in Node, kept[n] # None
                   PROVE  /\ kept[n] \in [shop.seeds[n] -> {"volume", "container"} \X Nat]
                          /\ \A s \in shop.seeds[n] :
                               /\ kept[n][s][1] = Tag(s) /\ kept[n][s][2] <= DataOf(s)
                               /\ <<n, s>> \in filled
      BY DEF KeptInv
    <2>2. /\ n \in shop.up /\ kept[n] = [s \in shop.seeds[n] |-> <<Tag(s), DataOf(s)>>]
          /\ \A s \in shop.seeds[n] : box[s].status # "none"
      BY <1>6, <2>1, SeededIs
    <2>3. \A s \in shop.seeds[n] : s \in Stores(n) /\ s \in Node /\ DataOf(s) \in Nat /\ Tag(s) \in {"volume", "container"}
      BY <1>0, <2>1, SeedStores
    <2>4. \A s \in shop.seeds[n] : <<n, s>> \in filled BY <1>3, <1>5, <2>1, <2>2, <2>3
    <2>5. kept[n] \in [shop.seeds[n] -> {"volume", "container"} \X Nat] BY <2>2, <2>3
    <2> QED BY <2>2, <2>3, <2>4, <2>5
  <1>8. ToldInv
    <2>1. SUFFICES ASSUME NEW e \in ghost.told PROVE e[2] \in shop.seeds[e[1]] /\ kept[e[1]] # None /\ e[3] <= kept[e[1]][e[2]][2]
      BY DEF ToldInv
    <2>2. PICK t \in Node : kept[t] # None /\ \E s \in shop.seeds[t] : e = <<t, s, DataOf(s)>> BY <1>1, <2>1
    <2>3. PICK s \in shop.seeds[t] : e = <<t, s, DataOf(s)>> BY <2>2
    <2>4. kept[t] = [x \in shop.seeds[t] |-> <<Tag(x), DataOf(x)>>] BY <1>6, <2>2, SeededIs
    <2>5. kept[t][s][2] = DataOf(s) /\ DataOf(s) \in Nat BY <1>0, <2>4, SeedStores
    <2> QED BY <2>2, <2>3, <2>5
  <1>9. ExitInv /\ SeedInv /\ OwedInv BY <1>2 DEF ExitInv, SeedInv, OwedInv, Going, AtNode, InHand
  <1>10. TaskInv
    <2>1. \A m \in shop.tasks : ~Running(m) BY <1>0, InitBox DEF Running, Workspace, IsTask
    <2> QED BY <1>2, <2>1 DEF TaskInv
  <1>11. MigrateInv
    <2>1. SUFFICES ASSUME NEW m \in Node, NEW d, d = shop.migrates[m], d # None
                   PROVE  <<m, d>> \in filled \/ box[d].status = "none"
      BY DEF MigrateInv
    <2>2. d \in Node /\ d \in Stores(m) BY <1>0, <2>1, MigrateFacts
    <2>3. d \in shop.up => m \in shop.up BY <1>0, <2>1 DEF Found
    <2> QED BY <1>3, <1>5, <2>1, <2>2, <2>3
  <1>12. BusyInv
    <2>1. \A n \in Node : record[n] # None => ~record[n].busy BY DEF Init
    <2> QED BY <1>2, <2>1 DEF BusyInv
  <1> QED BY <1>0, <1>1, <1>4, <1>7, <1>8, <1>9, <1>10, <1>11, <1>12 DEF Store, StoreInv

LEMMA StoreHolds ==
  ASSUME Store
  PROVE  StoresReady
  <1>1. ASSUME NEW n \in Node, ~ghost.crossed, shop.seeds[n] # {}, already_seeded(n), NEW s \in shop.seeds[n] PROVE <<n, s>> \in filled
    <2>0. Ready /\ KeptInv /\ VolumeInv BY DEF Store, StoreInv
    <2>1. seeded_data(n) # None /\ kept[n] = seeded_data(n) BY <1>1 DEF already_seeded
    <2>2. /\ kept[n] = [x \in shop.seeds[n] |-> <<Tag(x), DataOf(x)>>] /\ box[s].status # "none" BY <1>1, <2>1, SeededIs
    <2>3. kept[n][s][2] = DataOf(s) /\ s \in Node BY <1>1, <2>0, <2>2, SeedStores
    <2>4. HasVolume(s) => vol[s].there BY <2>0, <2>2, <2>3 DEF VolumeInv
    <2> QED BY <1>1, <2>0, <2>1, <2>3, <2>4 DEF KeptInv
  <1>2. SeedRecordTrue BY <1>1 DEF SeedRecordTrue
  <1>3. ~ghost.early /\ ~ghost.again BY DEF Store, StoreInv
  <1> QED BY <1>2, <1>3 DEF StoresReady, MigratedBeforeUse, SeededOnce

\* Stores are ready for who is started on them, however starts, failures, aborted
\* runs, deletes and outside changes interleave: migrated, and seeded exactly once
\* over the data they hold, with a record of it that is true (start_nodes, seeds.rs).
THEOREM StoresAlwaysReady == Spec => []StoresReady
  <1>1. Init => Store BY InitStore
  <1>2. Store /\ [Next]_vars => Store' BY StoreStep
  <1>3. Store => StoresReady BY StoreHolds
  <1> QED BY <1>1, <1>2, <1>3, PTL DEF Spec

----------------------------------------------------------------------------
(* Connections.                                                            *)

\* Where a connection to who was taken down after it comes from.
LEMMA StaleFrom ==
  ASSUME Ready, [Next]_vars, NEW p \in ghost'.stale
  PROVE  /\ \A q \in Run : ~Begin(q)
         /\ \/ p \in ghost.stale /\ \A q \in Run : Launches(q) => p[1] # Now(q)
            \/ \E q \in Run, k \in Node :
                 /\ Launches(q) /\ Now(q) \in Node /\ p = <<k, Now(q)>> /\ k \notin shop.tasks /\ Now(q) \notin shop.tasks
                 /\ p \in shop.requires /\ Running(k)
  <1>0. Typed BY DEF Ready
  <1>1. ASSUME NEW q \in Run, Launches(q)
        PROVE  \/ p \in ghost.stale /\ p[1] # Now(q)
               \/ \E k \in Node : /\ Now(q) \in Node /\ p = <<k, Now(q)>> /\ k \notin shop.tasks /\ Now(q) \notin shop.tasks
                                  /\ p \in shop.requires /\ Running(k)
    <2>1. Now(q) \in Node /\ ghost'.stale = Links(Now(q)) BY <1>0, <1>1, StartsSet DEF Launches
    <2> QED BY <2>1 DEF Links
  <1>2. \A q \in Run : ~Begin(q) BY <1>0, BeginSet
  <1>3. CASE \E q \in Run : Launches(q) BY <1>1, <1>2, <1>3
  <1>4. CASE ghost'.stale = ghost.stale /\ ~\E q \in Run : Launches(q) BY <1>2, <1>4
  <1> QED BY <1>2, <1>3, <1>4, GhostStep DEF Recalls, GhostField

\* No run comes back to where nothing is started yet.
LEMMA EarlyFrom ==
  ASSUME Ready, NEW r \in Run, Reads(r) \/ Networks(r) \/ Boxes(r), ~Begin(r), ~RestoreSidecar(r), runs'[r].kind \in Main, runs'[r].at \in Early
  PROVE  runs[r].at \in Early
  <1>1. CASE Networks(r) BY <1>1 DEF Networks, EnsureNetwork, ReadBack, PinNetwork, ReplaceSidecar, At, Early
  <1>2. CASE SidecarThere(r) BY <1>2 DEF SidecarThere, At, Early
  <1>3. CASE Plan(r) BY <1>3 DEF Plan, At, Early
  <1>4. CASE StopOutside(r)
    <2>1. runs[r].at = "outside" BY <1>4 DEF StopOutside, At
    <2>2. (Turns(r, {"at"}) /\ runs'[r].at = "next") \/ Turns(r, {"outside", "seen"}) BY <1>4, StopOutsideRuns
    <2>3. Turns(r, {"outside", "seen"}) => runs'[r].at = runs[r].at BY DEF Turns, Keeps, Field, Idle
    <2> QED BY <2>1, <2>2, <2>3 DEF Early
  <1>5. CASE ~SidecarThere(r) /\ ~Plan(r) /\ ~StopOutside(r) /\ (Reads(r) \/ Boxes(r))
    <2>1. Late(r) BY <1>5, LateSteps
    <2> QED BY <2>1 DEF Late, Main, Early, AtNode, InHand
  <1> QED BY <1>1, <1>2, <1>3, <1>4, <1>5

\* A service with a requirement that was taken down after it is not passed over.
LEMMA NotPassed ==
  ASSUME Ready, BusyInv, ~ghost.crossed, NEW r \in Run, runs[r].at = "next", runs[r].failed = {},
         NEW n \in Node, NEW d \in Node, n \notin shop.tasks, <<n, d>> \in shop.requires, d \in runs[r].bounced
  PROVE  Choice(runs[r], n) \notin {"skip", "block"}
  <1>0. runs[r].kind \in Main /\ Sound(runs[r]) BY ReadyRun
  <1>1. shop.seeds[n] = {} /\ n \notin shop.once BY DEF Ready, Typed, EngineTypes, Resolved
  <1>2. bounced_requirement(runs[r], n) BY DEF bounced_requirement
  <1>3. ~blocked_by(runs[r], n) BY <1>0 DEF blocked_by, Sound
  <1>4. ASSUME Settled(runs[r], n) PROVE Forced(runs[r], n)
    <2>1. CASE runs[r].kind = "start"
      <3>1. runs[r].seen[n] # None /\ runs[r].seen[n].busy BY <1>4, <2>1 DEF Settled, IsTask
      <3>2. n = runs[r].of BY <2>1, <3>1 DEF BusyInv
      <3> QED BY <2>1, <3>2 DEF Forced
    <2>2. CASE runs[r].kind # "start" BY <1>1, <1>4, <2>2 DEF Settled, task_already_done
    <2> QED BY <2>1, <2>2
  <1> QED BY <1>1, <1>2, <1>3, <1>4 DEF Choice

\* It is to come, after a requirement the run took down.
Behind(p, run) == p[1] \in run.todo /\ (p[2] \in run.bounced \/ (run.at = "health" /\ p[2] = run.now))
LEMMA BehindRuns ==
  ASSUME Ready, BusyInv, ~ghost.crossed, NEW r \in Run, Reads(r) \/ Networks(r) \/ Boxes(r), ~Begin(r), ~RestoreSidecar(r),
         runs'[r] # Idle, runs'[r].failed = {}, runs[r].failed = {},
         NEW p \in Node \X Node, p \in shop.requires, p[1] \notin shop.tasks, Behind(p, runs[r]),
         runs[r].at = "health" => p[1] # Now(r), Launches(r) => p[1] # Now(r)
  PROVE  Behind(p, runs'[r])
  <1>1. p[1] \in runs[r].todo /\ (p[2] \in runs[r].bounced \/ (runs[r].at = "health" /\ p[2] = Now(r))) BY DEF Behind, Now
  <1>2. ASSUME p[1] \in runs'[r].todo, p[2] \in runs'[r].bounced PROVE Behind(p, runs'[r]) BY <1>2 DEF Behind
  <1>3. CASE Leaves(r) BY <1>3 DEF Leaves
  <1>4. CASE Gives(r) BY <1>4 DEF Gives
  <1>5. CASE Done(r)
    <2>1. /\ runs[r].at = "exit"
          /\ \/ Turns(r, {"at", "now", "todo", "seen", "clock", "waited"}) /\ runs'[r].todo = runs[r].todo \ {Now(r)}
             \/ Turns(r, {"at", "clock", "waited"})
      BY <1>5 DEF Done
    <2>2. p[1] # Now(r) /\ p[2] \in runs[r].bounced BY <1>1, <2>1, ReadyRun DEF Sound, Now
    <2>3. runs'[r].bounced = runs[r].bounced BY <2>1 DEF Turns, Keeps, Field, Idle
    <2>4. p[1] \in runs'[r].todo BY <1>1, <2>1, <2>2 DEF Turns, Keeps, Field, Idle
    <2> QED BY <1>2, <2>2, <2>3, <2>4
  <1>6. CASE Answers(r)
    <2>1. PICK entry : Answered(r, entry) BY <1>6 DEF Answers
    <2>2. runs'[r].todo = runs[r].todo \ {Now(r)} /\ runs'[r].bounced = runs[r].bounced \cup {Now(r)} BY <2>1 DEF Answered
    <2>3. p[1] # Now(r) BY <1>6 DEF Answers, Restarts, Launches
    <2> QED BY <1>1, <1>2, <2>2, <2>3
  <1>7. CASE Quiet(r)
    <2>1. runs'[r].todo = runs[r].todo /\ runs'[r].bounced = runs[r].bounced BY <1>7 DEF Quiet, Turns, Keeps, Field, Idle
    <2> QED BY <1>1, <1>2, <1>7, <2>1 DEF Quiet
  <1>8. CASE NextNode(r)
    <2>1. PICK n \in First(runs[r].todo) :
         /\ n \in Node /\ runs[r].at = "next"
         /\ \/ /\ Choice(runs[r], n) \in {"skip", "block"} /\ runs'[r].todo = runs[r].todo \ {n}
               /\ Turns(r, {"todo"}) \/ Turns(r, {"todo", "blocked"})
            \/ Turns(r, {"at", "now"})
      BY <1>8, NextNodeRuns
    <2>2. p[2] \in runs[r].bounced BY <1>1, <2>1
    <2>3. runs'[r].bounced = runs[r].bounced BY <2>1 DEF Turns, Keeps, Field, Idle
    <2>4. p[1] \in Node /\ p[2] \in Node /\ <<p[1], p[2]>> \in shop.requires OBVIOUS
    <2>5. Choice(runs[r], p[1]) \notin {"skip", "block"} BY <2>1, <2>2, <2>4, NotPassed
    <2>6. Turns(r, {"at", "now"}) => runs'[r].todo = runs[r].todo BY DEF Turns, Keeps, Field, Idle
    <2>7. p[1] \in runs'[r].todo BY <1>1, <2>1, <2>5, <2>6
    <2> QED BY <1>2, <2>2, <2>3, <2>7
  <1>9. CASE Plan(r)
    <2>1. runs[r].at = "plan" BY <1>9 DEF Plan, At
    <2>2. runs[r].todo = {} BY <2>1, ReadyRun DEF Sound, AtNode, InHand
    <2> QED BY <1>1, <2>2
  <1>10. CASE StopOutside(r)
    <2>1. runs[r].at = "outside" BY <1>10 DEF StopOutside, At
    <2>2. Turns(r, {"at"}) \/ Turns(r, {"outside", "seen"}) BY <1>10, StopOutsideRuns
    <2>3. runs'[r].todo = runs[r].todo /\ runs'[r].bounced = runs[r].bounced BY <2>2 DEF Turns, Keeps, Field, Idle
    <2> QED BY <1>1, <1>2, <2>1, <2>3
  <1>11. CASE RecordSeeded(r)
    <2>1. runs[r].at = "seeded" /\ Turns(r, {"at", "now", "todo", "seen"}) /\ runs'[r].todo = runs[r].todo \ {Now(r)} BY <1>11, RecordSeededRuns
    <2>2. p[1] # Now(r) BY <2>1, ReadyRun DEF Sound, Now
    <2>3. runs'[r].bounced = runs[r].bounced BY <2>1 DEF Turns, Keeps, Field, Idle
    <2> QED BY <1>1, <1>2, <2>1, <2>2, <2>3
  <1> QED BY <1>3, <1>4, <1>5, <1>6, <1>7, <1>8, <1>9, <1>10, <1>11, Fate DEF Looks

\* Who takes a requirement down has those that require it to come.
LEMMA BehindStarts ==
  ASSUME Ready, NEW r \in Run, Launches(r), runs'[r].failed = {}, NEW k \in Node, <<k, Now(r)>> \in shop.requires, k \in runs[r].targets,
         Now(r) \notin shop.tasks
  PROVE  Behind(<<k, Now(r)>>, runs'[r])
  <1>0. runs[r].at \in AtNode /\ Now(r) \in runs[r].todo /\ Now(r) \in Node BY LaunchAt, ReadyRun
  <1>1. k \in runs[r].todo BY <1>0, ReadyRun DEF Ordered
  <1>2. k # Now(r) BY <1>0 DEF Ready, Typed, EngineTypes, Resolved
  <1>3. ~NodeFails(r)
    <2>1. SUFFICES ASSUME NodeFails(r) PROVE FALSE OBVIOUS
    <2>2. runs \in [Run -> RunRec] BY ReadyRun
    <2>3. runs'[r].failed = runs[r].failed \cup {Now(r)} BY <1>0, <2>1, <2>2, NodeFailsTurns
    <2> QED BY <2>3
  <1>4. CASE MakeContainer(r)
    <2>1. Turns(r, {"at"}) /\ runs'[r].at = (IF IsTask(Now(r)) THEN "exit" ELSE "health") BY <1>3, <1>4, MakeContainerRuns
    <2>2. runs'[r].todo = runs[r].todo /\ runs'[r].now = Now(r) BY <2>1 DEF Turns, Keeps, Field, Idle, Now
    <2>3. runs'[r].at = "health" BY <2>1 DEF IsTask
    <2> QED BY <1>1, <2>2, <2>3 DEF Behind
  <1>5. CASE RestartInPlace(r)
    <2>1. PICK entry : Answered(r, entry) BY <1>3, <1>5, RestartInPlaceRuns
    <2>2. runs'[r].todo = runs[r].todo \ {Now(r)} /\ runs'[r].bounced = runs[r].bounced \cup {Now(r)} BY <2>1 DEF Answered
    <2> QED BY <1>1, <1>2, <2>2 DEF Behind
  <1> QED BY <1>4, <1>5 DEF Launches

LEMMA StaleInvStep ==
  ASSUME Ready, BusyInv, StaleInv, [Next]_vars
  PROVE  StaleInv'
  <1>0. shop' = shop /\ (ghost.crossed => ghost'.crossed) /\ ghost \in GhostRec /\ ghost' \in GhostRec
    BY ShopSame, GhostGrows DEF Ready, Typed, RunTypes
  <1>1. ASSUME NEW p \in ghost'.stale PROVE p \in shop.requires /\ p[1] \notin shop.tasks /\ p[2] \notin shop.tasks /\ p \in Node \X Node
    BY <1>0, StaleFrom DEF StaleInv, GhostRec
  <1>2. ASSUME ~ghost'.crossed, NEW r \in Run, runs'[r].kind \in Main, NEW p \in ghost'.stale
        PROVE  /\ runs'[r].at \notin Early
               /\ \A n : runs'[r].at = "health" /\ n = runs'[r].now => p[1] # n
               /\ runs'[r].failed = {} /\ p[1] \in runs'[r].targets /\ box'[p[1]].status = "running" => Behind(p, runs'[r])
    <2>0. ~ghost.crossed /\ (\A q \in Run : ~Begin(q)) BY <1>0, <1>2, StaleFrom
    <2>1. runs[r].kind = runs'[r].kind /\ runs[r].kind \in Main BY <1>2, <2>0, KindStep
    <2>2. \A q \in Run : Launches(q) => q = r BY <2>0, <2>1, LaunchAt, Sole
    <2>3. \/ p \in ghost.stale /\ (Launches(r) => p[1] # Now(r))
          \/ \E k \in Node : /\ Launches(r) /\ Now(r) \in Node /\ p = <<k, Now(r)>> /\ Now(r) \notin shop.tasks
                             /\ p \in shop.requires
      BY <1>2, <2>2, StaleFrom
    <2>4. runs[r].at \notin Early
      <3>1. ASSUME p \in ghost.stale PROVE runs[r].at \notin Early BY <2>0, <2>1, <3>1 DEF StaleInv
      <3>2. ASSUME Launches(r) PROVE runs[r].at \notin Early BY <3>2, LaunchAt DEF AtNode, InHand, Early
      <3> QED BY <2>3, <3>1, <3>2
    <2>5. ~RestoreSidecar(r) BY <2>1, RestoreSidecarRuns DEF Idle, Main
    <2>6. p \in ghost.stale =>
            /\ runs[r].at = "health" => p[1] # Now(r)
            /\ runs[r].failed = {} /\ p[1] \in runs[r].targets /\ Running(p[1]) => Behind(p, runs[r])
      BY <2>0, <2>1 DEF StaleInv, Behind, Now
    <2>7. runs'[r] # Idle BY <1>2 DEF Idle, Main
    <2>8. ASSUME p \in ghost.stale, Launches(r) => p[1] # Now(r), box'[p[1]].status = "running" PROVE Running(p[1])
      <3>1. p[1] \in Node BY <1>1, <1>2
      <3>2. ASSUME NEW q \in Run, Makes(q), p[1] = Now(q) PROVE FALSE
        <4>1. q = r BY <2>0, <2>1, <3>2, MakesFate, Sole
        <4>2. CASE MakeContainer(q) /\ Starts(q, Now(q)) BY <2>8, <3>2, <4>1, <4>2 DEF Launches, Makes
        <4>3. CASE CallOff(q)
          <5>1. Ends(r) /\ runs \in [Run -> RunRec] BY <4>1, <4>3, ReadyRun DEF CallOff
          <5> QED BY <2>7, <5>1, EndsTurns
        <4> QED BY <3>2, <4>2, <4>3, MakesFate
      <3>3. ASSUME NEW q \in Run, Restarts(q), p[1] = Now(q) PROVE FALSE
        <4>1. Launches(q) BY <3>3 DEF Restarts, Launches
        <4> QED BY <2>2, <2>8, <3>3, <4>1
      <3> QED BY <2>8, <3>1, <3>2, <3>3, BoxFrom
    <2>9. CASE runs'[r] = runs[r]
      <3>1. ~Launches(r) BY <2>9, MovesOn DEF Launches
      <3>2. p \in ghost.stale BY <2>3, <3>1
      <3>3. box'[p[1]].status = "running" => Running(p[1]) BY <2>8, <3>1, <3>2
      <3> QED BY <2>4, <2>6, <2>9, <3>2, <3>3 DEF Now
    <2>10. CASE Reads(r) \/ Networks(r) \/ Boxes(r)
      <3>1. runs'[r].at \notin Early BY <1>2, <2>0, <2>4, <2>5, <2>10, EarlyFrom
      <3>2. ASSUME NEW n, runs'[r].at = "health", n = runs'[r].now PROVE p[1] # n
        <4>1. MakeContainer(r) BY <2>10, <3>2, PhaseFrom
        <4>2. ~NodeFails(r)
          <5>1. Now(r) \in Node /\ runs \in [Run -> RunRec] BY <4>1, MakeContainerRuns, ReadyRun
          <5> QED BY <3>2, <5>1, NodeFailsTurns
        <4>3. Turns(r, {"at"}) /\ Launches(r) BY <4>1, <4>2, MakeContainerRuns DEF Launches
        <4>4. n = Now(r) BY <3>2, <4>3 DEF Turns, Keeps, Field, Idle, Now
        <4>5. \A k \in Node : <<k, k>> \notin shop.requires BY DEF Ready, Typed, EngineTypes, Resolved
        <4> QED BY <2>3, <4>3, <4>4, <4>5
      <3>3. ASSUME runs'[r].failed = {}, p[1] \in runs'[r].targets, box'[p[1]].status = "running" PROVE Behind(p, runs'[r])
        <4>1. Drifts(r) BY <2>0, <2>5, <2>7, <2>10, DriftStep
        <4>2. ~Plan(r) BY <2>4 DEF Plan, At, Early
        <4>3. runs[r].failed = {} /\ p[1] \in runs[r].targets BY <3>3, <4>1, <4>2 DEF Drifts
        <4>4. CASE p \in ghost.stale /\ (Launches(r) => p[1] # Now(r))
          <5>1. Running(p[1]) BY <2>8, <3>3, <4>4
          <5>2. Behind(p, runs[r]) /\ (runs[r].at = "health" => p[1] # Now(r)) BY <2>6, <4>3, <4>4, <5>1
          <5> QED BY <1>1, <1>2, <2>0, <2>5, <2>7, <2>10, <3>3, <4>3, <4>4, <5>2, BehindRuns
        <4>5. ASSUME NEW k \in Node, Launches(r), p = <<k, Now(r)>>, Now(r) \notin shop.tasks, p \in shop.requires PROVE Behind(p, runs'[r])
          <5>1. k \in runs[r].targets BY <4>3, <4>5
          <5> QED BY <3>3, <4>5, <5>1, BehindStarts
        <4> QED BY <2>3, <4>4, <4>5
      <3> QED BY <3>1, <3>2, <3>3
    <2>11. ASSUME NEW q \in Run, q # r, Reads(q) \/ Networks(q) \/ Boxes(q) PROVE runs'[r] = runs[r] BY <2>11, OtherSame
    <2>12. CASE (\E k \in Node : DeleteNode(k)) \/ Observe \/ Outside \/ UNCHANGED vars
      <3>1. runs' = runs BY <2>12 DEF DeleteNode, Observe, Outside, vars
      <3> QED BY <2>9, <3>1
    <2> QED BY <2>9, <2>10, <2>11, <2>12, NextCases
  <1>3. ASSUME NEW r \in Run, NEW p, Behind(p, runs'[r])
        PROVE  p[1] \in runs'[r].todo /\ (p[2] \in runs'[r].bounced \/ (runs'[r].at = "health" /\ p[2] = runs'[r].now))
    BY <1>3 DEF Behind
  <1> QED BY <1>0, <1>1, <1>2, <1>3 DEF StaleInv, Now, Running

Link == Ready /\ BusyInv /\ StaleInv
LEMMA LinkStep ==
  ASSUME Link, [Next]_vars
  PROVE  Link'
  BY ReadyStep, BusyInvStep, StaleInvStep DEF Link

LEMMA InitLink ==
  ASSUME Init
  PROVE  Link
  <1>1. Ready /\ BusyInv BY InitStore DEF Store
  <1>2. ghost.stale = {} BY DEF Init
  <1>3. StaleInv BY <1>2 DEF StaleInv
  <1> QED BY <1>1, <1>3 DEF Link

LEMMA LinkHolds ==
  ASSUME Link
  PROVE  Reconnected
  <1>1. SUFFICES ASSUME NEW r \in Run, At(r, "next"), runs[r].todo = {}, runs[r].failed = {}, ~ghost.crossed,
                        NEW p \in ghost.stale, p[1] \in runs[r].targets, Running(p[1])
                 PROVE  FALSE
    BY DEF Reconnected
  <1>2. runs[r].kind \in Main BY <1>1, ReadyRun DEF Link, At
  <1> QED BY <1>1, <1>2 DEF Link, StaleInv

\* Reconnected (start_nodes, restart_in_place): whatever a run skips, restarts or makes
\* anew, when it ends with nothing failed no service it was for still runs on a
\* connection to a requirement that the run took down under it.
THEOREM AlwaysReconnected == Spec => []Reconnected
  <1>1. Init => Link BY InitLink
  <1>2. Link /\ [Next]_vars => Link' BY LinkStep
  <1>3. Link => Reconnected BY LinkHolds
  <1> QED BY <1>1, <1>2, <1>3, PTL DEF Spec
=============================================================================
