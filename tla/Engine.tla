------------------------------- MODULE Engine -------------------------------
(***************************************************************************)
(* The Docker engine as one workspace sees it, and src/src/docker: the      *)
(* calls that make, restart, stop and read containers, the network with     *)
(* its reserved sidecar address, volumes, and what a store's data is.       *)
(* Names are those of one workspace, so a node stands for its container.    *)
(***************************************************************************)
EXTENDS Naturals, Sequences, FiniteSets, FiniteSetsExt

CONSTANTS None, Node

VARIABLES
  shop,     \* the resolved graph of the workspace, and what its nodes declare
  box,      \* node -> its container
  net,      \* "none", "open" (addresses left to Docker) or "pinned"
  sidecar,  \* None, or the address the running sidecar has
  holder,   \* the node whose container took the address reserved for the sidecar
  vol,      \* store -> its named volume
  filled,   \* the <<task, store>> whose run is in the data the store holds now
  cfg       \* node -> the version of its configuration

engineVars == <<box, net, sidecar, holder, vol, filled, cfg>>

NoBox == [status |-> "none", code |-> None, health |-> None, id |-> 0, dns |-> None]
Running(n) == box[n].status = "running"
Stores(n) == shop.seeds[n] \cup ({shop.migrates[n]} \ {None})
IsTask(n) == n \in shop.tasks
\* The store's files live in a named volume, or die with its container.
HasVolume(n) == n \in shop.volumes

---------------------------------------------------------------------------
(* Layout::of and the network's addresses.  An address is told by the      *)
(* number of bits in its offset from the subnet's base: 1 for the gateway  *)
(* at 1, 2 for the sidecar at 2, and 32 - prefix for the upper half of the *)
(* subnet, which is every offset with its highest bit set.                 *)

SIDECAR == 2
ASSUME NoneAssumption == None \notin Node \cup {0, 1, SIDECAR, SIDECAR + 1}
Layout_wide(prefix) ==
  IF prefix \notin 1..30 THEN None ELSE [sidecar |-> SIDECAR, dynamic |-> {32 - prefix}]
Layout(prefix) ==
  IF prefix \notin 1..29 THEN None ELSE [sidecar |-> SIDECAR, dynamic |-> {32 - prefix}]
\* What Docker may hand out of its own accord.
Dynamic == IF net = "pinned" THEN Layout(shop.prefix).dynamic ELSE 2..(32 - shop.prefix)
\* The only thing told apart of an address is whether it is the reserved one.
Handed == {a \in {SIDECAR, SIDECAR + 1} :
             IF a = SIDECAR THEN SIDECAR \in Dynamic /\ sidecar # SIDECAR /\ holder = None ELSE Dynamic # {}}
sidecar_address == IF net = "pinned" THEN Layout(shop.prefix).sidecar ELSE None
Attached == sidecar # None \/ \E n \in Node : Running(n)

(* Containers.                                                             *)

\* What stopping or losing a container gives back.
Released(n) == holder' = IF holder = n THEN None ELSE holder
\* docker::stop_container: an error is ignored, so a missing one stays missing.
stop_container(n) ==
  /\ box' = IF Running(n) THEN [box EXCEPT ![n].status = "exited", ![n].code = 1] ELSE box
  /\ Released(n)
stop_and_remove(n) == box' = [box EXCEPT ![n] = [NoBox EXCEPT !.id = box[n].id]] /\ Released(n)

\* Only the ids of stores without a volume are ever read.
NewId(n) == IF HasVolume(n) \/ ~(\E t \in shop.tasks : n \in Stores(t)) THEN 0 ELSE box[n].id + 1
\* create_container and start_container: the container gets an address, a new
\* id, and with no volume new data.
Made(n, dns) ==
  /\ \E a \in Handed : holder' = IF a = SIDECAR THEN n ELSE holder
  /\ box' = [box EXCEPT ![n] = [status |-> "running", code |-> None, dns |-> dns, id |-> NewId(n),
                                health |-> IF n \in shop.checked THEN "starting" ELSE None]]
  /\ filled' = {f \in filled : f[2] # n \/ HasVolume(n)}

(* inspect_status and list_statuses: a container that has not exited reads *)
(* as exit code 0.                                                         *)
ReadExit(n) == CASE box[n].status = "none"    -> None
                 [] box[n].status = "running" -> 0
                 [] OTHER                     -> box[n].code
ReadStatus(n) == IF box[n].status = "none" THEN "removed" ELSE box[n].status

(* Volumes and the data in them.                                           *)

\* A volume that is there is left alone; a new one is empty.
ensure_volume(n) ==
  IF HasVolume(n) /\ ~vol[n].there
  THEN vol' = [vol EXCEPT ![n] = [there |-> TRUE, created |-> @.created + 1]]
  ELSE UNCHANGED vol
data_identity(n) ==
  IF box[n].status = "none" THEN None
  ELSE IF HasVolume(n) THEN <<"volume", vol[n].created>> ELSE <<"container", box[n].id>>

---------------------------------------------------------------------------
(* What happens in Docker by itself, or by someone else's hand.            *)

\* A task ends; only with its stores up can it do its work.
TaskExits(n) ==
  /\ IsTask(n) /\ Running(n)
  /\ \E ok \in BOOLEAN :
       /\ ok => \A s \in Stores(n) : Running(s)
       /\ box' = [box EXCEPT ![n].status = "exited", ![n].code = IF ok THEN 0 ELSE 1]
       /\ filled' = IF ok THEN filled \cup ({n} \X Stores(n)) ELSE filled
  /\ Released(n) /\ UNCHANGED <<net, sidecar, vol, cfg>>
ServiceDies(n) ==
  /\ ~IsTask(n) /\ Running(n) /\ stop_container(n)
  /\ UNCHANGED <<net, sidecar, vol, filled, cfg>>
HealthReports(n) ==
  /\ Running(n) /\ box[n].health = "starting"
  /\ \E h \in {"healthy", "unhealthy"} : box' = [box EXCEPT ![n].health = h]
  /\ UNCHANGED <<net, sidecar, holder, vol, filled, cfg>>
SidecarDies ==
  /\ sidecar # None /\ sidecar' = None
  /\ UNCHANGED <<box, net, holder, vol, filled, cfg>>
\* Docker removes a volume no container has mounted.
VolumeRemoved(n) ==
  /\ HasVolume(n) /\ vol[n].there /\ box[n].status = "none"
  /\ vol' = [vol EXCEPT ![n].there = FALSE] /\ filled' = {f \in filled : f[2] # n}
  /\ UNCHANGED <<box, net, sidecar, holder, cfg>>
NetworkRemoved ==
  /\ net # "none" /\ ~Attached /\ net' = "none"
  /\ UNCHANGED <<box, sidecar, holder, vol, filled, cfg>>
ConfigEdited(n) ==
  /\ n \in shop.nodes /\ cfg[n] = 1
  /\ cfg' = [cfg EXCEPT ![n] = 2]
  /\ UNCHANGED <<box, net, sidecar, holder, vol, filled>>
=============================================================================
