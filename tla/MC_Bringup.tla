----------------------------- MODULE MC_Bringup -----------------------------
(* The workspaces: a store with its migration and a service on it; a store   *)
(* with a seed, and a second flow; a network to make, wide enough to pin or  *)
(* not; two built services, on dockerd's BuildKit or on buildx's; a chain.   *)
EXTENDS Bringup, TLC

CONSTANTS db, mig, web, seed, old

MCNode == {db, mig, web, seed, old}
Nothing == [n \in MCNode |-> None]
Blank == [name |-> "", nodes |-> {}, requires |-> {}, reach |-> [n \in MCNode |-> {}], tasks |-> {}, once |-> {}, migrates |-> Nothing,
          seeds |-> [n \in MCNode |-> {}], volumes |-> {}, checked |-> {}, built |-> {}, ssh |-> {}, host |-> None, flows |-> {}, startable |-> {},
          atOnce |-> 2, prefix |-> 29, up |-> {}, net |-> "pinned", sidecar |-> SIDECAR]
Migrated(name, volumes) ==
  [Blank EXCEPT !.name = name, !.atOnce = IF name = "crossing" THEN 2 ELSE 1, !.nodes = {db, mig, web}, !.requires = {<<mig, db>>, <<web, db>>, <<web, mig>>},
                !.tasks = {mig}, !.migrates = [Nothing EXCEPT ![mig] = db], !.volumes = volumes,
                !.checked = IF name = "failing" THEN {db} ELSE {}, !.up = {db, mig, web}, !.startable = {db, web},
                !.flows = IF name = "leftoff" THEN {} ELSE {{db, mig, web}}]
Seeded(name, volumes) ==
  [Blank EXCEPT !.name = name, !.atOnce = IF name = "crossing" THEN 2 ELSE 1, !.nodes = {db, old, seed}, !.requires = {<<seed, db>>},
                !.tasks = {seed}, !.seeds = [@ EXCEPT ![seed] = {db}], !.volumes = volumes,
                !.up = {db, seed}, !.flows = {{db, seed}, {old}}, !.startable = {db, seed}]
Networked(name, prefix) ==
  [Blank EXCEPT !.name = name, !.up = IF name = "pruned" THEN {old} ELSE {}, !.nodes = {old, web}, !.requires = {<<web, old>>}, !.tasks = {old}, !.once = {old}, !.flows = {{old, web}},
                !.startable = {old, web}, !.net = "none", !.sidecar = None, !.prefix = prefix]
Built(name, host, ssh) ==
  [Blank EXCEPT !.name = name, !.nodes = {old, web}, !.requires = {<<web, old>>}, !.built = {old, web}, !.up = {db}, !.startable = {old, web},
                !.host = host, !.ssh = ssh]
Chained ==
  [Blank EXCEPT !.name = "failing", !.atOnce = 1, !.nodes = {db, old, web}, !.requires = {<<old, db>>, <<web, old>>},
                !.up = {db, old, web}, !.flows = {{db, old, web}}, !.startable = {db, old}]
MCShops == {Migrated("migrated", {}), Migrated("leftoff", {db}), Migrated("failing", {}),
            Seeded("scratch", {}), Seeded("seeded", {db}), Seeded("crossing", {}),
            Networked("networked", 29), Networked("narrow", 30), Networked("pruned", 29), Built("built", None, {old, web}), Built("kit", "v1", {}),
            Chained}
MCAllowed ==
  "migrated" :> [image |-> 0, run |-> 2, change |-> 1, fault |-> 0, calloff |-> 0, slow |-> 0, restore |-> 0, delete |-> 0]
  @@ "leftoff" :> [image |-> 0, run |-> 2, change |-> 1, fault |-> 0, calloff |-> 1, slow |-> 0, restore |-> 0, delete |-> 0]
  @@ "failing" :> [image |-> 0, run |-> 2, change |-> 0, fault |-> 1, calloff |-> 0, slow |-> 0, restore |-> 0, delete |-> 0]
  @@ "crossing" :> [image |-> 1, run |-> 2, change |-> 0, fault |-> 1, calloff |-> 0, slow |-> 0, restore |-> 0, delete |-> 0]
  @@ "scratch" :> [image |-> 0, run |-> 2, change |-> 1, fault |-> 0, calloff |-> 0, slow |-> 0, restore |-> 0, delete |-> 1]
  @@ "seeded" :> [image |-> 0, run |-> 2, change |-> 1, fault |-> 0, calloff |-> 0, slow |-> 0, restore |-> 0, delete |-> 1]
  @@ "networked" :> [image |-> 0, run |-> 2, change |-> 1, fault |-> 1, calloff |-> 0, slow |-> 0, restore |-> 1, delete |-> 0]
  @@ "narrow" :> [image |-> 0, run |-> 2, change |-> 1, fault |-> 0, calloff |-> 0, slow |-> 0, restore |-> 1, delete |-> 0]
  @@ "pruned" :> [image |-> 0, run |-> 2, change |-> 1, fault |-> 0, calloff |-> 0, slow |-> 0, restore |-> 0, delete |-> 0]
  @@ "kit" :> [image |-> 1, run |-> 2, change |-> 0, fault |-> 1, calloff |-> 0, slow |-> 0, restore |-> 0, delete |-> 0]
  @@ "built" :> [image |-> 0, run |-> 2, change |-> 0, fault |-> 1, calloff |-> 1, slow |-> 1, restore |-> 0, delete |-> 0]
=============================================================================
