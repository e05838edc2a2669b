------------------------------ MODULE Resolver ------------------------------
(***************************************************************************)
(* src/src/resolver: from the checked-out repos of a workspace to the       *)
(* graph of nodes and edges, its flows and its warnings.  A scan maps each  *)
(* folder with a readable .fghj.yaml to its configuration and its git       *)
(* remote; every phase of resolve_universe is an operator on what the       *)
(* phases before it produced for all folders.                               *)
(***************************************************************************)
EXTENDS Naturals, FiniteSets, Sequences, SequencesExt, FiniteSetsExt, TLC

CONSTANTS
  None,
  Rank,         \* BTreeMap order of folder and alias names
  FolderOf,     \* repo_name_from_url: the folder a URL clones to
  Norm,         \* normalize_repo_url: the repository a spelling of a URL means
  Spell         \* a name as the atoms and separators it is written with

\* dependency::Target: `name`, or `alias/name`.
Bare(name) == <<name>>
Qualified(alias, name) == <<alias, name>>
Target(t) == IF Len(t) = 1 THEN [alias |-> t[1], name |-> None]
                           ELSE [alias |-> t[1], name |-> t[2]]

\* A service's id is `name.folder`, a stub's is its folder.
node_id(name, path) == <<name, path>>
stub_id(path) == <<path>>

\* The first of a set of names in BTreeMap order.
First(S) == CHOOSE x \in S : \A y \in S : Rank[x] <= Rank[y]

\* Warnings: what is wrong, not whose fault it is.
blocking(what) == [severity |-> "blocking", what |-> what]
advisory(what) == [severity |-> "advisory", what |-> what]
When(cond, w) == IF cond THEN {w} ELSE {}

\* What an unwritten field of a service means.
ServiceConfig == [build |-> None, image |-> FALSE, ports |-> {}, hosts |-> {}, refs |-> {},
                  signal |-> "ok", restart |-> None, command |-> FALSE, health |-> None,
                  run |-> None, migrates |-> None, seeds |-> {}, depends_on |-> {}]
DependsOnEntry(key) == [key |-> key, condition |-> "started", required |-> TRUE]

---------------------------------------------------------------------------
(* scan_workspace and repo_facts.  A disk maps a folder to what is there.  *)

\* Of a readable file: another major version does not parse.
is_newer_minor_than_supported(version) == version > 0
Scanned(disk) == {p \in DOMAIN disk : disk[p].file = "ok"}
scan_workspace(disk) == [p \in Scanned(disk) |-> [config |-> disk[p].config, remote |-> disk[p].remote]]
scan_warnings(disk) ==
  When(\E p \in DOMAIN disk : disk[p].file = "unreadable", blocking("unreadable file"))
  \cup When(\E p \in Scanned(disk) : is_newer_minor_than_supported(disk[p].config.version), advisory("newer version"))

\* The first folder, in order, of two clones of one remote wins.
repo_index(scan, norm) ==
  LET clones == {p \in DOMAIN scan : scan[p].remote # None /\ Norm[scan[p].remote] = norm}
  IN  IF clones = {} THEN None ELSE First(clones)

(* Phase 1: a node for every service.                                      *)

KindOf(s) == IF s.build = None /\ s.image THEN "backing" ELSE "service"
check_build(s) ==
  IF s.build = None THEN {}
  ELSE When(s.build.inline /\ s.build.dockerfile, blocking("dockerfile and dockerfile_inline"))
       \cup When(s.build.url # None /\ s.build.outside, blocking("subdir outside the clone"))
check_ports(s) ==
  When(Cardinality({p \in s.ports : p.primary}) > 1, blocking("two primary ports"))
  \cup When(\E p \in s.ports : p.wildcard /\ ~p.primary /\ p.name = None, advisory("nothing to wildcard"))
  \cup When(s.signal # "ok", blocking("stop_signal"))
  \cup When(s.health = "empty", blocking("empty healthcheck"))
  \cup When(s.hosts # {} /\ ~\E p \in s.ports : p.primary, advisory("hosts without a primary port"))
check_image(s) ==
  When(s.build # None /\ s.image, blocking("build and image"))
  \cup When(s.build = None /\ ~s.image, blocking("nothing to run"))

\* A node before anything is known of it.
Node == [kind |-> "service", path |-> None, downloaded |-> FALSE, repo |-> None, source |-> None, image |-> FALSE,
         ports |-> {}, hosts |-> {}, refs |-> {}, health |-> FALSE, run |-> None, migrates |-> None, seeds |-> {}]
BuildSource(build) == IF build = None \/ build.url = None THEN None ELSE [url |-> build.url, ref |-> build.ref]
Services(scan) == UNION {{node_id(n, p) : n \in DOMAIN scan[p].config.services} : p \in DOMAIN scan}
Service(scan, id) == scan[id[2]].config.services[id[1]]

add_repo_nodes(scan) ==
  [id \in Services(scan) |->
     LET s == Service(scan, id) IN
     [Node EXCEPT !.kind = KindOf(s), !.path = id[2], !.downloaded = TRUE, !.repo = scan[id[2]].remote,
                  !.source = BuildSource(s.build), !.image = s.image, !.ports = s.ports, !.hosts = s.hosts,
                  !.refs = s.refs, !.health = s.health # None]]
repo_warnings(scan) ==
  UNION {check_image(Service(scan, id)) \cup check_ports(Service(scan, id))
         \cup check_build(Service(scan, id)) : id \in Services(scan)}
  \cup When(\E p \in DOMAIN scan : DOMAIN scan[p].config.services = {}, advisory("no services"))

(* Phase 2: what every include alias means, and the stubs.                 *)

Includes(scan) == UNION {{<<p, a>> : a \in DOMAIN scan[p].config.include} : p \in DOMAIN scan}
UrlOf(scan, inc) == scan[inc[1]].config.include[inc[2]]
FolderFor(scan, url) ==
  IF repo_index(scan, Norm[url]) # None THEN repo_index(scan, Norm[url]) ELSE FolderOf[url]
Missing(scan) == {inc \in Includes(scan) : FolderFor(scan, UrlOf(scan, inc)) \notin DOMAIN scan}
\* The include the loops over folders and aliases reach first.
FirstInclude(S) ==
  CHOOSE i \in S : \A j \in S : Rank[i[1]] < Rank[j[1]] \/ (Rank[i[1]] = Rank[j[1]] /\ Rank[i[2]] <= Rank[j[2]])

\* stub_repo_ids: two includes of one missing repository share the first one's folder.
stub_repo(scan, norm) ==
  FolderOf[UrlOf(scan, FirstInclude({inc \in Missing(scan) : Norm[UrlOf(scan, inc)] = norm}))]
\* ResolveCtx.includes: <<folder, alias, folder>>.
add_includes(scan) ==
  {<<inc[1], inc[2], IF inc \in Missing(scan) THEN stub_repo(scan, Norm[UrlOf(scan, inc)])
                                               ELSE FolderFor(scan, UrlOf(scan, inc))>> : inc \in Includes(scan)}
has_alias(ctx, p, alias) == \E i \in ctx.includes : i[1] = p /\ i[2] = alias
alias_target(ctx, p, alias) == (CHOOSE i \in ctx.includes : i[1] = p /\ i[2] = alias)[3]
Targets(ctx, p) == {i[3] : i \in {j \in ctx.includes : j[1] = p}}

\* A stub's repository is that of the first include that made it.
stubs(scan) ==
  LET PathOf(inc) == stub_repo(scan, Norm[UrlOf(scan, inc)])
  IN  [id \in {stub_id(PathOf(inc)) : inc \in Missing(scan)} |->
         [Node EXCEPT !.path = id[1],
                      !.repo = UrlOf(scan, FirstInclude({inc \in Missing(scan) : PathOf(inc) = id[1]}))]]
include_warnings(scan) ==
  UNION {LET c == scan[p].config IN
         When(DOMAIN c.include \cap (DOMAIN c.services \cup DOMAIN c.flows) # {}, blocking("ambiguous alias"))
         \cup When(DOMAIN c.flows \cap DOMAIN c.services # {}, blocking("ambiguous flow"))
         : p \in DOMAIN scan}

(* Phase 3: which services are tasks, and what they migrate or seed.       *)

IsTask(scan, id) ==
  LET s == Service(scan, id) IN
  \/ s.run # None \/ s.migrates # None \/ s.seeds # {}
  \/ \E other \in Services(scan) : /\ other[2] = id[2]
                                   /\ \E d \in Service(scan, other).depends_on :
                                        d.key = Bare(id[1]) /\ d.condition = "completed"
\* A store is another service of the same repository.
check_stores(scan, id, names) == {n \in names : n # id[1] /\ node_id(n, id[2]) \in Services(scan)}
Tasks(scan) == {id \in Services(scan) : IsTask(scan, id)}
mark_tasks(scan, nodes) ==
  [id \in Tasks(scan) |->
     LET s == Service(scan, id)
         m == check_stores(scan, id, {s.migrates})
     IN  [nodes[id] EXCEPT !.kind = "task", !.health = FALSE,
            !.run = IF s.run = None THEN "on_start" ELSE s.run,
            !.migrates = IF m = {} THEN None ELSE node_id(s.migrates, id[2]),
            !.seeds = {node_id(n, id[2]) : n \in check_stores(scan, id, s.seeds)}]] @@ nodes
task_warnings(scan) ==
  UNION {LET s == Service(scan, id)
             named == s.seeds \cup ({s.migrates} \ {None})
         IN  When(s.health # None, blocking("task with a healthcheck"))
             \cup When(s.restart \notin {None, "no"}, blocking("task with a restart policy"))
             \cup When(~s.command, blocking("task without a command"))
             \cup When(s.run \notin {None, "on_start", "once"}, blocking("run policy"))
             \cup When(named # {} /\ s.run # None, blocking("run beside migrates or seeds"))
             \cup When(s.migrates # None /\ s.seeds # {}, blocking("migrates and seeds"))
             \cup When(named # check_stores(scan, id, named), blocking("no such store"))
         : id \in Tasks(scan)}

---------------------------------------------------------------------------
(* Flows: a repository's public start lists.                               *)

\* Everything reachable from S by the pairs of R, S included.
RECURSIVE Reached(_, _)
Reached(R, S) == LET T == S \cup {p[2] : p \in {q \in R : q[1] \in S}}
                 IN  IF T = S THEN S ELSE Reached(R, T)

\* The nodes of a repository, of what it includes and so on; `seen` cuts the walk.
repo_members(ctx, repo, seen) ==
  LET includes == UNION {{p} \X (Targets(ctx, p) \ seen) : p \in DOMAIN ctx.scan}
      repos == Reached(includes, {repo} \ seen)
  IN  {id \in DOMAIN ctx.nodes : ctx.nodes[id].path \in repos
                             /\ (ctx.nodes[id].downloaded <=> ctx.nodes[id].path \in DOMAIN ctx.scan)}

\* check_foreign_flow: a repository that is not pulled cannot be checked.
ForeignFlowOK(ctx, repo, flow) == repo \in DOMAIN ctx.scan => flow \in DOMAIN ctx.scan[repo].config.flows

\* What an entry of a flow of `repo` names.
Entry(ctx, repo, entry) ==
  LET c == ctx.scan[repo].config
      t == Target(entry)
  IN  CASE t.name = None /\ t.alias \in DOMAIN c.services -> [is |-> "service", repo |-> repo, flow |-> t.alias]
        [] t.name = None /\ t.alias \in DOMAIN c.flows \ DOMAIN c.services -> [is |-> "flow", repo |-> repo, flow |-> t.alias]
        [] t.name = None /\ has_alias(ctx, repo, t.alias)
           /\ t.alias \notin DOMAIN c.flows \cup DOMAIN c.services ->
             [is |-> "repo", repo |-> alias_target(ctx, repo, t.alias), flow |-> None]
        [] t.name # None /\ has_alias(ctx, repo, t.alias)
           /\ ForeignFlowOK(ctx, alias_target(ctx, repo, t.alias), t.name) ->
             [is |-> "flow", repo |-> alias_target(ctx, repo, t.alias), flow |-> t.name]
        [] OTHER -> [is |-> "nothing", repo |-> repo, flow |-> None]
Entries(ctx, repo, flow) ==
  IF repo \in DOMAIN ctx.scan /\ flow \in DOMAIN ctx.scan[repo].config.flows
  THEN {Entry(ctx, repo, e) : e \in ctx.scan[repo].config.flows[flow]} ELSE {}

Flows(ctx) == UNION {{<<p, f>> : f \in DOMAIN ctx.scan[p].config.flows} : p \in DOMAIN ctx.scan}
\* Each (repository, flow) is expanded once, so flows that name each other end.
expand_flow(ctx, repo, flow) ==
  LET names == UNION {{<<f, <<e.repo, e.flow>>>> : e \in {x \in Entries(ctx, f[1], f[2]) : x.is = "flow"}}
                      : f \in Flows(ctx)}
      flows == Reached(names, {<<repo, flow>>})
      entries == UNION {Entries(ctx, f[1], f[2]) : f \in flows}
  IN  {node_id(e.flow, e.repo) : e \in {x \in entries : x.is = "service"}}
      \cup UNION {repo_members(ctx, e.repo, {}) : e \in {x \in entries : x.is = "repo"}}
      \cup {id \in DOMAIN ctx.nodes : \E f \in flows : f[1] \notin DOMAIN ctx.scan /\ id = stub_id(f[1])}
flow_warnings(ctx) ==
  When(\E f \in Flows(ctx) : \E e \in Entries(ctx, f[1], f[2]) : e.is = "nothing", blocking("flow names nothing"))

\* What a dependency on another repository waits for; the repository's own includes are not followed.
foreign_members(ctx, p, key) ==
  LET t == Target(key)
      repo == alias_target(ctx, p, t.alias)
  IN  IF t.name = None
      THEN repo_members(ctx, repo, IF repo \in DOMAIN ctx.scan THEN Targets(ctx, repo) \ {repo} ELSE {})
      ELSE expand_flow(ctx, repo, t.name)

---------------------------------------------------------------------------
(* Phases 4 and 5: edges.                                                  *)

Edge(from, to, required, condition, via) ==
  [from |-> from, to |-> to, required |-> required, condition |-> condition, via |-> via, implied |-> FALSE]
Needed(edges) == {e \in edges : e.required}

\* How depends_on reads a key of a service of `id`'s repository.
KeyKind(ctx, id, key) ==
  LET c == ctx.scan[id[2]].config
      t == Target(key)
  IN  CASE t.name = None /\ t.alias \in DOMAIN c.services -> "own"
        [] t.name = None /\ t.alias \in DOMAIN c.flows \ DOMAIN c.services -> "own flow"
        [] t.alias \notin DOMAIN c.include /\ (t.name # None \/ t.alias \notin DOMAIN c.services \cup DOMAIN c.flows) -> "unknown"
        [] OTHER -> "foreign"
Waits(ctx) == UNION {{[from |-> id, dep |-> d, is |-> KeyKind(ctx, id, d.key)] :
                         d \in Service(ctx.scan, id).depends_on} : id \in Services(ctx.scan)}
OwnTarget(w) == node_id(w.dep.key[1], w.from[2])
ForeignOK(ctx, w) ==
  LET t == Target(w.dep.key) IN
  t.name # None => ForeignFlowOK(ctx, alias_target(ctx, w.from[2], t.alias), t.name)
\* Waits on another repository that are followed at all.
Foreign(ctx) == {w \in Waits(ctx) : w.is = "foreign" /\ w.dep.condition # "completed" /\ ForeignOK(ctx, w)}

\* Two repositories may give one repository different aliases.
flow_label(ctx, w) == [w.dep.key EXCEPT ![1] = alias_target(ctx, w.from[2], w.dep.key[1])]
\* A flow's seeds are not waited for.
add_dependency_edges(ctx) ==
  {Edge(w.from, OwnTarget(w), w.dep.required, w.dep.condition, None) :
     w \in {x \in Waits(ctx) : x.is = "own" /\ OwnTarget(x) # x.from}}
  \cup UNION {{Edge(w.from, to, w.dep.required, w.dep.condition, flow_label(ctx, w)) :
                 to \in {n \in foreign_members(ctx, w.from[2], w.dep.key) : ctx.nodes[n].seeds = {}}}
              : w \in Foreign(ctx)}
seeds_pulled(ctx) ==
  UNION {{<<w.from, to>> : to \in {n \in foreign_members(ctx, w.from[2], w.dep.key) : ctx.nodes[n].seeds # {}}}
         : w \in {x \in Foreign(ctx) : x.dep.required}}

check_condition(nodes, to, condition) ==
  When(condition # "completed" /\ nodes[to].kind = "task", blocking("waits on a task to be up"))
  \cup When(condition = "healthy" /\ nodes[to].kind # "task" /\ ~nodes[to].health, blocking("no healthcheck"))
check_runtime_condition(condition) ==
  When(condition = "completed", blocking("completed but not required"))
  \cup When(condition = "healthy", advisory("runtime dependency is not waited on"))
dependency_warnings(ctx) ==
  UNION {CASE w.is = "own" /\ OwnTarget(w) = w.from -> {blocking("depends on itself")}
           [] w.is = "own" /\ OwnTarget(w) # w.from /\ w.dep.required ->
                check_condition(ctx.nodes, OwnTarget(w), w.dep.condition)
           [] w.is = "own" /\ OwnTarget(w) # w.from /\ ~w.dep.required ->
                check_runtime_condition(w.dep.condition)
           [] w.is \in {"own flow", "unknown"} -> {blocking("depends on nothing")}
           [] w.is = "foreign" /\ w.dep.condition = "completed" -> {blocking("waits on a flow to complete")}
           [] w.is = "foreign" /\ w.dep.condition # "completed" ->
                (IF w.dep.required THEN {} ELSE check_runtime_condition(w.dep.condition))
                \cup When(~ForeignOK(ctx, w), blocking("no such flow"))
         : w \in Waits(ctx)}

Stores(nodes, id) == nodes[id].seeds \cup ({nodes[id].migrates} \ {None})
StorePairs(nodes) == UNION {{<<id, s>> : s \in Stores(nodes, id)} : id \in DOMAIN nodes}
\* A migration or a seed waits on its stores.
store_edges(nodes, edges) ==
  {Edge(p[1], p[2], TRUE, IF nodes[p[2]].health THEN "healthy" ELSE "started", None) :
     p \in {q \in StorePairs(nodes) : nodes[q[2]].kind # "task"
                                      /\ ~\E e \in edges : e.from = q[1] /\ e.to = q[2]}}
Migrations(nodes, store) == {id \in DOMAIN nodes : nodes[id].migrates = store}
\* The later one, by id, is the one kept.
migration_of(nodes, store) ==
  CHOOSE m \in Migrations(nodes, store) : \A o \in Migrations(nodes, store) : Rank[o[1]] <= Rank[m[1]]
\* Whatever waits on a store waits on its migration.
implied_edges(nodes, edges) ==
  {[Edge(e.from, migration_of(nodes, e.to), TRUE, "completed", e.via) EXCEPT !.implied = TRUE] :
     e \in {x \in Needed(edges) :
              /\ Migrations(nodes, x.to) # {}
              /\ x.from # migration_of(nodes, x.to)
              /\ ~\E y \in edges : y.from = x.from /\ y.to = migration_of(nodes, x.to)}}
add_store_edges(nodes, edges) ==
  LET all == edges \cup store_edges(nodes, edges) IN all \cup implied_edges(nodes, all)
store_warnings(nodes) ==
  When(\E p \in StorePairs(nodes) : nodes[p[2]].kind = "task", blocking("store is a task"))
  \cup When(\E s \in DOMAIN nodes : Cardinality(Migrations(nodes, s)) > 1, blocking("two migrations"))

---------------------------------------------------------------------------
(* Closures over the edges a start needs.                                  *)

required_closure(edges, ids) == Reached({<<e.from, e.to>> : e \in Needed(edges)}, ids)
RECURSIVE add_migrations(_, _, _)
add_migrations(nodes, edges, ids) ==
  LET missing == UNION {Migrations(nodes, id) : id \in ids} \ ids
  IN  IF missing = {} THEN ids ELSE add_migrations(nodes, edges, ids \cup required_closure(edges, missing))
\* A bug to look for: the seeds without what they need.
add_pulled_seeds_bare(nodes, edges, pulled, ids) == ids \cup {p[2] : p \in {q \in pulled : q[1] \in ids}}
RECURSIVE add_pulled_seeds(_, _, _, _)
add_pulled_seeds(nodes, edges, pulled, ids) ==
  LET missing == {p[2] : p \in {q \in pulled : q[1] \in ids}} \ ids
  IN  IF missing = {} THEN ids
      ELSE add_pulled_seeds(nodes, edges, pulled,
             add_migrations(nodes, edges, ids \cup required_closure(edges, missing)))
resolve_flows(ctx, edges) ==
  [f \in Flows(ctx) |->
     LET members == required_closure(edges, expand_flow(ctx, f[1], f[2]))
     IN  add_pulled_seeds(ctx.nodes, edges, seeds_pulled(ctx), add_migrations(ctx.nodes, edges, members))]

(* Phase 6 and the checks over the finished graph.                         *)

reference_target_id(ctx, p, ref) ==
  LET t == Target(ref) IN
  IF t.name = None THEN node_id(t.alias, p)
  ELSE IF has_alias(ctx, p, t.alias) THEN node_id(t.name, alias_target(ctx, p, t.alias)) ELSE None
check_references(ctx) ==
  When(\E id \in Services(ctx.scan) : \E r \in ctx.nodes[id].refs :
         LET to == reference_target_id(ctx, id[2], r)
         IN  to = None \/ (to \notin DOMAIN ctx.nodes /\ (Len(r) = 2 => to[2] \in DOMAIN ctx.scan)),
       blocking("reference names nothing"))
\* Named after the last segment of the URL, as a repository's folder is, and the version.
source_path(source) == <<FolderOf[source.url], source.ref>>
check_source_paths(nodes) ==
  LET built == {id \in DOMAIN nodes : nodes[id].source # None}
  IN  When(\E i, j \in built : /\ source_path(nodes[j].source) = source_path(nodes[i].source)
                               /\ Norm[nodes[j].source.url] # Norm[nodes[i].source.url],
           blocking("two repos share a clone"))

\* derive_domain, and the names a node is reached by.
Domain(id) == IF Len(id) = 1 THEN Spell[id[1]] ELSE Spell[id[1]] \o <<".">> \o Spell[id[2]]
\* Every run of separators becomes one hyphen, and the ends are trimmed.
sanitize_label(s) ==
  LET push(out, c) == IF c \notin {".", "-"} THEN Append(out, c)
                      ELSE IF out = <<>> \/ Last(out) = "-" THEN out ELSE Append(out, "-")
      out == FoldLeft(push, <<>>, s)
  IN  IF out # <<>> /\ Last(out) = "-" THEN Front(out) ELSE out
Claims(nodes, id) ==
  IF ~nodes[id].downloaded /\ nodes[id].kind = "service" THEN {}
  ELSE {<<"domain", None, Domain(id)>>}
       \cup {<<"port", p.number, Spell[p.name] \o <<".">> \o Domain(id)>> :
               p \in {x \in nodes[id].ports : x.name # None}}
       \cup {<<"host", h.wildcard, Spell[h.host]>> : h \in nodes[id].hosts}
check_domains(nodes) ==
  LET all == UNION {{<<id, c>> : c \in Claims(nodes, id)} : id \in DOMAIN nodes}
  IN  When(\E x, y \in all : y # x /\ y[2][3] = x[2][3], blocking("claimed twice"))
check_container_names(nodes) ==
  When(\E i, j \in DOMAIN nodes : j # i /\ sanitize_label(Domain(i)) = sanitize_label(Domain(j)),
       blocking("one container name"))

\* Depth first over the needed edges: a node met again while it is on the stack closes a cycle.
RECURSIVE walk(_, _, _)
walk(id, edges, s) ==
  LET visit(next, t) ==
        CASE next \in Range(t.stack) ->
               [t EXCEPT !.cycles = @ \cup {Range(SubSeq(t.stack, SelectInSeq(t.stack, LAMBDA x : x = next), Len(t.stack)))}]
          [] next \notin Range(t.stack) /\ next \notin t.done -> walk(next, edges, t)
          [] OTHER -> t
      after == FoldSet(visit, [s EXCEPT !.stack = Append(@, id)], {e.to : e \in {x \in Needed(edges) : x.from = id}})
  IN  [after EXCEPT !.stack = Front(@), !.done = @ \cup {id}]
\* A bug to look for: a walk only from the nodes that nothing needs, which no cycle has.
check_cycles_sources(edges) ==
  LET visit(root, s) == IF root \in s.done THEN s ELSE walk(root, edges, s)
      end == FoldSet(visit, [done |-> {}, stack |-> <<>>, cycles |-> {}],
                     {e.from : e \in Needed(edges)} \ {e.to : e \in Needed(edges)})
  IN  When(end.cycles # {}, blocking("dependency cycle"))
check_cycles(edges) ==
  LET visit(root, s) == IF root \in s.done THEN s ELSE walk(root, edges, s)
      end == FoldSet(visit, [done |-> {}, stack |-> <<>>, cycles |-> {}], {e.from : e \in Needed(edges)})
  IN  When(end.cycles # {}, blocking("dependency cycle"))

---------------------------------------------------------------------------

resolve_universe(disk) ==
  LET scan == scan_workspace(disk)
      nodes == mark_tasks(scan, stubs(scan) @@ add_repo_nodes(scan))
      ctx == [scan |-> scan, includes |-> add_includes(scan), nodes |-> nodes]
      edges == add_store_edges(nodes, add_dependency_edges(ctx))
  IN  [nodes |-> nodes, edges |-> edges, flows |-> resolve_flows(ctx, edges), pulled |-> seeds_pulled(ctx),
       warnings |-> scan_warnings(disk) \cup repo_warnings(scan) \cup include_warnings(scan)
                    \cup task_warnings(scan) \cup dependency_warnings(ctx) \cup store_warnings(nodes)
                    \cup check_references(ctx) \cup check_source_paths(nodes) \cup flow_warnings(ctx)
                    \cup check_domains(nodes) \cup check_container_names(nodes) \cup check_cycles(edges)]

refuse_if_blocked(graph) == \E w \in graph.warnings : w.severity = "blocking"
\* All the nodes, or a flow's; an unknown flow is an error.
FlowKnown(graph, flow) == flow = None \/ flow \in DOMAIN graph.flows
start_ids(graph, flow) == IF flow = None THEN DOMAIN graph.nodes ELSE graph.flows[flow] \cap DOMAIN graph.nodes
with_migrations(graph, ids) == add_migrations(graph.nodes, graph.edges, ids)
start_advisories(graph, ids) ==
  {<<e.from, IF e.via = None THEN e.to ELSE e.via>> :
     e \in {x \in graph.edges : ~x.required /\ x.from \in ids /\ x.to \notin ids}}

\* A set in some order; the code sorts by id.
Listed(S) == FoldSet(LAMBDA x, acc : Append(acc, x), <<>>, S)
\* A pass over what is left places what has all its requirements placed; a cycle is appended.
RECURSIVE place_rest(_, _, _)
place_rest(ids, edges, ordered) ==
  LET deps(id) == {e.to : e \in {x \in Needed(edges) : x.from = id /\ x.to \in ids}}
      place(acc, id) == IF deps(id) \subseteq Range(acc) THEN Append(acc, id) ELSE acc
      remaining == Listed(ids \ Range(ordered))
      after == FoldLeft(place, ordered, remaining)
  IN  IF Len(after) = Len(ordered) THEN ordered \o remaining ELSE place_rest(ids, edges, after)
topological_start_order(ids, edges) == place_rest(ids, edges, <<>>)
waited_on(ids, edges) == {e.to : e \in {x \in Needed(edges) : x.from \in ids /\ x.to \in ids}}
=============================================================================
