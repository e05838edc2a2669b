---------------------------- MODULE MC_Universe ----------------------------
(* Two repositories, app and lib, that may name each other in every way.   *)
EXTENDS Universe

MC_Rank == [n \in {"app", "core", "db", "ldb", "lib", "lseed", "mig", "web", "l", "a", "main"} |->
              CASE n = "app" -> 1 [] n = "core" -> 2 [] n = "db" -> 3 [] n = "ldb" -> 4 [] n = "lib" -> 5
                [] n = "lseed" -> 6 [] n = "mig" -> 7 [] n = "web" -> 8 [] n = "l" -> 9 [] n = "a" -> 10 [] n = "main" -> 11]
MC_FolderOf == [u \in {"ssh:lib", "https:lib", "ssh:app"} |-> IF u = "ssh:app" THEN "app" ELSE "lib"]
MC_Norm == MC_FolderOf
MC_Spell == [n \in DOMAIN MC_Rank |-> IF n = "lseed" THEN <<"l", "-", "seed">> ELSE <<n>>]

Image == [ServiceConfig EXCEPT !.image = TRUE]
Task == [Image EXCEPT !.command = TRUE]
Dep(key, condition, required) == [key |-> key, condition |-> condition, required |-> required]

\* What web may depend on: its store, the store's migration, lib's flow or all of lib.
WebDeps == {Dep(Bare("db"), "started", TRUE), Dep(Bare("db"), "healthy", TRUE), Dep(Bare("mig"), "completed", TRUE),
            Dep(Bare("mig"), "started", FALSE), Dep(Qualified("l", "main"), "started", TRUE), Dep(Bare("l"), "started", FALSE)}
Few(S) == {T \in SUBSET S : Cardinality(T) <= 2}
Migs == {[Task EXCEPT !.migrates = "db"], [Task EXCEPT !.run = "once", !.depends_on = {Dep(Bare("web"), "started", TRUE)}]}
Apps == {[version |-> 0, include |-> [l |-> "ssh:lib"], flows |-> [main |-> {Bare("web")}, all |-> {Bare("db"), Bare("l")}],
          services |-> [web |-> [Image EXCEPT !.depends_on = w, !.refs = {Qualified("l", "core")}],
                        db |-> [Image EXCEPT !.health = h, !.depends_on = d], mig |-> m]] :
          w \in Few(WebDeps), h \in {None, "ok"},
          d \in {{}, {Dep(Bare("web"), "started", TRUE)}}, m \in Migs}
Libs == {[version |-> 0, include |-> inc, flows |-> [main |-> {Bare("core"), Bare("lseed")}],
          services |-> [core |-> [Image EXCEPT !.depends_on = c], ldb |-> Image, lseed |-> [Task EXCEPT !.seeds = {"ldb"}]]] :
          inc \in {<<>>, [a |-> "ssh:app"]},
          c \in {{}, {Dep(Bare("a"), "started", TRUE)}, {Dep(Bare("ldb"), "started", TRUE)}}}
File(c, url) == [file |-> "ok", config |-> c, remote |-> url, rev |-> 0]
MC_InitialDisks == {("app" :> File(a, "ssh:app")) @@ ("lib" :> l) :
                      a \in Apps, l \in {Nothing} \cup {File(c, "https:lib") : c \in Libs}}
\* An app built from two clones of one name, with ports and hosts that clash.
Port(name, primary) == [number |-> 80, name |-> name, primary |-> primary, wildcard |-> TRUE]
Built(ref) == [Image EXCEPT !.image = FALSE, !.build = [inline |-> FALSE, dockerfile |-> TRUE, url |-> "https:lib", ref |-> ref, outside |-> FALSE],
                            !.ports = {Port("web", TRUE), Port(None, FALSE)}, !.hosts = {[host |-> "main", wildcard |-> FALSE]}]
BuiltApp == [version |-> 1, include |-> <<>>, flows |-> [db |-> {Bare("web")}], services |-> [web |-> Built(None), db |-> Built("v1")]]
MC_Edits == {<<"lib", [file |-> "unreadable"]>>, <<"app", [file |-> "nothing"]>>, <<"app", [file |-> "ok", config |-> BuiltApp, remote |-> None]>>}
=============================================================================
