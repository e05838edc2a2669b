---------------------------- MODULE MC_Downloads ----------------------------
(* app includes lib, lib includes tool; lib is built from a source at a commit. *)
EXTENDS Downloads

Repo(name, includes, source, image) ==
  [repo |-> name, at |-> "default", config |-> "ok", includes |-> includes, source |-> source, image |-> image]
MC_Holds == [app |-> Repo("app", {"lib"}, None, "pg"), lib |-> Repo("lib", {"tool"}, "src", None),
             tool |-> Repo("tool", {}, None, "redis"),
             src |-> [Repo("src", {}, None, None) EXCEPT !.config = "source", !.at = "commit"]]
There(origin) == [origin |-> origin, at |-> "default", whole |-> TRUE]
MC_InitialDisks == {[app |-> There("app"), lib |-> None, tool |-> t, src |-> None] : t \in {None, There("other")}}
MC_Wanted == (<<"all">> :> {"app", "lib", "tool"}) @@ (<<"stub", "lib">> :> {"lib"}) @@ (<<"service", "lib">> :> {"lib"})
=============================================================================
