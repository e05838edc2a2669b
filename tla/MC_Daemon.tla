------------------------------ MODULE MC_Daemon -----------------------------
(* Two workspaces with a container each; a pool of four addresses in which both *)
(* names hash to one; the second workspace's alias is under the first's wildcard. *)
EXTENDS Daemon

MC_Names == <<"web", "db">>
MC_Hash == [c \in {"web", "db"} |-> 1]
MC_Declared ==
  [web |-> [ws |-> "shop", port |-> 80, hosts |-> {},
            routes |-> <<[domain |-> <<"web", "shop", "fghj", "internal">>, wildcard |-> FALSE],
                         [domain |-> <<"shop", "test">>, wildcard |-> TRUE]>>],
   db  |-> [ws |-> "blog", port |-> 80, hosts |-> {<<"blog", "shop", "test">>},
            routes |-> <<[domain |-> <<"db", "blog", "fghj", "internal">>, wildcard |-> FALSE],
                         [domain |-> <<"blog", "shop", "test">>, wildcard |-> FALSE]>>]]
MC_Limit == [request |-> 2, change |-> 2, fault |-> 2]
MC_Taken == {<<1, 80>>}
AnyCaller == Permutations(Callers)
=============================================================================
