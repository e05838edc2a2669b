---------------------------- MODULE MC_Registry -----------------------------
(* Two folders of one name and one folder inside the first. *)
EXTENDS Registry

CONSTANTS shop, other, inner, c1, c2

MCPaths == {shop, other, inner}
MCLabel == [p \in MCPaths |-> IF p = inner THEN "inner" ELSE "shop"]
MCInside == {<<inner, shop>>}
MCLimit == [request |-> 2, change |-> 1, fault |-> 1]
MCWired == {shop}
=============================================================================
