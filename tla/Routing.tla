------------------------------ MODULE Routing -------------------------------
(***************************************************************************)
(* Which names lead where: the projections over every workspace's state    *)
(* (state/query.rs, effects/hosts.rs), the DNS server's answers            *)
(* (dns/mod.rs, daemon/routing.rs).  A name is the sequence of its labels. *)
(* `live` maps each running container of a wired workspace to what Docker  *)
(* publishes its ports on.                                                 *)
(***************************************************************************)
EXTENDS RawNet

CONSTANT Declared   \* container |-> [ws, port, routes: <<[domain, wildcard]>>, hosts]

(* Containers are named by their raw domains (RawNet's Names). *)
Containers == {Names[i] : i \in DOMAIN Names}

Bare == 1           \* running with nothing published

ZONE == <<"fghj", "internal">>
ZONE_RAW == <<"fghj", "raw", "internal">>

matches_suffix(host, suffix) == IsSuffix(suffix, host)

in_zone(name) == matches_suffix(name, ZONE)

Routes(c) == Declared[c].routes

(* The first container with one of these routes, by workspace and then by node. *)
find(live, routes) ==
  LET hits == SelectSeq(Names, LAMBDA c : c \in DOMAIN live /\ ToSet(Routes(c)) \cap routes # {})
  IN IF hits = <<>> THEN {} ELSE {hits[1]}

(* Exact matches beat wildcards across all workspaces, hence two passes. *)
resolve_route(live, host) ==
  LET all == UNION {ToSet(Routes(c)) : c \in Containers}
      exact == find(live, {r \in all : ~r.wildcard /\ r.domain = host})
  IN IF exact # {} THEN exact ELSE find(live, {r \in all : r.wildcard /\ matches_suffix(host, r.domain)})

wildcard_suffixes(live) ==
  UNION {{r.domain : r \in {x \in ToSet(Routes(c)) : x.wildcard}} : c \in DOMAIN live}

extract_hosts_declared(live) == UNION {Declared[c].hosts : c \in Containers}

extract_hosts(live) == UNION {Declared[c].hosts : c \in DOMAIN live}

(* Unpublished ports are dropped: nothing to forward to. *)
raw_endpoints(live) ==
  [c \in DOMAIN live |-> IF live[c] = Bare THEN <<>> ELSE [p \in {Declared[c].port} |-> <<c, live[c]>>]]

(* The host's DNS server sends these names to the proxy. *)
AnswersProxy(live, qname) ==
  in_zone(qname) \/ \E z \in wildcard_suffixes(live) : matches_suffix(qname, z)
=============================================================================
