------------------------------- MODULE RawNet -------------------------------
(***************************************************************************)
(* The raw zone's address table (raw_net/mod.rs) and the listeners that    *)
(* serve it (raw_net/forward.rs), as operators.  An address is a pair of a *)
(* slot of the pool and a port.  An endpoint is a running container's raw  *)
(* name with the host port each of its ports is published on; a name's     *)
(* hash (sha256 modulo the pool) is a constant.                            *)
(***************************************************************************)
EXTENDS Integers, FiniteSets, Sequences, SequencesExt

CONSTANTS Names,     \* every raw domain, in the order of their text
          Slots,     \* POOL_SIZE - 2
          Hash       \* the slot virtual_ip_for gives a name

ASSUME PoolAssumption == Slots \in Nat \ {0} /\ \A i \in DOMAIN Names : Hash[Names[i]] \in 0 .. Slots - 1

virtual_ip_for(name) == Hash[name]

(* DNS's answer for a raw name: the table's, else the hash. *)
resolve(assigned, name) ==
  IF name \in DOMAIN assigned THEN assigned[name] ELSE virtual_ip_for(name)

FreeAt(ip, ports, claimed) == \A p \in ports : <<ip, p>> \notin claimed

Probe(start, ports, claimed) ==
  LET steps == {k \in 0 .. Slots - 1 : FreeAt((start + k) % Slots, ports, claimed)}
  IN IF steps = {} THEN start ELSE (start + Min(steps)) % Slots

(* Keeps `preferred` unless a port collides, else probes forward from the hash. *)
pick_ip(preferred, naive, ports, claimed) ==
  LET kept == {ip \in preferred : FreeAt(ip, ports, claimed)}
  IN IF kept # {} THEN CHOOSE ip \in kept : TRUE ELSE Probe(naive, ports, claimed)

(* The endpoints' names in the order they are given addresses: incumbents first. *)
Turns(endpoints, previous) ==
  LET active == SelectSeq(Names, LAMBDA n : n \in DOMAIN endpoints)
  IN SelectSeq(active, LAMBDA n : n \in DOMAIN previous)
     \o SelectSeq(active, LAMBDA n : n \notin DOMAIN previous)

Given(table, name, ip) == [n \in DOMAIN table \cup {name} |-> IF n = name THEN ip ELSE table[n]]

Preferred(previous, name) == IF name \in DOMAIN previous THEN {previous[name]} ELSE {}

(* `endpoints` maps a name to the host port of each published port. *)
assign(endpoints, previous, taken) ==
  FoldLeft(LAMBDA acc, name :
             LET ports == DOMAIN endpoints[name]
                 ip == pick_ip(Preferred(previous, name), virtual_ip_for(name), ports, acc.claimed)
             IN [claimed |-> acc.claimed \cup ({ip} \X ports), next |-> Given(acc.next, name, ip)],
           [claimed |-> taken, next |-> <<>>],
           Turns(endpoints, previous)).next

(* A route per published port, the map Forwarder::apply makes of them: of two names *)
(* on one address the later one's target stays.                                       *)
routes_for(endpoints, assigned) ==
  FoldLeft(LAMBDA routes, name :
             [a \in {resolve(assigned, name)} \X DOMAIN endpoints[name] |-> endpoints[name][a[2]]] @@ routes,
           <<>>,
           SelectSeq(Names, LAMBDA n : n \in DOMAIN endpoints))

(* Listeners that stay get their new target in place; `held` is what other programs *)
(* listen on and `bad` the addresses the system refuses for another reason.         *)
Unserved(routes, listeners) == DOMAIN routes \ DOMAIN listeners

Busy(routes, listeners, held) == Unserved(routes, listeners) \cap held

apply(routes, listeners, held, bad) ==
  Restrict(routes, DOMAIN routes \ (Unserved(routes, listeners) \cap (held \cup bad)))
=============================================================================
