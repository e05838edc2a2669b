------------------------------- MODULE Proxy -------------------------------
(***************************************************************************)
(* The reverse proxy on 80 and 443 (src/web/proxy.rs): requests on kept-   *)
(* alive client connections, routed one by one, forwarded over at most one *)
(* backend connection per client connection, retried on a fresh one where  *)
(* that is safe, and recorded on the way through (Traffic).                *)
(*                                                                         *)
(* The backend is external: at each await the model lets it answer, refuse *)
(* or hang up as hyper would report it.  A node that is recreated comes    *)
(* back on another port, and a client may leave at any moment.             *)
(***************************************************************************)
EXTENDS Traffic, TLC

CONSTANTS
  Client,          \* client connections
  FirstModes,      \* how recording may be switched before the first request
  SwitchTo,        \* what recording is switched to later
  MaxMishaps,      \* how often a node, a connection, a client or the UI interferes
  Requests         \* what clients send: [node, method, headers, body, answer] records

VARIABLES
  store,           \* fghjd's traffic store
  port,            \* the port each node's backend listens on, 0 when it has none
  task,            \* per client connection: the request being forwarded
  slot,            \* per client connection: the backend connection kept for reuse
  sent,            \* per request: what it was, and the backends it reached, in order
  owed,            \* per exchange: finished changes still to be accounted
  mishaps          \* how many of those are left

vars == <<store, port, task, slot, sent, owed, mishaps>>

NoConn == [port |-> 0, node |-> 0, alive |-> FALSE]
Idle == [pc |-> "idle"]

Used == DOMAIN sent
Fresh == {i \in Exchange \ Used : \A j \in Exchange \ Used : i <= j}

\* A request's host, or its connection's server name, by route.
backend_for(n) == [node |-> n, port |-> port[n]]

\* Headers, by what the proxy does to them: the pair that asks for an upgrade,
\* the other hop-by-hop ones, one that Connection names, and the two it adds.
Header == {"connection", "upgrade", "keep-alive", "named", "forwarded", "accept"}

ASSUME ProxyAssumption ==
  /\ Requests \subseteq [node : Node, method : {"get", "post"}, headers : SUBSET Header,
                         body : Body, answer : [status : {"ok", "switching"}, body : Body]]
  /\ FirstModes \subseteq [Node -> BodyMode \cup {Off}]
  /\ SwitchTo \subseteq BodyMode \cup {Off}
  /\ MaxMishaps \in Nat

\* Each leg is a connection of its own: what describes one doesn't cross, but
\* for the pair both ends of an upgrade agree on.
strip_hop_by_hop(headers, upgrade) ==
  LET named == IF "connection" \in headers THEN {"named"} ELSE {}
  IN (headers \ (named \cup {"keep-alive", "connection", "upgrade"}))
       \cup (IF upgrade THEN {"connection"} \cup (headers \cap {"upgrade"}) ELSE {})

add_forwarded_headers(headers) == headers \cup {"forwarded"}

\* GET, HEAD and OPTIONS with an empty body may be sent twice.
is_replayable(r) == r.method = "get" /\ r.body.units = <<>>

Init ==
  /\ \E modes \in FirstModes : store = [EmptyStore EXCEPT !.mode = modes]
  /\ port = [n \in Node |-> 1]
  /\ task = [c \in Client |-> Idle]
  /\ slot = [c \in Client |-> NoConn]
  /\ sent = [i \in {} |-> <<>>]
  /\ owed = [i \in Exchange |-> 0]
  /\ mishaps = MaxMishaps

----------------------------------------------------------------------------
(* One request.                                                            *)

Mishap == mishaps > 0 /\ mishaps' = mishaps - 1

Go(c, pc) == task' = [task EXCEPT ![c].pc = pc]

Recorded(c) == task[c].rec

\* Changes what is recorded of c's request, when it is recorded, and leaves
\* the accounting of the change to a later step: the exchange's lock is given
\* up before the ring's is taken.
Record(c, d, due) ==
  IF Recorded(c)
  THEN /\ store' = [store EXCEPT !.ex[task[c].id] = d]
       /\ owed' = [owed EXCEPT ![task[c].id] = @ + due]
  ELSE UNCHANGED <<store, owed>>

DataOf(c) == store.ex[task[c].id]

\* A name without a route is answered here.
not_found_response == UNCHANGED <<store, task>>

\* serve_connection's service: route the request, start recording it.
Arrive(c, r) ==
  LET n == r.node IN
  /\ task[c].pc = "idle"
  /\ \E id \in Fresh :
       /\ sent' = [i \in Used \cup {id} |->
                    IF i \in Used THEN sent[i]
                    ELSE [r |-> r, to |-> backend_for(n), reached |-> <<>>, cut |-> FALSE]]
       /\ IF port[n] = 0
          THEN not_found_response
          ELSE LET rec == n \in recording(store)
               IN /\ store' = IF rec THEN begin(store, id, n, r.body.ctype, 0) ELSE store
                  /\ task' = [task EXCEPT ![c] =
                        [pc |-> "forward", id |-> id, rec |-> rec, r |-> r,
                         to |-> backend_for(n), reused |-> FALSE, upgrade |-> "upgrade" \in r.headers,
                         up |-> r.body.units, down |-> <<>>, tapped |-> FALSE]]
  /\ UNCHANGED <<port, slot, owed, mishaps>>

\* Mutant: whatever connection is kept is reused.
TakeSlot_any(c) ==
  /\ task[c].pc = "forward"
  /\ task' = [task EXCEPT ![c].reused = slot[c].alive,
                          ![c].pc = IF slot[c].alive THEN "send" ELSE "connect"]
  /\ UNCHANGED <<store, port, slot, sent, owed, mishaps>>

\* forward takes the kept connection, and reuses it when it goes to the same
\* backend and is still ready.
TakeSlot(c) ==
  /\ task[c].pc = "forward"
  /\ LET reuse == /\ slot[c].node = task[c].to.node
                  /\ slot[c].port = task[c].to.port
                  /\ slot[c].alive
     IN /\ task' = [task EXCEPT ![c].reused = reuse,
                                ![c].pc = IF reuse THEN "send" ELSE "connect"]
        /\ slot' = [slot EXCEPT ![c] = IF reuse THEN @ ELSE NoConn]
  /\ UNCHANGED <<store, port, sent, owed, mishaps>>

\* Mutant: a failure is answered and not recorded.
BadGateway_silent(c) ==
  /\ UNCHANGED <<store, owed>>
  /\ task' = [task EXCEPT ![c] = Idle]

\* The error path of serve_connection: recorded as failed, answered 502.  A
\* request body still being read is dropped with the request.
BadGateway(c) ==
  /\ Record(c, LET d == IF task[c].tapped
                        THEN RecordFinish(DataOf(c), "request",
                               IF task[c].up = <<>> THEN "done" ELSE "aborted")
                        ELSE DataOf(c)
               IN RecordFail(d), IF task[c].tapped THEN 1 ELSE 0)
  /\ task' = [task EXCEPT ![c] = Idle]

\* connect: the backend accepts on the port the request was routed to, or the
\* node has moved on (or is just not listening).
Connect(c) ==
  /\ task[c].pc \in {"connect", "reconnect"}
  /\ \/ /\ port[task[c].to.node] = task[c].to.port
        /\ slot' = [slot EXCEPT ![c] = [node |-> task[c].to.node,
                                        port |-> task[c].to.port, alive |-> TRUE]]
        /\ Go(c, IF task[c].pc = "connect" THEN "send" ELSE "resend")
        /\ UNCHANGED <<store, owed, mishaps>>
     \/ /\ IF port[task[c].to.node] = task[c].to.port THEN Mishap ELSE UNCHANGED mishaps
        /\ slot' = [slot EXCEPT ![c] = NoConn]
        /\ BadGateway(c)
  /\ UNCHANGED <<port, sent>>

Reach(c) == sent' = [sent EXCEPT ![task[c].id].reached = Append(@,
    [node |-> slot[c].node, port |-> slot[c].port,
     headers |-> add_forwarded_headers(
                   strip_hop_by_hop(task[c].r.headers, task[c].upgrade))])]

\* For the properties: the exchange is left as it is, with no one to end it.
Cut(c) == sent' = [sent EXCEPT ![task[c].id].cut = TRUE]

\* try_send_request: the request is written to the connection, its body
\* tapped.  The connection may have died first; then hyper hands the message
\* back when none of it was written.
Send(c) ==
  /\ task[c].pc = "send"
  /\ \/ /\ slot[c].alive
        /\ Reach(c)
        /\ task' = [task EXCEPT ![c].pc = "await", ![c].tapped = TRUE]
        /\ UNCHANGED <<store, owed, slot>>
     \/ /\ ~slot[c].alive
        /\ slot' = [slot EXCEPT ![c] = NoConn]
        /\ UNCHANGED sent
        /\ IF task[c].reused
           THEN Go(c, "reconnect") /\ UNCHANGED <<store, owed>>
           ELSE BadGateway(c)
  /\ UNCHANGED <<port, mishaps>>

\* The request's body flows to the backend while the answer is awaited.
RequestChunk(c) ==
  /\ task[c].pc \in {"await", "body"} /\ task[c].tapped /\ task[c].up # <<>>
  /\ Record(c, RecordChunk(DataOf(c), "request", Head(task[c].up)), 0)
  /\ task' = [task EXCEPT ![c].up = Tail(@)]
  /\ UNCHANGED <<port, slot, sent, mishaps>>

\* The backend's connection task has read the request's body to its end.
RequestEnd(c) ==
  /\ task[c].pc \in {"await", "body"} /\ task[c].tapped /\ task[c].up = <<>>
  /\ Record(c, RecordFinish(DataOf(c), "request", "done"), 1)
  /\ task' = [task EXCEPT ![c].tapped = FALSE]
  /\ UNCHANGED <<port, slot, sent, mishaps>>

\* The connection fails under a request that was written.  Only a reused one
\* may be repeated, and only a request that is safe to send twice.
SendFails(c) ==
  /\ task[c].pc = "await" /\ ~slot[c].alive
  /\ slot' = [slot EXCEPT ![c] = NoConn]
  /\ IF task[c].reused /\ is_replayable(task[c].r)
     THEN /\ IF task[c].tapped
             THEN Record(c, RecordFinish(DataOf(c), "request", "done"), 1)
             ELSE UNCHANGED <<store, owed>>
          /\ task' = [task EXCEPT ![c].pc = "reconnect", ![c].tapped = FALSE]
     ELSE BadGateway(c)
  /\ UNCHANGED <<port, sent, mishaps>>

\* The second go: the message handed back or the bodyless copy, once.
Resend(c) ==
  /\ task[c].pc = "resend"
  /\ \/ /\ slot[c].alive /\ Reach(c)
        /\ task' = [task EXCEPT ![c].pc = "await", ![c].reused = FALSE,
                                ![c].tapped = sent[task[c].id].reached = <<>>]
        /\ UNCHANGED <<store, owed, slot>>
     \/ /\ ~slot[c].alive
        /\ BadGateway(c) /\ UNCHANGED sent
        /\ slot' = [slot EXCEPT ![c] = NoConn]
  /\ UNCHANGED <<port, mishaps>>

\* The backend answers: the head is recorded, the connection is kept for the
\* next request unless it now belongs to an upgraded stream.
Response(c) ==
  /\ task[c].pc = "await" /\ slot[c].alive
  /\ LET answer == task[c].r.answer
         switched == answer.status = "switching"
     IN /\ Record(c, RecordResponse(DataOf(c), answer.body.ctype, switched), 1)
        /\ task' = [task EXCEPT ![c].pc = IF switched THEN "upgraded" ELSE "body",
                                ![c].down = answer.body.units]
        /\ slot' = [slot EXCEPT ![c] = IF switched THEN NoConn ELSE @]
  /\ UNCHANGED <<port, sent, mishaps>>

ResponseChunk(c) ==
  /\ task[c].pc = "body" /\ task[c].down # <<>>
  /\ Record(c, RecordChunk(DataOf(c), "response", Head(task[c].down)), 0)
  /\ task' = [task EXCEPT ![c].down = Tail(@)]
  /\ UNCHANGED <<port, slot, sent, mishaps>>

\* The answer's body ends, breaks off with the connection, or is dropped with
\* the client; a request body still tapped goes with it.
EndOfBody(c, state) ==
  LET d == RecordFinish(DataOf(c), "response", state)
  IN /\ Record(c, IF task[c].tapped
                  THEN RecordFinish(d, "request",
                         IF task[c].up = <<>> THEN "done" ELSE "aborted")
                  ELSE d, IF task[c].tapped THEN 2 ELSE 1)
     /\ task' = [task EXCEPT ![c] = Idle]

ResponseEnd(c) ==
  /\ task[c].pc = "body"
  /\ \/ task[c].down = <<>> /\ EndOfBody(c, "done") /\ UNCHANGED slot
     \/ /\ task[c].down # <<>> /\ ~slot[c].alive
        /\ EndOfBody(c, "error") /\ slot' = [slot EXCEPT ![c] = NoConn]
  /\ UNCHANGED <<port, sent, mishaps>>

\* splice_upgraded: the relay ends on either side; without the client's half
\* nothing is spliced, and an upgrade that fails is only reported.
RelayEnds(c) ==
  /\ task[c].pc = "upgraded"
  /\ \/ /\ task[c].upgrade
        /\ Record(c, RecordClosed(DataOf(c)), 0)
        /\ UNCHANGED sent
     \/ Cut(c) /\ UNCHANGED <<store, owed>>
  /\ task' = [task EXCEPT ![c] = Idle]
  /\ UNCHANGED <<port, slot, mishaps>>

\* The client hangs up: hyper drops the service's future, and what it holds.
ClientLeaves(c) ==
  /\ Mishap
  /\ \/ /\ task[c].pc \in {"forward", "connect", "reconnect", "send", "resend", "await"}
        /\ Record(c, IF task[c].tapped
                     THEN RecordFinish(DataOf(c), "request",
                            IF task[c].up = <<>> THEN "done" ELSE "aborted")
                     ELSE DataOf(c), IF task[c].tapped THEN 1 ELSE 0)
        /\ task' = [task EXCEPT ![c] = Idle]
        /\ Cut(c)
     \/ /\ task[c].pc = "body"
        /\ EndOfBody(c, IF task[c].down = <<>> THEN "done" ELSE "aborted")
        /\ UNCHANGED sent
  /\ slot' = [slot EXCEPT ![c] = NoConn]
  /\ UNCHANGED <<port>>

----------------------------------------------------------------------------
(* Around the requests.                                                    *)

\* account, after a response's head or a finished body.
Account(id) ==
  /\ owed[id] > 0
  /\ store' = account(store, id)
  /\ owed' = [owed EXCEPT ![id] = @ - 1]
  /\ UNCHANGED <<port, task, slot, sent, mishaps>>

\* A backend closes a kept connection, or dies with a request on it.
BackendHangsUp(c) ==
  /\ slot[c].alive /\ Mishap
  /\ slot' = [slot EXCEPT ![c].alive = FALSE]
  /\ UNCHANGED <<store, port, task, sent, owed>>

\* A node is recreated or goes away: its connections end, and it has another
\* port or none.
Recreate(n) ==
  /\ Mishap
  /\ \E p \in {0, MaxMishaps - mishaps + 2} : port' = [port EXCEPT ![n] = p]
  /\ slot' = [c \in Client |-> IF slot[c].node = n
                               THEN [slot[c] EXCEPT !.alive = FALSE] ELSE slot[c]]
  /\ UNCHANGED <<store, task, sent, owed>>

\* The UI switches a node's recording, or clears it.
Switch(n, mode) ==
  /\ Mishap
  /\ store' = set_mode(store, n, mode)
  /\ UNCHANGED <<port, task, slot, sent, owed>>

Clear(n) ==
  /\ Mishap /\ store.ring[n] # <<>>
  /\ store' = clear(store, n, 0)
  /\ UNCHANGED <<port, task, slot, sent, owed>>

Step(c) ==
  \/ TakeSlot(c) \/ Connect(c) \/ Send(c) \/ SendFails(c) \/ Resend(c)
  \/ RequestChunk(c) \/ RequestEnd(c) \/ Response(c)
  \/ ResponseChunk(c) \/ ResponseEnd(c) \/ RelayEnds(c)

Next ==
  \/ \E c \in Client :
       \/ Step(c) \/ ClientLeaves(c) \/ BackendHangsUp(c)
       \/ \E r \in Requests : Arrive(c, r)
  \/ \E id \in Exchange : Account(id)
  \/ \E n \in Node : Recreate(n) \/ Clear(n) \/ \E m \in SwitchTo : Switch(n, m)

Spec == Init /\ [][Next]_vars

----------------------------------------------------------------------------
(* Properties.                                                             *)

TypeOK ==
  /\ port \in [Node -> Nat]
  /\ store.total \in Nat /\ store.bytes \in [Node -> Nat]
  /\ \A c \in Client :
       /\ slot[c].port \in Nat /\ slot[c].alive \in BOOLEAN
       /\ task[c].pc # "idle" => task[c].to.port \in Nat \ {0}
       /\ task[c].pc \in {"idle", "forward", "connect", "reconnect", "send",
                          "resend", "await", "body", "upgraded"}
  /\ DOMAIN store.ex \subseteq Used /\ Used \subseteq Exchange
  /\ \A n \in Node : store.mode[n] \in BodyMode \cup {Off}

\* forward's retry: whatever connections die and nodes move, a request is
\* delivered only to the backend it was routed to, at most twice, and twice only
\* when it is safe to repeat.
SafeRetries ==
  \A i \in Used : LET q == sent[i] IN
     /\ \A k \in DOMAIN q.reached : q.reached[k].node = q.to.node /\ q.reached[k].port = q.to.port
     /\ Len(q.reached) <= IF is_replayable(q.r) THEN 2 ELSE 1

\* What reaches a backend, the second time too, is the client's request with the
\* forwarded headers and without what described the client's own connection; only
\* an upgrade keeps the pair that asks for it.
HopByHop ==
  \A i \in Used : \A k \in DOMAIN sent[i].reached :
     LET h == sent[i].reached[k].headers
         asked == sent[i].r.headers
     IN /\ "forwarded" \in h /\ asked \cap {"accept"} \subseteq h
        /\ "keep-alive" \notin h
        /\ "connection" \in asked => "named" \notin h
        /\ h \cap {"connection", "upgrade"} \in {{}, {"connection", "upgrade"}}

\* Two requests at once, a clear and evictions in the middle of a recording:
\* the counters of the store stay in line with what the rings hold.
Accounting == AccountsAgree(store)

\* The limits hold for every ring that could still evict.
Budget == WithinBudget(store)

Busy == {task[c].id : c \in {d \in Client : task[d].pc # "idle"}}

\* A recording ends when its request does: it is left pending or open only by a
\* client that went away before the answer, or by an upgrade that came to
\* nothing; and then what it holds is what it is counted as.
RecordingEnds ==
  \A i \in DOMAIN store.ex \ Busy : LET d == store.ex[i] IN
     /\ state_of(d) \in {"pending", "streaming", "open"} => sent[i].cut
     /\ d.in_ring /\ owed[i] = 0 => d.accounted = weight(d)

\* Of a finished body a recording keeps what its mode asked for: nothing in
\* "none"; in "text" no binary but of a body that calls itself text, and no
\* file of a form; and what was cut at the cap says so.
KeptAsAsked ==
  \A i \in DOMAIN store.ex : \A side \in {"request", "response"} :
    LET d == store.ex[i]
        c == d[side]
    IN /\ Len(c.data) <= BODY_CAP
       /\ view(c) \in {"text", "binary"} /\ Len(c.data) < c.size => c.truncated
       /\ d.mode = "none" => c.data = <<>> /\ c.parts = <<>>
       /\ d.mode = "text" /\ c.state \notin {"pending", "streaming"} =>
            /\ view(c) = "binary" => c.ctype = "text"
            /\ \A k \in DOMAIN c.parts : c.parts[k] \in {<<>>, <<"t">>}

\* What reaches a backend is a client's request, routed, stripped of its hop and
\* repeated only when that is safe.
ForwardedRight == SafeRetries /\ HopByHop

\* However recordings, clears, mode switches and evictions interleave, the rings
\* account for what they hold and keep within their limits.
RingHolds == TypeOK /\ Accounting /\ Budget

\* A recording ends with its request and keeps of it what its mode asked for.
RecordedRight == RecordingEnds /\ KeptAsAsked
=============================================================================
