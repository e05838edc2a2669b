---------------------------- MODULE ProxyProofs ----------------------------
(***************************************************************************)
(* Proofs about Proxy for any clients, nodes, requests and limits of the    *)
(* store, and any number of exchanges and mishaps: ForwardedRight and       *)
(* RecordedRight are invariants.                                            *)
(*                                                                          *)
(* Forwarding does not depend on what is recorded, so its invariant         *)
(* (ForwardInv) stands by itself; the one of the recordings (RecordInv)     *)
(* uses it for which request a task is at.                                  *)
(***************************************************************************)
EXTENDS Proxy, FiniteSetTheorems, TLAPS

----------------------------------------------------------------------------
(* Forwarding: the invariant.                                              *)

Unit == {"t", "b", "f"}
BusyPc == {"forward", "connect", "reconnect", "send", "resend", "await", "body", "upgraded"}
Target == [node : Node, port : Int]
Kept == [node : Node \cup {0}, port : Int, alive : BOOLEAN]
Delivery == [node : Node \cup {0}, port : Int, headers : SUBSET Header]
Sent == [r : Requests, to : Target, reached : Seq(Delivery), cut : BOOLEAN]
Forwarding == [pc : BusyPc, id : Exchange, rec : BOOLEAN, r : Requests, to : Target,
               reused : BOOLEAN, upgrade : BOOLEAN, up : Seq(Unit), down : Seq(Unit),
               tapped : BOOLEAN]

Typed ==
  /\ port \in [Node -> Int] /\ mishaps \in Int
  /\ slot \in [Client -> Kept]
  /\ task \in [Client -> {Idle} \cup Forwarding]
  /\ Used \subseteq Exchange /\ sent \in [Used -> Sent]

\* A task is at the request that arrived, and no other task is.
Own ==
  /\ \A c \in Client : task[c].pc # "idle" =>
       /\ task[c].id \in Used
       /\ sent[task[c].id].r = task[c].r /\ sent[task[c].id].to = task[c].to
       /\ task[c].upgrade = ("upgrade" \in task[c].r.headers)
  /\ \A c, d \in Client : task[c].pc # "idle" /\ task[d].pc # "idle" /\ task[c].id = task[d].id => c = d

\* The connection a request is about to be written to goes where it was routed.
Aimed ==
  \A c \in Client : task[c].pc \in {"send", "resend"} =>
    slot[c].node = task[c].to.node /\ slot[c].port = task[c].to.port

\* How often a request has been written, by how far its task is.
Tries(t, reached) ==
  /\ t.pc \in {"forward", "connect", "send"} => reached = <<>>
  /\ t.pc \in {"reconnect", "resend"} => Len(reached) <= IF is_replayable(t.r) THEN 1 ELSE 0
  /\ t.pc = "await" /\ t.reused => Len(reached) <= 1
Counted == \A c \in Client : task[c].pc # "idle" => Tries(task[c], sent[task[c].id].reached)

ForwardInv == Typed /\ Own /\ Aimed /\ Counted /\ SafeRetries /\ HopByHop

----------------------------------------------------------------------------
(* Steps of one task.                                                      *)

\* A record of a task or of a request, as the actions leave it.
Continues(t, old) ==
  /\ t \in Forwarding /\ t.id = old.id /\ t.r = old.r /\ t.to = old.to /\ t.upgrade = old.upgrade

LEMMA BusyTask ==
  ASSUME Typed, NEW c \in Client, task[c].pc # "idle"
  PROVE  task[c] \in Forwarding
  BY DEF Typed, Idle

LEMMA IdleFacts == Idle.pc = "idle" /\ Idle \notin Forwarding
<1>1. Idle.pc = "idle"
  BY DEF Idle
<1>2. \A t \in Forwarding : t.pc # "idle"
  BY DEF Forwarding, BusyPc
<1> QED BY <1>1, <1>2

\* What was delivered so far stays right while nothing else is.
LEMMA SameDeliveries ==
  ASSUME SafeRetries, HopByHop, Used' = Used,
         \A i \in Used : /\ sent'[i].r = sent[i].r /\ sent'[i].to = sent[i].to
                         /\ sent'[i].reached = sent[i].reached
  PROVE  SafeRetries' /\ HopByHop'
  BY DEF SafeRetries, HopByHop, is_replayable

\* One task moves on or ends; of its request, at most what has been delivered changes.
LEMMA TaskStep ==
  ASSUME ForwardInv, NEW c \in Client, NEW t,
         task' = [task EXCEPT ![c] = t],
         \/ t = Idle
         \/ /\ task[c].pc # "idle" /\ Continues(t, task[c])
            /\ t.pc \in {"send", "resend"} =>
                 slot'[c].node = t.to.node /\ slot'[c].port = t.to.port
            /\ Tries(t, sent'[t.id].reached),
         slot' \in [Client -> Kept],
         \A d \in Client : d # c => slot'[d].node = slot[d].node /\ slot'[d].port = slot[d].port,
         port' \in [Node -> Int], mishaps' \in Int,
         Used' = Used, sent' \in [Used -> Sent],
         \A i \in Used : sent'[i].r = sent[i].r /\ sent'[i].to = sent[i].to,
         \A i \in Used : sent'[i].reached = sent[i].reached \/ (task[c].pc # "idle" /\ i = task[c].id),
         SafeRetries', HopByHop'
  PROVE  ForwardInv'
<1>1. task \in [Client -> {Idle} \cup Forwarding] /\ t \in {Idle} \cup Forwarding
  BY DEF ForwardInv, Typed, Continues
<1>2. /\ task' \in [Client -> {Idle} \cup Forwarding]
      /\ task'[c] = t /\ \A d \in Client : d # c => task'[d] = task[d]
  BY <1>1
<1>3. Typed'
  BY <1>2 DEF ForwardInv, Typed
<1>4. t # Idle => /\ task[c].pc # "idle" /\ Continues(t, task[c])
                  /\ t.pc \in {"send", "resend"} =>
                       slot'[c].node = t.to.node /\ slot'[c].port = t.to.port
                  /\ Tries(t, sent'[t.id].reached)
  OBVIOUS
<1>5. t.pc # "idle" => t # Idle
  BY IdleFacts
<1>6. Own'
  <2>1. ASSUME NEW d \in Client, task'[d].pc # "idle"
        PROVE  /\ task[d].pc # "idle" /\ task'[d].id = task[d].id /\ task'[d].id \in Used
               /\ sent'[task'[d].id].r = task'[d].r /\ sent'[task'[d].id].to = task'[d].to
               /\ task'[d].upgrade = ("upgrade" \in task'[d].r.headers)
    <3>1. CASE d = c
      BY <1>2, <1>4, <1>5, <2>1, <3>1 DEF ForwardInv, Own, Continues
    <3>2. CASE d # c
      BY <1>2, <2>1, <3>2 DEF ForwardInv, Own
    <3> QED BY <3>1, <3>2
  <2>2. ASSUME NEW d \in Client, NEW e \in Client,
               task'[d].pc # "idle", task'[e].pc # "idle", task'[d].id = task'[e].id
        PROVE  d = e
    BY <2>1, <2>2 DEF ForwardInv, Own
  <2> QED BY <2>1, <2>2 DEF Own
<1>7. Aimed'
  <2> SUFFICES ASSUME NEW d \in Client, task'[d].pc \in {"send", "resend"}
               PROVE  slot'[d].node = task'[d].to.node /\ slot'[d].port = task'[d].to.port
    BY DEF Aimed
  <2>1. CASE d = c
    BY <1>2, <1>4, <1>5, <2>1
  <2>2. CASE d # c
    BY <1>2, <2>2 DEF ForwardInv, Aimed
  <2> QED BY <2>1, <2>2
<1>8. Counted'
  <2> SUFFICES ASSUME NEW d \in Client, task'[d].pc # "idle"
               PROVE  Tries(task'[d], sent'[task'[d].id].reached)
    BY DEF Counted
  <2>1. CASE d = c
    BY <1>2, <1>4, <1>5, <2>1
  <2>2. CASE d # c
    <3>1. task'[d] = task[d] /\ task[d].pc # "idle" /\ task[d].id \in Used
      BY <1>2, <2>2 DEF ForwardInv, Own
    <3>2. sent'[task[d].id].reached = sent[task[d].id].reached
      BY <2>2, <3>1 DEF ForwardInv, Own
    <3>3. Tries(task[d], sent[task[d].id].reached)
      BY <3>1 DEF ForwardInv, Counted
    <3> QED BY <3>1, <3>2, <3>3
  <2> QED BY <2>1, <2>2
<1> QED BY <1>3, <1>6, <1>7, <1>8 DEF ForwardInv

\* The task moves on and nothing is delivered.
LEMMA QuietStep ==
  ASSUME ForwardInv, NEW c \in Client, NEW t,
         task' = [task EXCEPT ![c] = t],
         \/ t = Idle
         \/ /\ task[c].pc # "idle" /\ Continues(t, task[c])
            /\ t.pc \in {"send", "resend"} =>
                 slot'[c].node = t.to.node /\ slot'[c].port = t.to.port
            /\ Tries(t, sent[task[c].id].reached),
         \E s \in Kept : slot' = [slot EXCEPT ![c] = s],
         UNCHANGED <<port, sent>>, mishaps' \in Int
  PROVE  ForwardInv'
<1>1. slot \in [Client -> Kept] /\ port \in [Node -> Int] /\ sent \in [Used -> Sent]
  BY DEF ForwardInv, Typed
<1>2. /\ slot' \in [Client -> Kept]
      /\ \A d \in Client : d # c => slot'[d].node = slot[d].node /\ slot'[d].port = slot[d].port
  BY <1>1
<1>3. Used' = Used
  BY DEF Used
<1>4. SafeRetries' /\ HopByHop'
  BY <1>3, SameDeliveries DEF ForwardInv
<1>5. \/ t = Idle
      \/ /\ task[c].pc # "idle" /\ Continues(t, task[c])
         /\ t.pc \in {"send", "resend"} =>
              slot'[c].node = t.to.node /\ slot'[c].port = t.to.port
         /\ Tries(t, sent'[t.id].reached)
  BY DEF Continues
<1> HIDE DEF Used
<1> QED BY <1>1, <1>2, <1>3, <1>4, <1>5, TaskStep

\* The connection is unchanged, or given up.
LEMMA SameSlot ==
  ASSUME Typed, NEW c \in Client
  PROVE  /\ slot[c] \in Kept /\ NoConn \in Kept /\ slot = [slot EXCEPT ![c] = slot[c]]
  BY DEF Typed, NoConn, Kept

LEMMA InitForward == Init => ForwardInv
<1> SUFFICES ASSUME Init PROVE ForwardInv
  OBVIOUS
<1>1. Used = {} /\ sent \in [Used -> Sent]
  BY DEF Init, Used
<1>2. \A c \in Client : task[c] = Idle
  BY DEF Init
<1>3. NoConn \in Kept /\ slot \in [Client -> Kept]
  BY DEF NoConn, Kept, Init
<1>4. task \in [Client -> {Idle} \cup Forwarding] /\ port \in [Node -> Int] /\ mishaps \in Int
  BY ProxyAssumption DEF Init
<1>5. Typed
  BY <1>1, <1>3, <1>4 DEF Typed
<1>6. Own /\ Aimed /\ Counted
  BY <1>2, IdleFacts DEF Own, Aimed, Counted
<1>7. SafeRetries /\ HopByHop
  BY <1>1 DEF SafeRetries, HopByHop
<1> QED BY <1>5, <1>6, <1>7 DEF ForwardInv

----------------------------------------------------------------------------
(* Forwarding: the steps.                                                  *)

LEMMA TakeSlotForward ==
  ASSUME ForwardInv, NEW c \in Client, TakeSlot(c)
  PROVE  ForwardInv'
<1> DEFINE reuse == slot[c].node = task[c].to.node /\ slot[c].port = task[c].to.port /\ slot[c].alive
           t == [task[c] EXCEPT !.reused = reuse, !.pc = IF reuse THEN "send" ELSE "connect"]
           s == IF reuse THEN slot[c] ELSE NoConn
<1>1. /\ task[c].pc = "forward" /\ task[c] \in Forwarding
      /\ UNCHANGED <<port, sent, mishaps>>
      /\ task' = [task EXCEPT ![c].reused = reuse, ![c].pc = IF reuse THEN "send" ELSE "connect"]
      /\ slot' = [slot EXCEPT ![c] = s]
  BY BusyTask DEF TakeSlot, ForwardInv
<1>2. task' = [task EXCEPT ![c] = t]
  BY <1>1 DEF ForwardInv, Typed
<1>3. reuse \in BOOLEAN
  BY SameSlot DEF ForwardInv, Kept
<1>4. Continues(t, task[c]) /\ t.pc \in {"send", "connect"} /\ (t.pc = "send" => reuse)
  <2> HIDE DEF reuse
  <2> QED BY <1>1, <1>3 DEF Continues, Forwarding, BusyPc
<1>5. s \in Kept /\ (reuse => s.node = t.to.node /\ s.port = t.to.port)
  BY <1>4, SameSlot DEF ForwardInv, Continues
<1>6. Tries(t, sent[task[c].id].reached)
  <2>1. sent[task[c].id].reached = <<>>
    BY <1>1 DEF ForwardInv, Counted, Tries
  <2> HIDE DEF t
  <2> QED BY <1>4, <2>1 DEF Tries
<1>7. slot'[c] = s /\ mishaps' \in Int
  BY <1>1 DEF ForwardInv, Typed
<1> HIDE DEF t, s, reuse
<1>8. t.pc \in {"send", "resend"} => slot'[c].node = t.to.node /\ slot'[c].port = t.to.port
  BY <1>4, <1>5, <1>7
<1> QED BY <1>1, <1>2, <1>4, <1>5, <1>6, <1>7, <1>8, QuietStep

\* Whenever a request is given up or ends, with its connection or without.
LEMMA EndsForward ==
  ASSUME ForwardInv, NEW c \in Client, task' = [task EXCEPT ![c] = Idle],
         UNCHANGED slot \/ slot' = [slot EXCEPT ![c] = NoConn],
         UNCHANGED <<port, sent>>, mishaps' \in Int
  PROVE  ForwardInv'
<1>1. \E s \in Kept : slot' = [slot EXCEPT ![c] = s]
  BY SameSlot DEF ForwardInv
<1> QED BY <1>1, QuietStep

\* Only the progress of a request's bodies is noted.
SameRequest(c, t) ==
  Continues(t, task[c]) /\ t.pc = task[c].pc /\ t.reused = task[c].reused

LEMMA BodyForward ==
  ASSUME ForwardInv, NEW c \in Client, task[c].pc \in {"await", "body"},
         \E t : SameRequest(c, t) /\ task' = [task EXCEPT ![c] = t],
         UNCHANGED <<slot, port, sent, mishaps>>
  PROVE  ForwardInv'
<1> PICK t : SameRequest(c, t) /\ task' = [task EXCEPT ![c] = t]
  OBVIOUS
<1>0. Continues(t, task[c]) /\ t.pc = task[c].pc /\ t.reused = task[c].reused
  BY DEF SameRequest
<1>1. \E s \in Kept : slot' = [slot EXCEPT ![c] = s]
  BY SameSlot DEF ForwardInv
<1>2. task[c].pc # "idle" /\ t.pc \notin {"send", "resend"} /\ mishaps' \in Int
  BY <1>0 DEF ForwardInv, Typed
<1>3. Tries(task[c], sent[task[c].id].reached)
  BY <1>2 DEF ForwardInv, Counted
<1>4. Tries(t, sent[task[c].id].reached)
  BY <1>0, <1>3 DEF Tries, Continues
<1> QED BY <1>0, <1>1, <1>2, <1>4, QuietStep

LEMMA ConnectForward ==
  ASSUME ForwardInv, NEW c \in Client, Connect(c)
  PROVE  ForwardInv'
<1>1. task[c].pc \in {"connect", "reconnect"} /\ task[c] \in Forwarding /\ UNCHANGED <<port, sent>>
  BY BusyTask DEF Connect, ForwardInv
<1>2. mishaps' \in Int
  BY DEF Connect, Mishap, ForwardInv, Typed
<1>3. CASE /\ slot' = [slot EXCEPT ![c] = [node |-> task[c].to.node,
                                           port |-> task[c].to.port, alive |-> TRUE]]
           /\ Go(c, IF task[c].pc = "connect" THEN "send" ELSE "resend")
  <2> DEFINE pc == IF task[c].pc = "connect" THEN "send" ELSE "resend"
             t == [task[c] EXCEPT !.pc = pc]
             s == [node |-> task[c].to.node, port |-> task[c].to.port, alive |-> TRUE]
  <2>1. task' = [task EXCEPT ![c] = t]
    BY <1>3 DEF Go, ForwardInv, Typed
  <2>2. pc \in {"send", "resend"}
    OBVIOUS
  <2>3. Continues(t, task[c]) /\ t.pc = pc
    <3> HIDE DEF pc
    <3> QED BY <1>1, <2>2 DEF Continues, Forwarding, BusyPc
  <2>4. task[c].to \in Target
    BY <1>1 DEF Forwarding
  <2>5. s \in Kept /\ s.node = task[c].to.node /\ s.port = task[c].to.port
    BY <2>4 DEF Kept, Target
  <2>6. slot'[c] = s
    BY <1>3 DEF ForwardInv, Typed
  <2>7. Tries(t, sent[task[c].id].reached)
    <3>1. Tries(task[c], sent[task[c].id].reached)
      BY <1>1 DEF ForwardInv, Counted
    <3>2. t.r = task[c].r
      BY <2>3 DEF Continues
    <3> HIDE DEF t
    <3> QED BY <1>1, <2>3, <3>1, <3>2 DEF Tries
  <2> HIDE DEF t, s
  <2>8. t.to = task[c].to
    BY <2>3 DEF Continues
  <2> QED BY <1>1, <1>2, <1>3, <2>1, <2>3, <2>5, <2>6, <2>7, <2>8, QuietStep DEF s
<1>4. CASE slot' = [slot EXCEPT ![c] = NoConn] /\ BadGateway(c)
  BY <1>1, <1>2, <1>4, EndsForward DEF BadGateway
<1> QED BY <1>3, <1>4 DEF Connect

\* A request is written: it goes where it was routed, and is what the client sent without
\* what was about its own connection.
LEMMA DeliveryRight ==
  ASSUME ForwardInv, NEW c \in Client, task[c].pc \in {"send", "resend"}, NEW t, Reach(c),
         task' = [task EXCEPT ![c] = t], Continues(t, task[c]), t.pc = "await",
         t.reused => task[c].pc = "send",
         UNCHANGED <<port, mishaps, slot>>
  PROVE  ForwardInv'
<1> DEFINE id == task[c].id
           d == [node |-> slot[c].node, port |-> slot[c].port,
                 headers |-> add_forwarded_headers(
                               strip_hop_by_hop(task[c].r.headers, task[c].upgrade))]
           q == [sent[id] EXCEPT !.reached = Append(@, d)]
           R == sent[id].reached
<1>1. task[c] \in Forwarding /\ id \in Used /\ task[c].pc # "idle"
  BY BusyTask DEF ForwardInv, Own
<1>2. sent \in [Used -> Sent] /\ sent[id] \in Sent /\ slot[c] \in Kept
  BY <1>1 DEF ForwardInv, Typed
<1>3. task[c].r \in Requests /\ task[c].r.headers \in SUBSET Header /\ task[c].upgrade \in BOOLEAN
  BY <1>1, ProxyAssumption DEF Forwarding
<1>4. add_forwarded_headers(strip_hop_by_hop(task[c].r.headers, task[c].upgrade)) \in SUBSET Header
  BY <1>3 DEF add_forwarded_headers, strip_hop_by_hop, Header
<1>5. d \in Delivery
  BY <1>2, <1>4 DEF Delivery, Kept
<1>6. R \in Seq(Delivery)
  BY <1>2 DEF Sent
<1>7. sent' = [sent EXCEPT ![id] = q]
  BY <1>2 DEF Reach
<1> HIDE DEF d
<1>8. /\ Append(R, d) \in Seq(Delivery) /\ Len(Append(R, d)) = Len(R) + 1
      /\ Append(R, d)[Len(R) + 1] = d /\ DOMAIN R = 1..Len(R) /\ Len(R) \in Nat
      /\ DOMAIN Append(R, d) = 1..(Len(R) + 1)
      /\ \A k \in 1..Len(R) : Append(R, d)[k] = R[k]
  <2> HIDE DEF R
  <2> QED BY <1>5, <1>6
<1>9. /\ q \in Sent /\ q.r = sent[id].r /\ q.to = sent[id].to /\ q.reached = Append(R, d)
  BY <1>2, <1>8 DEF Sent
<1> HIDE DEF q
<1>10. /\ Used' = Used /\ sent' \in [Used -> Sent] /\ sent'[id] = q
       /\ \A i \in Used : i # id => sent'[i] = sent[i]
  BY <1>1, <1>2, <1>7, <1>9 DEF Used
<1>11. \A i \in Used : sent'[i].r = sent[i].r /\ sent'[i].to = sent[i].to
  BY <1>9, <1>10
<1>12. \A k \in DOMAIN q.reached : k \in DOMAIN R \/ k = Len(R) + 1
  BY <1>8, <1>9
<1>13. Tries(task[c], R) /\ sent[id].r = task[c].r /\ sent[id].to = task[c].to
  BY <1>1 DEF ForwardInv, Counted, Own
<1>14. SafeRetries'
  <2>1. d.node = q.to.node /\ d.port = q.to.port
    BY <1>9, <1>13 DEF ForwardInv, Aimed, d
  <2>2. \A k \in DOMAIN q.reached : q.reached[k].node = q.to.node /\ q.reached[k].port = q.to.port
    <3> SUFFICES ASSUME NEW k \in DOMAIN q.reached
                 PROVE  q.reached[k].node = q.to.node /\ q.reached[k].port = q.to.port
      OBVIOUS
    <3>1. CASE k \in DOMAIN R
      <4>1. R[k].node = sent[id].to.node /\ R[k].port = sent[id].to.port
        BY <1>1, <3>1 DEF ForwardInv, SafeRetries
      <4>2. q.reached[k] = R[k] /\ q.to = sent[id].to
        <5> HIDE DEF R
        <5> QED BY <1>8, <1>9, <3>1
      <4> QED BY <4>1, <4>2
    <3>2. CASE k = Len(R) + 1
      <4>1. q.reached[k] = d
        <5> HIDE DEF R
        <5> QED BY <1>8, <1>9, <3>2
      <4> QED BY <2>1, <4>1
    <3> QED BY <1>12, <3>1, <3>2
  <2>3. Len(q.reached) <= IF is_replayable(q.r) THEN 2 ELSE 1
    <3>1. Len(q.reached) = Len(R) + 1
      BY <1>8, <1>9
    <3>2. Len(R) <= IF is_replayable(q.r) THEN 1 ELSE 0
      BY <1>8, <1>9, <1>13 DEF Tries
    <3> QED BY <1>8, <3>1, <3>2
  <2>4. \A i \in Used : LET p == sent'[i] IN
          /\ \A k \in DOMAIN p.reached : p.reached[k].node = p.to.node /\ p.reached[k].port = p.to.port
          /\ Len(p.reached) <= IF is_replayable(p.r) THEN 2 ELSE 1
    <3> TAKE i \in Used
    <3>1. CASE i = id
      BY <1>10, <2>2, <2>3, <3>1
    <3>2. CASE i # id
      <4>1. sent'[i] = sent[i]
        BY <1>10, <3>2
      <4> QED BY <4>1 DEF ForwardInv, SafeRetries
    <3> QED BY <3>1, <3>2
  <2> QED BY <1>10, <2>4 DEF SafeRetries
<1>15. HopByHop'
  <2> DEFINE asked == task[c].r.headers
             h == d.headers
  <2>1. h = add_forwarded_headers(strip_hop_by_hop(asked, "upgrade" \in asked))
    BY <1>1 DEF d, ForwardInv, Own
  <2> HIDE DEF h, asked
  <2>2. /\ "forwarded" \in h /\ asked \cap {"accept"} \subseteq h /\ "keep-alive" \notin h
        /\ "connection" \in asked => "named" \notin h
        /\ "connection" \in h <=> "upgrade" \in h
    BY <2>1 DEF add_forwarded_headers, strip_hop_by_hop
  <2>3. h \cap {"connection", "upgrade"} \in {{}, {"connection", "upgrade"}}
    BY <2>2
  <2> DEFINE Clean(a, g) ==
               /\ "forwarded" \in g /\ a \cap {"accept"} \subseteq g /\ "keep-alive" \notin g
               /\ "connection" \in a => "named" \notin g
               /\ g \cap {"connection", "upgrade"} \in {{}, {"connection", "upgrade"}}
  <2>4. Clean(asked, h)
    BY <2>2, <2>3
  <2>5. \A i \in Used : \A k \in DOMAIN sent[i].reached : Clean(sent[i].r.headers, sent[i].reached[k].headers)
    BY DEF ForwardInv, HopByHop
  <2>6. (\A i \in Used' : \A k \in DOMAIN sent'[i].reached :
           Clean(sent'[i].r.headers, sent'[i].reached[k].headers)) => HopByHop'
    BY DEF HopByHop
  <2> HIDE DEF Clean
  <2>7. ASSUME NEW i \in Used, NEW k \in DOMAIN sent'[i].reached
        PROVE  Clean(sent'[i].r.headers, sent'[i].reached[k].headers)
    <3>1. CASE i = id /\ k = Len(R) + 1
      <4>1. sent'[i].reached[k].headers = h /\ sent'[i].r.headers = asked
        BY <1>8, <1>9, <1>10, <1>13, <3>1 DEF h, asked
      <4> QED BY <2>4, <4>1
    <3>2. CASE ~(i = id /\ k = Len(R) + 1)
      <4>1. k \in DOMAIN sent[i].reached /\ sent'[i].reached[k] = sent[i].reached[k] /\ sent'[i].r = sent[i].r
        BY <1>8, <1>9, <1>10, <1>12, <2>7, <3>2, ZenonT(60)
      <4> QED BY <2>5, <4>1
    <3> QED BY <3>1, <3>2
  <2> QED BY <1>10, <2>6, <2>7
<1>16. Tries(t, sent'[t.id].reached)
  <2>1. t.id = id
    BY DEF Continues
  <2>2. t.reused => Len(sent'[id].reached) <= 1
    <3>1. CASE task[c].pc = "send"
      <4>1. R = <<>>
        BY <1>13, <3>1 DEF Tries
      <4> HIDE DEF R
      <4>2. Len(R) = 0
        BY <4>1
      <4>3. Len(sent'[id].reached) = Len(R) + 1
        BY <1>8, <1>9, <1>10
      <4> QED BY <4>2, <4>3
    <3> QED BY <3>1
  <2> QED BY <2>1, <2>2 DEF Tries
<1>17. /\ slot' \in [Client -> Kept] /\ port' \in [Node -> Int] /\ mishaps' \in Int
       /\ \A e \in Client : e # c => slot'[e].node = slot[e].node /\ slot'[e].port = slot[e].port
  BY DEF ForwardInv, Typed
<1>18. \A i \in Used : sent'[i].reached = sent[i].reached \/ (task[c].pc # "idle" /\ i = task[c].id)
  BY <1>1, <1>10
<1> QED BY <1>1, <1>10, <1>11, <1>14, <1>15, <1>16, <1>17, <1>18, TaskStep

LEMMA SendForward ==
  ASSUME ForwardInv, NEW c \in Client, Send(c)
  PROVE  ForwardInv'
<1>1. task[c].pc = "send" /\ task[c] \in Forwarding /\ UNCHANGED <<port, mishaps>> /\ mishaps' \in Int
  BY BusyTask DEF Send, ForwardInv, Typed
<1>2. CASE /\ Reach(c) /\ UNCHANGED slot
           /\ task' = [task EXCEPT ![c].pc = "await", ![c].tapped = TRUE]
  <2> DEFINE t == [task[c] EXCEPT !.pc = "await", !.tapped = TRUE]
  <2>1. task' = [task EXCEPT ![c] = t]
    BY <1>2 DEF ForwardInv, Typed
  <2>2. Continues(t, task[c]) /\ t.pc = "await"
    BY <1>1 DEF Continues, Forwarding, BusyPc
  <2> HIDE DEF t
  <2> QED BY <1>1, <1>2, <2>1, <2>2, DeliveryRight
<1>3. CASE /\ slot' = [slot EXCEPT ![c] = NoConn] /\ UNCHANGED sent
           /\ task[c].reused /\ Go(c, "reconnect")
  <2> DEFINE t == [task[c] EXCEPT !.pc = "reconnect"]
  <2>1. task' = [task EXCEPT ![c] = t]
    BY <1>3 DEF Go, ForwardInv, Typed
  <2>2. Continues(t, task[c]) /\ t.pc = "reconnect"
    BY <1>1 DEF Continues, Forwarding, BusyPc
  <2>3. sent[task[c].id].reached = <<>>
    BY <1>1 DEF ForwardInv, Counted, Tries
  <2> HIDE DEF t
  <2>4. Tries(t, sent[task[c].id].reached)
    BY <2>2, <2>3 DEF Tries
  <2>5. NoConn \in Kept
    BY SameSlot DEF ForwardInv
  <2> QED BY <1>1, <1>3, <2>1, <2>2, <2>4, <2>5, QuietStep
<1>4. CASE slot' = [slot EXCEPT ![c] = NoConn] /\ UNCHANGED sent /\ BadGateway(c)
  BY <1>1, <1>4, EndsForward DEF BadGateway
<1> QED BY <1>2, <1>3, <1>4 DEF Send

LEMMA ResendForward ==
  ASSUME ForwardInv, NEW c \in Client, Resend(c)
  PROVE  ForwardInv'
<1>1. task[c].pc = "resend" /\ task[c] \in Forwarding /\ UNCHANGED <<port, mishaps>> /\ mishaps' \in Int
  BY BusyTask DEF Resend, ForwardInv, Typed
<1>2. CASE /\ Reach(c) /\ UNCHANGED slot
           /\ task' = [task EXCEPT ![c].pc = "await", ![c].reused = FALSE,
                                   ![c].tapped = sent[task[c].id].reached = <<>>]
  <2> DEFINE first == sent[task[c].id].reached = <<>>
             t == [task[c] EXCEPT !.pc = "await", !.reused = FALSE, !.tapped = first]
  <2>1. task' = [task EXCEPT ![c] = t]
    BY <1>2 DEF ForwardInv, Typed
  <2>2. first \in BOOLEAN
    OBVIOUS
  <2> HIDE DEF first
  <2>3. Continues(t, task[c]) /\ t.pc = "await" /\ ~t.reused
    BY <1>1, <2>2 DEF Continues, Forwarding, BusyPc
  <2> HIDE DEF t
  <2> QED BY <1>1, <1>2, <2>1, <2>3, DeliveryRight
<1>3. CASE slot' = [slot EXCEPT ![c] = NoConn] /\ UNCHANGED sent /\ BadGateway(c)
  BY <1>1, <1>3, EndsForward DEF BadGateway
<1> QED BY <1>2, <1>3 DEF Resend

LEMMA SendFailsForward ==
  ASSUME ForwardInv, NEW c \in Client, SendFails(c)
  PROVE  ForwardInv'
<1>1. /\ task[c].pc = "await" /\ task[c] \in Forwarding /\ UNCHANGED <<port, mishaps, sent>>
      /\ mishaps' \in Int /\ slot' = [slot EXCEPT ![c] = NoConn]
  BY BusyTask DEF SendFails, ForwardInv, Typed
<1>2. CASE /\ task[c].reused /\ is_replayable(task[c].r)
           /\ task' = [task EXCEPT ![c].pc = "reconnect", ![c].tapped = FALSE]
  <2> DEFINE t == [task[c] EXCEPT !.pc = "reconnect", !.tapped = FALSE]
  <2>1. task' = [task EXCEPT ![c] = t]
    BY <1>2 DEF ForwardInv, Typed
  <2>2. Continues(t, task[c]) /\ t.pc = "reconnect"
    BY <1>1 DEF Continues, Forwarding, BusyPc
  <2>3. Len(sent[task[c].id].reached) <= 1
    BY <1>1, <1>2 DEF ForwardInv, Counted, Tries
  <2> HIDE DEF t
  <2>4. Tries(t, sent[task[c].id].reached)
    BY <1>2, <2>2, <2>3 DEF Tries, Continues
  <2>5. NoConn \in Kept
    BY SameSlot DEF ForwardInv
  <2> QED BY <1>1, <2>1, <2>2, <2>4, <2>5, QuietStep
<1>3. CASE BadGateway(c)
  BY <1>1, <1>3, EndsForward DEF BadGateway
<1> QED BY <1>2, <1>3 DEF SendFails

LEMMA BodiesForward ==
  ASSUME ForwardInv, NEW c \in Client, RequestChunk(c) \/ RequestEnd(c) \/ ResponseChunk(c)
  PROVE  ForwardInv'
<1>1. task[c].pc \in {"await", "body"} /\ UNCHANGED <<slot, port, sent, mishaps>>
  BY DEF RequestChunk, RequestEnd, ResponseChunk
<1>7. \/ task[c].up # <<>> /\ task' = [task EXCEPT ![c].up = Tail(@)]
      \/ task' = [task EXCEPT ![c].tapped = FALSE]
      \/ task[c].down # <<>> /\ task' = [task EXCEPT ![c].down = Tail(@)]
  BY DEF RequestChunk, RequestEnd, ResponseChunk
<1>2. task[c] \in Forwarding /\ task \in [Client -> {Idle} \cup Forwarding]
  BY <1>1, BusyTask DEF ForwardInv, Typed
<1>3. task[c].up \in Seq(Unit) /\ task[c].down \in Seq(Unit)
  BY <1>2 DEF Forwarding
<1>4. CASE task[c].up # <<>> /\ task' = [task EXCEPT ![c].up = Tail(@)]
  <2> DEFINE t == [task[c] EXCEPT !.up = Tail(@)]
  <2>1. Tail(task[c].up) \in Seq(Unit)
    BY <1>3, <1>4
  <2>2. SameRequest(c, t)
    BY <1>2, <2>1 DEF SameRequest, Continues, Forwarding
  <2>3. task' = [task EXCEPT ![c] = t]
    BY <1>2, <1>4
  <2> HIDE DEF t
  <2> QED BY <1>1, <2>2, <2>3, BodyForward
<1>5. CASE task' = [task EXCEPT ![c].tapped = FALSE]
  <2> DEFINE t == [task[c] EXCEPT !.tapped = FALSE]
  <2>1. SameRequest(c, t)
    BY <1>2 DEF SameRequest, Continues, Forwarding
  <2>2. task' = [task EXCEPT ![c] = t]
    BY <1>2, <1>5
  <2> HIDE DEF t
  <2> QED BY <1>1, <2>1, <2>2, BodyForward
<1>6. CASE task[c].down # <<>> /\ task' = [task EXCEPT ![c].down = Tail(@)]
  <2> DEFINE t == [task[c] EXCEPT !.down = Tail(@)]
  <2>1. Tail(task[c].down) \in Seq(Unit)
    BY <1>3, <1>6
  <2>2. SameRequest(c, t)
    BY <1>2, <2>1 DEF SameRequest, Continues, Forwarding
  <2>3. task' = [task EXCEPT ![c] = t]
    BY <1>2, <1>6
  <2> HIDE DEF t
  <2> QED BY <1>1, <2>2, <2>3, BodyForward
<1> QED BY <1>7, <1>4, <1>5, <1>6

LEMMA ResponseForward ==
  ASSUME ForwardInv, NEW c \in Client, Response(c)
  PROVE  ForwardInv'
<1> DEFINE answer == task[c].r.answer
           switched == answer.status = "switching"
           pc == IF switched THEN "upgraded" ELSE "body"
           t == [task[c] EXCEPT !.pc = pc, !.down = answer.body.units]
           s == IF switched THEN NoConn ELSE slot[c]
<1>1. /\ task[c].pc = "await" /\ task[c] \in Forwarding /\ UNCHANGED <<port, sent, mishaps>>
      /\ mishaps' \in Int
      /\ task' = [task EXCEPT ![c].pc = pc, ![c].down = answer.body.units]
      /\ slot' = [slot EXCEPT ![c] = s]
  BY BusyTask DEF Response, ForwardInv, Typed
<1>2. answer.body.units \in Seq(Unit)
  <2>1. task[c].r \in Requests
    BY <1>1 DEF Forwarding
  <2>2. answer.body \in Body
    BY <2>1, ProxyAssumption
  <2> QED BY <2>2 DEF Body, Unit
<1>3. pc \in {"upgraded", "body"}
  OBVIOUS
<1>4. Continues(t, task[c]) /\ t.pc = pc
  <2> HIDE DEF pc, answer
  <2> QED BY <1>1, <1>2, <1>3 DEF Continues, Forwarding, BusyPc
<1>5. task' = [task EXCEPT ![c] = t]
  BY <1>1 DEF ForwardInv, Typed
<1>6. s \in Kept
  BY SameSlot DEF ForwardInv
<1> HIDE DEF t, s, pc
<1>7. Tries(t, sent[task[c].id].reached)
  BY <1>3, <1>4 DEF Tries
<1> QED BY <1>1, <1>3, <1>4, <1>5, <1>6, <1>7, QuietStep

\* A request that nobody will end is marked, and is otherwise as it was.
LEMMA CutForward ==
  ASSUME ForwardInv, NEW c \in Client, task[c].pc # "idle", Cut(c),
         task' = [task EXCEPT ![c] = Idle],
         UNCHANGED slot \/ slot' = [slot EXCEPT ![c] = NoConn],
         UNCHANGED port, mishaps' \in Int
  PROVE  ForwardInv'
<1> DEFINE id == task[c].id
           q == [sent[id] EXCEPT !.cut = TRUE]
<1>1. id \in Used /\ sent \in [Used -> Sent] /\ sent[id] \in Sent
  BY DEF ForwardInv, Own, Typed
<1>2. q \in Sent /\ q.r = sent[id].r /\ q.to = sent[id].to /\ q.reached = sent[id].reached
  BY <1>1 DEF Sent
<1>3. sent' = [sent EXCEPT ![id] = q]
  BY <1>1 DEF Cut
<1> HIDE DEF q
<1>4. /\ Used' = Used /\ sent' \in [Used -> Sent]
      /\ \A i \in Used : /\ sent'[i].r = sent[i].r /\ sent'[i].to = sent[i].to
                         /\ sent'[i].reached = sent[i].reached
  BY <1>1, <1>2, <1>3 DEF Used
<1>5. SafeRetries' /\ HopByHop'
  BY <1>4, SameDeliveries DEF ForwardInv
<1>6. /\ slot' \in [Client -> Kept] /\ port' \in [Node -> Int]
      /\ \A d \in Client : d # c => slot'[d].node = slot[d].node /\ slot'[d].port = slot[d].port
  BY SameSlot DEF ForwardInv, Typed
<1> QED BY <1>4, <1>5, <1>6, TaskStep

LEMMA EndingsForward ==
  ASSUME ForwardInv, NEW c \in Client, ResponseEnd(c) \/ RelayEnds(c) \/ ClientLeaves(c)
  PROVE  ForwardInv'
<1>1. mishaps' \in Int /\ UNCHANGED port
  BY DEF ResponseEnd, RelayEnds, ClientLeaves, Mishap, ForwardInv, Typed
<1>2. /\ task' = [task EXCEPT ![c] = Idle]
      /\ UNCHANGED slot \/ slot' = [slot EXCEPT ![c] = NoConn]
      /\ UNCHANGED sent \/ (task[c].pc # "idle" /\ Cut(c))
  BY DEF ResponseEnd, RelayEnds, ClientLeaves, EndOfBody
<1> QED BY <1>1, <1>2, EndsForward, CutForward

LEMMA ArriveForward ==
  ASSUME ForwardInv, NEW c \in Client, NEW r \in Requests, Arrive(c, r)
  PROVE  ForwardInv'
<1> DEFINE n == r.node
           to == backend_for(n)
           q == [r |-> r, to |-> to, reached |-> <<>>, cut |-> FALSE]
<1>1. PICK id \in Fresh :
        /\ sent' = [i \in Used \cup {id} |-> IF i \in Used THEN sent[i] ELSE q]
        /\ IF port[n] = 0 THEN not_found_response
           ELSE \E rec \in BOOLEAN :
                  task' = [task EXCEPT ![c] =
                        [pc |-> "forward", id |-> id, rec |-> rec, r |-> r,
                         to |-> to, reused |-> FALSE, upgrade |-> "upgrade" \in r.headers,
                         up |-> r.body.units, down |-> <<>>, tapped |-> FALSE]]
  <2>1. (n \in recording(store)) \in BOOLEAN
    OBVIOUS
  <2> QED BY <2>1 DEF Arrive
<1>2. task[c].pc = "idle" /\ UNCHANGED <<port, slot, mishaps>>
  BY DEF Arrive
<1>3. id \in Exchange /\ id \notin Used
  BY DEF Fresh
<1>4. r.node \in Node /\ r.headers \in SUBSET Header /\ r.body \in Body
  BY ProxyAssumption
<1>5. to \in Target /\ q \in Sent /\ q.r = r /\ q.to = to /\ q.reached = <<>>
  <2>1. to \in Target
    BY <1>4 DEF backend_for, Target, ForwardInv, Typed
  <2>2. <<>> \in Seq(Delivery)
    OBVIOUS
  <2> HIDE DEF to
  <2> QED BY <2>1, <2>2 DEF Sent
<1> HIDE DEF q, to
<1>6. /\ Used' = Used \cup {id} /\ sent' \in [Used' -> Sent] /\ sent'[id] = q
      /\ \A i \in Used : sent'[i] = sent[i]
      /\ Used' \subseteq Exchange
  BY <1>1, <1>3, <1>5 DEF ForwardInv, Typed, Used
<1>7. SafeRetries'
  <2>1. \A i \in Used' : LET p == sent'[i] IN
          /\ \A k \in DOMAIN p.reached : p.reached[k].node = p.to.node /\ p.reached[k].port = p.to.port
          /\ Len(p.reached) <= IF is_replayable(p.r) THEN 2 ELSE 1
    <3> TAKE i \in Used'
    <3>1. CASE i \in Used
      <4>1. sent'[i] = sent[i]
        BY <1>6, <3>1
      <4> QED BY <3>1, <4>1 DEF ForwardInv, SafeRetries
    <3>2. CASE i \notin Used
      <4>1. sent'[i].reached = <<>>
        BY <1>5, <1>6, <3>2
      <4>2. DOMAIN sent'[i].reached = {} /\ Len(sent'[i].reached) = 0
        BY <4>1
      <4> QED BY <4>2
    <3> QED BY <3>1, <3>2
  <2> QED BY <2>1 DEF SafeRetries
<1>8. HopByHop'
  <2>1. \A i \in Used' : i \in Used \/ DOMAIN sent'[i].reached = {}
    BY <1>5, <1>6
  <2> QED BY <1>6, <2>1 DEF ForwardInv, HopByHop
<1>9. CASE UNCHANGED task
  <2>1. Typed'
    BY <1>2, <1>6, <1>9 DEF ForwardInv, Typed
  <2>2. Own' /\ Aimed' /\ Counted'
    BY <1>2, <1>6, <1>9 DEF ForwardInv, Own, Aimed, Counted
  <2> QED BY <1>7, <1>8, <2>1, <2>2 DEF ForwardInv
<1>10. CASE ~UNCHANGED task
  <2>1. PICK rec \in BOOLEAN :
          task' = [task EXCEPT ![c] =
                        [pc |-> "forward", id |-> id, rec |-> rec, r |-> r,
                         to |-> to, reused |-> FALSE, upgrade |-> "upgrade" \in r.headers,
                         up |-> r.body.units, down |-> <<>>, tapped |-> FALSE]]
    BY <1>1, <1>10 DEF not_found_response
  <2> DEFINE up == "upgrade" \in r.headers
             t == [pc |-> "forward", id |-> id, rec |-> rec, r |-> r,
                   to |-> to, reused |-> FALSE, upgrade |-> up,
                   up |-> r.body.units, down |-> <<>>, tapped |-> FALSE]
  <2>2. r.body.units \in Seq(Unit) /\ <<>> \in Seq(Unit) /\ up \in BOOLEAN
    BY <1>4 DEF Body, Unit
  <2> HIDE DEF up
  <2>3. t \in Forwarding
    BY <1>3, <1>5, <2>2 DEF Forwarding, BusyPc
  <2>4. /\ t.pc = "forward" /\ t.id = id /\ t.r = r /\ t.to = to /\ t.upgrade = ("upgrade" \in r.headers)
    BY DEF up
  <2>5. task' = [task EXCEPT ![c] = t]
    BY <2>1 DEF up
  <2> HIDE DEF t
  <2>6. /\ task' \in [Client -> {Idle} \cup Forwarding] /\ task'[c] = t
        /\ \A d \in Client : d # c => task'[d] = task[d]
    BY <2>3, <2>5 DEF ForwardInv, Typed
  <2>7. Typed'
    BY <1>2, <1>6, <2>6 DEF ForwardInv, Typed
  <2>8. \A d \in Client : d # c /\ task'[d].pc # "idle" =>
          /\ task'[d].id \in Used /\ task'[d].id # id /\ sent'[task'[d].id] = sent[task[d].id]
    BY <1>3, <1>6, <2>6 DEF ForwardInv, Own
  <2>9. Own'
    <3>1. ASSUME NEW d \in Client, task'[d].pc # "idle"
          PROVE  /\ task'[d].id \in Used'
                 /\ sent'[task'[d].id].r = task'[d].r /\ sent'[task'[d].id].to = task'[d].to
                 /\ task'[d].upgrade = ("upgrade" \in task'[d].r.headers)
      <4>1. CASE d = c
        BY <1>5, <1>6, <2>4, <2>6, <4>1
      <4>2. CASE d # c
        BY <1>6, <2>6, <2>8, <3>1, <4>2 DEF ForwardInv, Own
      <4> QED BY <4>1, <4>2
    <3>2. ASSUME NEW d \in Client, NEW e \in Client,
                 task'[d].pc # "idle", task'[e].pc # "idle", task'[d].id = task'[e].id
          PROVE  d = e
      BY <2>4, <2>6, <2>8, <3>2 DEF ForwardInv, Own
    <3> QED BY <3>1, <3>2 DEF Own
  <2>10. Aimed'
    BY <1>2, <2>4, <2>6 DEF ForwardInv, Aimed
  <2>11. Counted'
    <3> SUFFICES ASSUME NEW d \in Client, task'[d].pc # "idle"
                 PROVE  Tries(task'[d], sent'[task'[d].id].reached)
      BY DEF Counted
    <3>1. CASE d = c
      <4>1. sent'[task'[d].id].reached = <<>> /\ task'[d].pc = "forward"
        BY <1>5, <1>6, <2>4, <2>6, <3>1
      <4> QED BY <4>1 DEF Tries
    <3>2. CASE d # c
      BY <2>6, <2>8, <3>2 DEF ForwardInv, Counted
    <3> QED BY <3>1, <3>2
  <2> QED BY <1>7, <1>8, <2>7, <2>9, <2>10, <2>11 DEF ForwardInv
<1> QED BY <1>9, <1>10

\* Around the requests only connections die and nodes move.
LEMMA AroundForward ==
  ASSUME ForwardInv, UNCHANGED <<task, sent>>, mishaps' \in Int, port' \in [Node -> Int],
         slot' \in [Client -> Kept],
         \A c \in Client : slot'[c].node = slot[c].node /\ slot'[c].port = slot[c].port
  PROVE  ForwardInv'
<1>1. Used' = Used
  BY DEF Used
<1>2. Typed' /\ Own' /\ Aimed' /\ Counted'
  BY <1>1 DEF ForwardInv, Typed, Own, Aimed, Counted
<1>3. SafeRetries' /\ HopByHop'
  BY <1>1, SameDeliveries DEF ForwardInv
<1> QED BY <1>2, <1>3 DEF ForwardInv

LEMMA StepForward ==
  ASSUME ForwardInv, [Next]_vars
  PROVE  ForwardInv'
<1>0. /\ slot \in [Client -> Kept] /\ port \in [Node -> Int] /\ mishaps \in Int
  BY DEF ForwardInv, Typed
<1>1. CASE UNCHANGED vars
  BY <1>0, <1>1, AroundForward DEF vars
<1>2. ASSUME NEW c \in Client, Step(c)
      PROVE  ForwardInv'
  BY <1>2, TakeSlotForward, ConnectForward, SendForward, SendFailsForward, ResendForward,
     BodiesForward, ResponseForward, EndingsForward DEF Step
<1>3. ASSUME NEW c \in Client, BackendHangsUp(c)
      PROVE  ForwardInv'
  <2>1. slot[c] \in Kept /\ slot' = [slot EXCEPT ![c] = [slot[c] EXCEPT !.alive = FALSE]]
    BY <1>0, <1>3 DEF BackendHangsUp
  <2>2. [slot[c] EXCEPT !.alive = FALSE] \in Kept
    BY <2>1 DEF Kept
  <2>3. /\ slot' \in [Client -> Kept]
        /\ \A d \in Client : slot'[d].node = slot[d].node /\ slot'[d].port = slot[d].port
    BY <1>0, <2>1, <2>2 DEF Kept
  <2> QED BY <1>0, <1>3, <2>3, AroundForward DEF BackendHangsUp, Mishap
<1>4. ASSUME NEW n \in Node, Recreate(n)
      PROVE  ForwardInv'
  <2> DEFINE down(c) == IF slot[c].node = n THEN [slot[c] EXCEPT !.alive = FALSE] ELSE slot[c]
  <2>1. \A c \in Client : down(c) \in Kept /\ down(c).node = slot[c].node /\ down(c).port = slot[c].port
    BY <1>0 DEF Kept
  <2>2. slot' = [c \in Client |-> down(c)]
    BY <1>4 DEF Recreate
  <2> HIDE DEF down
  <2>3. /\ slot' \in [Client -> Kept]
        /\ \A c \in Client : slot'[c].node = slot[c].node /\ slot'[c].port = slot[c].port
    BY <2>1, <2>2
  <2>4. PICK p \in {0, MaxMishaps - mishaps + 2} : port' = [port EXCEPT ![n] = p]
    BY <1>4 DEF Recreate
  <2>5. p \in Int
    BY <1>0, ProxyAssumption
  <2>6. port' \in [Node -> Int]
    BY <1>0, <2>4, <2>5
  <2> QED BY <1>0, <1>4, <2>3, <2>6, AroundForward DEF Recreate, Mishap
<1>5. ASSUME NEW n \in Node, Clear(n) \/ \E m \in SwitchTo : Switch(n, m)
      PROVE  ForwardInv'
  BY <1>0, <1>5, AroundForward DEF Clear, Switch, Mishap
<1>6. ASSUME NEW id \in Exchange, Account(id)
      PROVE  ForwardInv'
  BY <1>0, <1>6, AroundForward DEF Account
<1> QED BY <1>1, <1>2, <1>3, <1>4, <1>5, <1>6, EndingsForward, ArriveForward DEF Next

\* proxy.rs, forward: whatever connections die under it and wherever its node moves, a
\* request is written only to the backend it was routed to, a second time only when it may be
\* repeated and never a third, and always as the client's request without what was about the
\* client's own connection.
THEOREM ForwardingIsRight == Spec => []ForwardedRight
<1>1. Init => ForwardInv
  BY InitForward
<1>2. ForwardInv /\ [Next]_vars => ForwardInv'
  BY StepForward
<1>3. ForwardInv => ForwardedRight
  BY DEF ForwardInv, ForwardedRight
<1> QED BY <1>1, <1>2, <1>3, PTL DEF Spec
----------------------------------------------------------------------------
(* Recording: the invariant.                                               *)

Side == {"request", "response"}
Unfinished == {"pending", "streaming", "open"}
Capture == [keep : Keep, ctype : ContentType, data : Seq(Unit), size : Nat,
            truncated : BOOLEAN, state : BodyState, parts : Seq({<<>>, <<"t">>})]

\* An exchange's data; accounted is a sum over its parts and stays without a type.
Data(A) == [node : Node, mode : BodyMode, started : {0}, remote : Exchange, headers : {1, 2},
            status : {"none", "ok", "switching", "bad_gateway"}, upgraded : BOOLEAN,
            duration : BOOLEAN, request : Capture, response : Capture,
            accounted : A, in_ring : BOOLEAN]

\* What KeptAsAsked needs of a side at any time: nothing is kept beyond the cap or in mode
\* "none", what is missing has been cut, and in "text" a body is kept for its type or,
\* once it was looked at, for its content.
KeptRight(c, mode) ==
  /\ Len(c.data) <= BODY_CAP
  /\ c.keep \notin Dropping /\ c.ctype # "multipart" /\ Len(c.data) < c.size => c.truncated
  /\ mode = "none" => c.keep \in Dropping /\ c.data = <<>> /\ c.parts = <<>>
  /\ mode = "text" => /\ c.keep = "full" => c.ctype \in {"text", "multipart"}
                      /\ c.keep = "sniff" /\ c.state \notin {"pending", "streaming"} =>
                           looks_like_text(c.data)

DataRight(d) ==
  /\ d \in Data({d.accounted})
  /\ KeptRight(d.request, d.mode) /\ KeptRight(d.response, d.mode)

\* How far the recording of a task's request is.
Stage(t, d) ==
  /\ t.pc = "body" => d.status = "ok" /\ ~d.upgraded
  /\ t.pc = "upgraded" => d.status = "switching" /\ d.upgraded

\* A task that still adds to a body without owing the ring anything for it.
Drifts(t) == t.pc = "body" \/ (t.pc = "await" /\ t.tapped)
InLine(d, due) == d.in_ring /\ due = 0 => d.accounted = weight(d)

StoreFields == {"mode", "ring", "bytes", "total", "cleared_at", "ex"}
Recording ==
  /\ DOMAIN store = StoreFields /\ store.mode \in [Node -> BodyMode \cup {Off}]
  /\ DOMAIN store.ex \subseteq Used
  /\ \A i \in DOMAIN store.ex : DataRight(store.ex[i])
  /\ owed \in [Exchange -> Nat] /\ \A i \in Exchange : owed[i] > 0 => i \in DOMAIN store.ex

\* While a task is at a request, its recording is as far as the task is; afterwards it has
\* ended, or been cut.
Followed ==
  \A c \in Client : task[c].pc # "idle" =>
    /\ task[c].rec <=> task[c].id \in DOMAIN store.ex
    /\ task[c].rec => /\ Stage(task[c], store.ex[task[c].id])
                      /\ Drifts(task[c]) \/ InLine(store.ex[task[c].id], owed[task[c].id])
Left(i) == \A c \in Client : task[c].pc # "idle" => task[c].id # i
Ended ==
  \A i \in DOMAIN store.ex : Left(i) =>
    /\ state_of(store.ex[i]) \in Unfinished => sent[i].cut
    /\ InLine(store.ex[i], owed[i])

RecordInv == Recording /\ Followed /\ Ended

----------------------------------------------------------------------------
(* One side of an exchange.                                                *)

LEMMA CapturedRight ==
  ASSUME NEW mode \in BodyMode, NEW ctype \in ContentType
  PROVE  /\ Captured(mode, ctype) \in Capture /\ KeptRight(Captured(mode, ctype), mode)
         /\ Captured(mode, ctype).data = <<>> /\ Captured(mode, ctype).parts = <<>>
<1> DEFINE k == classify(mode, ctype)
           c == Captured(mode, ctype)
<1>1. /\ k \in Keep /\ (mode = "none" => k \in Dropping)
      /\ mode = "text" /\ k = "full" => ctype \in {"text", "multipart"}
  <2>1. CASE mode = "none"
    BY <2>1 DEF classify, Keep, Dropping
  <2>2. CASE mode = "all"
    BY <2>2 DEF classify, Keep
  <2>3. CASE mode = "text" /\ ctype \in {"text", "multipart"}
    BY <2>3 DEF classify, Keep
  <2>4. CASE mode = "text" /\ ctype = "binary"
    BY <2>4 DEF classify, Keep
  <2>5. CASE mode = "text" /\ ctype = "unknown"
    <3>1. k = "sniff"
      BY <2>5 DEF classify
    <3> QED BY <2>5, <3>1 DEF Keep
  <2> QED BY <2>1, <2>2, <2>3, <2>4, <2>5 DEF BodyMode, ContentType
<1>2. /\ <<>> \in Seq(Unit) /\ <<>> \in Seq({<<>>, <<"t">>}) /\ Len(<<>>) = 0 /\ 0 \in Nat
      /\ "pending" \in BodyState
  BY DEF BodyState
<1>3. /\ c.keep = k /\ c.ctype = ctype /\ c.data = <<>> /\ c.size = 0
      /\ c.state = "pending" /\ c.parts = <<>>
  BY DEF Captured
<1>4. c \in Capture
  <2> HIDE DEF k
  <2>1. c = [keep |-> k, ctype |-> ctype, data |-> <<>>, size |-> 0,
             truncated |-> FALSE, state |-> "pending", parts |-> <<>>]
    BY DEF Captured, k
  <2> QED BY <1>1, <1>2, <2>1 DEF Capture
<1>5. 0 <= BODY_CAP
  BY TrafficAssumption
<1> HIDE DEF k, c
<1>6. KeptRight(c, mode)
  BY <1>1, <1>2, <1>3, <1>5 DEF KeptRight
<1> QED BY <1>3, <1>4, <1>6 DEF c

\* What a captured body is before its answer, in any mode.
LEMMA UnansweredRight ==
  ASSUME NEW mode \in BodyMode
  PROVE  /\ Captured("none", "unknown") \in Capture /\ KeptRight(Captured("none", "unknown"), mode)
         /\ Captured("none", "unknown").data = <<>> /\ Captured("none", "unknown").parts = <<>>
<1> DEFINE c == Captured("none", "unknown")
<1>1. "none" \in BodyMode /\ "unknown" \in ContentType
  BY DEF BodyMode, ContentType
<1>2. c \in Capture /\ KeptRight(c, "none") /\ c.data = <<>> /\ c.parts = <<>>
  BY <1>1, CapturedRight
<1> HIDE DEF c
<1>3. KeptRight(c, mode)
  BY <1>2 DEF KeptRight, Dropping
<1> QED BY <1>2, <1>3 DEF c

LEMMA PushRight ==
  ASSUME NEW mode \in BodyMode, NEW c \in Capture, KeptRight(c, mode), NEW unit \in Unit
  PROVE  CapturedPush(c, unit) \in Capture /\ KeptRight(CapturedPush(c, unit), mode)
<1> DEFINE p == CapturedPush(c, unit)
           seen == [c EXCEPT !.state = "streaming", !.size = @ + 1]
           room == BODY_CAP - Len(c.data)
           kept == [seen EXCEPT !.truncated = @ \/ room < 1,
                                !.data = IF room < 1 THEN @ ELSE Append(@, unit)]
<1>1. /\ c.data \in Seq(Unit) /\ Len(c.data) \in Nat /\ c.size \in Nat /\ c.truncated \in BOOLEAN
      /\ BODY_CAP \in Nat
  BY TrafficAssumption DEF Capture
<1>2. /\ seen \in Capture /\ seen.state = "streaming" /\ seen.size = c.size + 1
      /\ seen.keep = c.keep /\ seen.ctype = c.ctype /\ seen.data = c.data
      /\ seen.parts = c.parts /\ seen.truncated = c.truncated
  <2> DEFINE n == c.size + 1
             s == [c EXCEPT !.state = "streaming", !.size = n]
  <2>1. n \in Nat /\ "streaming" \in BodyState
    BY <1>1 DEF BodyState
  <2>2. seen = s
    OBVIOUS
  <2>3. /\ s \in Capture /\ s.state = "streaming" /\ s.size = n
        /\ s.keep = c.keep /\ s.ctype = c.ctype /\ s.data = c.data
        /\ s.parts = c.parts /\ s.truncated = c.truncated
    <3> HIDE DEF n
    <3> QED BY <2>1 DEF Capture
  <2> QED BY <2>2, <2>3
<1>3. p = IF c.keep \in Dropping THEN seen ELSE kept
  BY DEF CapturedPush
<1>4. CASE c.keep \in Dropping
  <2>1. p = seen
    BY <1>3, <1>4
  <2> HIDE DEF p, seen
  <2>2. KeptRight(p, mode)
    BY <1>2, <1>4, <2>1 DEF KeptRight, Dropping
  <2> QED BY <1>2, <2>1, <2>2 DEF p
<1>5. CASE c.keep \notin Dropping /\ room < 1
  <2> HIDE DEF seen
  <2>1. kept = [seen EXCEPT !.truncated = TRUE, !.data = c.data]
    BY <1>2, <1>5
  <2>2. /\ kept \in Capture /\ kept.truncated = TRUE /\ kept.data = c.data /\ kept.state = "streaming"
        /\ kept.keep = c.keep /\ kept.ctype = c.ctype /\ kept.parts = c.parts
    <3> DEFINE k == [seen EXCEPT !.truncated = TRUE, !.data = c.data]
    <3>1. /\ k \in Capture /\ k.truncated = TRUE /\ k.data = c.data /\ k.state = "streaming"
          /\ k.keep = c.keep /\ k.ctype = c.ctype /\ k.parts = c.parts
      BY <1>1, <1>2 DEF Capture
    <3> QED BY <2>1, <3>1
  <2>3. p = kept
    BY <1>3, <1>5
  <2> HIDE DEF p, kept
  <2>4. KeptRight(p, mode)
    BY <1>5, <2>2, <2>3 DEF KeptRight
  <2> QED BY <2>2, <2>3, <2>4 DEF p
<1>6. CASE c.keep \notin Dropping /\ ~(room < 1)
  <2> DEFINE more == Append(c.data, unit)
  <2>1. more \in Seq(Unit) /\ Len(more) = Len(c.data) + 1
    BY <1>1
  <2> HIDE DEF seen
  <2>2. kept = [seen EXCEPT !.truncated = c.truncated, !.data = more]
    BY <1>1, <1>2, <1>6
  <2> HIDE DEF more
  <2>3. /\ kept \in Capture /\ kept.truncated = c.truncated /\ kept.data = more
        /\ kept.state = "streaming" /\ kept.size = c.size + 1
        /\ kept.keep = c.keep /\ kept.ctype = c.ctype /\ kept.parts = c.parts
    <3> DEFINE k == [seen EXCEPT !.truncated = c.truncated, !.data = more]
    <3>1. /\ k \in Capture /\ k.truncated = c.truncated /\ k.data = more
          /\ k.state = "streaming" /\ k.size = c.size + 1
          /\ k.keep = c.keep /\ k.ctype = c.ctype /\ k.parts = c.parts
      BY <1>1, <1>2, <2>1 DEF Capture
    <3> QED BY <2>2, <3>1
  <2>4. p = kept
    BY <1>3, <1>6
  <2> HIDE DEF p, kept
  <2>5. mode # "none"
    BY <1>6 DEF KeptRight
  <2>7. Len(p.data) = Len(c.data) + 1 /\ p.size = c.size + 1 /\ p.truncated = c.truncated
    BY <2>1, <2>3, <2>4
  <2>8. Len(p.data) <= BODY_CAP
    BY <1>1, <1>6, <2>7
  <2>9. Len(p.data) < p.size => Len(c.data) < c.size
    BY <1>1, <2>7
  <2>6. KeptRight(p, mode)
    BY <1>6, <2>3, <2>4, <2>5, <2>7, <2>8, <2>9 DEF KeptRight
  <2> QED BY <2>3, <2>4, <2>6 DEF p
<1> QED BY <1>4, <1>5, <1>6

LEMMA FinishRight ==
  ASSUME NEW mode \in BodyMode, NEW c \in Capture, KeptRight(c, mode),
         NEW state \in {"done", "aborted", "error"}
  PROVE  /\ CapturedFinish(c, state, mode) \in Capture
         /\ KeptRight(CapturedFinish(c, state, mode), mode)
         /\ CapturedFinish(c, state, mode).state = state
<1> DEFINE f == CapturedFinish(c, state, mode)
           bin == c.keep = "sniff" /\ ~looks_like_text(c.data)
           sniffed == IF bin THEN [c EXCEPT !.keep = "binary", !.data = <<>>] ELSE c
           form == mode = "text" /\ c.ctype = "multipart"
           parts == IF form THEN parse_multipart(sniffed.data, FALSE) ELSE <<>>
           data == IF parts = <<>> THEN sniffed.data ELSE <<>>
<1>1. /\ <<>> \in Seq(Unit) /\ <<>> \in Seq({<<>>, <<"t">>}) /\ Len(<<>>) = 0
      /\ state \in BodyState /\ "binary" \in Keep /\ BODY_CAP \in Nat
  BY TrafficAssumption DEF BodyState, Keep
<1>2. /\ sniffed \in Capture /\ sniffed.ctype = c.ctype /\ sniffed.size = c.size
      /\ sniffed.truncated = c.truncated
      /\ IF bin THEN sniffed.keep = "binary" /\ sniffed.data = <<>>
                ELSE sniffed.keep = c.keep /\ sniffed.data = c.data
  <2>1. CASE bin
    <3> DEFINE b == [c EXCEPT !.keep = "binary", !.data = <<>>]
    <3>1. /\ b \in Capture /\ b.ctype = c.ctype /\ b.size = c.size /\ b.truncated = c.truncated
          /\ b.keep = "binary" /\ b.data = <<>>
      BY <1>1 DEF Capture
    <3> QED BY <2>1, <3>1
  <2>2. CASE ~bin
    BY <2>2
  <2> QED BY <2>1, <2>2
<1>3. f = [sniffed EXCEPT !.state = state, !.parts = parts, !.data = data]
  BY DEF CapturedFinish
<1> HIDE DEF sniffed
<1>4. parts \in Seq({<<>>, <<"t">>})
  <2> DEFINE e(i) == IF sniffed.data[i] = "t" \/ (FALSE /\ sniffed.data[i] = "f")
                     THEN <<sniffed.data[i]>> ELSE <<>>
             n == Len(sniffed.data)
  <2>1. n \in Nat /\ DOMAIN sniffed.data = 1..n
    BY <1>2 DEF Capture
  <2>2. parse_multipart(sniffed.data, FALSE) = [i \in DOMAIN sniffed.data |-> e(i)]
    BY DEF parse_multipart
  <2>3. \A i : e(i) \in {<<>>, <<"t">>}
    OBVIOUS
  <2> HIDE DEF e, n
  <2>4. parse_multipart(sniffed.data, FALSE) \in [1..n -> {<<>>, <<"t">>}]
    BY <2>1, <2>2, <2>3
  <2>5. parse_multipart(sniffed.data, FALSE) \in Seq({<<>>, <<"t">>})
    <3> DEFINE g == parse_multipart(sniffed.data, FALSE)
               P == {<<>>, <<"t">>}
    <3>1. g \in [1..n -> P]
      BY <2>4
    <3> HIDE DEF g, P
    <3>2. g \in Seq(P)
      BY <2>1, <3>1
    <3> QED BY <3>2 DEF g, P
  <2> QED BY <1>1, <2>5
<1>5. /\ data \in Seq(Unit) /\ data \in {<<>>, sniffed.data}
      /\ ~form => data = sniffed.data /\ parts = <<>>
  <2>1. sniffed.data \in Seq(Unit)
    BY <1>2 DEF Capture
  <2> QED BY <1>1, <2>1
<1> HIDE DEF parts, data
<1>6. /\ f \in Capture /\ f.state = state /\ f.parts = parts /\ f.data = data
      /\ f.keep = sniffed.keep /\ f.ctype = sniffed.ctype /\ f.size = sniffed.size
      /\ f.truncated = sniffed.truncated
  <2> DEFINE g == [sniffed EXCEPT !.state = state, !.parts = parts, !.data = data]
  <2>1. /\ g \in Capture /\ g.state = state /\ g.parts = parts /\ g.data = data
        /\ g.keep = sniffed.keep /\ g.ctype = sniffed.ctype /\ g.size = sniffed.size
        /\ g.truncated = sniffed.truncated
    BY <1>1, <1>2, <1>4, <1>5 DEF Capture
  <2> QED BY <1>3, <2>1
<1> HIDE DEF f
<1>7. Len(f.data) <= BODY_CAP
  BY <1>1, <1>2, <1>5, <1>6 DEF KeptRight
<1>8. f.keep \notin Dropping /\ f.ctype # "multipart" => f.data = c.data /\ f.keep = c.keep
  <2> SUFFICES ASSUME f.keep \notin Dropping, f.ctype # "multipart"
               PROVE  f.data = c.data /\ f.keep = c.keep
    OBVIOUS
  <2>1. ~bin
    BY <1>2, <1>6 DEF Dropping
  <2> QED BY <1>2, <1>5, <1>6, <2>1
<1>9. mode = "none" => f.keep \in Dropping /\ f.data = <<>> /\ f.parts = <<>>
  BY <1>2, <1>5, <1>6 DEF KeptRight, Dropping
<1>10. mode = "text" /\ f.keep = "full" => f.ctype \in {"text", "multipart"}
  BY <1>2, <1>6 DEF KeptRight
<1>11. f.keep = "sniff" => looks_like_text(f.data)
  <2> SUFFICES ASSUME f.keep = "sniff" PROVE looks_like_text(f.data)
    OBVIOUS
  <2>1. ~bin /\ c.keep = "sniff" /\ looks_like_text(c.data) /\ sniffed.data = c.data
    BY <1>2, <1>6
  <2>2. looks_like_text(<<>>)
    BY DEF looks_like_text, ToSet
  <2> QED BY <1>5, <1>6, <2>1, <2>2
<1>12. KeptRight(f, mode)
  BY <1>2, <1>6, <1>7, <1>8, <1>9, <1>10, <1>11 DEF KeptRight
<1> QED BY <1>6, <1>12 DEF f

----------------------------------------------------------------------------
(* One exchange.                                                           *)

\* A field of an exchange is replaced.
LEMMA WithRequest ==
  ASSUME NEW A, NEW d \in Data(A), NEW v \in Capture
  PROVE  [d EXCEPT !["request"] = v] \in Data(A)
  BY DEF Data

LEMMA WithResponse ==
  ASSUME NEW A, NEW d \in Data(A), NEW v \in Capture
  PROVE  [d EXCEPT !["response"] = v] \in Data(A)
  BY DEF Data

LEMMA WithResponseField ==
  ASSUME NEW A, NEW d \in Data(A), NEW v \in Capture
  PROVE  [d EXCEPT !.response = v] \in Data(A)
  BY DEF Data

LEMMA WithDuration ==
  ASSUME NEW A, NEW d \in Data(A), NEW v \in BOOLEAN
  PROVE  [d EXCEPT !.duration = v] \in Data(A)
  BY DEF Data

LEMMA WithUpgraded ==
  ASSUME NEW A, NEW d \in Data(A), NEW v \in BOOLEAN
  PROVE  [d EXCEPT !.upgraded = v] \in Data(A)
  BY DEF Data

LEMMA WithHeaders ==
  ASSUME NEW A, NEW d \in Data(A), NEW v \in {1, 2}
  PROVE  [d EXCEPT !.headers = v] \in Data(A)
  BY DEF Data

LEMMA WithStatus ==
  ASSUME NEW A, NEW d \in Data(A), NEW v \in {"none", "ok", "switching", "bad_gateway"}
  PROVE  [d EXCEPT !.status = v] \in Data(A)
  BY DEF Data

LEMMA WithInRing ==
  ASSUME NEW A, NEW d \in Data(A), NEW v \in BOOLEAN
  PROVE  [d EXCEPT !.in_ring = v] \in Data(A)
  BY DEF Data

LEMMA WithAccounted ==
  ASSUME NEW A, NEW d \in Data(A), NEW v
  PROVE  [d EXCEPT !.accounted = v] \in Data({v})
  BY DEF Data

LEMMA DataFields ==
  ASSUME NEW d, DataRight(d)
  PROVE  /\ d \in Data({d.accounted}) /\ d.mode \in BodyMode /\ d.duration \in BOOLEAN
         /\ d.upgraded \in BOOLEAN /\ d.in_ring \in BOOLEAN
         /\ d.request \in Capture /\ d.response \in Capture
         /\ KeptRight(d.request, d.mode) /\ KeptRight(d.response, d.mode)
  BY DEF DataRight, Data

\* What a recording keeps of an exchange's place in the ring and of what it was when it began.
SameEntry(e, d) ==
  e.accounted = d.accounted /\ e.in_ring = d.in_ring /\ e.mode = d.mode

LEMMA StillRight ==
  ASSUME NEW d, DataRight(d), NEW e \in Data({d.accounted}), SameEntry(e, d),
         KeptRight(e.request, d.mode), KeptRight(e.response, d.mode)
  PROVE  DataRight(e)
<1>1. {e.accounted} = {d.accounted} /\ e.mode = d.mode
  BY DEF SameEntry
<1> QED BY <1>1 DEF DataRight

LEMMA ChunkRight ==
  ASSUME NEW d, DataRight(d), NEW side \in Side, NEW unit \in Unit
  PROVE  LET e == RecordChunk(d, side, unit) IN
         /\ DataRight(e) /\ SameEntry(e, d)
         /\ e.status = d.status /\ e.upgraded = d.upgraded /\ e.duration = d.duration
<1> DEFINE A == {d.accounted}
<1>1. d \in Data(A)
  BY DataFields
<1> HIDE DEF A
<1>2. CASE side = "request"
  <2> DEFINE c == CapturedPush(d.request, unit)
             e == [d EXCEPT !["request"] = c]
  <2>1. RecordChunk(d, side, unit) = e
    BY <1>2 DEF RecordChunk
  <2>2. c \in Capture /\ KeptRight(c, d.mode)
    BY DataFields, PushRight
  <2> HIDE DEF c
  <2>3. e \in Data(A)
    BY <1>1, <2>2, WithRequest
  <2>4. /\ e.accounted = d.accounted /\ e.in_ring = d.in_ring /\ e.mode = d.mode
        /\ e.status = d.status /\ e.upgraded = d.upgraded /\ e.duration = d.duration
        /\ e.request = c /\ e.response = d.response
    BY <1>1 DEF Data
  <2> HIDE DEF e
  <2>5. DataRight(e) /\ SameEntry(e, d)
    BY <2>2, <2>3, <2>4, DataFields, StillRight DEF SameEntry, A
  <2> QED BY <2>1, <2>4, <2>5
<1>3. CASE side = "response"
  <2> DEFINE c == CapturedPush(d.response, unit)
             e == [d EXCEPT !["response"] = c]
  <2>1. RecordChunk(d, side, unit) = e
    BY <1>3 DEF RecordChunk
  <2>2. c \in Capture /\ KeptRight(c, d.mode)
    BY DataFields, PushRight
  <2> HIDE DEF c
  <2>3. e \in Data(A)
    BY <1>1, <2>2, WithResponse
  <2>4. /\ e.accounted = d.accounted /\ e.in_ring = d.in_ring /\ e.mode = d.mode
        /\ e.status = d.status /\ e.upgraded = d.upgraded /\ e.duration = d.duration
        /\ e.request = d.request /\ e.response = c
    BY <1>1 DEF Data
  <2> HIDE DEF e
  <2>5. DataRight(e) /\ SameEntry(e, d)
    BY <2>2, <2>3, <2>4, DataFields, StillRight DEF SameEntry, A
  <2> QED BY <2>1, <2>4, <2>5
<1> QED BY <1>2, <1>3 DEF Side

LEMMA FinishedRight ==
  ASSUME NEW d, DataRight(d), NEW side \in Side, NEW state \in {"done", "aborted", "error"}
  PROVE  LET e == RecordFinish(d, side, state) IN
         /\ DataRight(e) /\ SameEntry(e, d)
         /\ e.status = d.status /\ e.upgraded = d.upgraded
         /\ side = "response" => e.response.state = state
         /\ side = "request" => e.response = d.response
<1> DEFINE A == {d.accounted}
           dur == d.duration \/ side = "response"
<1>1. d \in Data(A)
  BY DataFields
<1>2. dur \in BOOLEAN
  BY DataFields
<1> HIDE DEF A, dur
<1>3. CASE side = "request"
  <2> DEFINE c == CapturedFinish(d.request, state, d.mode)
             f == [d EXCEPT !["request"] = c]
             e == [f EXCEPT !.duration = dur]
  <2>1. f.duration = d.duration
    BY <1>1 DEF Data
  <2>2. RecordFinish(d, side, state) = e
    <3> DEFINE g == [d EXCEPT !["request"] = c, !.duration = dur]
    <3>1. RecordFinish(d, side, state) = g
      BY <1>3 DEF RecordFinish, dur
    <3> HIDE DEF c
    <3>2. g = e
      OBVIOUS
    <3> HIDE DEF g, e
    <3> QED BY <3>1, <3>2
  <2>3. c \in Capture /\ KeptRight(c, d.mode)
    BY DataFields, FinishRight
  <2> HIDE DEF c
  <2>4. f \in Data(A)
    BY <1>1, <2>3, WithRequest
  <2>5. /\ e.accounted = d.accounted /\ e.in_ring = d.in_ring /\ e.mode = d.mode
        /\ e.status = d.status /\ e.upgraded = d.upgraded
        /\ e.request = c /\ e.response = d.response
    BY <1>1 DEF Data
  <2>6. e \in Data(A)
    <3> HIDE DEF f
    <3> QED BY <1>2, <2>4, WithDuration
  <2> HIDE DEF e
  <2>7. DataRight(e) /\ SameEntry(e, d)
    BY <2>3, <2>5, <2>6, DataFields, StillRight DEF SameEntry, A
  <2> QED BY <1>3, <2>2, <2>5, <2>7
<1>4. CASE side = "response"
  <2> DEFINE c == CapturedFinish(d.response, state, d.mode)
             f == [d EXCEPT !["response"] = c]
             e == [f EXCEPT !.duration = dur]
  <2>1. f.duration = d.duration
    BY <1>1 DEF Data
  <2>2. RecordFinish(d, side, state) = e
    <3> DEFINE g == [d EXCEPT !["response"] = c, !.duration = dur]
    <3>1. RecordFinish(d, side, state) = g
      BY <1>4 DEF RecordFinish, dur
    <3> HIDE DEF c
    <3>2. g = e
      OBVIOUS
    <3> HIDE DEF g, e
    <3> QED BY <3>1, <3>2
  <2>3. c \in Capture /\ KeptRight(c, d.mode) /\ c.state = state
    BY DataFields, FinishRight
  <2> HIDE DEF c
  <2>4. f \in Data(A)
    BY <1>1, <2>3, WithResponse
  <2>5. /\ e.accounted = d.accounted /\ e.in_ring = d.in_ring /\ e.mode = d.mode
        /\ e.status = d.status /\ e.upgraded = d.upgraded
        /\ e.request = d.request /\ e.response = c
    BY <1>1 DEF Data
  <2>6. e \in Data(A)
    <3> HIDE DEF f
    <3> QED BY <1>2, <2>4, WithDuration
  <2> HIDE DEF e
  <2>7. DataRight(e) /\ SameEntry(e, d)
    BY <2>3, <2>5, <2>6, DataFields, StillRight DEF SameEntry, A
  <2> QED BY <1>4, <2>2, <2>3, <2>5, <2>7
<1> QED BY <1>3, <1>4 DEF Side

LEMMA AnsweredRight ==
  ASSUME NEW d, DataRight(d), NEW ctype \in ContentType, NEW up \in BOOLEAN
  PROVE  LET e == RecordResponse(d, ctype, up) IN
         /\ DataRight(e) /\ SameEntry(e, d)
         /\ e.status = (IF up THEN "switching" ELSE "ok") /\ e.upgraded = up
<1> DEFINE A == {d.accounted}
           st == IF up THEN "switching" ELSE "ok"
           c == Captured(d.mode, ctype)
           e == [d EXCEPT !.status = st, !.headers = 2, !.response = c, !.upgraded = up]
           e1 == [d EXCEPT !.status = st]
           e2 == [e1 EXCEPT !.headers = 2]
           e3 == [e2 EXCEPT !.response = c]
           e4 == [e3 EXCEPT !.upgraded = up]
<1>1. d \in Data(A)
  BY DataFields
<1>2. c \in Capture /\ KeptRight(c, d.mode)
  BY DataFields, CapturedRight
<1>3. st \in {"none", "ok", "switching", "bad_gateway"}
  OBVIOUS
<1>4. RecordResponse(d, ctype, up) = e
  BY DEF RecordResponse
<1> HIDE DEF A, st, c
<1>5. e = e4
  OBVIOUS
<1>6. e1 \in Data(A)
  BY <1>1, <1>3, WithStatus
<1>7. e2 \in Data(A)
  <2> HIDE DEF e1
  <2> QED BY <1>6, WithHeaders
<1>8. e3 \in Data(A)
  <2> HIDE DEF e2
  <2> QED BY <1>2, <1>7, WithResponseField
<1>9. e4 \in Data(A)
  <2> HIDE DEF e3
  <2> QED BY <1>8, WithUpgraded
<1>10. /\ e.accounted = d.accounted /\ e.in_ring = d.in_ring /\ e.mode = d.mode
       /\ e.status = st /\ e.upgraded = up /\ e.request = d.request /\ e.response = c
  BY <1>1 DEF Data
<1> HIDE DEF e, e4
<1>11. DataRight(e) /\ SameEntry(e, d)
  BY <1>2, <1>5, <1>9, <1>10, DataFields, StillRight DEF SameEntry, A
<1> QED BY <1>4, <1>10, <1>11 DEF st

LEMMA FailedRight ==
  ASSUME NEW d, DataRight(d)
  PROVE  LET e == RecordFail(d) IN
         DataRight(e) /\ SameEntry(e, d) /\ weight(e) = weight(d) /\ state_of(e) = "error"
<1> DEFINE A == {d.accounted}
           e == [d EXCEPT !.status = "bad_gateway", !.duration = TRUE]
           e1 == [d EXCEPT !.status = "bad_gateway"]
           e2 == [e1 EXCEPT !.duration = TRUE]
<1>1. d \in Data(A)
  BY DataFields
<1>2. RecordFail(d) = e
  BY DEF RecordFail
<1> HIDE DEF A
<1>3. e = e2
  OBVIOUS
<1>4. e1 \in Data(A)
  BY <1>1, WithStatus
<1>5. e2 \in Data(A)
  <2> HIDE DEF e1
  <2> QED BY <1>4, WithDuration
<1>6. /\ e.accounted = d.accounted /\ e.in_ring = d.in_ring /\ e.mode = d.mode
      /\ e.status = "bad_gateway" /\ e.request = d.request /\ e.response = d.response
      /\ e.headers = d.headers
  BY <1>1 DEF Data
<1> HIDE DEF e, e2
<1>7. DataRight(e) /\ SameEntry(e, d)
  BY <1>3, <1>5, <1>6, DataFields, StillRight DEF SameEntry, A
<1>8. weight(e) = weight(d) /\ state_of(e) = "error"
  BY <1>6 DEF weight, state_of
<1> QED BY <1>2, <1>7, <1>8

LEMMA ClosedRight ==
  ASSUME NEW d, DataRight(d), d.upgraded, d.status = "switching"
  PROVE  LET e == RecordClosed(d) IN
         DataRight(e) /\ SameEntry(e, d) /\ weight(e) = weight(d) /\ state_of(e) = "closed"
<1> DEFINE A == {d.accounted}
           e == [d EXCEPT !.duration = TRUE]
<1>1. d \in Data(A)
  BY DataFields
<1>2. RecordClosed(d) = e
  BY DEF RecordClosed
<1> HIDE DEF A
<1>3. e \in Data(A)
  BY <1>1, WithDuration
<1>4. /\ e.accounted = d.accounted /\ e.in_ring = d.in_ring /\ e.mode = d.mode
      /\ e.status = d.status /\ e.upgraded = d.upgraded /\ e.duration = TRUE
      /\ e.request = d.request /\ e.response = d.response /\ e.headers = d.headers
  BY <1>1 DEF Data
<1> HIDE DEF e
<1>5. DataRight(e) /\ SameEntry(e, d)
  BY <1>3, <1>4, DataFields, StillRight DEF SameEntry, A
<1>6. weight(e) = weight(d)
  BY <1>4 DEF weight
<1>7. state_of(e) = "closed"
  BY <1>4 DEF state_of
<1> QED BY <1>2, <1>5, <1>6, <1>7

\* A new exchange is counted as what it holds.
LEMMA BegunRight ==
  ASSUME NEW n \in Node, NEW mode \in BodyMode, NEW ctype \in ContentType, NEW id \in Exchange
  PROVE  LET d == NewData(n, mode, ctype, 0, id) IN
         DataRight(d) /\ d.accounted = weight(d)
<1> DEFINE q == Captured(mode, ctype)
           s == Captured("none", "unknown")
           d == [node |-> n, mode |-> mode, started |-> 0, remote |-> id,
                 headers |-> 1, status |-> "none", upgraded |-> FALSE, duration |-> FALSE,
                 request |-> q, response |-> s, accounted |-> HEADERS, in_ring |-> TRUE]
<1>1. NewData(n, mode, ctype, 0, id) = d
  BY DEF NewData
<1>2. q \in Capture /\ KeptRight(q, mode) /\ q.data = <<>> /\ q.parts = <<>>
  BY CapturedRight
<1>3. s \in Capture /\ KeptRight(s, mode) /\ s.data = <<>> /\ s.parts = <<>>
  BY UnansweredRight
<1> HIDE DEF q, s
<1>4. d \in Data({HEADERS})
  BY <1>2, <1>3 DEF Data
<1>5. /\ d.mode = mode /\ d.headers = 1 /\ d.request = q /\ d.response = s
      /\ d.accounted = HEADERS
  OBVIOUS
<1> HIDE DEF d
<1>6. DataRight(d)
  BY <1>2, <1>3, <1>4, <1>5 DEF DataRight
<1>7. WeightOf(<<>>) = 0
  <2>1. DOMAIN <<>> = {}
    OBVIOUS
  <2> QED BY <2>1, Zenon DEF WeightOf, FoldLeft, MapThenFoldSet
<1>8. weight(d) = HEADERS
  <2>1. HEADERS \in Nat /\ Len(<<>>) = 0
    BY TrafficAssumption
  <2>2. weight(d) = 1 * HEADERS + Len(<<>>) + Len(<<>>) + WeightOf(<<>>) + WeightOf(<<>>)
    BY <1>2, <1>3, <1>5 DEF weight
  <2> QED BY <1>7, <2>1, <2>2
<1> QED BY <1>1, <1>5, <1>6, <1>8

----------------------------------------------------------------------------
(* The store.                                                              *)

\* What leaving the ring, or being counted anew, leaves of a recording.
Alike(e, d) ==
  DataRight(e) /\ state_of(e) = state_of(d) /\ e.status = d.status /\ e.upgraded = d.upgraded

LEMMA OutOfRing ==
  ASSUME NEW d, DataRight(d)
  PROVE  LET e == [d EXCEPT !.in_ring = FALSE] IN Alike(e, d) /\ \A due : InLine(e, due)
<1> DEFINE A == {d.accounted}
           e == [d EXCEPT !.in_ring = FALSE]
<1>1. d \in Data(A)
  BY DataFields
<1> HIDE DEF A
<1>2. e \in Data(A)
  BY <1>1, WithInRing
<1>3. /\ e.accounted = d.accounted /\ e.in_ring = FALSE /\ e.mode = d.mode
      /\ e.status = d.status /\ e.upgraded = d.upgraded /\ e.duration = d.duration
      /\ e.request = d.request /\ e.response = d.response
  BY <1>1 DEF Data
<1> HIDE DEF e
<1>4. A = {e.accounted}
  BY <1>3 DEF A
<1>5. DataRight(e)
  BY <1>2, <1>3, <1>4, DataFields DEF DataRight
<1>6. state_of(e) = state_of(d)
  BY <1>3 DEF state_of
<1>7. Alike(e, d) /\ \A due : InLine(e, due)
  BY <1>3, <1>5, <1>6 DEF Alike, InLine
<1> QED BY <1>7 DEF e

LEMMA CountedAnew ==
  ASSUME NEW d, DataRight(d)
  PROVE  LET e == [d EXCEPT !.accounted = weight(d)] IN
         Alike(e, d) /\ \A due : InLine(e, due)
<1> DEFINE A == {d.accounted}
           w == weight(d)
           e == [d EXCEPT !.accounted = w]
<1>1. d \in Data(A)
  BY DataFields
<1> HIDE DEF A, w
<1>2. e \in Data({w})
  BY <1>1, WithAccounted
<1>3. /\ e.accounted = w /\ e.mode = d.mode /\ e.headers = d.headers
      /\ e.status = d.status /\ e.upgraded = d.upgraded /\ e.duration = d.duration
      /\ e.request = d.request /\ e.response = d.response
  BY <1>1 DEF Data
<1> HIDE DEF e
<1>4. DataRight(e)
  BY <1>2, <1>3, DataFields DEF DataRight
<1>5. state_of(e) = state_of(d) /\ weight(e) = weight(d)
  BY <1>3 DEF state_of, weight
<1>6. Alike(e, d) /\ \A due : InLine(e, due)
  BY <1>3, <1>4, <1>5 DEF Alike, InLine, w
<1> QED BY <1>6 DEF e, w

LEMMA LeaveFacts ==
  ASSUME NEW ex, NEW gone, \A i \in DOMAIN ex : DataRight(ex[i])
  PROVE  /\ DOMAIN Leave(ex, gone) = DOMAIN ex
         /\ \A i \in DOMAIN ex : /\ Alike(Leave(ex, gone)[i], ex[i])
                                 /\ \A due : InLine(ex[i], due) => InLine(Leave(ex, gone)[i], due)
<1>1. DOMAIN Leave(ex, gone) = DOMAIN ex
  BY DEF Leave
<1>2. ASSUME NEW i \in DOMAIN ex
      PROVE  /\ Alike(Leave(ex, gone)[i], ex[i])
             /\ \A due : InLine(ex[i], due) => InLine(Leave(ex, gone)[i], due)
  <2> DEFINE d == ex[i]
             e == [d EXCEPT !.in_ring = FALSE]
             v == Leave(ex, gone)[i]
  <2>1. v = IF i \in gone THEN e ELSE d
    BY DEF Leave
  <2>2. DataRight(d) /\ Alike(d, d)
    BY DEF Alike
  <2>3. Alike(e, d) /\ \A due : InLine(e, due)
    <3> HIDE DEF d
    <3> QED BY <2>2, OutOfRing
  <2> HIDE DEF d, e, v
  <2>4. Alike(v, d) /\ \A due : InLine(d, due) => InLine(v, due)
    BY <2>1, <2>2, <2>3
  <2> QED BY <2>4 DEF d, v
<1> QED BY <1>1, <1>2

LEMMA EvictFacts ==
  ASSUME NEW st, DOMAIN st = StoreFields, NEW n
  PROVE  /\ DOMAIN evict(st, n) = StoreFields /\ evict(st, n).mode = st.mode
         /\ \E gone : evict(st, n).ex = Leave(st.ex, gone)
<1> DEFINE size == Len(st.ring[n])
           enough == {k \in 0..size : size - k <= 1 \/ ~OverLimit(st, n, k)}
           k == CHOOSE j \in enough : \A i \in enough : j <= i
           out == SubSeq(st.ring[n], 1, k)
           freed == Accounted(st.ex, out)
           rest == SubSeq(st.ring[n], k + 1, size)
           ring == [st.ring EXCEPT ![n] = rest]
           bytes == [st.bytes EXCEPT ![n] = @ - freed]
           total == st.total - freed
           ex == Leave(st.ex, ToSet(out))
<1>1. evict(st, n) = [st EXCEPT !.ring[n] = SubSeq(@, k + 1, size), !.bytes[n] = @ - freed,
                                !.total = @ - freed, !.ex = Leave(@, ToSet(out))]
  BY DEF evict
<1> HIDE DEF k, out, size, freed
<1>2. evict(st, n) = [st EXCEPT !.ring = ring, !.bytes = bytes, !.total = total, !.ex = ex]
  BY <1>1 DEF StoreFields
<1> HIDE DEF ring, bytes, total, ex
<1>3. /\ DOMAIN evict(st, n) = StoreFields /\ evict(st, n).mode = st.mode
      /\ evict(st, n).ex = ex
  BY <1>2 DEF StoreFields
<1> QED BY <1>3 DEF ex

----------------------------------------------------------------------------
(* Steps.                                                                  *)

\* The store changes and no request does.
LEMMA AroundRecord ==
  ASSUME RecordInv, UNCHANGED <<task, sent>>,
         DOMAIN store' = StoreFields, store'.mode \in [Node -> BodyMode \cup {Off}],
         DOMAIN store'.ex = DOMAIN store.ex, owed' \in [Exchange -> Nat],
         \A i \in Exchange : owed'[i] > 0 => owed[i] > 0,
         \A i \in DOMAIN store.ex :
           /\ Alike(store'.ex[i], store.ex[i])
           /\ InLine(store.ex[i], owed[i]) => InLine(store'.ex[i], owed'[i])
  PROVE  RecordInv'
<1>1. Used' = Used
  BY DEF Used
<1>2. \A i \in DOMAIN store.ex : DataRight(store'.ex[i])
  BY DEF Alike
<1>3. Recording'
  BY <1>1, <1>2 DEF RecordInv, Recording
<1>4. Followed'
  <2> SUFFICES ASSUME NEW c \in Client, task[c].pc # "idle"
               PROVE  /\ task[c].rec <=> task[c].id \in DOMAIN store.ex
                      /\ task[c].rec =>
                           /\ Stage(task[c], store'.ex[task[c].id])
                           /\ Drifts(task[c]) \/ InLine(store'.ex[task[c].id], owed'[task[c].id])
    BY DEF Followed
  <2>1. task[c].rec <=> task[c].id \in DOMAIN store.ex
    BY DEF RecordInv, Followed
  <2>2. ASSUME task[c].rec
        PROVE  /\ Stage(task[c], store'.ex[task[c].id])
               /\ Drifts(task[c]) \/ InLine(store'.ex[task[c].id], owed'[task[c].id])
    <3>1. /\ Stage(task[c], store.ex[task[c].id])
          /\ Drifts(task[c]) \/ InLine(store.ex[task[c].id], owed[task[c].id])
      BY <2>2 DEF RecordInv, Followed
    <3>2. Alike(store'.ex[task[c].id], store.ex[task[c].id])
      BY <2>1, <2>2
    <3>3. Stage(task[c], store'.ex[task[c].id])
      BY <3>1, <3>2 DEF Stage, Alike
    <3> QED BY <2>1, <2>2, <3>1, <3>3
  <2> QED BY <2>1, <2>2
<1>5. Ended'
  <2> SUFFICES ASSUME NEW i \in DOMAIN store.ex, Left(i)
               PROVE  /\ state_of(store'.ex[i]) \in Unfinished => sent[i].cut
                      /\ InLine(store'.ex[i], owed'[i])
    BY DEF Ended, Left
  <2>1. /\ state_of(store.ex[i]) \in Unfinished => sent[i].cut
        /\ InLine(store.ex[i], owed[i])
    BY DEF RecordInv, Ended
  <2> QED BY <2>1 DEF Alike
<1> QED BY <1>3, <1>4, <1>5 DEF RecordInv

\* What has to hold of a request's recording once its task is t.
Records(t, d, due, cut) ==
  /\ t = Idle => /\ state_of(d) \in Unfinished => cut
                 /\ InLine(d, due)
  /\ t # Idle => /\ Stage(t, d)
                 /\ Drifts(t) \/ InLine(d, due)

\* One task moves on or ends, and nothing but its own recording changes.
LEMMA TaskRecord ==
  ASSUME ForwardInv, RecordInv, NEW c \in Client, task[c].pc # "idle", NEW t,
         task' = [task EXCEPT ![c] = t],
         t = Idle \/ (t.pc # "idle" /\ t.id = task[c].id /\ t.rec = task[c].rec),
         Used' = Used, \A i \in Used : i # task[c].id => sent'[i].cut = sent[i].cut,
         DOMAIN store' = StoreFields, store'.mode = store.mode,
         DOMAIN store'.ex = DOMAIN store.ex, owed' \in [Exchange -> Nat],
         \A i \in DOMAIN store.ex : i # task[c].id => store'.ex[i] = store.ex[i],
         \A i \in Exchange : i # task[c].id => owed'[i] = owed[i],
         task[c].rec => /\ DataRight(store'.ex[task[c].id])
                        /\ Records(t, store'.ex[task[c].id], owed'[task[c].id], sent'[task[c].id].cut),
         ~task[c].rec => owed'[task[c].id] = owed[task[c].id]
  PROVE  RecordInv'
<1> DEFINE id == task[c].id
<1>1. /\ id \in Exchange /\ id \in Used /\ (task[c].rec <=> id \in DOMAIN store.ex)
      /\ Used \subseteq Exchange
  BY BusyTask DEF ForwardInv, Typed, Own, RecordInv, Followed
<1>2. task'[c] = t /\ \A e \in Client : e # c => task'[e] = task[e]
  BY DEF ForwardInv, Typed
<1>3. \A e \in Client : e # c /\ task[e].pc # "idle" => task[e].id # id
  BY DEF ForwardInv, Own
<1>4. t.pc # "idle" <=> t # Idle
  BY IdleFacts
<1>5. DOMAIN store.ex \subseteq Used /\ owed \in [Exchange -> Nat]
  BY DEF RecordInv, Recording
<1>6. Recording'
  <2>1. \A i \in DOMAIN store.ex : DataRight(store'.ex[i])
    BY <1>1 DEF RecordInv, Recording
  <2>2. \A i \in Exchange : owed'[i] > 0 => i \in DOMAIN store.ex
    BY <1>1 DEF RecordInv, Recording
  <2> QED BY <2>1, <2>2 DEF RecordInv, Recording
<1>7. Followed'
  <2> SUFFICES ASSUME NEW e \in Client, task'[e].pc # "idle"
               PROVE  /\ task'[e].rec <=> task'[e].id \in DOMAIN store.ex
                      /\ task'[e].rec =>
                           /\ Stage(task'[e], store'.ex[task'[e].id])
                           /\ \/ Drifts(task'[e])
                              \/ InLine(store'.ex[task'[e].id], owed'[task'[e].id])
    BY DEF Followed
  <2>1. CASE e = c
    <3>1. t # Idle /\ task'[e] = t /\ t.id = id /\ t.rec = task[c].rec
      BY <1>2, <1>4, <2>1
    <3> QED BY <1>1, <3>1 DEF Records
  <2>2. CASE e # c
    <3>1. task'[e] = task[e] /\ task[e].id # id /\ task[e].id \in Exchange
      BY <1>2, <1>3, <2>2, BusyTask DEF ForwardInv, Own, Typed
    <3> QED BY <3>1 DEF RecordInv, Followed
  <2> QED BY <2>1, <2>2
<1>8. Ended'
  <2> SUFFICES ASSUME NEW i \in DOMAIN store.ex,
                      \A e \in Client : task'[e].pc # "idle" => task'[e].id # i
               PROVE  /\ state_of(store'.ex[i]) \in Unfinished => sent'[i].cut
                      /\ InLine(store'.ex[i], owed'[i])
    BY DEF Ended, Left
  <2>1. CASE i = id
    <3>1. t = Idle /\ task[c].rec
      BY <1>1, <1>2, <1>4, <2>1
    <3> QED BY <2>1, <3>1 DEF Records
  <2>2. CASE i # id
    <3>1. Left(i)
      BY <1>2, <2>2 DEF Left
    <3>2. i \in Used /\ i \in Exchange
      BY <1>1, <1>5
    <3> QED BY <2>2, <3>1, <3>2 DEF RecordInv, Ended
  <2> QED BY <2>1, <2>2
<1> QED BY <1>6, <1>7, <1>8 DEF RecordInv

\* The next state of a task, as Records wants it.
Follows(t, old) == t = Idle \/ (t.pc # "idle" /\ t.id = old.id /\ t.rec = old.rec)

\* ... and nothing is recorded.
LEMMA QuietRecord ==
  ASSUME ForwardInv, RecordInv, NEW c \in Client, task[c].pc # "idle", NEW t,
         task' = [task EXCEPT ![c] = t], Follows(t, task[c]), UNCHANGED <<store, owed>>,
         Used' = Used, \A i \in Used : i # task[c].id => sent'[i].cut = sent[i].cut,
         task[c].rec => Records(t, DataOf(c), owed[task[c].id], sent'[task[c].id].cut)
  PROVE  RecordInv'
<1>1. /\ DOMAIN store' = StoreFields /\ owed' \in [Exchange -> Nat]
      /\ task[c].rec => DataRight(store'.ex[task[c].id])
  BY DEF RecordInv, Recording, Followed
<1>2. task[c].rec =>
        /\ DataRight(store'.ex[task[c].id])
        /\ Records(t, store'.ex[task[c].id], owed'[task[c].id], sent'[task[c].id].cut)
  BY <1>1 DEF DataOf
<1> QED BY <1>1, <1>2, TaskRecord DEF Follows

\* ... and what is recorded of it is d, with due changes to be accounted for.
LEMMA RecordStep ==
  ASSUME ForwardInv, RecordInv, NEW c \in Client, task[c].pc # "idle", NEW t,
         task' = [task EXCEPT ![c] = t], Follows(t, task[c]),
         Used' = Used, \A i \in Used : i # task[c].id => sent'[i].cut = sent[i].cut,
         NEW d, NEW due \in Nat, Record(c, d, due),
         task[c].rec => DataRight(d) /\ Records(t, d, owed[task[c].id] + due, sent'[task[c].id].cut)
  PROVE  RecordInv'
<1> DEFINE id == task[c].id
<1>1. /\ id \in Exchange /\ (task[c].rec <=> id \in DOMAIN store.ex)
      /\ DOMAIN store = StoreFields /\ owed \in [Exchange -> Nat]
  BY BusyTask DEF ForwardInv, Typed, Own, RecordInv, Recording, Followed
<1>2. CASE task[c].rec
  <2> DEFINE ex == [store.ex EXCEPT ![id] = d]
             more == owed[id] + due
  <2>1. store' = [store EXCEPT !.ex = ex] /\ owed' = [owed EXCEPT ![id] = more]
    BY <1>1, <1>2 DEF Record, Recorded, StoreFields
  <2>2. /\ DOMAIN ex = DOMAIN store.ex /\ ex[id] = d
        /\ \A i \in DOMAIN store.ex : i # id => ex[i] = store.ex[i]
    BY <1>1, <1>2
  <2>3. more \in Nat
    BY <1>1
  <2> HIDE DEF ex, more
  <2>4. DOMAIN store' = StoreFields /\ store'.mode = store.mode /\ store'.ex = ex
    BY <1>1, <2>1 DEF StoreFields
  <2>5. /\ owed' \in [Exchange -> Nat] /\ owed'[id] = more
        /\ \A i \in Exchange : i # id => owed'[i] = owed[i]
    BY <1>1, <2>1, <2>3
  <2>6. DataRight(store'.ex[id]) /\ Records(t, store'.ex[id], owed'[id], sent'[id].cut)
    BY <1>2, <2>2, <2>4, <2>5 DEF more
  <2>7. /\ DOMAIN store'.ex = DOMAIN store.ex
        /\ \A i \in DOMAIN store.ex : i # id => store'.ex[i] = store.ex[i]
    BY <2>2, <2>4
  <2> QED BY <1>2, <2>4, <2>5, <2>6, <2>7, TaskRecord DEF Follows
<1>3. CASE ~task[c].rec
  <2>1. UNCHANGED <<store, owed>>
    BY <1>3 DEF Record, Recorded
  <2> QED BY <1>3, <2>1, QuietRecord
<1> QED BY <1>2, <1>3 DEF ForwardInv

----------------------------------------------------------------------------
(* The actions.                                                            *)

LEMMA InitRecord == Init => RecordInv
<1> SUFFICES ASSUME Init PROVE RecordInv
  OBVIOUS
<1>1. PICK modes \in FirstModes : store = [EmptyStore EXCEPT !.mode = modes]
  BY DEF Init
<1>2. modes \in [Node -> BodyMode \cup {Off}]
  BY ProxyAssumption
<1>3. DOMAIN EmptyStore = StoreFields /\ EmptyStore.ex = [i \in {} |-> 0]
  BY DEF EmptyStore, StoreFields
<1>4. DOMAIN store = StoreFields /\ store.mode = modes /\ store.ex = [i \in {} |-> 0]
  BY <1>1, <1>3 DEF StoreFields
<1>5. DOMAIN store.ex = {}
  BY <1>4
<1>6. owed \in [Exchange -> Nat] /\ \A i \in Exchange : owed[i] = 0
  BY DEF Init
<1>7. Recording
  BY <1>2, <1>4, <1>5, <1>6 DEF Recording
<1>8. Followed
  BY IdleFacts DEF Init, Followed
<1>9. Ended
  BY <1>5 DEF Ended
<1> QED BY <1>7, <1>8, <1>9 DEF RecordInv

\* A busy task, its recording, and what is known of it.
LEMMA AtRequest ==
  ASSUME ForwardInv, RecordInv, NEW c \in Client, task[c].pc # "idle"
  PROVE  /\ task[c] \in Forwarding /\ task[c].id \in Exchange /\ task[c].id \in Used
         /\ task[c].rec \in BOOLEAN /\ task[c].tapped \in BOOLEAN
         /\ owed[task[c].id] \in Nat
         /\ task[c].rec => /\ DataRight(DataOf(c)) /\ Stage(task[c], DataOf(c))
                           /\ Drifts(task[c]) \/ InLine(DataOf(c), owed[task[c].id])
<1>1. task[c] \in Forwarding /\ task[c].id \in Used
  BY BusyTask DEF ForwardInv, Own
<1>2. task[c].id \in Exchange /\ task[c].rec \in BOOLEAN /\ task[c].tapped \in BOOLEAN
  BY <1>1 DEF Forwarding
<1>3. owed[task[c].id] \in Nat
  BY <1>2 DEF RecordInv, Recording
<1>4. task[c].rec => /\ DataRight(DataOf(c)) /\ Stage(task[c], DataOf(c))
                     /\ Drifts(task[c]) \/ InLine(DataOf(c), owed[task[c].id])
  BY DEF RecordInv, Recording, Followed, DataOf
<1> QED BY <1>1, <1>2, <1>3, <1>4

Before == {"forward", "connect", "reconnect", "send", "resend"}

\* On its way to the backend, or waiting for it, a request is not recorded yet.
LEMMA MovesOn ==
  ASSUME ForwardInv, RecordInv, NEW c \in Client, task[c].pc \in Before, NEW t,
         task' = [task EXCEPT ![c] = t], t.pc \in Before \cup {"await"},
         t.id = task[c].id, t.rec = task[c].rec, UNCHANGED <<store, owed>>,
         Used' = Used, \A i \in Used : i # task[c].id => sent'[i].cut = sent[i].cut
  PROVE  RecordInv'
<1>1. task[c].pc # "idle" /\ t.pc # "idle" /\ t.pc \notin {"body", "upgraded"}
  BY DEF Before
<1>2. t # Idle /\ Follows(t, task[c])
  BY <1>1, IdleFacts DEF Follows
<1>3. ~Drifts(task[c])
  BY DEF Before, Drifts
<1>4. task[c].rec => InLine(DataOf(c), owed[task[c].id])
  BY <1>1, <1>3, AtRequest
<1>5. task[c].rec => Records(t, DataOf(c), owed[task[c].id], sent'[task[c].id].cut)
  BY <1>1, <1>2, <1>4 DEF Records, Stage
<1> QED BY <1>1, <1>2, <1>5, QuietRecord

\* A failure is recorded as one.
LEMMA BadGatewayRecord ==
  ASSUME ForwardInv, RecordInv, NEW c \in Client, task[c].pc \in Before \cup {"await"},
         BadGateway(c), UNCHANGED sent
  PROVE  RecordInv'
<1> DEFINE state == IF task[c].up = <<>> THEN "done" ELSE "aborted"
           d == IF task[c].tapped THEN RecordFinish(DataOf(c), "request", state) ELSE DataOf(c)
           due == IF task[c].tapped THEN 1 ELSE 0
<1>1. Record(c, RecordFail(d), due) /\ task' = [task EXCEPT ![c] = Idle]
  BY DEF BadGateway
<1>2. task[c].pc # "idle" /\ Used' = Used /\ Follows(Idle, task[c])
  BY DEF Before, Used, Follows
<1>3. due \in Nat /\ state \in {"done", "aborted", "error"}
  OBVIOUS
<1>4. owed[task[c].id] \in Nat
  BY <1>2, AtRequest
<1>5. ASSUME task[c].rec
      PROVE  /\ DataRight(RecordFail(d)) /\ state_of(RecordFail(d)) = "error"
             /\ InLine(RecordFail(d), owed[task[c].id] + due)
  <2> HIDE DEF state
  <2>1. DataRight(DataOf(c))
    BY <1>2, <1>5, AtRequest
  <2>2. CASE task[c].tapped
    <3>1. d = RecordFinish(DataOf(c), "request", state) /\ due = 1
      BY <2>2
    <3>2. DataRight(d)
      BY <1>3, <2>1, <3>1, FinishedRight DEF Side
    <3> HIDE DEF d, due
    <3>3. owed[task[c].id] + due # 0
      BY <1>4, <3>1
    <3> QED BY <3>2, <3>3, FailedRight DEF InLine
  <2>3. CASE ~task[c].tapped
    <3>1. d = DataOf(c) /\ due = 0
      BY <2>3
    <3>2. ~Drifts(task[c])
      BY <2>3 DEF Drifts, Before
    <3>3. InLine(d, owed[task[c].id])
      BY <1>2, <1>5, <3>1, <3>2, AtRequest
    <3> HIDE DEF d, due
    <3>4. owed[task[c].id] + due = owed[task[c].id]
      BY <1>4, <3>1
    <3>5. /\ DataRight(RecordFail(d)) /\ SameEntry(RecordFail(d), d)
          /\ weight(RecordFail(d)) = weight(d) /\ state_of(RecordFail(d)) = "error"
      BY <2>1, <3>1, FailedRight
    <3> QED BY <3>3, <3>4, <3>5 DEF InLine, SameEntry
  <2> QED BY <2>2, <2>3
<1> HIDE DEF d, due
<1>6. task[c].rec =>
        DataRight(RecordFail(d)) /\ Records(Idle, RecordFail(d), owed[task[c].id] + due, sent'[task[c].id].cut)
  BY <1>5 DEF Records, Unfinished
<1> QED BY <1>1, <1>2, <1>3, <1>6, RecordStep

\* The same task, on its way to the backend or waiting for the answer.
Headed(t, old) == t.pc \in Before \cup {"await"} /\ t.id = old.id /\ t.rec = old.rec

\* take the kept connection; connect; write the request, and write it again.
LEMMA TowardsBackend ==
  ASSUME ForwardInv, RecordInv, NEW c \in Client, TakeSlot(c) \/ Connect(c) \/ Send(c) \/ Resend(c)
  PROVE  RecordInv'
<1>1. task[c].pc \in Before
  BY DEF TakeSlot, Connect, Send, Resend, Before
<1>2. task[c] \in Forwarding /\ task \in [Client -> {Idle} \cup Forwarding] /\ task[c].id \in Used
  BY <1>1, AtRequest DEF ForwardInv, Typed, Before
<1>3. Used' = Used /\ \A i \in Used : i # task[c].id => sent'[i].cut = sent[i].cut
  <2>1. UNCHANGED sent \/ Reach(c)
    BY DEF TakeSlot, Connect, Send, Resend
  <2> QED BY <1>2, <2>1 DEF Reach, Used, ForwardInv, Typed
<1>4. ASSUME NEW t, Headed(t, task[c]), task' = [task EXCEPT ![c] = t], UNCHANGED <<store, owed>>
      PROVE  RecordInv'
  BY <1>1, <1>3, <1>4, MovesOn DEF Headed
<1>5. CASE BadGateway(c) /\ UNCHANGED sent
  BY <1>1, <1>5, BadGatewayRecord
<1>6. CASE TakeSlot(c)
  <2> DEFINE reuse == /\ slot[c].node = task[c].to.node
                      /\ slot[c].port = task[c].to.port
                      /\ slot[c].alive
             pc == IF reuse THEN "send" ELSE "connect"
             t == [task[c] EXCEPT !.reused = reuse, !.pc = pc]
  <2>1. task' = [task EXCEPT ![c].reused = reuse, ![c].pc = pc] /\ UNCHANGED <<store, owed>>
    BY <1>6 DEF TakeSlot
  <2>2. pc \in Before \cup {"await"}
    BY DEF Before
  <2> HIDE DEF reuse, pc
  <2>3. task' = [task EXCEPT ![c] = t]
    BY <1>2, <2>1
  <2>4. Headed(t, task[c])
    BY <1>2, <2>2 DEF Headed, Forwarding
  <2> HIDE DEF t
  <2> QED BY <1>4, <2>1, <2>3, <2>4
<1>7. CASE Connect(c)
  <2> DEFINE pc == IF task[c].pc = "connect" THEN "send" ELSE "resend"
             t == [task[c] EXCEPT !.pc = pc]
  <2>1. CASE Go(c, pc) /\ UNCHANGED <<store, owed>>
    <3>1. pc \in Before \cup {"await"}
      BY DEF Before
    <3> HIDE DEF pc
    <3>2. task' = [task EXCEPT ![c] = t]
      BY <1>2, <2>1 DEF Go
    <3>3. Headed(t, task[c])
      BY <1>2, <3>1 DEF Headed, Forwarding
    <3> HIDE DEF t
    <3> QED BY <1>4, <2>1, <3>2, <3>3
  <2> QED BY <1>5, <1>7, <2>1 DEF Connect
<1>8. CASE Send(c)
  <2>1. CASE task' = [task EXCEPT ![c].pc = "await", ![c].tapped = TRUE] /\ UNCHANGED <<store, owed>>
    <3> DEFINE t == [task[c] EXCEPT !.pc = "await", !.tapped = TRUE]
    <3>1. task' = [task EXCEPT ![c] = t]
      BY <1>2, <2>1
    <3>2. Headed(t, task[c])
      BY <1>2 DEF Headed, Forwarding
    <3> HIDE DEF t
    <3> QED BY <1>4, <2>1, <3>1, <3>2
  <2>2. CASE Go(c, "reconnect") /\ UNCHANGED <<store, owed>>
    <3> DEFINE t == [task[c] EXCEPT !.pc = "reconnect"]
    <3>1. task' = [task EXCEPT ![c] = t]
      BY <1>2, <2>2 DEF Go
    <3>2. Headed(t, task[c])
      BY <1>2 DEF Headed, Forwarding, Before
    <3>3. UNCHANGED <<store, owed>>
      BY <2>2
    <3> HIDE DEF t
    <3> QED BY <1>4, <3>1, <3>2, <3>3
  <2> QED BY <1>5, <1>8, <2>1, <2>2 DEF Send
<1>9. CASE Resend(c)
  <2> DEFINE tapped == sent[task[c].id].reached = <<>>
  <2>1. CASE /\ task' = [task EXCEPT ![c].pc = "await", ![c].reused = FALSE, ![c].tapped = tapped]
             /\ UNCHANGED <<store, owed>>
    <3> HIDE DEF tapped
    <3> DEFINE t == [task[c] EXCEPT !.pc = "await", !.reused = FALSE, !.tapped = tapped]
    <3>1. task' = [task EXCEPT ![c] = t]
      BY <1>2, <2>1
    <3>2. Headed(t, task[c])
      BY <1>2 DEF Headed, Forwarding
    <3> HIDE DEF t
    <3> QED BY <1>4, <2>1, <3>1, <3>2
  <2> QED BY <1>5, <1>9, <2>1 DEF Resend
<1> QED BY <1>6, <1>7, <1>8, <1>9

\* The bodies' chunks, and the end of the request's.
LEMMA BodiesRecord ==
  ASSUME ForwardInv, RecordInv, NEW c \in Client,
         RequestChunk(c) \/ RequestEnd(c) \/ ResponseChunk(c)
  PROVE  RecordInv'
<1>1. task[c].pc \in {"await", "body"} /\ Used' = Used /\ UNCHANGED sent
  BY DEF RequestChunk, RequestEnd, ResponseChunk, Used
<1>2. /\ task[c] \in Forwarding /\ task \in [Client -> {Idle} \cup Forwarding]
      /\ owed[task[c].id] \in Nat
      /\ task[c].rec => DataRight(DataOf(c)) /\ Stage(task[c], DataOf(c))
  BY <1>1, AtRequest DEF ForwardInv, Typed
<1>3. task[c].up \in Seq(Unit) /\ task[c].down \in Seq(Unit)
  BY <1>2 DEF Forwarding
<1>4. ASSUME NEW side \in Side, NEW unit \in Unit, NEW t, task' = [task EXCEPT ![c] = t],
             t.pc = task[c].pc, t.id = task[c].id, t.rec = task[c].rec, Drifts(t),
             Record(c, RecordChunk(DataOf(c), side, unit), 0)
      PROVE  RecordInv'
  <2> DEFINE d == RecordChunk(DataOf(c), side, unit)
  <2>1. t # Idle /\ Follows(t, task[c])
    BY <1>1, <1>4, IdleFacts DEF Follows
  <2>2. task[c].rec => /\ DataRight(d) /\ d.status = DataOf(c).status
                       /\ d.upgraded = DataOf(c).upgraded
    BY <1>2, ChunkRight
  <2> HIDE DEF d
  <2>3. task[c].rec => DataRight(d) /\ Records(t, d, owed[task[c].id] + 0, sent'[task[c].id].cut)
    BY <1>2, <1>4, <2>1, <2>2 DEF Records, Stage
  <2>4. Record(c, d, 0)
    BY <1>4 DEF d
  <2> QED BY <1>1, <1>4, <2>1, <2>3, <2>4, RecordStep
<1>5. CASE RequestChunk(c)
  <2> DEFINE u == Head(task[c].up)
             w == Tail(task[c].up)
             t == [task[c] EXCEPT !.up = w]
  <2>1. task[c].tapped /\ u \in Unit
    BY <1>3, <1>5 DEF RequestChunk
  <2>2. Record(c, RecordChunk(DataOf(c), "request", u), 0) /\ task' = [task EXCEPT ![c].up = w]
    BY <1>5 DEF RequestChunk
  <2> HIDE DEF u, w
  <2>3. task' = [task EXCEPT ![c] = t]
    BY <1>2, <2>2
  <2>4. t.pc = task[c].pc /\ t.id = task[c].id /\ t.rec = task[c].rec /\ t.tapped = task[c].tapped
    BY <1>2 DEF Forwarding
  <2> HIDE DEF t
  <2>5. Drifts(t)
    BY <1>1, <2>1, <2>4 DEF Drifts
  <2> QED BY <1>4, <2>1, <2>2, <2>3, <2>4, <2>5 DEF Side
<1>6. CASE ResponseChunk(c)
  <2> DEFINE u == Head(task[c].down)
             w == Tail(task[c].down)
             t == [task[c] EXCEPT !.down = w]
  <2>1. task[c].pc = "body" /\ u \in Unit
    BY <1>3, <1>6 DEF ResponseChunk
  <2>2. Record(c, RecordChunk(DataOf(c), "response", u), 0) /\ task' = [task EXCEPT ![c].down = w]
    BY <1>6 DEF ResponseChunk
  <2> HIDE DEF u, w
  <2>3. task' = [task EXCEPT ![c] = t]
    BY <1>2, <2>2
  <2>4. t.pc = task[c].pc /\ t.id = task[c].id /\ t.rec = task[c].rec
    BY <1>2 DEF Forwarding
  <2> HIDE DEF t
  <2>5. Drifts(t)
    BY <2>1, <2>4 DEF Drifts
  <2> QED BY <1>4, <2>1, <2>2, <2>3, <2>4, <2>5 DEF Side
<1>7. CASE RequestEnd(c)
  <2> DEFINE d == RecordFinish(DataOf(c), "request", "done")
             t == [task[c] EXCEPT !.tapped = FALSE]
  <2>1. Record(c, d, 1) /\ task' = [task EXCEPT ![c].tapped = FALSE]
    BY <1>7 DEF RequestEnd
  <2>2. task' = [task EXCEPT ![c] = t]
    BY <1>2, <2>1
  <2>3. t.pc = task[c].pc /\ t.id = task[c].id /\ t.rec = task[c].rec
    BY <1>2 DEF Forwarding
  <2> HIDE DEF t
  <2>4. t # Idle /\ Follows(t, task[c])
    BY <1>1, <2>3, IdleFacts DEF Follows
  <2>5. task[c].rec => /\ DataRight(d) /\ d.status = DataOf(c).status
                       /\ d.upgraded = DataOf(c).upgraded
    BY <1>2, FinishedRight DEF Side
  <2> HIDE DEF d
  <2>6. owed[task[c].id] + 1 # 0
    BY <1>2
  <2>7. task[c].rec => DataRight(d) /\ Records(t, d, owed[task[c].id] + 1, sent'[task[c].id].cut)
    BY <1>2, <2>3, <2>4, <2>5, <2>6 DEF Records, Stage, InLine
  <2>8. task[c].pc # "idle" /\ \A i \in Used : i # task[c].id => sent'[i].cut = sent[i].cut
    BY <1>1
  <2> QED BY <1>1, <2>1, <2>2, <2>4, <2>7, <2>8, RecordStep
<1> QED BY <1>5, <1>6, <1>7

LEMMA SendFailsRecord ==
  ASSUME ForwardInv, RecordInv, NEW c \in Client, SendFails(c)
  PROVE  RecordInv'
<1>1. task[c].pc = "await" /\ task[c].pc # "idle" /\ UNCHANGED sent
  BY DEF SendFails
<1>2. /\ task[c] \in Forwarding /\ task \in [Client -> {Idle} \cup Forwarding]
      /\ owed[task[c].id] \in Nat /\ task[c].tapped \in BOOLEAN
      /\ task[c].rec => /\ DataRight(DataOf(c))
                        /\ Drifts(task[c]) \/ InLine(DataOf(c), owed[task[c].id])
  BY <1>1, AtRequest DEF ForwardInv, Typed
<1>3. Used' = Used /\ \A i \in Used : i # task[c].id => sent'[i].cut = sent[i].cut
  BY <1>1 DEF Used
<1>4. CASE BadGateway(c)
  BY <1>1, <1>4, BadGatewayRecord
<1>5. CASE task' = [task EXCEPT ![c].pc = "reconnect", ![c].tapped = FALSE] /\ ~BadGateway(c)
  <2> DEFINE d == RecordFinish(DataOf(c), "request", "done")
             t == [task[c] EXCEPT !.pc = "reconnect", !.tapped = FALSE]
  <2>1. task' = [task EXCEPT ![c] = t]
    BY <1>2, <1>5
  <2>2. t.pc = "reconnect" /\ t.id = task[c].id /\ t.rec = task[c].rec
    BY <1>2 DEF Forwarding
  <2> HIDE DEF t
  <2>3. t # Idle /\ Follows(t, task[c])
    BY <2>2, IdleFacts DEF Follows
  <2>4. CASE task[c].tapped
    <3>1. Record(c, d, 1)
      BY <1>5, <2>4 DEF SendFails
    <3>2. task[c].rec => DataRight(d)
      BY <1>2, FinishedRight DEF Side
    <3> HIDE DEF d
    <3>3. owed[task[c].id] + 1 # 0
      BY <1>2
    <3>4. task[c].rec => DataRight(d) /\ Records(t, d, owed[task[c].id] + 1, sent'[task[c].id].cut)
      BY <2>2, <2>3, <3>2, <3>3 DEF Records, Stage, InLine
    <3> QED BY <1>1, <1>3, <2>1, <2>3, <3>1, <3>4, RecordStep
  <2>5. CASE ~task[c].tapped
    <3>1. UNCHANGED <<store, owed>>
      BY <1>5, <2>5 DEF SendFails
    <3>2. ~Drifts(task[c])
      BY <1>1, <2>5 DEF Drifts
    <3>3. task[c].rec => Records(t, DataOf(c), owed[task[c].id], sent'[task[c].id].cut)
      BY <1>2, <2>2, <2>3, <3>2 DEF Records, Stage
    <3> QED BY <1>1, <1>3, <2>1, <2>3, <3>1, <3>3, QuietRecord
  <2> QED BY <2>4, <2>5
<1> QED BY <1>4, <1>5 DEF SendFails

LEMMA ResponseRecord ==
  ASSUME ForwardInv, RecordInv, NEW c \in Client, Response(c)
  PROVE  RecordInv'
<1> DEFINE answer == task[c].r.answer
           switched == answer.status = "switching"
           pc == IF switched THEN "upgraded" ELSE "body"
           t == [task[c] EXCEPT !.pc = pc, !.down = answer.body.units]
           ctype == answer.body.ctype
           d == RecordResponse(DataOf(c), ctype, switched)
<1>1. /\ task[c].pc = "await" /\ task[c].pc # "idle" /\ UNCHANGED sent
      /\ task' = [task EXCEPT ![c].pc = pc, ![c].down = answer.body.units]
      /\ Record(c, d, 1)
  BY DEF Response
<1>2. /\ task[c] \in Forwarding /\ task \in [Client -> {Idle} \cup Forwarding]
      /\ owed[task[c].id] \in Nat /\ (task[c].rec => DataRight(DataOf(c)))
  BY <1>1, AtRequest DEF ForwardInv, Typed
<1>3. Used' = Used /\ \A i \in Used : i # task[c].id => sent'[i].cut = sent[i].cut
  BY <1>1 DEF Used
<1>4. ctype \in ContentType
  <2>1. task[c].r \in Requests
    BY <1>2 DEF Forwarding
  <2>2. answer.body \in Body
    BY <2>1, ProxyAssumption
  <2> QED BY <2>2 DEF Body
<1>5. switched \in BOOLEAN
  OBVIOUS
<1>6. task[c].rec => /\ DataRight(d) /\ d.status = (IF switched THEN "switching" ELSE "ok")
                     /\ d.upgraded = switched
  <2> HIDE DEF ctype, switched
  <2> QED BY <1>2, <1>4, <1>5, AnsweredRight
<1>7. task' = [task EXCEPT ![c] = t]
  BY <1>1, <1>2
<1>8. t.pc = pc /\ t.id = task[c].id /\ t.rec = task[c].rec
  <2> HIDE DEF pc, answer
  <2> QED BY <1>2 DEF Forwarding
<1> HIDE DEF t, d
<1>9. t # Idle /\ Follows(t, task[c])
  BY <1>8, IdleFacts DEF Follows
<1>10. owed[task[c].id] + 1 # 0
  BY <1>2
<1>11. task[c].rec => DataRight(d) /\ Records(t, d, owed[task[c].id] + 1, sent'[task[c].id].cut)
  BY <1>6, <1>8, <1>9, <1>10 DEF Records, Stage, InLine
<1> QED BY <1>1, <1>3, <1>7, <1>9, <1>11, RecordStep

\* The answer's body ends one way or another.
LEMMA EndOfBodyRecord ==
  ASSUME ForwardInv, RecordInv, NEW c \in Client, task[c].pc = "body",
         NEW state \in {"done", "aborted", "error"}, EndOfBody(c, state), UNCHANGED sent
  PROVE  RecordInv'
<1> DEFINE d == RecordFinish(DataOf(c), "response", state)
           rest == IF task[c].up = <<>> THEN "done" ELSE "aborted"
           e == IF task[c].tapped THEN RecordFinish(d, "request", rest) ELSE d
           due == IF task[c].tapped THEN 2 ELSE 1
<1>1. Record(c, e, due) /\ task' = [task EXCEPT ![c] = Idle]
  BY DEF EndOfBody
<1>2. /\ task[c].pc # "idle" /\ owed[task[c].id] \in Nat
      /\ task[c].rec => DataRight(DataOf(c)) /\ Stage(task[c], DataOf(c))
  BY AtRequest
<1>3. Used' = Used /\ \A i \in Used : i # task[c].id => sent'[i].cut = sent[i].cut
  BY DEF Used
<1>4. rest \in {"done", "aborted", "error"}
  OBVIOUS
<1>5. ASSUME task[c].rec
      PROVE  DataRight(e) /\ e.status = "ok" /\ ~e.upgraded /\ e.response.state = state
  <2>1. DataRight(d) /\ d.status = "ok" /\ ~d.upgraded /\ d.response.state = state
    BY <1>2, <1>5, FinishedRight DEF Side, Stage
  <2>2. CASE task[c].tapped
    <3> DEFINE f == RecordFinish(d, "request", rest)
    <3>1. DataRight(f) /\ f.status = d.status /\ f.upgraded = d.upgraded /\ f.response = d.response
      <4> HIDE DEF d, rest
      <4> QED BY <1>4, <2>1, FinishedRight DEF Side
    <3>2. e = f
      BY <2>2
    <3> HIDE DEF d, f, e
    <3> QED BY <2>1, <3>1, <3>2
  <2>3. CASE ~task[c].tapped
    BY <2>1, <2>3
  <2> QED BY <2>2, <2>3
<1>6. due \in Nat /\ owed[task[c].id] + due # 0
  BY <1>2
<1> HIDE DEF e, due
<1>7. task[c].rec => state_of(e) = state
  BY <1>5 DEF state_of
<1>8. task[c].rec => DataRight(e) /\ Records(Idle, e, owed[task[c].id] + due, sent'[task[c].id].cut)
  BY <1>5, <1>6, <1>7 DEF Records, InLine, Unfinished
<1>9. Follows(Idle, task[c])
  BY DEF Follows
<1> QED BY <1>1, <1>2, <1>3, <1>6, <1>8, <1>9, RecordStep

LEMMA CutFacts ==
  ASSUME ForwardInv, NEW c \in Client, task[c].pc # "idle", Cut(c)
  PROVE  /\ Used' = Used /\ sent'[task[c].id].cut = TRUE
         /\ \A i \in Used : i # task[c].id => sent'[i].cut = sent[i].cut
<1>1. task[c].id \in Used /\ sent \in [Used -> Sent] /\ sent[task[c].id] \in Sent
  BY DEF ForwardInv, Own, Typed
<1> QED BY <1>1 DEF Cut, Used, Sent

LEMMA EndingsRecord ==
  ASSUME ForwardInv, RecordInv, NEW c \in Client,
         ResponseEnd(c) \/ RelayEnds(c) \/ ClientLeaves(c)
  PROVE  RecordInv'
<1>1. CASE ResponseEnd(c)
  BY <1>1, EndOfBodyRecord DEF ResponseEnd
<1>2. CASE RelayEnds(c)
  <2>1. /\ task[c].pc = "upgraded" /\ task[c].pc # "idle" /\ task' = [task EXCEPT ![c] = Idle]
        /\ Follows(Idle, task[c])
    BY <1>2 DEF RelayEnds, Follows
  <2>2. ~Drifts(task[c])
    BY <2>1 DEF Drifts
  <2>3. /\ owed[task[c].id] \in Nat
        /\ task[c].rec => /\ DataRight(DataOf(c)) /\ InLine(DataOf(c), owed[task[c].id])
                          /\ DataOf(c).upgraded /\ DataOf(c).status = "switching"
    BY <2>1, <2>2, AtRequest DEF Stage
  <2>4. CASE Record(c, RecordClosed(DataOf(c)), 0) /\ UNCHANGED sent
    <3> DEFINE d == RecordClosed(DataOf(c))
    <3>1. task[c].rec => /\ DataRight(d) /\ SameEntry(d, DataOf(c))
                         /\ weight(d) = weight(DataOf(c)) /\ state_of(d) = "closed"
      BY <2>3, ClosedRight
    <3>2. Record(c, d, 0)
      BY <2>4
    <3> HIDE DEF d
    <3>3. owed[task[c].id] + 0 = owed[task[c].id]
      BY <2>3
    <3>4. task[c].rec => DataRight(d) /\ Records(Idle, d, owed[task[c].id] + 0, sent'[task[c].id].cut)
      BY <2>3, <3>1, <3>3 DEF Records, InLine, SameEntry, Unfinished
    <3>5. Used' = Used /\ \A i \in Used : i # task[c].id => sent'[i].cut = sent[i].cut
      BY <2>4 DEF Used
    <3> QED BY <2>1, <3>2, <3>4, <3>5, RecordStep
  <2>5. CASE Cut(c) /\ UNCHANGED <<store, owed>>
    <3>1. /\ Used' = Used /\ sent'[task[c].id].cut = TRUE
          /\ \A i \in Used : i # task[c].id => sent'[i].cut = sent[i].cut
      BY <2>1, <2>5, CutFacts
    <3>2. task[c].rec => Records(Idle, DataOf(c), owed[task[c].id], sent'[task[c].id].cut)
      BY <2>3, <3>1 DEF Records
    <3> QED BY <2>1, <2>5, <3>1, <3>2, QuietRecord
  <2> QED BY <1>2, <2>4, <2>5 DEF RelayEnds
<1>3. CASE ClientLeaves(c)
  <2>1. CASE task[c].pc = "body"
    <3> DEFINE state == IF task[c].down = <<>> THEN "done" ELSE "aborted"
    <3>1. EndOfBody(c, state) /\ UNCHANGED sent
      BY <1>3, <2>1 DEF ClientLeaves
    <3>2. state \in {"done", "aborted", "error"}
      OBVIOUS
    <3> HIDE DEF state
    <3> QED BY <2>1, <3>1, <3>2, EndOfBodyRecord
  <2>2. CASE task[c].pc # "body"
    <3> DEFINE state == IF task[c].up = <<>> THEN "done" ELSE "aborted"
               d == IF task[c].tapped THEN RecordFinish(DataOf(c), "request", state) ELSE DataOf(c)
               due == IF task[c].tapped THEN 1 ELSE 0
    <3>1. /\ task[c].pc \in {"forward", "connect", "reconnect", "send", "resend", "await"}
          /\ Record(c, d, due) /\ task' = [task EXCEPT ![c] = Idle] /\ Cut(c)
      BY <1>3, <2>2 DEF ClientLeaves
    <3>2. task[c].pc # "idle" /\ Follows(Idle, task[c])
      BY <3>1 DEF Follows
    <3>3. /\ Used' = Used /\ sent'[task[c].id].cut = TRUE
          /\ \A i \in Used : i # task[c].id => sent'[i].cut = sent[i].cut
      BY <3>1, <3>2, CutFacts
    <3>4. state \in {"done", "aborted", "error"} /\ due \in Nat
      OBVIOUS
    <3>5. owed[task[c].id] \in Nat
      BY <3>2, AtRequest
    <3>6. ASSUME task[c].rec
          PROVE  DataRight(d) /\ InLine(d, owed[task[c].id] + due)
      <4> HIDE DEF state
      <4>1. DataRight(DataOf(c))
        BY <3>2, <3>6, AtRequest
      <4>2. CASE task[c].tapped
        <5>1. d = RecordFinish(DataOf(c), "request", state) /\ due = 1
          BY <4>2
        <5>2. DataRight(d)
          BY <3>4, <4>1, <5>1, FinishedRight DEF Side
        <5> HIDE DEF d, due
        <5>3. owed[task[c].id] + due # 0
          BY <3>5, <5>1
        <5> QED BY <5>2, <5>3 DEF InLine
      <4>3. CASE ~task[c].tapped
        <5>1. d = DataOf(c) /\ due = 0
          BY <4>3
        <5>2. ~Drifts(task[c])
          BY <2>2, <4>3 DEF Drifts
        <5>3. InLine(DataOf(c), owed[task[c].id])
          BY <3>2, <3>6, <5>2, AtRequest
        <5> HIDE DEF d, due
        <5>4. owed[task[c].id] + due = owed[task[c].id]
          BY <3>5, <5>1
        <5> QED BY <4>1, <5>1, <5>3, <5>4
      <4> QED BY <4>2, <4>3
    <3> HIDE DEF d, due
    <3>7. task[c].rec => DataRight(d) /\ Records(Idle, d, owed[task[c].id] + due, sent'[task[c].id].cut)
      BY <3>3, <3>6 DEF Records
    <3> QED BY <3>1, <3>2, <3>3, <3>4, <3>7, RecordStep
  <2> QED BY <2>1, <2>2
<1> QED BY <1>1, <1>2, <1>3

\* A request begins to be recorded: its exchange is new, and what is evicted for it only
\* leaves the ring.
LEMMA BeginFacts ==
  ASSUME RecordInv, NEW id \in Exchange, id \notin DOMAIN store.ex,
         NEW n \in recording(store), NEW ctype \in ContentType
  PROVE  LET st == begin(store, id, n, ctype, 0) IN
         /\ DOMAIN st = StoreFields /\ st.mode = store.mode
         /\ DOMAIN st.ex = DOMAIN store.ex \cup {id}
         /\ DataRight(st.ex[id]) /\ \A due : InLine(st.ex[id], due)
         /\ \A i \in DOMAIN store.ex :
              /\ Alike(st.ex[i], store.ex[i])
              /\ \A due : InLine(store.ex[i], due) => InLine(st.ex[i], due)
<1> DEFINE d == NewData(n, store.mode[n], ctype, 0, id)
           ex == [i \in DOMAIN store.ex \cup {id} |-> IF i = id THEN d ELSE store.ex[i]]
           ring == [store.ring EXCEPT ![d.node] = Append(@, id)]
           bytes == [store.bytes EXCEPT ![d.node] = @ + d.accounted]
           total == store.total + d.accounted
           wide == [store EXCEPT !.ex = ex, !.ring = ring, !.bytes = bytes, !.total = total]
           st == begin(store, id, n, ctype, 0)
<1>1. /\ DOMAIN store = StoreFields /\ store.mode \in [Node -> BodyMode \cup {Off}]
      /\ \A i \in DOMAIN store.ex : DataRight(store.ex[i])
  BY DEF RecordInv, Recording
<1>2. n \in Node /\ store.mode[n] \in BodyMode
  BY <1>1 DEF recording
<1>3. DataRight(d) /\ d.accounted = weight(d)
  BY <1>2, BegunRight
<1> HIDE DEF d
<1>4. st = evict(wide, d.node)
  <2>1. st = push(store, id, d)
    BY DEF begin, d
  <2>2. push(store, id, d) =
          evict([store EXCEPT !.ex = [i \in DOMAIN @ \cup {id} |-> IF i = id THEN d ELSE @[i]],
                              !.ring[d.node] = Append(@, id),
                              !.bytes[d.node] = @ + d.accounted,
                              !.total = @ + d.accounted], d.node)
    BY DEF push
  <2>3. [store EXCEPT !.ex = [i \in DOMAIN @ \cup {id} |-> IF i = id THEN d ELSE @[i]],
                      !.ring[d.node] = Append(@, id),
                      !.bytes[d.node] = @ + d.accounted,
                      !.total = @ + d.accounted] = wide
    BY <1>1 DEF StoreFields
  <2> HIDE DEF wide, st
  <2> QED BY <2>1, <2>2, <2>3
<1>5. /\ DOMAIN ex = DOMAIN store.ex \cup {id} /\ ex[id] = d
      /\ \A i \in DOMAIN store.ex : ex[i] = store.ex[i]
  OBVIOUS
<1> HIDE DEF ex, ring, bytes, total
<1>6. DOMAIN wide = StoreFields /\ wide.mode = store.mode /\ wide.ex = ex
  BY <1>1 DEF StoreFields
<1> HIDE DEF wide
<1>7. PICK gone : st.ex = Leave(ex, gone)
  BY <1>4, <1>6, EvictFacts
<1>8. DOMAIN st = StoreFields /\ st.mode = store.mode
  BY <1>4, <1>6, EvictFacts
<1> HIDE DEF st
<1>9. \A i \in DOMAIN ex : DataRight(ex[i])
  BY <1>1, <1>3, <1>5
<1>10. /\ DOMAIN st.ex = DOMAIN ex
       /\ \A i \in DOMAIN ex : /\ Alike(st.ex[i], ex[i])
                               /\ \A due : InLine(ex[i], due) => InLine(st.ex[i], due)
  BY <1>7, <1>9, LeaveFacts
<1>11. DataRight(st.ex[id]) /\ \A due : InLine(st.ex[id], due)
  <2>1. \A due : InLine(d, due)
    BY <1>3 DEF InLine
  <2> QED BY <1>5, <1>10, <2>1 DEF Alike
<1>12. \A i \in DOMAIN store.ex :
         /\ Alike(st.ex[i], store.ex[i])
         /\ \A due : InLine(store.ex[i], due) => InLine(st.ex[i], due)
  BY <1>5, <1>10
<1> QED BY <1>5, <1>8, <1>10, <1>11, <1>12 DEF st

\* A request arrives, and its task is t when its node answers.
LEMMA ArriveRecord ==
  ASSUME ForwardInv, RecordInv, NEW c \in Client, NEW r \in Requests, Arrive(c, r)
  PROVE  RecordInv'
<1> DEFINE n == r.node
           rec == n \in recording(store)
<1>1. PICK id \in Fresh :
        /\ sent' = [i \in Used \cup {id} |->
                     IF i \in Used THEN sent[i]
                     ELSE [r |-> r, to |-> backend_for(n), reached |-> <<>>, cut |-> FALSE]]
        /\ IF port[n] = 0 THEN not_found_response
           ELSE /\ store' = IF rec THEN begin(store, id, n, r.body.ctype, 0) ELSE store
                /\ task' = [task EXCEPT ![c] =
                        [pc |-> "forward", id |-> id, rec |-> rec, r |-> r,
                         to |-> backend_for(n), reused |-> FALSE, upgrade |-> "upgrade" \in r.headers,
                         up |-> r.body.units, down |-> <<>>, tapped |-> FALSE]]
  BY DEF Arrive
<1>2. task[c].pc = "idle" /\ UNCHANGED owed
  BY DEF Arrive
<1>3. id \in Exchange /\ id \notin Used
  BY DEF Fresh
<1>4. Used' = Used \cup {id} /\ \A i \in Used : sent'[i] = sent[i]
  BY <1>1 DEF Used
<1>5. /\ DOMAIN store = StoreFields /\ store.mode \in [Node -> BodyMode \cup {Off}]
      /\ \A i \in DOMAIN store.ex : DataRight(store.ex[i])
      /\ owed \in [Exchange -> Nat] /\ \A i \in Exchange : owed[i] > 0 => i \in DOMAIN store.ex
      /\ DOMAIN store.ex \subseteq Used
  BY DEF RecordInv, Recording
<1>6. id \notin DOMAIN store.ex
  BY <1>3, <1>5
<1>7. \A e \in Client : task[e].pc # "idle" => task[e].id \in Used /\ task[e].id # id
  BY <1>3 DEF ForwardInv, Own
<1>8. CASE UNCHANGED <<task, store>>
  <2>1. Recording'
    BY <1>2, <1>4, <1>5, <1>8 DEF Recording
  <2>2. Followed'
    BY <1>2, <1>8 DEF RecordInv, Followed
  <2>3. Ended'
    BY <1>2, <1>4, <1>5, <1>8 DEF RecordInv, Ended, Left
  <2> QED BY <2>1, <2>2, <2>3 DEF RecordInv
<1>9. CASE port[n] # 0
  <2> DEFINE up == "upgrade" \in r.headers
             t == [pc |-> "forward", id |-> id, rec |-> rec, r |-> r,
                   to |-> backend_for(n), reused |-> FALSE, upgrade |-> up,
                   up |-> r.body.units, down |-> <<>>, tapped |-> FALSE]
  <2>1. task' = [task EXCEPT ![c] = t]
    BY <1>1, <1>9
  <2>2. t.pc = "forward" /\ t.id = id /\ (t.rec <=> rec) /\ t.tapped = FALSE
    OBVIOUS
  <2>3. store' = IF rec THEN begin(store, id, n, r.body.ctype, 0) ELSE store
    BY <1>1, <1>9
  <2> HIDE DEF t
  <2>4. task'[c] = t /\ \A e \in Client : e # c => task'[e] = task[e]
    BY <2>1 DEF ForwardInv, Typed
  <2>5. /\ DOMAIN store' = StoreFields /\ store'.mode = store.mode
        /\ DOMAIN store'.ex = DOMAIN store.ex \cup (IF rec THEN {id} ELSE {})
        /\ rec => DataRight(store'.ex[id]) /\ \A due : InLine(store'.ex[id], due)
        /\ \A i \in DOMAIN store.ex :
              /\ Alike(store'.ex[i], store.ex[i])
              /\ \A due : InLine(store.ex[i], due) => InLine(store'.ex[i], due)
    <3>1. CASE rec
      <4>1. r.body \in Body
        BY ProxyAssumption
      <4>2. r.body.ctype \in ContentType
        BY <4>1 DEF Body
      <4> HIDE DEF n
      <4>3. store' = begin(store, id, n, r.body.ctype, 0)
        BY <2>3, <3>1
      <4> QED BY <1>3, <1>6, <3>1, <4>2, <4>3, BeginFacts
    <3>2. CASE ~rec
      <4>1. store' = store
        BY <2>3, <3>2
      <4> HIDE DEF rec
      <4> QED BY <1>5, <3>2, <4>1 DEF Alike
    <3> QED BY <3>1, <3>2
  <2> HIDE DEF rec
  <2>6. Recording'
    <3>1. DOMAIN store'.ex \subseteq Used'
      BY <1>4, <1>5, <2>5
    <3>2. \A i \in DOMAIN store'.ex : DataRight(store'.ex[i])
      BY <2>5 DEF Alike
    <3>3. \A i \in Exchange : owed[i] > 0 => i \in DOMAIN store'.ex
      BY <1>5, <2>5
    <3> QED BY <1>2, <1>5, <2>5, <3>1, <3>2, <3>3 DEF Recording
  <2>7. Followed'
    <3> SUFFICES ASSUME NEW e \in Client, task'[e].pc # "idle"
                 PROVE  /\ task'[e].rec <=> task'[e].id \in DOMAIN store'.ex
                        /\ task'[e].rec =>
                             /\ Stage(task'[e], store'.ex[task'[e].id])
                             /\ \/ Drifts(task'[e])
                                \/ InLine(store'.ex[task'[e].id], owed[task'[e].id])
      BY <1>2 DEF Followed
    <3>1. CASE e = c
      BY <1>6, <2>2, <2>4, <2>5, <3>1 DEF Stage
    <3>2. CASE e # c
      <4>1. task'[e] = task[e] /\ task[e].id # id
        BY <1>7, <2>4, <3>2
      <4>2. /\ task[e].rec <=> task[e].id \in DOMAIN store.ex
            /\ task[e].rec =>
                 /\ Stage(task[e], store.ex[task[e].id])
                 /\ Drifts(task[e]) \/ InLine(store.ex[task[e].id], owed[task[e].id])
        BY <4>1 DEF RecordInv, Followed
      <4>3. task[e].id \in DOMAIN store.ex => Alike(store'.ex[task[e].id], store.ex[task[e].id])
        BY <2>5
      <4> QED BY <2>5, <4>1, <4>2, <4>3 DEF Stage, Alike
    <3> QED BY <3>1, <3>2
  <2>8. Ended'
    <3> SUFFICES ASSUME NEW i \in DOMAIN store'.ex,
                        \A e \in Client : task'[e].pc # "idle" => task'[e].id # i
                 PROVE  /\ state_of(store'.ex[i]) \in Unfinished => sent'[i].cut
                        /\ InLine(store'.ex[i], owed[i])
      BY <1>2 DEF Ended, Left
    <3>1. i # id
      BY <2>2, <2>4
    <3>2. i \in DOMAIN store.ex /\ sent'[i] = sent[i]
      BY <1>4, <1>5, <2>5, <3>1
    <3>3. Left(i)
      BY <1>2, <2>4 DEF Left
    <3>4. /\ state_of(store.ex[i]) \in Unfinished => sent[i].cut
          /\ InLine(store.ex[i], owed[i])
      BY <3>2, <3>3 DEF RecordInv, Ended
    <3>5. Alike(store'.ex[i], store.ex[i])
      BY <2>5, <3>2
    <3> QED BY <2>5, <3>2, <3>4, <3>5 DEF Alike
  <2> QED BY <2>6, <2>7, <2>8 DEF RecordInv
<1> QED BY <1>1, <1>8, <1>9 DEF not_found_response

LEMMA AccountRecord ==
  ASSUME ForwardInv, RecordInv, NEW id \in Exchange, Account(id)
  PROVE  RecordInv'
<1> DEFINE d == store.ex[id]
           e == [d EXCEPT !.accounted = weight(d)]
           more == weight(d) - d.accounted
           ex == [store.ex EXCEPT ![id] = e]
           bytes == [store.bytes EXCEPT ![d.node] = @ + more]
           total == store.total + more
           wide == [store EXCEPT !.ex = ex, !.bytes = bytes, !.total = total]
<1>1. /\ owed[id] > 0 /\ store' = account(store, id) /\ owed' = [owed EXCEPT ![id] = @ - 1]
      /\ UNCHANGED <<task, sent>>
  BY DEF Account
<1>2. /\ DOMAIN store = StoreFields /\ store.mode \in [Node -> BodyMode \cup {Off}]
      /\ \A i \in DOMAIN store.ex : DataRight(store.ex[i])
      /\ owed \in [Exchange -> Nat] /\ \A i \in Exchange : owed[i] > 0 => i \in DOMAIN store.ex
      /\ DOMAIN store.ex \subseteq Used
  BY DEF RecordInv, Recording
<1>3. id \in DOMAIN store.ex /\ DataRight(d)
  BY <1>1, <1>2
<1>4. /\ owed' \in [Exchange -> Nat] /\ \A i \in Exchange : owed'[i] > 0 => owed[i] > 0
      /\ \A i \in Exchange : i # id => owed'[i] = owed[i]
  BY <1>1, <1>2
<1>5. d.in_ring \in BOOLEAN /\ DOMAIN store.ex \subseteq Exchange
  BY <1>2, <1>3, DataFields DEF ForwardInv, Typed
<1>6. CASE ~d.in_ring
  <2>1. UNCHANGED store
    BY <1>1, <1>6 DEF account
  <2>2. \A i \in DOMAIN store.ex : Alike(store'.ex[i], store.ex[i])
    BY <1>2, <2>1 DEF Alike
  <2>3. InLine(d, owed'[id])
    BY <1>6 DEF InLine
  <2>4. \A i \in DOMAIN store.ex : InLine(store.ex[i], owed[i]) => InLine(store'.ex[i], owed'[i])
    BY <1>4, <1>5, <2>1, <2>3
  <2> QED BY <1>1, <1>2, <1>4, <2>1, <2>2, <2>4, AroundRecord
<1>7. CASE d.in_ring
  <2>1. store' = evict(wide, d.node)
    <3>1. account(store, id) = evict([store EXCEPT !.ex[id].accounted = weight(d),
                                                   !.bytes[d.node] = @ + more,
                                                   !.total = @ + more], d.node)
      BY <1>7 DEF account
    <3> HIDE DEF more
    <3>2. [store EXCEPT !.ex[id].accounted = weight(d), !.bytes[d.node] = @ + more,
                        !.total = @ + more] = wide
      BY <1>2, <1>3 DEF StoreFields
    <3> HIDE DEF wide
    <3> QED BY <1>1, <3>1, <3>2
  <2>2. Alike(e, d) /\ \A due : InLine(e, due)
    <3> HIDE DEF d
    <3> QED BY <1>3, CountedAnew
  <2> HIDE DEF e, more
  <2>3. /\ DOMAIN ex = DOMAIN store.ex /\ ex[id] = e
        /\ \A i \in DOMAIN store.ex : i # id => ex[i] = store.ex[i]
    BY <1>3
  <2> HIDE DEF ex, bytes, total
  <2>4. DOMAIN wide = StoreFields /\ wide.mode = store.mode /\ wide.ex = ex
    BY <1>2 DEF StoreFields
  <2> HIDE DEF wide
  <2>5. /\ DOMAIN store' = StoreFields /\ store'.mode = store.mode
        /\ \E gone : store'.ex = Leave(ex, gone)
    BY <2>1, <2>4, EvictFacts
  <2>6. PICK gone : store'.ex = Leave(ex, gone)
    BY <2>5
  <2>7. \A i \in DOMAIN ex : DataRight(ex[i])
    BY <1>2, <2>2, <2>3 DEF Alike
  <2>8. /\ DOMAIN store'.ex = DOMAIN ex
        /\ \A i \in DOMAIN ex : /\ Alike(store'.ex[i], ex[i])
                                /\ \A due : InLine(ex[i], due) => InLine(store'.ex[i], due)
    BY <2>6, <2>7, LeaveFacts
  <2>9. ASSUME NEW i \in DOMAIN store.ex
        PROVE  /\ Alike(store'.ex[i], store.ex[i])
               /\ InLine(store.ex[i], owed[i]) => InLine(store'.ex[i], owed'[i])
    <3>1. CASE i = id
      <4>1. Alike(store'.ex[i], e) /\ \A due : InLine(store'.ex[i], due)
        BY <2>2, <2>3, <2>8, <3>1
      <4> QED BY <2>2, <3>1, <4>1 DEF Alike
    <3>2. CASE i # id
      BY <1>4, <1>5, <2>3, <2>8, <3>2
    <3> QED BY <3>1, <3>2
  <2> QED BY <1>1, <1>2, <1>4, <2>3, <2>5, <2>8, <2>9, AroundRecord
<1> QED BY <1>5, <1>6, <1>7

LEMMA UiRecord ==
  ASSUME RecordInv, NEW n \in Node, Clear(n) \/ \E m \in SwitchTo : Switch(n, m)
  PROVE  RecordInv'
<1>1. UNCHANGED <<task, sent, owed>>
  BY DEF Clear, Switch
<1>2. /\ DOMAIN store = StoreFields /\ store.mode \in [Node -> BodyMode \cup {Off}]
      /\ \A i \in DOMAIN store.ex : DataRight(store.ex[i])
      /\ owed \in [Exchange -> Nat]
  BY DEF RecordInv, Recording
<1>3. CASE Clear(n)
  <2> DEFINE gone == ToSet(store.ring[n])
             ex == Leave(store.ex, gone)
             ring == [store.ring EXCEPT ![n] = <<>>]
             total == store.total - store.bytes[n]
             bytes == [store.bytes EXCEPT ![n] = 0]
             at == [store.cleared_at EXCEPT ![n] = 0]
  <2>1. store' = [store EXCEPT !.ex = Leave(@, gone), !.ring[n] = <<>>,
                               !.total = @ - store.bytes[n], !.bytes[n] = 0, !.cleared_at[n] = 0]
    BY <1>3 DEF Clear, clear
  <2> HIDE DEF gone
  <2>2. store' = [store EXCEPT !.ex = ex, !.ring = ring, !.total = total, !.bytes = bytes,
                               !.cleared_at = at]
    BY <1>2, <2>1 DEF StoreFields
  <2>3. /\ DOMAIN ex = DOMAIN store.ex
        /\ \A i \in DOMAIN store.ex :
             /\ Alike(ex[i], store.ex[i])
             /\ \A due : InLine(store.ex[i], due) => InLine(ex[i], due)
    BY <1>2, LeaveFacts
  <2> HIDE DEF ex, ring, total, bytes, at
  <2>4. DOMAIN store' = StoreFields /\ store'.mode = store.mode /\ store'.ex = ex
    BY <1>2, <2>2 DEF StoreFields
  <2> QED BY <1>1, <1>2, <2>3, <2>4, AroundRecord
<1>4. ASSUME NEW m \in SwitchTo, Switch(n, m)
      PROVE  RecordInv'
  <2> DEFINE mode == [store.mode EXCEPT ![n] = m]
  <2>1. store' = [store EXCEPT !.mode = mode]
    BY <1>2, <1>4 DEF Switch, set_mode, StoreFields
  <2>2. mode \in [Node -> BodyMode \cup {Off}]
    BY <1>2, ProxyAssumption
  <2> HIDE DEF mode
  <2>3. DOMAIN store' = StoreFields /\ store'.mode = mode /\ store'.ex = store.ex
    BY <1>2, <2>1 DEF StoreFields
  <2>4. \A i \in DOMAIN store.ex : Alike(store'.ex[i], store.ex[i])
    BY <1>2, <2>3 DEF Alike
  <2> QED BY <1>1, <1>2, <2>2, <2>3, <2>4, AroundRecord
<1> QED BY <1>3, <1>4

LEMMA StepRecord ==
  ASSUME ForwardInv, RecordInv, [Next]_vars
  PROVE  RecordInv'
<1>1. ASSUME UNCHANGED <<store, owed, task, sent>>
      PROVE  RecordInv'
  <2>1. /\ DOMAIN store = StoreFields /\ store.mode \in [Node -> BodyMode \cup {Off}]
        /\ owed \in [Exchange -> Nat] /\ \A i \in DOMAIN store.ex : Alike(store.ex[i], store.ex[i])
    BY DEF RecordInv, Recording, Alike
  <2> QED BY <1>1, <2>1, AroundRecord
<1>2. CASE UNCHANGED vars
  BY <1>1, <1>2 DEF vars
<1>3. ASSUME NEW c \in Client, Step(c)
      PROVE  RecordInv'
  BY <1>3, TowardsBackend, SendFailsRecord, BodiesRecord, ResponseRecord, EndingsRecord DEF Step
<1>4. ASSUME NEW c \in Client, BackendHangsUp(c)
      PROVE  RecordInv'
  BY <1>1, <1>4 DEF BackendHangsUp
<1>5. ASSUME NEW n \in Node, Recreate(n)
      PROVE  RecordInv'
  BY <1>1, <1>5 DEF Recreate
<1> QED BY <1>2, <1>3, <1>4, <1>5, EndingsRecord, ArriveRecord, AccountRecord, UiRecord DEF Next

LEMMA RecordImplies ==
  ASSUME ForwardInv, RecordInv
  PROVE  RecordedRight
<1>1. RecordingEnds
  <2> SUFFICES ASSUME NEW i \in DOMAIN store.ex \ Busy
               PROVE  /\ state_of(store.ex[i]) \in {"pending", "streaming", "open"} => sent[i].cut
                      /\ store.ex[i].in_ring /\ owed[i] = 0 => store.ex[i].accounted = weight(store.ex[i])
    BY DEF RecordingEnds
  <2>1. Left(i)
    BY DEF Left, Busy
  <2> QED BY <2>1 DEF RecordInv, Ended, InLine, Unfinished
<1>2. KeptAsAsked
  <2> SUFFICES ASSUME NEW i \in DOMAIN store.ex, NEW side \in Side
               PROVE  LET d == store.ex[i]
                          c == d[side]
                      IN /\ Len(c.data) <= BODY_CAP
                         /\ view(c) \in {"text", "binary"} /\ Len(c.data) < c.size => c.truncated
                         /\ d.mode = "none" => c.data = <<>> /\ c.parts = <<>>
                         /\ d.mode = "text" /\ c.state \notin {"pending", "streaming"} =>
                              /\ view(c) = "binary" => c.ctype = "text"
                              /\ \A k \in DOMAIN c.parts : c.parts[k] \in {<<>>, <<"t">>}
    BY DEF KeptAsAsked, Side
  <2> DEFINE d == store.ex[i]
             c == d[side]
  <2>1. DataRight(d)
    BY DEF RecordInv, Recording
  <2>2. c \in Capture /\ KeptRight(c, d.mode)
    <3>1. CASE side = "request"
      <4>1. c = d.request
        BY <3>1
      <4> HIDE DEF c, d
      <4> QED BY <2>1, <4>1, DataFields
    <3>2. CASE side = "response"
      <4>1. c = d.response
        BY <3>2
      <4> HIDE DEF c, d
      <4> QED BY <2>1, <4>1, DataFields
    <3> QED BY <3>1, <3>2 DEF Side
  <2> HIDE DEF c, d
  <2>3. c.keep \in Keep /\ c.parts \in Seq({<<>>, <<"t">>})
    BY <2>2 DEF Capture
  <2>4. \A k \in DOMAIN c.parts : c.parts[k] \in {<<>>, <<"t">>}
    <3> DEFINE P == {<<>>, <<"t">>}
               parts == c.parts
    <3>1. parts \in Seq(P)
      BY <2>3
    <3> HIDE DEF P, parts
    <3>2. \A k \in DOMAIN parts : parts[k] \in P
      BY <3>1
    <3> QED BY <3>2 DEF P, parts
  <2>5. view(c) \in {"text", "binary"} => c.keep \notin Dropping /\ c.ctype # "multipart"
    BY DEF view
  <2>6. view(c) = "binary" => ~looks_like_text(c.data)
    BY DEF view
  <2>7. d.mode = "text" /\ c.state \notin {"pending", "streaming"} /\ view(c) = "binary" => c.ctype = "text"
    <3> SUFFICES ASSUME d.mode = "text", c.state \notin {"pending", "streaming"}, view(c) = "binary"
                 PROVE  c.ctype = "text"
      OBVIOUS
    <3>1. c.keep \in {"full", "sniff"}
      BY <2>3, <2>5 DEF Keep, Dropping
    <3>2. c.keep # "sniff"
      BY <2>2, <2>6 DEF KeptRight
    <3> QED BY <2>2, <2>5, <3>1, <3>2 DEF KeptRight
  <2>8. /\ Len(c.data) <= BODY_CAP
        /\ view(c) \in {"text", "binary"} /\ Len(c.data) < c.size => c.truncated
        /\ d.mode = "none" => c.data = <<>> /\ c.parts = <<>>
    BY <2>2, <2>5 DEF KeptRight
  <2> QED BY <2>4, <2>7, <2>8 DEF c, d
<1> QED BY <1>1, <1>2 DEF RecordedRight

\* proxy.rs and traffic.rs: however retries, chunks, hang-ups, clears, evictions and changes of
\* mode interleave, a recording ends with its request unless nobody is left to end it, is then
\* counted as what it holds, and keeps of either body what its mode asked for.
THEOREM RecordingIsRight == Spec => []RecordedRight
<1>1. Init => ForwardInv /\ RecordInv
  BY InitForward, InitRecord
<1>2. ForwardInv /\ RecordInv /\ [Next]_vars => ForwardInv' /\ RecordInv'
  BY StepForward, StepRecord
<1>3. ForwardInv /\ RecordInv => RecordedRight
  BY RecordImplies
<1> QED BY <1>1, <1>2, <1>3, PTL DEF Spec
=============================================================================
