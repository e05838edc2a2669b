------------------------------ MODULE Traffic ------------------------------
(***************************************************************************)
(* The traffic store: what is recorded of the requests the proxy carries,  *)
(* per node and in memory only (src/web/traffic.rs).  Everything here is   *)
(* an operator on a store or on one exchange's data; Proxy records into a  *)
(* store as it forwards requests, and Capture copies the sidecar's store   *)
(* into fghjd's.                                                           *)
(*                                                                         *)
(* A body is a sequence of units, each "t" (text) or "b" (binary); in a    *)
(* multipart body a unit is a part: a text field, a binary one, or "f", a  *)
(* file that happens to be text.                                           *)
(* Sizes count units, and a block of headers weighs HEADERS.               *)
(***************************************************************************)
EXTENDS Integers, Sequences, FiniteSets, SequencesExt

CONSTANTS
  Node,            \* the nodes that have a log
  Exchange,        \* the ids an exchange may get
  MAX_EXCHANGES, NODE_BUDGET, GLOBAL_BUDGET, BODY_CAP,
  HEADERS,         \* the weight of one block of headers
  PART             \* the fixed weight of a part

ASSUME TrafficAssumption ==
  /\ {MAX_EXCHANGES, NODE_BUDGET, GLOBAL_BUDGET, BODY_CAP} \subseteq Nat \ {0}
  /\ {HEADERS, PART} \subseteq Nat

BodyMode == {"none", "text", "all"}
Off == "off"                       \* recording is switched off

ContentType == {"text", "multipart", "binary", "unknown"}
Body == [ctype : ContentType, units : Seq({"t", "b", "f"})]

----------------------------------------------------------------------------
(* One side of an exchange.                                                *)

Keep == {"full", "sniff", "headers_only", "binary"}
Dropping == {"headers_only", "binary"}
BodyState == {"pending", "streaming", "done", "aborted", "error"}

classify(mode, ctype) ==
  IF mode = "none" THEN "headers_only"
  ELSE IF mode = "all" \/ ctype \in {"text", "multipart"} THEN "full"
  ELSE IF ctype = "binary" THEN "binary"
  ELSE "sniff"

Captured(mode, ctype) ==
  [keep |-> classify(mode, ctype), ctype |-> ctype, data |-> <<>>, size |-> 0,
   truncated |-> FALSE, state |-> "pending", parts |-> <<>>]

\* A chunk of one unit: the wire size counts on past the cap.
CapturedPush(c, unit) ==
  LET room == BODY_CAP - Len(c.data)
      seen == [c EXCEPT !.state = "streaming", !.size = @ + 1]
  IN IF c.keep \in Dropping THEN seen
     ELSE [seen EXCEPT !.truncated = @ \/ room < 1,
                       !.data = IF room < 1 THEN @ ELSE Append(@, unit)]

looks_like_text(data) == "b" \notin ToSet(data)

\* The parts of a body, each with the text that is kept of it: a field's, a
\* file's only when files are asked for.
parse_multipart(data, keep_files) ==
  [i \in DOMAIN data |->
     IF data[i] = "t" \/ (keep_files /\ data[i] = "f") THEN <<data[i]>> ELSE <<>>]

PartWeight(text) == PART + Len(text)

CapturedFinish(c, state, mode) ==
  LET sniffed == IF c.keep = "sniff" /\ ~looks_like_text(c.data)
                 THEN [c EXCEPT !.keep = "binary", !.data = <<>>] ELSE c
      parts == IF mode = "text" /\ c.ctype = "multipart"
               THEN parse_multipart(sniffed.data, FALSE) ELSE <<>>
  IN [sniffed EXCEPT !.state = state, !.parts = parts,
                     !.data = IF parts = <<>> THEN @ ELSE <<>>]

\* What opening the body shows: nothing, parts, text or a binary blob.
view(c) ==
  IF c.keep \in Dropping THEN "omitted"
  ELSE IF c.data = <<>> THEN IF c.parts = <<>> THEN "empty" ELSE "parts"
  ELSE IF c.ctype = "multipart" THEN "parts"   \* parse_multipart(c.data, TRUE)
  ELSE IF looks_like_text(c.data) THEN "text" ELSE "binary"

----------------------------------------------------------------------------
(* One exchange.                                                           *)

\* accounted is what the ring counts the exchange as; in_ring is FALSE once
\* it was evicted or cleared, so that late body bytes aren't counted.
NewData(node, mode, ctype, started, remote) ==
  [node |-> node, mode |-> mode, started |-> started, remote |-> remote,
   headers |-> 1, status |-> "none", upgraded |-> FALSE, duration |-> FALSE,
   request |-> Captured(mode, ctype), response |-> Captured("none", "unknown"),
   accounted |-> HEADERS, in_ring |-> TRUE]

WeightOf(parts) == FoldLeft(LAMBDA w, p : w + PartWeight(p), 0, parts)

weight(d) ==
  d.headers * HEADERS + Len(d.request.data) + Len(d.response.data)
    + WeightOf(d.request.parts) + WeightOf(d.response.parts)

\* The state a summary gives.
state_of(d) ==
  IF d.status = "bad_gateway" THEN "error"
  ELSE IF d.status = "none" THEN "pending"
  ELSE IF d.upgraded THEN IF d.duration THEN "closed" ELSE "open"
  ELSE IF d.response.state \in {"done", "aborted", "error"}
  THEN d.response.state ELSE "streaming"

RecordResponse(d, ctype, upgraded) ==
  [d EXCEPT !.status = IF upgraded THEN "switching" ELSE "ok", !.headers = 2,
            !.response = Captured(d.mode, ctype), !.upgraded = upgraded]

RecordFail(d) == [d EXCEPT !.status = "bad_gateway", !.duration = TRUE]

RecordClosed(d) == [d EXCEPT !.duration = TRUE]

RecordChunk(d, side, unit) == [d EXCEPT ![side] = CapturedPush(@, unit)]

RecordFinish(d, side, state) ==
  [d EXCEPT ![side] = CapturedFinish(@, state, d.mode),
            !.duration = @ \/ side = "response"]

----------------------------------------------------------------------------
(* The store: every node's mode and ring, the bytes each ring and all of   *)
(* them count, and the data of every exchange that was ever pushed.        *)

EmptyStore ==
  [mode |-> [n \in Node |-> Off], ring |-> [n \in Node |-> <<>>],
   bytes |-> [n \in Node |-> 0], total |-> 0,
   cleared_at |-> [n \in Node |-> 0], ex |-> [i \in {} |-> 0]]

set_mode(st, n, mode) == [st EXCEPT !.mode[n] = mode]

recording(st) == {n \in Node : st.mode[n] # Off}

Leave(ex, gone) ==
  [i \in DOMAIN ex |->
     IF i \in gone THEN [ex[i] EXCEPT !.in_ring = FALSE] ELSE ex[i]]

clear(st, n, now) ==
  [st EXCEPT !.ex = Leave(@, ToSet(st.ring[n])), !.ring[n] = <<>>,
             !.total = @ - st.bytes[n], !.bytes[n] = 0, !.cleared_at[n] = now]

Accounted(ex, ids) == FoldLeft(LAMBDA w, i : w + ex[i].accounted, 0, ids)

\* Over a limit with k of the oldest entries gone.
OverLimit(st, n, k) ==
  LET freed == Accounted(st.ex, SubSeq(st.ring[n], 1, k))
  IN \/ Len(st.ring[n]) - k > MAX_EXCHANGES
     \/ st.bytes[n] - freed > NODE_BUDGET
     \/ st.total - freed > GLOBAL_BUDGET

\* Oldest first until every limit holds, but never the newest entry.
evict(st, n) ==
  LET size == Len(st.ring[n])
      enough == {k \in 0..size : size - k <= 1 \/ ~OverLimit(st, n, k)}
      k == CHOOSE j \in enough : \A i \in enough : j <= i
      out == SubSeq(st.ring[n], 1, k)
      freed == Accounted(st.ex, out)
  IN [st EXCEPT !.ring[n] = SubSeq(@, k + 1, size), !.bytes[n] = @ - freed,
                !.total = @ - freed, !.ex = Leave(@, ToSet(out))]

push(st, id, d) ==
  evict([st EXCEPT !.ex = [i \in DOMAIN @ \cup {id} |-> IF i = id THEN d ELSE @[i]],
                   !.ring[d.node] = Append(@, id),
                   !.bytes[d.node] = @ + d.accounted,
                   !.total = @ + d.accounted], d.node)

\* Starts recording one request, when its node is recording.
begin(st, id, n, ctype, now) ==
  push(st, id, NewData(n, st.mode[n], ctype, now, id))

\* Mutant: an exchange that has left the ring is counted all the same.
account_evicted(st, id) ==
  LET d == st.ex[id]
      more == weight(d) - d.accounted
  IN evict([st EXCEPT !.ex[id].accounted = weight(d), !.bytes[d.node] = @ + more,
                      !.total = @ + more], d.node)

\* Brings the ring's count in line with what the exchange holds now.
account(st, id) ==
  LET d == st.ex[id]
      more == weight(d) - d.accounted
  IN IF ~d.in_ring THEN st
     ELSE evict([st EXCEPT !.ex[id].accounted = weight(d),
                           !.bytes[d.node] = @ + more,
                           !.total = @ + more], d.node)

get(st, n, id) == id \in ToSet(st.ring[n])

----------------------------------------------------------------------------
(* What holds of a store between two operations.                           *)

\* Every ring counts what its entries are accounted as, the total counts the
\* rings, and only ring entries say they are in a ring: no byte of a body that
\* grew, was evicted or cleared while it was being recorded is counted twice or
\* never given back (evict, clear, account and ingest share the two counters).
AccountsAgree(st) ==
  /\ \A n \in Node : st.bytes[n] = Accounted(st.ex, st.ring[n])
  /\ st.total = FoldSet(LAMBDA n, w : w + st.bytes[n], 0, Node)
  /\ \A i \in DOMAIN st.ex : st.ex[i].in_ring <=> get(st, st.ex[i].node, i)

\* A log only evicts its own entries and never its newest, so the global limit
\* alone doesn't bound the total; but the rings that hold more than one entry
\* stay within it together, and each of them within its own limits.
WithinBudget(st) ==
  LET many == {n \in Node : Len(st.ring[n]) > 1}
  IN /\ FoldSet(LAMBDA n, w : w + st.bytes[n], 0, many) <= GLOBAL_BUDGET
     /\ \A n \in many : /\ Len(st.ring[n]) <= MAX_EXCHANGES
                        /\ st.bytes[n] <= NODE_BUDGET

=============================================================================
