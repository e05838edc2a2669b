--------------------------- MODULE RecordsProofs ---------------------------
(***************************************************************************)
(* Proofs about what fghjd records, Capture and History.                    *)
(*                                                                          *)
(* Capture, for any nodes, any length of the sidecar's feed and any number  *)
(* of connections, changes, requests and crashes: FeedWhole is an invariant *)
(* of the link between fghjd and a sidecar.                                 *)
(*                                                                          *)
(* NoGap speaks of a link that has drained, so it is not inductive.  What   *)
(* is (Covered): whatever the sidecar holds and fghjd lacks is on its way   *)
(* at one of four places, in the feed, in the queue, on the wire or behind  *)
(* a gap that was noticed.  An exchange travels as copies of which the last *)
(* one counts, so the copies have to come in order (InOrder) and be copies  *)
(* of what the sidecar has (Genuine).                                       *)
(*                                                                          *)
(* History, for any number of starts, lines and batch sizes: LogsWhole and  *)
(* NothingSpins are invariants.                                             *)
(***************************************************************************)
EXTENDS Capture, History, FiniteSetTheorems, TLAPS

----------------------------------------------------------------------------
(* The inductive invariant.                                                *)

\* A copy of an exchange, and what fghjd and the sidecar keep of a connection.
Copy == [origin : Nat, id : Nat, node : Node, started : Nat, version : Nat]
Connection == [id : Nat, origin : Nat, open : BOOLEAN, reading : BOOLEAN,
               up : Seq(Modes), last : Modes, feed : Seq(Nat), lagged : BOOLEAN,
               queue : Seq(Nat), down : Seq(Copy)]
SideStore == [origin : Nat, session : Nat, mode : Modes,
              ring : SUBSET Copy, begun : SUBSET Copy]

Typed ==
  /\ mode \in Modes /\ ring \in SUBSET Copy /\ cleared_at \in [Node -> Nat]
  /\ watch \in Modes \cup {NoSession} /\ link \in 0..Len(conns)
  /\ link # 0 => watch \in Modes
  /\ side \in SideStore /\ conns \in Seq(Connection) /\ now \in Nat
  /\ late \in BOOLEAN

\* fghjd has one connection open at most, the one its pull is on.
OneLink == \A l \in Links : conns[l].open => l = link

\* The sidecar's exchanges are numbered from one, each is in its store once, and none
\* began in the future.
Numbered ==
  /\ IsFiniteSet(side.begun)
  /\ side.ring \subseteq side.begun
  /\ \A b, c \in side.begun : b.id = c.id => b = c
  /\ \A b \in side.begun : /\ b.origin = side.origin
                           /\ b.id \in 1..Cardinality(side.begun)
                           /\ b.started <= now

\* What a stream is about to send down is in the store it is read from.
Streams ==
  \A l \in Links : conns[l].reading =>
    /\ conns[l].origin = side.origin
    /\ \A k \in DOMAIN conns[l].queue : \E b \in side.begun : b.id = conns[l].queue[k]
    /\ \A k \in DOMAIN conns[l].feed : \E b \in side.begun : b.id = conns[l].feed[k]

\* d may come after c: it is another exchange, or the same one no earlier.
Follows(c, d) ==
  (c.origin = d.origin /\ c.id = d.id) =>
    /\ c.node = d.node /\ c.started = d.started /\ c.version <= d.version

\* What is on the wire down to fghjd.
Wire == IF link = 0 THEN <<>> ELSE conns[link].down

\* Copies of one exchange arrive oldest first.
InOrder ==
  /\ \A c \in ring : \A k \in DOMAIN Wire : Follows(c, Wire[k])
  /\ \A j, k \in DOMAIN Wire : j <= k => Follows(Wire[j], Wire[k])

\* A copy of an exchange of the sidecar's present run is of one it has, and not ahead of it.
CopyOfOurs(c) ==
  /\ c.origin <= side.origin
  /\ c.origin = side.origin => \E b \in side.begun : b.id = c.id /\ Follows(c, b)
Genuine ==
  /\ \A c \in ring : CopyOfOurs(c)
  /\ \A k \in DOMAIN Wire : CopyOfOurs(Wire[k])

\* What need not arrive: it was cleared, or its node was off when it came.
Excused(e) == \/ e.started <= cleared_at[e.node]
              \/ <<e.origin, e.id>> \in missed
OnItsWay(e, conn) ==
  \/ conn.lagged
  \/ \E k \in DOMAIN conn.feed : conn.feed[k] = e.id
  \/ \E k \in DOMAIN conn.queue : conn.queue[k] = e.id
  \/ \E k \in DOMAIN conn.down : conn.down[k] = e
Covered ==
  (link # 0 /\ conns[link].open /\ conns[link].reading) =>
    \A e \in side.ring : e \in ring \/ Excused(e) \/ OnItsWay(e, conns[link])

\* The newest connection is the one recording is for.
Served ==
  \/ late \/ side.mode = AllOff
  \/ \E l \in Links : /\ conns[l].reading /\ conns[l].id = side.session
                      /\ conns[l].origin = side.origin

Inv == /\ Typed /\ OneLink /\ Numbered /\ Streams /\ InOrder /\ Genuine
       /\ Covered /\ ClearedStaysCleared /\ Served

----------------------------------------------------------------------------
(* Sequences.                                                              *)

\* One element is replaced.
LEMMA SeqExcept ==
  ASSUME NEW S, NEW s \in Seq(S), NEW l \in 1..Len(s), NEW v \in S
  PROVE  /\ [s EXCEPT ![l] = v] \in Seq(S)
         /\ Len([s EXCEPT ![l] = v]) = Len(s)
         /\ \A k \in 1..Len(s) : [s EXCEPT ![l] = v][k] = IF k = l THEN v ELSE s[k]
  OBVIOUS

\* A function on 1..n is a sequence.
LEMMA SeqOfFun ==
  ASSUME NEW S, NEW n \in Nat, NEW f \in [1..n -> S]
  PROVE  f \in Seq(S) /\ Len(f) = n /\ DOMAIN f = 1..n
  OBVIOUS

\* The tail loses the head and nothing else.
LEMMA TailFacts ==
  ASSUME NEW S, NEW s \in Seq(S), s # <<>>
  PROVE  /\ Head(s) \in S /\ Tail(s) \in Seq(S)
         /\ 1 \in DOMAIN s /\ s[1] = Head(s)
         /\ \A k \in DOMAIN s : k # 1 => k - 1 \in DOMAIN Tail(s) /\ Tail(s)[k - 1] = s[k]
         /\ \A k \in DOMAIN Tail(s) : k + 1 \in DOMAIN s /\ Tail(s)[k] = s[k + 1]
  OBVIOUS

\* Appending adds the one element and nothing else.
LEMMA AppendFacts ==
  ASSUME NEW S, NEW s \in Seq(S), NEW v \in S
  PROVE  /\ Append(s, v) \in Seq(S)
         /\ DOMAIN s = 1..Len(s) /\ DOMAIN Append(s, v) = 1..(Len(s) + 1)
         /\ Len(s) \in Nat
         /\ Append(s, v)[Len(s) + 1] = v
         /\ \A k \in DOMAIN s : Append(s, v)[k] = s[k]
  OBVIOUS

\* SetToSeq lists a finite set, all of it.
LEMMA Listing ==
  ASSUME NEW S, IsFiniteSet(S)
  PROVE  /\ SetToSeq(S) \in Seq(S)
         /\ \A k \in DOMAIN SetToSeq(S) : SetToSeq(S)[k] \in S
         /\ \A x \in S : \E k \in DOMAIN SetToSeq(S) : SetToSeq(S)[k] = x
<1> DEFINE n == Cardinality(S)
           f == SetToSeq(S)
<1>1. n \in Nat /\ ExistsBijection(1..n, S)
  BY FS_CardinalityType
<1>2. \E g \in [1..n -> S] : IsInjective(g)
  BY <1>1 DEF ExistsBijection, Bijection, Injection
<1>3. f \in [1..n -> S] /\ IsInjective(f)
  BY <1>2 DEF SetToSeq
<1>4. f \in Injection(1..n, S)
  BY <1>3 DEF Injection
<1>5. Cardinality(1..n) = n
  BY <1>1, FS_Interval
<1>6. f \in Surjection(1..n, S)
  BY <1>4, <1>5, FS_Injection
<1>7. \A x \in S : \E k \in 1..n : f[k] = x
  BY <1>6 DEF Surjection
<1>8. DOMAIN f = 1..n /\ f \in Seq(S)
  BY <1>1, <1>3, SeqOfFun
<1> QED BY <1>3, <1>7, <1>8

----------------------------------------------------------------------------
(* Connections.                                                            *)

\* Copies are told apart by their fields.
LEMMA SameCopy ==
  ASSUME NEW c \in Copy, NEW d \in Copy,
         c.origin = d.origin, c.id = d.id, c.node = d.node,
         c.started = d.started, c.version = d.version
  PROVE  c = d
  BY DEF Copy

\* What HangUp makes of them.
LEMMA HangUpFacts ==
  ASSUME Typed, NEW l \in Links
  PROVE  /\ HangUp(l) \in Seq(Connection) /\ Len(HangUp(l)) = Len(conns)
         /\ \A k \in Links : HangUp(l)[k] =
              IF k = l THEN [conns[l] EXCEPT !.open = FALSE, !.down = <<>>] ELSE conns[k]
         /\ \A k \in Links : /\ HangUp(l)[k].id = conns[k].id
                             /\ HangUp(l)[k].origin = conns[k].origin
                             /\ HangUp(l)[k].reading = conns[k].reading
                             /\ HangUp(l)[k].feed = conns[k].feed
                             /\ HangUp(l)[k].queue = conns[k].queue
         /\ ~HangUp(l)[l].open
         /\ \A k \in Links : k # l => HangUp(l)[k].open = conns[k].open
<1> DEFINE v == [conns[l] EXCEPT !.open = FALSE, !.down = <<>>]
<1>1. conns \in Seq(Connection) /\ l \in 1..Len(conns) /\ conns[l] \in Connection
  BY DEF Typed, Links
<1>2. v \in Connection
  <2>1. <<>> \in Seq(Copy)
    OBVIOUS
  <2> QED BY <1>1, <2>1 DEF Connection
<1>3. HangUp(l) = [conns EXCEPT ![l] = v]
  BY <1>1 DEF HangUp
<1>4. /\ v.id = conns[l].id /\ v.origin = conns[l].origin /\ v.reading = conns[l].reading
      /\ v.feed = conns[l].feed /\ v.queue = conns[l].queue /\ ~v.open
  BY <1>1 DEF Connection
<1>5. /\ [conns EXCEPT ![l] = v] \in Seq(Connection)
      /\ Len([conns EXCEPT ![l] = v]) = Len(conns)
      /\ \A k \in 1..Len(conns) : [conns EXCEPT ![l] = v][k] = IF k = l THEN v ELSE conns[k]
  <2> HIDE DEF v
  <2> QED BY <1>1, <1>2, SeqExcept
<1> HIDE DEF v
<1>6. /\ HangUp(l) \in Seq(Connection) /\ Len(HangUp(l)) = Len(conns)
      /\ \A k \in Links : HangUp(l)[k] = IF k = l THEN v ELSE conns[k]
  BY <1>3, <1>5 DEF Links
<1> QED BY <1>4, <1>6 DEF v

\* The ids of a store's ring can be listed.
LEMMA RingIds ==
  ASSUME Typed, Numbered
  PROVE  LET Q == SetToSeq({e.id : e \in side.ring})
         IN /\ Q \in Seq(Nat)
            /\ \A k \in DOMAIN Q : \E b \in side.begun : b.id = Q[k]
            /\ \A e \in side.ring : \E k \in DOMAIN Q : Q[k] = e.id
<1> DEFINE I == {e.id : e \in side.ring}
<1>1. Cardinality(side.begun) \in Nat
  BY FS_CardinalityType DEF Numbered
<1>2. I \in SUBSET Nat /\ \A i \in I : i <= Cardinality(side.begun)
  BY <1>1 DEF Numbered, Typed, SideStore, Copy
<1>3. IsFiniteSet(I)
  <2> HIDE DEF I
  <2> QED BY <1>1, <1>2, FS_BoundedSetOfNaturals
<1>4. /\ SetToSeq(I) \in Seq(I)
      /\ \A k \in DOMAIN SetToSeq(I) : SetToSeq(I)[k] \in I
      /\ \A x \in I : \E k \in DOMAIN SetToSeq(I) : SetToSeq(I)[k] = x
  <2> HIDE DEF I
  <2> QED BY <1>3, Listing
<1>5. SetToSeq(I) \in Seq(Nat)
  <2> DEFINE Q == SetToSeq(I)
  <2>1. \A k \in 1..Len(Q) : Q[k] \in Nat
    BY <1>2, <1>4
  <2>2. Q \in [1..Len(Q) -> Nat] /\ Len(Q) \in Nat
    <3> HIDE DEF I
    <3> QED BY <1>4, <2>1
  <2> HIDE DEF Q
  <2>3. Q \in Seq(Nat)
    BY <2>2, SeqOfFun
  <2> QED BY <2>3 DEF Q
<1>6. \A k \in DOMAIN SetToSeq(I) : \E b \in side.begun : b.id = SetToSeq(I)[k]
  BY <1>4 DEF Numbered
<1>7. \A e \in side.ring : \E k \in DOMAIN SetToSeq(I) : SetToSeq(I)[k] = e.id
  BY <1>4
<1> QED BY <1>5, <1>6, <1>7

----------------------------------------------------------------------------
(* Initially.                                                              *)

LEMMA InitInv == Init => Inv
<1> SUFFICES ASSUME Init PROVE Inv
  OBVIOUS
<1>1. AllOff \in Modes
  BY DEF AllOff, Modes
<1>2. side \in SideStore
  BY <1>1 DEF Init, SideStore
<1>3. Len(conns) = 0 /\ conns \in Seq(Connection) /\ Links = {}
  BY DEF Init, Links
<1>4. Typed
  <2>1. cleared_at \in [Node -> Nat] /\ now \in Nat /\ late \in BOOLEAN
    BY DEF Init
  <2>2. mode \in Modes /\ ring \in SUBSET Copy /\ watch \in Modes \cup {NoSession}
    BY <1>1 DEF Init
  <2>3. link \in 0..Len(conns) /\ link = 0
    BY <1>3 DEF Init
  <2> QED BY <1>2, <1>3, <2>1, <2>2, <2>3 DEF Typed
<1>5. OneLink /\ Streams /\ Served
  BY <1>3 DEF OneLink, Streams, Served, Init
<1>6. Numbered
  BY FS_EmptySet DEF Numbered, Init
<1>7. Wire = <<>> /\ ring = {} /\ side.ring = {}
  BY DEF Wire, Init
<1>8. InOrder /\ Genuine /\ Covered /\ ClearedStaysCleared
  BY <1>7 DEF InOrder, Genuine, Covered, ClearedStaysCleared
<1> QED BY <1>4, <1>5, <1>6, <1>8 DEF Inv

----------------------------------------------------------------------------
(* The UI and the clock.                                                   *)

LEMMA SetModeInv ==
  ASSUME Inv, NEW n \in Node, NEW m \in BodyMode \cup {Off}, SetMode(n, m)
  PROVE  Inv'
<1>1. /\ UNCHANGED <<ring, cleared_at, watch, link, side, conns, now, missed, late>>
      /\ mode' \in Modes
  BY DEF SetMode, Inv, Typed, Modes
<1>2. Typed' /\ OneLink' /\ Numbered' /\ Streams'
  BY <1>1 DEF Inv, Typed, OneLink, Numbered, Streams, Links
<1>3. InOrder' /\ Genuine' /\ ClearedStaysCleared'
  BY <1>1 DEF Inv, InOrder, Genuine, ClearedStaysCleared, Wire, CopyOfOurs
<1>4. Covered' /\ Served'
  BY <1>1 DEF Inv, Covered, Served, Links, Excused
<1> QED BY <1>2, <1>3, <1>4 DEF Inv

LEMMA TickInv ==
  ASSUME Inv, Tick
  PROVE  Inv'
<1>1. /\ UNCHANGED <<mode, ring, cleared_at, watch, link, side, conns, missed, late>>
      /\ now \in Nat /\ now' = now + 1
  BY DEF Tick, daemonVars, Inv, Typed
<1>2. Typed' /\ OneLink' /\ Streams'
  BY <1>1 DEF Inv, Typed, OneLink, Streams, Links
<1>3. InOrder' /\ Genuine' /\ ClearedStaysCleared'
  BY <1>1 DEF Inv, InOrder, Genuine, ClearedStaysCleared, Wire, CopyOfOurs
<1>4. Covered' /\ Served'
  BY <1>1 DEF Inv, Covered, Served, Links, Excused
<1>5. Numbered'
  <2>1. \A b \in side.begun : b.started \in Nat
    BY DEF Inv, Typed, SideStore, Copy
  <2> QED BY <1>1, <2>1 DEF Inv, Numbered
<1> QED BY <1>2, <1>3, <1>4, <1>5 DEF Inv

LEMMA ClearLogInv ==
  ASSUME Inv, NEW n \in Node, ClearLog(n)
  PROVE  Inv'
<1>1. /\ UNCHANGED <<mode, watch, link, side, conns, now, missed, late>>
      /\ ring' = {e \in ring : e.node # n}
      /\ cleared_at' = [cleared_at EXCEPT ![n] = now]
  BY DEF ClearLog
<1>2. /\ cleared_at' \in [Node -> Nat] /\ ring' \subseteq ring
      /\ cleared_at'[n] = now
      /\ \A k \in Node : k # n => cleared_at'[k] = cleared_at[k]
  BY <1>1 DEF Inv, Typed
<1>3. Typed' /\ OneLink' /\ Numbered' /\ Streams'
  BY <1>1, <1>2 DEF Inv, Typed, OneLink, Numbered, Streams, Links
<1>4. InOrder' /\ Genuine'
  BY <1>1, <1>2 DEF Inv, InOrder, Genuine, Wire, CopyOfOurs
<1>5. ClearedStaysCleared'
  BY <1>1, <1>2 DEF Inv, Typed, Copy, ClearedStaysCleared
<1>6. Covered'
  <2> SUFFICES ASSUME link # 0 /\ conns[link].open /\ conns[link].reading, NEW e \in side.ring
               PROVE  e \in ring' \/ Excused(e)' \/ OnItsWay(e, conns[link])
    BY <1>1 DEF Covered
  <2>1. e \in ring \/ Excused(e) \/ OnItsWay(e, conns[link])
    BY DEF Inv, Covered
  <2>2. e.node \in Node /\ e.started \in Nat /\ e.started <= now
    BY DEF Inv, Numbered, Typed, SideStore, Copy
  <2>3. CASE e.node = n
    BY <1>2, <2>2, <2>3 DEF Excused
  <2>4. CASE e.node # n
    BY <1>1, <1>2, <2>1, <2>2, <2>4 DEF Excused
  <2> QED BY <2>3, <2>4
<1>7. Served'
  BY <1>1 DEF Inv, Served, Links
<1> QED BY <1>3, <1>4, <1>5, <1>6, <1>7 DEF Inv

----------------------------------------------------------------------------
(* fghjd's end of the link.                                                *)

\* Without a connection there is nothing on the wire, and the sidecar goes on as it was.
LEMMA HungUpInv ==
  ASSUME Inv, link' = 0, conns' = IF link = 0 THEN conns ELSE HangUp(link),
         UNCHANGED <<side, now, late>>, ring' \subseteq ring
  PROVE  /\ conns' \in Seq(Connection) /\ link' \in 0..Len(conns')
         /\ OneLink' /\ Numbered' /\ Streams' /\ InOrder' /\ Genuine' /\ Covered' /\ Served'
<1>1. /\ conns' \in Seq(Connection) /\ Len(conns') = Len(conns) /\ Len(conns) \in Nat
      /\ \A k \in Links : /\ conns'[k].id = conns[k].id
                          /\ conns'[k].origin = conns[k].origin
                          /\ conns'[k].reading = conns[k].reading
                          /\ conns'[k].feed = conns[k].feed
                          /\ conns'[k].queue = conns[k].queue
      /\ \A k \in Links : ~conns'[k].open
  <2>1. CASE link = 0
    <3>1. conns \in Seq(Connection) /\ conns' = conns /\ Len(conns) \in Nat
      BY <2>1 DEF Inv, Typed
    <3>2. \A k \in Links : ~conns[k].open
      BY <2>1, <3>1 DEF Inv, OneLink, Links
    <3> QED BY <3>1, <3>2
  <2>2. CASE link # 0
    <3>1. link \in Links /\ Typed /\ Len(conns) \in Nat
      BY <2>2 DEF Inv, Typed, Links
    <3>2. \A k \in Links : k # link => ~conns[k].open
      BY DEF Inv, OneLink
    <3> QED BY <2>2, <3>1, <3>2, HangUpFacts, ZenonT(90)
  <2> QED BY <2>1, <2>2
<1>2. Links' = Links
  BY <1>1 DEF Links
<1>3. OneLink' /\ link' \in 0..Len(conns')
  BY <1>1, <1>2 DEF OneLink
<1>4. Numbered' /\ Streams' /\ Served'
  <2>1. Numbered'
    BY DEF Inv, Numbered
  <2>2. Streams'
    BY <1>1, <1>2 DEF Inv, Streams
  <2>3. Served'
    BY <1>1, <1>2 DEF Inv, Served
  <2> QED BY <2>1, <2>2, <2>3
<1>5. Wire' = <<>>
  BY DEF Wire
<1>6. InOrder' /\ Genuine' /\ Covered'
  <2>1. DOMAIN Wire' = {}
    BY <1>5
  <2>2. InOrder'
    BY <2>1 DEF InOrder
  <2>3. Genuine'
    BY <2>1 DEF Inv, Genuine, CopyOfOurs
  <2>4. Covered'
    BY DEF Covered
  <2> QED BY <2>2, <2>3, <2>4
<1> QED BY <1>1, <1>3, <1>4, <1>6

LEMMA LinkBreaksInv ==
  ASSUME Inv, LinkBreaks
  PROVE  Inv'
<1>1. /\ UNCHANGED <<mode, ring, cleared_at, watch, side, now, missed, late>>
      /\ link' = 0 /\ conns' = IF link = 0 THEN conns ELSE HangUp(link)
  BY DEF LinkBreaks
<1>2. /\ conns' \in Seq(Connection) /\ link' \in 0..Len(conns')
      /\ OneLink' /\ Numbered' /\ Streams' /\ InOrder' /\ Genuine' /\ Covered' /\ Served'
  BY <1>1, HungUpInv
<1>3. Typed' /\ ClearedStaysCleared'
  BY <1>1, <1>2 DEF Inv, Typed, ClearedStaysCleared
<1> QED BY <1>2, <1>3 DEF Inv

LEMMA PullEndsInv ==
  ASSUME Inv, pull_ends
  PROVE  Inv'
<1>1. /\ UNCHANGED <<mode, ring, cleared_at, watch, side, now, missed, late>>
      /\ link' = 0 /\ conns' = IF link = 0 THEN conns ELSE HangUp(link)
  BY DEF pull_ends
<1>2. /\ conns' \in Seq(Connection) /\ link' \in 0..Len(conns')
      /\ OneLink' /\ Numbered' /\ Streams' /\ InOrder' /\ Genuine' /\ Covered' /\ Served'
  BY <1>1, HungUpInv
<1>3. Typed' /\ ClearedStaysCleared'
  BY <1>1, <1>2 DEF Inv, Typed, ClearedStaysCleared
<1> QED BY <1>2, <1>3 DEF Inv

LEMMA DaemonRestartsInv ==
  ASSUME Inv, DaemonRestarts
  PROVE  Inv'
<1>1. /\ UNCHANGED <<side, now, late>>
      /\ mode' = AllOff /\ ring' = {} /\ cleared_at' = [n \in Node |-> 0]
      /\ watch' = NoSession
      /\ link' = 0 /\ conns' = IF link = 0 THEN conns ELSE HangUp(link)
  BY DEF DaemonRestarts
<1>2. ring' \subseteq ring
  BY <1>1
<1>3. /\ conns' \in Seq(Connection) /\ link' \in 0..Len(conns')
      /\ OneLink' /\ Numbered' /\ Streams' /\ InOrder' /\ Genuine' /\ Covered' /\ Served'
  BY <1>1, <1>2, HungUpInv
<1>4. mode' \in Modes /\ cleared_at' \in [Node -> Nat] /\ ring' \in SUBSET Copy
  BY <1>1 DEF AllOff, Modes
<1>5. Typed'
  BY <1>1, <1>3, <1>4 DEF Inv, Typed
<1>6. ClearedStaysCleared'
  BY <1>1 DEF ClearedStaysCleared
<1> QED BY <1>3, <1>5, <1>6 DEF Inv

LEMMA SyncInv ==
  ASSUME Inv, sync
  PROVE  Inv'
<1>1. CASE /\ watch' = NoSession /\ link' = 0
           /\ conns' = IF link = 0 THEN conns ELSE HangUp(link)
  <2>1. UNCHANGED <<mode, ring, cleared_at, side, now, missed, late>>
    BY DEF sync
  <2>2. /\ conns' \in Seq(Connection) /\ link' \in 0..Len(conns')
        /\ OneLink' /\ Numbered' /\ Streams' /\ InOrder' /\ Genuine' /\ Covered' /\ Served'
    BY <1>1, <2>1, HungUpInv
  <2>3. Typed' /\ ClearedStaysCleared'
    BY <1>1, <2>1, <2>2 DEF Inv, Typed, ClearedStaysCleared
  <2> QED BY <2>2, <2>3 DEF Inv
<1>2. CASE watch' = mode /\ UNCHANGED <<link, conns>>
  <2>1. UNCHANGED <<mode, ring, cleared_at, side, now, missed, late>>
    BY DEF sync
  <2>2. Typed' /\ OneLink' /\ Numbered' /\ Streams'
    BY <1>2, <2>1 DEF Inv, Typed, OneLink, Numbered, Streams, Links
  <2>3. InOrder' /\ Genuine' /\ ClearedStaysCleared'
    BY <1>2, <2>1 DEF Inv, InOrder, Genuine, ClearedStaysCleared, Wire, CopyOfOurs
  <2>4. Covered' /\ Served'
    BY <1>2, <2>1 DEF Inv, Covered, Served, Links, Excused
  <2> QED BY <2>2, <2>3, <2>4 DEF Inv
<1> QED BY <1>1, <1>2 DEF sync

LEMMA PullOnceInv ==
  ASSUME Inv, pull_once
  PROVE  Inv'
<1> DEFINE new == handle(watch)
           n == Len(conns) + 1
           Q == SetToSeq({e.id : e \in side.ring})
<1>1. /\ UNCHANGED <<mode, ring, cleared_at, watch, now, missed, late>>
      /\ link = 0 /\ link' = n /\ conns' = Append(conns, new) /\ watch \in Modes
      /\ side' = [side EXCEPT !.session = @ + 1]
  BY DEF pull_once, Inv, Typed
<1>2. /\ side' \in SideStore /\ side'.session = side.session + 1
      /\ side'.origin = side.origin /\ side'.mode = side.mode
      /\ side'.ring = side.ring /\ side'.begun = side.begun
  BY <1>1, SMTT(40) DEF Inv, Typed, SideStore
<1>3. /\ Q \in Seq(Nat)
      /\ \A k \in DOMAIN Q : \E b \in side.begun : b.id = Q[k]
      /\ \A e \in side.ring : \E k \in DOMAIN Q : Q[k] = e.id
  BY RingIds DEF Inv
<1>4. /\ new \in Connection /\ new.id = side.session + 1 /\ new.origin = side.origin
      /\ new.reading /\ new.queue = Q /\ new.feed = <<>> /\ new.down = <<>>
  <2>1. side.session + 1 \in Nat /\ side.origin \in Nat
    BY DEF Inv, Typed, SideStore
  <2>2. <<watch>> \in Seq(Modes) /\ <<>> \in Seq(Nat) /\ <<>> \in Seq(Copy)
    BY <1>1
  <2> HIDE DEF Q
  <2>3. new = [id |-> side.session + 1, origin |-> side.origin, open |-> TRUE, reading |-> TRUE,
               up |-> <<watch>>, last |-> watch, feed |-> <<>>, lagged |-> FALSE,
               queue |-> Q, down |-> <<>>]
    BY DEF handle, Q
  <2> HIDE DEF new
  <2> QED BY <1>1, <1>3, <2>1, <2>2, <2>3 DEF Connection
<1> HIDE DEF new, Q
<1>5. /\ conns' \in Seq(Connection) /\ Len(conns') = n /\ Len(conns) \in Nat
      /\ conns'[n] = new /\ \A k \in Links : conns'[k] = conns[k]
      /\ Links = 1..Len(conns) /\ Links' = 1..n
  BY <1>1, <1>4 DEF Inv, Typed, Links
<1>6. \A l \in Links' : l = n \/ l \in Links
  BY <1>5
<1>7. Typed'
  <2>1. link' \in 0..Len(conns')
    BY <1>1, <1>5
  <2> QED BY <1>1, <1>2, <1>5, <2>1 DEF Inv, Typed
<1>8. OneLink'
  <2>1. \A l \in Links : ~conns[l].open
    BY <1>1, <1>5 DEF Inv, OneLink
  <2> QED BY <1>1, <1>5, <1>6, <2>1 DEF OneLink
<1>9. Numbered' /\ ClearedStaysCleared'
  BY <1>1, <1>2 DEF Inv, Numbered, ClearedStaysCleared
<1>10. Streams'
  <2>1. \A l \in Links : conns'[l].reading =>
          /\ conns'[l].origin = side.origin
          /\ \A k \in DOMAIN conns'[l].queue : \E b \in side.begun : b.id = conns'[l].queue[k]
          /\ \A k \in DOMAIN conns'[l].feed : \E b \in side.begun : b.id = conns'[l].feed[k]
    BY <1>5 DEF Inv, Streams
  <2>2. /\ conns'[n].origin = side.origin
        /\ \A k \in DOMAIN conns'[n].queue : \E b \in side.begun : b.id = conns'[n].queue[k]
        /\ \A k \in DOMAIN conns'[n].feed : \E b \in side.begun : b.id = conns'[n].feed[k]
    BY <1>3, <1>4, <1>5
  <2> QED BY <1>2, <1>6, <2>1, <2>2 DEF Streams
<1>11. DOMAIN Wire' = {}
  BY <1>1, <1>4, <1>5 DEF Wire
<1>12. InOrder' /\ Genuine'
  BY <1>1, <1>2, <1>11 DEF Inv, InOrder, Genuine, CopyOfOurs
<1>13. Covered'
  <2> SUFFICES ASSUME NEW e \in side.ring PROVE OnItsWay(e, new)
    BY <1>1, <1>2, <1>5 DEF Covered
  <2> QED BY <1>3, <1>4 DEF OnItsWay
<1>14. Served'
  <2>1. n \in Links' /\ conns'[n].reading /\ conns'[n].id = side'.session /\ conns'[n].origin = side'.origin
    BY <1>2, <1>4, <1>5
  <2> QED BY <2>1 DEF Served
<1> QED BY <1>7, <1>8, <1>9, <1>10, <1>12, <1>13, <1>14 DEF Inv

LEMMA SendModesInv ==
  ASSUME Inv, send_modes
  PROVE  Inv'
<1> DEFINE v == [conns[link] EXCEPT !.up = Append(@, watch), !.last = watch]
<1>1. /\ UNCHANGED <<mode, ring, cleared_at, watch, link, side, now, missed, late>>
      /\ link # 0 /\ conns[link].last # watch
      /\ conns' = [conns EXCEPT ![link].up = Append(@, watch), ![link].last = watch]
  BY DEF send_modes, daemonVars
<1>2. conns \in Seq(Connection) /\ link \in 1..Len(conns) /\ conns[link] \in Connection /\ watch \in Modes
  BY <1>1 DEF Inv, Typed
<1>3. /\ v \in Connection
      /\ v.id = conns[link].id /\ v.origin = conns[link].origin /\ v.reading = conns[link].reading
      /\ v.open = conns[link].open /\ v.feed = conns[link].feed /\ v.lagged = conns[link].lagged
      /\ v.queue = conns[link].queue /\ v.down = conns[link].down
  <2>1. Append(conns[link].up, watch) \in Seq(Modes)
    BY <1>2 DEF Connection
  <2> QED BY <1>2, <2>1 DEF Connection
<1>4. conns' = [conns EXCEPT ![link] = v]
  BY <1>1, <1>2
<1> HIDE DEF v
<1>5. /\ conns' \in Seq(Connection) /\ Len(conns') = Len(conns)
      /\ \A k \in 1..Len(conns) : conns'[k] = IF k = link THEN v ELSE conns[k]
  BY <1>2, <1>3, <1>4, SeqExcept
<1>6. Links' = Links /\ link \in Links /\ Links = 1..Len(conns)
  BY <1>2, <1>5 DEF Links
<1>7. \A k \in Links :
        /\ conns'[k].id = conns[k].id /\ conns'[k].origin = conns[k].origin
        /\ conns'[k].reading = conns[k].reading /\ conns'[k].open = conns[k].open
        /\ conns'[k].feed = conns[k].feed /\ conns'[k].lagged = conns[k].lagged
        /\ conns'[k].queue = conns[k].queue /\ conns'[k].down = conns[k].down
  BY <1>3, <1>5, <1>6
<1>8. Typed'
  BY <1>1, <1>5 DEF Inv, Typed
<1>9. OneLink' /\ Streams' /\ Served'
  BY <1>1, <1>6, <1>7, SMTT(40) DEF Inv, OneLink, Streams, Served
<1>10. Numbered' /\ ClearedStaysCleared'
  BY <1>1 DEF Inv, Numbered, ClearedStaysCleared
<1>11. Wire' = Wire
  BY <1>1, <1>6, <1>7 DEF Wire
<1>12. InOrder' /\ Genuine'
  BY <1>1, <1>11 DEF Inv, InOrder, Genuine, CopyOfOurs
<1>13. Covered'
  <2> SUFFICES ASSUME conns[link].open /\ conns[link].reading, NEW e \in side.ring
               PROVE  e \in ring \/ Excused(e) \/ OnItsWay(e, conns'[link])
    BY <1>1, <1>6, <1>7 DEF Covered, Excused
  <2>1. e \in ring \/ Excused(e) \/ OnItsWay(e, conns[link])
    BY <1>1 DEF Inv, Covered
  <2> QED BY <1>6, <1>7, <2>1 DEF OnItsWay
<1> QED BY <1>8, <1>9, <1>10, <1>12, <1>13 DEF Inv

LEMMA IngestInv ==
  ASSUME Inv, ingest
  PROVE  Inv'
<1> DEFINE d == Head(conns[link].down)
           v == [conns[link] EXCEPT !.down = Tail(@)]
           known == {c \in ring : c.origin = d.origin /\ c.id = d.id}
<1>1. /\ UNCHANGED <<mode, cleared_at, watch, link, side, now, late>>
      /\ link # 0 /\ conns[link].down # <<>>
      /\ ring' = Ingested(ring, d)
      /\ missed' = IF mode[d.node] = Off THEN missed \cup {<<d.origin, d.id>>} ELSE missed
      /\ conns' = [conns EXCEPT ![link].down = Tail(@)]
  BY DEF ingest
<1>2. conns \in Seq(Connection) /\ link \in 1..Len(conns) /\ conns[link] \in Connection
  BY <1>1 DEF Inv, Typed
<1>3. conns[link].down \in Seq(Copy) /\ Wire = conns[link].down
  BY <1>1, <1>2 DEF Connection, Wire
<1>4. /\ d \in Copy /\ Tail(conns[link].down) \in Seq(Copy)
      /\ 1 \in DOMAIN Wire /\ Wire[1] = d
      /\ \A k \in DOMAIN Wire : k # 1 => k - 1 \in DOMAIN Tail(Wire) /\ Tail(Wire)[k - 1] = Wire[k]
      /\ \A k \in DOMAIN Tail(Wire) : k + 1 \in DOMAIN Wire /\ Tail(Wire)[k] = Wire[k + 1]
      /\ DOMAIN Wire \subseteq Nat \ {0} /\ DOMAIN Tail(Wire) \subseteq Nat
  <2> DEFINE D == conns[link].down
  <2> HIDE DEF D
  <2>1. D \in Seq(Copy) /\ D # <<>>
    BY <1>1, <1>3 DEF D
  <2>2. /\ Head(D) \in Copy /\ Tail(D) \in Seq(Copy)
        /\ 1 \in DOMAIN D /\ D[1] = Head(D)
        /\ \A k \in DOMAIN D : k # 1 => k - 1 \in DOMAIN Tail(D) /\ Tail(D)[k - 1] = D[k]
        /\ \A k \in DOMAIN Tail(D) : k + 1 \in DOMAIN D /\ Tail(D)[k] = D[k + 1]
    BY <2>1, TailFacts
  <2>3. DOMAIN D \subseteq Nat \ {0} /\ DOMAIN Tail(D) \subseteq Nat
    BY <2>1, <2>2
  <2> QED BY <1>3, <2>2, <2>3 DEF D
<1>5. /\ v \in Connection /\ v.down = Tail(Wire)
      /\ v.id = conns[link].id /\ v.origin = conns[link].origin /\ v.reading = conns[link].reading
      /\ v.open = conns[link].open /\ v.feed = conns[link].feed /\ v.lagged = conns[link].lagged
      /\ v.queue = conns[link].queue
  BY <1>2, <1>3, <1>4 DEF Connection
<1>6. conns' = [conns EXCEPT ![link] = v]
  BY <1>1, <1>2
<1> HIDE DEF v, d
<1>7. /\ conns' \in Seq(Connection) /\ Len(conns') = Len(conns)
      /\ \A k \in 1..Len(conns) : conns'[k] = IF k = link THEN v ELSE conns[k]
  BY <1>2, <1>5, <1>6, SeqExcept
<1>8. Links' = Links /\ link \in Links /\ Links = 1..Len(conns)
  BY <1>2, <1>7 DEF Links
<1>9. \A k \in Links :
        /\ conns'[k].id = conns[k].id /\ conns'[k].origin = conns[k].origin
        /\ conns'[k].reading = conns[k].reading /\ conns'[k].open = conns[k].open
        /\ conns'[k].feed = conns[k].feed /\ conns'[k].queue = conns[k].queue
  BY <1>5, <1>7, <1>8
<1>10. Wire' = Tail(Wire) /\ conns'[link] = v
  BY <1>1, <1>5, <1>7, <1>8 DEF Wire
<1>11. ring' = ring \/ ring' = (ring \ known) \cup {d}
  BY <1>1 DEF Ingested
<1>12. ring \subseteq Copy /\ ring' \subseteq Copy
  BY <1>4, <1>11 DEF Inv, Typed
<1>13. Typed'
  BY <1>1, <1>7, <1>12 DEF Inv, Typed
<1>14. OneLink' /\ Streams' /\ Served'
  BY <1>1, <1>8, <1>9 DEF Inv, OneLink, Streams, Served
<1>15. Numbered'
  BY <1>1 DEF Inv, Numbered
<1>16. InOrder'
  <2>1. \A k \in DOMAIN Tail(Wire) : Follows(d, Tail(Wire)[k])
    <3> SUFFICES ASSUME NEW k \in DOMAIN Tail(Wire) PROVE Follows(d, Tail(Wire)[k])
      OBVIOUS
    <3>1. k + 1 \in DOMAIN Wire /\ Tail(Wire)[k] = Wire[k + 1] /\ 1 <= k + 1
      BY <1>4
    <3> QED BY <1>4, <3>1 DEF Inv, InOrder
  <2>2. \A c \in ring : \A k \in DOMAIN Tail(Wire) : Follows(c, Tail(Wire)[k])
    BY <1>4 DEF Inv, InOrder
  <2>3. \A j, k \in DOMAIN Tail(Wire) : j <= k => Follows(Tail(Wire)[j], Tail(Wire)[k])
    <3> SUFFICES ASSUME NEW j \in DOMAIN Tail(Wire), NEW k \in DOMAIN Tail(Wire), j <= k
                 PROVE  Follows(Tail(Wire)[j], Tail(Wire)[k])
      OBVIOUS
    <3>1. /\ k + 1 \in DOMAIN Wire /\ Tail(Wire)[k] = Wire[k + 1]
          /\ j + 1 \in DOMAIN Wire /\ Tail(Wire)[j] = Wire[j + 1]
      BY <1>4
    <3>2. j + 1 <= k + 1
      BY <1>4
    <3> QED BY <3>1, <3>2 DEF Inv, InOrder
  <2> QED BY <1>10, <1>11, <2>1, <2>2, <2>3 DEF InOrder
<1>17. Genuine'
  <2>1. CopyOfOurs(d) /\ \A c \in ring : CopyOfOurs(c)
    BY <1>4 DEF Inv, Genuine
  <2>2. \A k \in DOMAIN Tail(Wire) : CopyOfOurs(Tail(Wire)[k])
    BY <1>4 DEF Inv, Genuine
  <2> QED BY <1>1, <1>10, <1>11, <2>1, <2>2 DEF Genuine, CopyOfOurs
<1>18. ClearedStaysCleared'
  <2>1. CASE ring' = ring
    BY <1>1, <2>1 DEF Inv, ClearedStaysCleared
  <2>2. CASE ring' # ring
    <3>1. known # {} \/ ~(d.started < cleared_at[d.node])
      BY <1>1, <2>2 DEF Ingested
    <3>2. d.started \in Nat /\ cleared_at[d.node] \in Nat
      BY <1>4 DEF Inv, Typed, Copy
    <3>3. d.started >= cleared_at[d.node]
      <4>1. CASE known # {}
        <5>1. PICK c \in ring : c.origin = d.origin /\ c.id = d.id
          BY <4>1
        <5>2. c.node = d.node /\ c.started = d.started
          BY <1>4, <5>1 DEF Inv, InOrder, Follows
        <5> QED BY <5>1, <5>2 DEF Inv, ClearedStaysCleared
      <4> QED BY <3>1, <3>2, <4>1
    <3> QED BY <1>1, <1>11, <3>3 DEF Inv, ClearedStaysCleared
  <2> QED BY <2>1, <2>2
<1>19. Covered'
  <2> SUFFICES ASSUME conns[link].open /\ conns[link].reading, NEW e \in side.ring
               PROVE  e \in ring' \/ Excused(e)' \/ OnItsWay(e, v)
    BY <1>1, <1>8, <1>9, <1>10 DEF Covered
  <2>1. e \in ring \/ Excused(e) \/ OnItsWay(e, conns[link])
    BY <1>1 DEF Inv, Covered
  <2>2. CASE Excused(e)
    BY <1>1, <2>2 DEF Excused
  <2>3. CASE e \in ring
    <3>1. CASE e \in known
      <4>1. e \in side.begun /\ e \in Copy /\ e.origin = side.origin
        BY DEF Inv, Numbered, Typed, SideStore
      <4>2. PICK b \in side.begun : b.id = d.id /\ Follows(d, b)
        BY <1>4, <3>1, <4>1 DEF Inv, Genuine, CopyOfOurs
      <4>3. b = e
        BY <3>1, <4>1, <4>2 DEF Inv, Numbered
      <4>4. Follows(e, d)
        BY <1>4, <2>3 DEF Inv, InOrder
      <4>5. /\ e.origin = d.origin /\ e.id = d.id /\ e.node = d.node
            /\ e.started = d.started /\ e.version = d.version
        BY <1>4, <3>1, <4>1, <4>2, <4>3, <4>4 DEF Follows, Copy
      <4>6. e = d
        BY <1>4, <4>1, <4>5, SameCopy
      <4> QED BY <1>11, <2>3, <4>6
    <3>2. CASE e \notin known
      BY <1>11, <2>3, <3>2
    <3> QED BY <3>1, <3>2
  <2>4. CASE OnItsWay(e, conns[link])
    <3>1. CASE \E k \in DOMAIN conns[link].down : conns[link].down[k] = e
      <4>1. PICK k \in DOMAIN Wire : Wire[k] = e
        BY <1>3, <3>1
      <4>2. CASE k = 1
        <5>1. e = d
          BY <1>4, <4>1, <4>2
        <5>2. CASE mode[d.node] = Off
          BY <1>1, <5>1, <5>2 DEF Excused
        <5>3. CASE mode[d.node] # Off /\ d.started < cleared_at[d.node]
          <6>1. d.started \in Nat /\ cleared_at[d.node] \in Nat
            BY <1>4 DEF Inv, Typed, Copy
          <6> QED BY <1>1, <5>1, <5>3, <6>1 DEF Excused
        <5>4. CASE mode[d.node] # Off /\ ~(d.started < cleared_at[d.node])
          BY <1>1, <5>1, <5>4 DEF Ingested
        <5> QED BY <5>2, <5>3, <5>4
      <4>3. CASE k # 1
        BY <1>4, <1>5, <4>1, <4>3, ZenonT(60) DEF OnItsWay
      <4> QED BY <4>2, <4>3
    <3>2. CASE ~\E k \in DOMAIN conns[link].down : conns[link].down[k] = e
      BY <1>5, <2>4, <3>2 DEF OnItsWay
    <3> QED BY <3>1, <3>2
  <2> QED BY <2>1, <2>2, <2>3, <2>4
<1> QED BY <1>13, <1>14, <1>15, <1>16, <1>17, <1>18, <1>19 DEF Inv

----------------------------------------------------------------------------
(* The sidecar's end.                                                      *)

\* A set that is applied ends some recordings and begins none.
LEMMA ApplyFacts ==
  ASSUME Typed, NEW m \in Modes
  PROVE  /\ apply_modes(m) \in SideStore /\ apply_modes(m).mode = m
         /\ apply_modes(m).origin = side.origin /\ apply_modes(m).session = side.session
         /\ apply_modes(m).begun = side.begun /\ apply_modes(m).ring \subseteq side.ring
<1> DEFINE R == {e \in side.ring : m[e.node] # Off}
<1>1. side \in SideStore
  BY DEF Typed
<1>2. apply_modes(m) = [side EXCEPT !.mode = m, !.ring = R]
  BY <1>1 DEF apply_modes, SideStore
<1>3. R \subseteq side.ring /\ R \in SUBSET Copy
  BY <1>1 DEF SideStore
<1> HIDE DEF R
<1> QED BY <1>1, <1>2, <1>3 DEF SideStore

LEMMA ReadModesInv ==
  ASSUME Inv, NEW l \in Links, read_modes(l)
  PROVE  Inv'
<1> DEFINE v == [conns[l] EXCEPT !.up = Tail(@)]
           m == Head(conns[l].up)
<1>1. /\ UNCHANGED <<mode, ring, cleared_at, watch, link, now, missed>>
      /\ conns[l].reading /\ conns[l].up # <<>>
      /\ side' = apply_modes(m) /\ late' = (late \/ conns[l].id # side.session)
      /\ conns' = [conns EXCEPT ![l].up = Tail(@)]
  BY DEF read_modes, daemonVars
<1>2. conns \in Seq(Connection) /\ l \in 1..Len(conns) /\ conns[l] \in Connection
  BY DEF Inv, Typed, Links
<1>3. m \in Modes /\ Tail(conns[l].up) \in Seq(Modes)
  <2> DEFINE U == conns[l].up
  <2>1. U \in Seq(Modes) /\ U # <<>>
    BY <1>1, <1>2 DEF Connection
  <2> HIDE DEF U
  <2>2. Head(U) \in Modes /\ Tail(U) \in Seq(Modes)
    BY <2>1, TailFacts
  <2> QED BY <2>2 DEF U
<1>4. /\ v \in Connection
      /\ v.id = conns[l].id /\ v.origin = conns[l].origin /\ v.reading = conns[l].reading
      /\ v.open = conns[l].open /\ v.feed = conns[l].feed /\ v.lagged = conns[l].lagged
      /\ v.queue = conns[l].queue /\ v.down = conns[l].down
  BY <1>2, <1>3 DEF Connection
<1>5. conns' = [conns EXCEPT ![l] = v]
  BY <1>1, <1>2
<1> HIDE DEF v, m
<1>6. /\ conns' \in Seq(Connection) /\ Len(conns') = Len(conns)
      /\ \A k \in 1..Len(conns) : conns'[k] = IF k = l THEN v ELSE conns[k]
  BY <1>2, <1>4, <1>5, SeqExcept
<1>7. Links' = Links /\ Links = 1..Len(conns) /\ (link # 0 => link \in Links)
  BY <1>6 DEF Links, Inv, Typed
<1>8. \A k \in Links :
        /\ conns'[k].id = conns[k].id /\ conns'[k].origin = conns[k].origin
        /\ conns'[k].reading = conns[k].reading /\ conns'[k].open = conns[k].open
        /\ conns'[k].feed = conns[k].feed /\ conns'[k].lagged = conns[k].lagged
        /\ conns'[k].queue = conns[k].queue /\ conns'[k].down = conns[k].down
  BY <1>4, <1>6, <1>7
<1>9. /\ side' \in SideStore /\ side'.origin = side.origin /\ side'.session = side.session
      /\ side'.begun = side.begun /\ side'.ring \subseteq side.ring
  BY <1>1, <1>3, ApplyFacts DEF Inv
<1>10. late \in BOOLEAN /\ late' \in BOOLEAN
  BY <1>1 DEF Inv, Typed
<1>11. Typed'
  BY <1>1, <1>6, <1>9, <1>10 DEF Inv, Typed
<1>12. OneLink' /\ Streams'
  BY <1>1, <1>7, <1>8, <1>9 DEF Inv, OneLink, Streams
<1>13. Numbered' /\ ClearedStaysCleared'
  BY <1>1, <1>9 DEF Inv, Numbered, ClearedStaysCleared
<1>14. Wire' = Wire
  BY <1>1, <1>7, <1>8 DEF Wire
<1>15. InOrder' /\ Genuine'
  BY <1>1, <1>9, <1>14 DEF Inv, InOrder, Genuine, CopyOfOurs
<1>16. Covered'
  <2>0. link # 0 => conns'[link].open = conns[link].open /\ conns'[link].reading = conns[link].reading
    BY <1>7, <1>8
  <2> SUFFICES ASSUME link # 0, conns[link].open /\ conns[link].reading, NEW e \in side.ring
               PROVE  e \in ring \/ Excused(e) \/ OnItsWay(e, conns'[link])
    BY <1>1, <1>9, <2>0 DEF Covered, Excused
  <2>1. e \in ring \/ Excused(e) \/ OnItsWay(e, conns[link])
    BY DEF Inv, Covered
  <2> QED BY <1>7, <1>8, <2>1 DEF OnItsWay
<1>17. Served'
  <2>1. CASE conns[l].id = side.session
    <3>1. conns[l].origin = side.origin
      BY <1>1 DEF Inv, Streams
    <3> QED BY <1>1, <1>7, <1>8, <1>9, <2>1, <3>1 DEF Served
  <2>2. CASE conns[l].id # side.session
    BY <1>1, <2>2 DEF Served
  <2> QED BY <2>1, <2>2
<1> QED BY <1>11, <1>12, <1>13, <1>15, <1>16, <1>17 DEF Inv

LEMMA SessionEndsInv ==
  ASSUME Inv, NEW l \in Links, session_ends(l)
  PROVE  Inv'
<1> DEFINE v == [conns[l] EXCEPT !.reading = FALSE, !.feed = <<>>, !.queue = <<>>]
<1>1. /\ UNCHANGED <<mode, ring, cleared_at, watch, link, now, missed, late>>
      /\ ~conns[l].open
      /\ side' = IF side.session = conns[l].id THEN apply_modes(AllOff) ELSE side
      /\ conns' = [conns EXCEPT ![l].reading = FALSE, ![l].feed = <<>>, ![l].queue = <<>>]
  BY DEF session_ends, daemonVars
<1>2. conns \in Seq(Connection) /\ l \in 1..Len(conns) /\ conns[l] \in Connection
  BY DEF Inv, Typed, Links
<1>3. /\ v \in Connection /\ ~v.reading
      /\ v.id = conns[l].id /\ v.origin = conns[l].origin
      /\ v.open = conns[l].open /\ v.down = conns[l].down
  <2>1. <<>> \in Seq(Nat)
    OBVIOUS
  <2> QED BY <1>2, <2>1 DEF Connection
<1>4. conns' = [conns EXCEPT ![l] = v]
  BY <1>1, <1>2
<1> HIDE DEF v
<1>5. /\ conns' \in Seq(Connection) /\ Len(conns') = Len(conns)
      /\ \A k \in 1..Len(conns) : conns'[k] = IF k = l THEN v ELSE conns[k]
  BY <1>2, <1>3, <1>4, SeqExcept
<1>6. Links' = Links /\ Links = 1..Len(conns) /\ (link # 0 => link \in Links)
  BY <1>5 DEF Links, Inv, Typed
<1>7. AllOff \in Modes
  BY DEF AllOff, Modes
<1>8. /\ side' \in SideStore /\ side'.origin = side.origin /\ side'.session = side.session
      /\ side'.begun = side.begun /\ side'.ring \subseteq side.ring
      /\ side.session = conns[l].id => side'.mode = AllOff
      /\ side.session # conns[l].id => side'.mode = side.mode
  <2>1. CASE side.session = conns[l].id
    BY <1>1, <1>7, <2>1, ApplyFacts DEF Inv
  <2>2. CASE side.session # conns[l].id
    BY <1>1, <2>2 DEF Inv, Typed
  <2> QED BY <2>1, <2>2
<1>9. Typed'
  BY <1>1, <1>5, <1>8 DEF Inv, Typed
<1>10. OneLink' /\ Streams'
  BY <1>1, <1>3, <1>5, <1>6, <1>8 DEF Inv, OneLink, Streams
<1>11. Numbered' /\ ClearedStaysCleared'
  BY <1>1, <1>8 DEF Inv, Numbered, ClearedStaysCleared
<1>12. Wire' = Wire
  BY <1>1, <1>3, <1>5, <1>6 DEF Wire
<1>13. InOrder' /\ Genuine'
  BY <1>1, <1>8, <1>12 DEF Inv, InOrder, Genuine, CopyOfOurs
<1>14. Covered'
  <2> SUFFICES ASSUME link # 0, conns'[link].open /\ conns'[link].reading, NEW e \in side.ring
               PROVE  e \in ring \/ Excused(e) \/ OnItsWay(e, conns'[link])
    BY <1>1, <1>8 DEF Covered, Excused
  <2>1. conns'[link] = conns[link]
    BY <1>1, <1>3, <1>5, <1>6
  <2> QED BY <2>1 DEF Inv, Covered
<1>15. Served'
  <2>1. CASE side.session = conns[l].id
    BY <1>8, <2>1 DEF Served
  <2>2. CASE side.session # conns[l].id
    <3>1. CASE late \/ side.mode = AllOff
      BY <1>1, <1>8, <2>2, <3>1 DEF Served
    <3>2. CASE ~(late \/ side.mode = AllOff)
      <4>1. PICK k \in Links : /\ conns[k].reading /\ conns[k].id = side.session
                               /\ conns[k].origin = side.origin
        BY <3>2 DEF Inv, Served
      <4>2. conns'[k] = conns[k]
        BY <1>5, <1>6, <2>2, <4>1
      <4> QED BY <1>6, <1>8, <4>1, <4>2 DEF Served
    <3> QED BY <3>1, <3>2
  <2> QED BY <2>1, <2>2
<1> QED BY <1>9, <1>10, <1>11, <1>13, <1>14, <1>15 DEF Inv

LEMMA ShipInv ==
  ASSUME Inv, NEW l \in Links, ship(l)
  PROVE  Inv'
<1> DEFINE b == CHOOSE c \in side.begun : c.id = Head(conns[l].queue)
           D == IF conns[l].open THEN Append(conns[l].down, b) ELSE conns[l].down
           Q == conns[l].queue
           v == [conns[l] EXCEPT !.queue = Tail(Q), !.down = D]
<1>1. /\ UNCHANGED <<mode, ring, cleared_at, watch, link, side, now, missed, late>>
      /\ conns[l].reading /\ Q # <<>>
      /\ conns' = [conns EXCEPT ![l].queue = Tail(@),
                                ![l].down = IF conns[l].open THEN Append(@, b) ELSE @]
  BY DEF ship, daemonVars
<1>2. conns \in Seq(Connection) /\ l \in 1..Len(conns) /\ conns[l] \in Connection
  BY DEF Inv, Typed, Links
<1>3. conns[l].queue \in Seq(Nat) /\ conns[l].down \in Seq(Copy)
  BY <1>2 DEF Connection
<1>4. /\ Head(Q) \in Nat /\ Tail(Q) \in Seq(Nat) /\ 1 \in DOMAIN Q /\ Q[1] = Head(Q)
      /\ \A k \in DOMAIN Q : k # 1 => k - 1 \in DOMAIN Tail(Q) /\ Tail(Q)[k - 1] = Q[k]
      /\ \A k \in DOMAIN Tail(Q) : k + 1 \in DOMAIN Q /\ Tail(Q)[k] = Q[k + 1]
  <2> HIDE DEF Q
  <2>1. Q \in Seq(Nat) /\ Q # <<>>
    BY <1>1, <1>3 DEF Q
  <2> QED BY <2>1, TailFacts
<1>5. b \in side.begun /\ b.id = Head(Q)
  <2>1. \E c \in side.begun : c.id = Head(Q)
    BY <1>1, <1>4 DEF Inv, Streams
  <2> QED BY <2>1
<1>6. b \in Copy /\ b.origin = side.origin
  BY <1>5 DEF Inv, Typed, SideStore, Numbered
<1> HIDE DEF b
<1>7. /\ D \in Seq(Copy)
      /\ ~conns[l].open => D = conns[l].down
      /\ conns[l].open =>
           /\ DOMAIN conns[l].down = 1..Len(conns[l].down) /\ Len(conns[l].down) \in Nat
           /\ DOMAIN D = 1..(Len(conns[l].down) + 1) /\ D[Len(conns[l].down) + 1] = b
           /\ \A k \in DOMAIN conns[l].down : D[k] = conns[l].down[k]
  <2>1. CASE conns[l].open
    <3>1. D = Append(conns[l].down, b)
      BY <2>1
    <3> HIDE DEF D
    <3> QED BY <1>3, <1>6, <2>1, <3>1, AppendFacts
  <2>2. CASE ~conns[l].open
    BY <1>3, <2>2
  <2> QED BY <2>1, <2>2
<1>8. conns' = [conns EXCEPT ![l] = v]
  BY <1>1, <1>2
<1> HIDE DEF D
<1>9. /\ v \in Connection /\ v.queue = Tail(Q) /\ v.down = D
      /\ v.id = conns[l].id /\ v.origin = conns[l].origin /\ v.reading = conns[l].reading
      /\ v.open = conns[l].open /\ v.feed = conns[l].feed /\ v.lagged = conns[l].lagged
  BY <1>2, <1>4, <1>7 DEF Connection
<1> HIDE DEF v
<1>10. /\ conns' \in Seq(Connection) /\ Len(conns') = Len(conns)
       /\ \A k \in 1..Len(conns) : conns'[k] = IF k = l THEN v ELSE conns[k]
  BY <1>2, <1>8, <1>9, SeqExcept
<1>11. Links' = Links /\ Links = 1..Len(conns) /\ (link # 0 => link \in Links)
  BY <1>10 DEF Links, Inv, Typed
<1>12. \A k \in Links :
        /\ conns'[k].id = conns[k].id /\ conns'[k].origin = conns[k].origin
        /\ conns'[k].reading = conns[k].reading /\ conns'[k].open = conns[k].open
        /\ conns'[k].feed = conns[k].feed /\ conns'[k].lagged = conns[k].lagged
  BY <1>9, <1>10, <1>11
<1>13. Typed'
  BY <1>1, <1>10 DEF Inv, Typed
<1>14. OneLink' /\ Served'
  BY <1>1, <1>11, <1>12, SMTT(40) DEF Inv, OneLink, Served
<1>15. Streams'
  <2> SUFFICES ASSUME NEW k \in Links, conns'[k].reading
               PROVE  /\ conns'[k].origin = side.origin
                      /\ \A i \in DOMAIN conns'[k].queue : \E c \in side.begun : c.id = conns'[k].queue[i]
                      /\ \A i \in DOMAIN conns'[k].feed : \E c \in side.begun : c.id = conns'[k].feed[i]
    BY <1>1, <1>11 DEF Streams
  <2>1. /\ conns'[k].origin = side.origin
        /\ \A i \in DOMAIN conns'[k].feed : \E c \in side.begun : c.id = conns'[k].feed[i]
        /\ \A i \in DOMAIN conns[k].queue : \E c \in side.begun : c.id = conns[k].queue[i]
    BY <1>12 DEF Inv, Streams
  <2>2. \A i \in DOMAIN conns'[k].queue : \E c \in side.begun : c.id = conns'[k].queue[i]
    <3>1. CASE k = l
      <4>1. conns'[k].queue = Tail(Q)
        BY <1>9, <1>10, <1>11, <3>1
      <4>2. \A i \in DOMAIN Q : \E c \in side.begun : c.id = Q[i]
        BY <2>1, <3>1
      <4> HIDE DEF Q
      <4>3. \A i \in DOMAIN Tail(Q) : \E c \in side.begun : c.id = Tail(Q)[i]
        BY <1>4, <4>2
      <4> QED BY <4>1, <4>3
    <3>2. CASE k # l
      BY <1>10, <1>11, <2>1, <3>2
    <3> QED BY <3>1, <3>2
  <2> QED BY <2>1, <2>2
<1>16. Numbered' /\ ClearedStaysCleared'
  BY <1>1 DEF Inv, Numbered, ClearedStaysCleared
<1>17. CopyOfOurs(b)
  <2>1. Follows(b, b) /\ b.origin <= side.origin
    BY <1>6 DEF Follows, Copy
  <2> QED BY <1>5, <2>1 DEF CopyOfOurs
<1>18. \A c : CopyOfOurs(c) => Follows(c, b)
  BY <1>5, <1>6 DEF CopyOfOurs, Inv, Numbered, Follows
<1>19. CASE l = link /\ conns[l].open
  <2>0. link # 0 /\ link' = l
    BY <1>1, <1>2, <1>19
  <2>1. Wire = conns[l].down /\ Wire' = D
    BY <1>2, <1>9, <1>10, <1>19, <2>0 DEF Wire
  <2> DEFINE n == Len(conns[l].down)
  <2>2. /\ DOMAIN Wire = 1..n /\ n \in Nat /\ DOMAIN D = 1..(n + 1) /\ D[n + 1] = b
        /\ \A k \in DOMAIN Wire : D[k] = Wire[k]
    BY <1>7, <1>19, <2>1
  <2> HIDE DEF n
  <2>3. \A k \in DOMAIN D : k = n + 1 \/ k \in DOMAIN Wire
    BY <2>2
  <2>4. Genuine'
    BY <1>1, <1>17, <2>1, <2>2, <2>3, SMTT(40) DEF Inv, Genuine, CopyOfOurs
  <2>5. InOrder'
    <3>1. \A c \in ring : \A k \in DOMAIN D : Follows(c, D[k])
      BY <1>18, <2>2, <2>3 DEF Inv, InOrder, Genuine
    <3>2. ASSUME NEW j \in DOMAIN D, NEW k \in DOMAIN D, j <= k
          PROVE  Follows(D[j], D[k])
      <4>1. CASE k = n + 1
        <5>1. CopyOfOurs(D[j])
          BY <1>17, <2>2, <2>3 DEF Inv, Genuine
        <5> QED BY <1>18, <2>2, <4>1, <5>1
      <4>2. CASE k \in DOMAIN Wire
        <5>1. j \in DOMAIN Wire
          BY <2>2, <3>2, <4>2
        <5> QED BY <2>2, <3>2, <4>2, <5>1 DEF Inv, InOrder
      <4> QED BY <2>3, <4>1, <4>2
    <3> QED BY <1>1, <2>1, <3>1, <3>2 DEF InOrder
  <2>6. Covered'
    <3> SUFFICES ASSUME conns[link].open /\ conns[link].reading, NEW e \in side.ring
                 PROVE  e \in ring \/ Excused(e) \/ OnItsWay(e, v)
      BY <1>1, <1>10, <1>11, <1>12, <1>19 DEF Covered, Excused
    <3>1. e \in ring \/ Excused(e) \/ OnItsWay(e, conns[link])
      BY <1>2, <1>19 DEF Inv, Covered
    <3>2. CASE \E k \in DOMAIN Q : Q[k] = e.id
      <4>1. PICK k \in DOMAIN Q : Q[k] = e.id
        BY <3>2
      <4>2. CASE k = 1
        <5>1. e = b
          BY <1>4, <1>5, <4>1, <4>2 DEF Inv, Numbered
        <5>2. n + 1 \in DOMAIN D
          BY <2>2
        <5> QED BY <1>9, <2>2, <5>1, <5>2 DEF OnItsWay
      <4>3. CASE k # 1
        <5>1. k - 1 \in DOMAIN Tail(Q) /\ Tail(Q)[k - 1] = e.id
          BY <1>4, <4>1, <4>3
        <5> HIDE DEF Q
        <5>2. \E i \in DOMAIN v.queue : v.queue[i] = e.id
          BY <1>9, <5>1
        <5> QED BY <5>2 DEF OnItsWay
      <4> QED BY <4>2, <4>3
    <3>3. CASE \E k \in DOMAIN conns[l].down : conns[l].down[k] = e
      <4>1. PICK k \in DOMAIN Wire : Wire[k] = e
        BY <2>1, <3>3
      <4>2. k \in DOMAIN D
        BY <2>2, <4>1
      <4> QED BY <1>9, <2>2, <4>1, <4>2 DEF OnItsWay
    <3>4. CASE ~(\E k \in DOMAIN Q : Q[k] = e.id) /\ ~\E k \in DOMAIN conns[l].down : conns[l].down[k] = e
      BY <1>9, <1>19, <3>1, <3>4 DEF OnItsWay
    <3> QED BY <3>2, <3>3, <3>4
  <2> QED BY <1>13, <1>14, <1>15, <1>16, <2>4, <2>5, <2>6 DEF Inv
<1>20. CASE ~(l = link /\ conns[l].open)
  <2>1. Wire' = Wire
    BY <1>1, <1>7, <1>9, <1>10, <1>11, <1>20 DEF Wire
  <2>2. InOrder' /\ Genuine'
    BY <1>1, <2>1 DEF Inv, InOrder, Genuine, CopyOfOurs
  <2>3. Covered'
    <3> SUFFICES ASSUME link # 0, conns'[link].open /\ conns'[link].reading, NEW e \in side.ring
                 PROVE  e \in ring \/ Excused(e) \/ OnItsWay(e, conns'[link])
      BY <1>1 DEF Covered, Excused
    <3>1. conns'[link] = conns[link]
      BY <1>10, <1>11, <1>12, <1>20
    <3> QED BY <3>1 DEF Inv, Covered
  <2> QED BY <1>13, <1>14, <1>15, <1>16, <2>2, <2>3 DEF Inv
<1> QED BY <1>19, <1>20

LEMMA RecvInv ==
  ASSUME Inv, NEW l \in Links, recv(l)
  PROVE  Inv'
<1> DEFINE all == SetToSeq({e.id : e \in side.ring})
           F == conns[l].feed
           again == [conns[l] EXCEPT !.lagged = FALSE, !.queue = all]
           next == [conns[l] EXCEPT !.queue = <<Head(F)>>, !.feed = Tail(F)]
           v == IF conns[l].lagged THEN again ELSE next
<1>1. /\ UNCHANGED <<mode, ring, cleared_at, watch, link, side, now, missed, late>>
      /\ conns[l].reading /\ conns[l].queue = <<>>
      /\ conns[l].lagged \/ F # <<>>
      /\ \/ conns[l].lagged /\ conns' = [conns EXCEPT ![l].lagged = FALSE, ![l].queue = all]
         \/ ~conns[l].lagged /\ conns' = [conns EXCEPT ![l].queue = <<Head(F)>>, ![l].feed = Tail(@)]
  BY DEF recv, daemonVars
<1>2. conns \in Seq(Connection) /\ l \in 1..Len(conns) /\ conns[l] \in Connection
  BY DEF Inv, Typed, Links
<1>3. /\ all \in Seq(Nat)
      /\ \A k \in DOMAIN all : \E b \in side.begun : b.id = all[k]
      /\ \A e \in side.ring : \E k \in DOMAIN all : all[k] = e.id
  BY RingIds DEF Inv
<1>4. F \in Seq(Nat)
  BY <1>2 DEF Connection
<1>5. F # <<>> =>
      /\ Head(F) \in Nat /\ Tail(F) \in Seq(Nat) /\ 1 \in DOMAIN F /\ F[1] = Head(F)
      /\ \A k \in DOMAIN F : k # 1 => k - 1 \in DOMAIN Tail(F) /\ Tail(F)[k - 1] = F[k]
      /\ \A k \in DOMAIN Tail(F) : k + 1 \in DOMAIN F /\ Tail(F)[k] = F[k + 1]
  <2> HIDE DEF F
  <2> QED BY <1>4, TailFacts
<1>6. conns' = [conns EXCEPT ![l] = v]
  BY <1>1, <1>2
<1> HIDE DEF all, F
<1>7. conns[l].lagged =>
        /\ again \in Connection /\ again.queue = all /\ again.feed = F /\ again.down = conns[l].down
        /\ again.id = conns[l].id /\ again.origin = conns[l].origin
        /\ again.reading = conns[l].reading /\ again.open = conns[l].open
  BY <1>2, <1>3 DEF Connection, F
<1>8. ~conns[l].lagged =>
        /\ next \in Connection /\ next.queue = <<Head(F)>> /\ next.feed = Tail(F)
        /\ next.down = conns[l].down /\ next.lagged = conns[l].lagged
        /\ next.id = conns[l].id /\ next.origin = conns[l].origin
        /\ next.reading = conns[l].reading /\ next.open = conns[l].open
  <2> SUFFICES ASSUME ~conns[l].lagged
               PROVE  /\ next \in Connection /\ next.queue = <<Head(F)>> /\ next.feed = Tail(F)
                      /\ next.down = conns[l].down /\ next.lagged = conns[l].lagged
                      /\ next.id = conns[l].id /\ next.origin = conns[l].origin
                      /\ next.reading = conns[l].reading /\ next.open = conns[l].open
    OBVIOUS
  <2>1. F # <<>>
    BY <1>1
  <2>2. <<Head(F)>> \in Seq(Nat) /\ Tail(F) \in Seq(Nat)
    BY <1>5, <2>1
  <2> QED BY <1>2, <2>2 DEF Connection
<1> HIDE DEF again, next
<1>9. v \in Connection
  BY <1>7, <1>8
<1>10. /\ v.down = conns[l].down /\ v.id = conns[l].id /\ v.origin = conns[l].origin
       /\ v.reading = conns[l].reading /\ v.open = conns[l].open
  BY <1>7, <1>8
<1>11. /\ conns[l].lagged => v.queue = all /\ v.feed = F
       /\ ~conns[l].lagged => /\ v.queue = <<Head(F)>> /\ v.feed = Tail(F) /\ F # <<>>
                              /\ v.lagged = conns[l].lagged
  BY <1>1, <1>7, <1>8
<1> HIDE DEF v
<1>12. /\ \A k \in DOMAIN v.queue : \/ \E j \in DOMAIN all : all[j] = v.queue[k]
                                    \/ \E j \in DOMAIN F : F[j] = v.queue[k]
       /\ \A k \in DOMAIN v.feed : \E j \in DOMAIN F : F[j] = v.feed[k]
  <2>1. CASE conns[l].lagged
    BY <1>11, <2>1
  <2>2. CASE ~conns[l].lagged
    <3>1. \A k \in DOMAIN <<Head(F)>> : <<Head(F)>>[k] = F[1]
      BY <1>5, <1>11, <2>2
    <3>2. \A k \in DOMAIN v.queue : v.queue[k] = F[1]
      BY <1>11, <2>2, <3>1
    <3>3. \A k \in DOMAIN Tail(F) : k + 1 \in DOMAIN F /\ Tail(F)[k] = F[k + 1]
      BY <1>5, <1>11, <2>2
    <3> QED BY <1>5, <1>11, <2>2, <3>2, <3>3, SMTT(40)
  <2> QED BY <2>1, <2>2
<1>13. \/ \A e \in side.ring : \E k \in DOMAIN v.queue : v.queue[k] = e.id
       \/ /\ v.lagged = conns[l].lagged
          /\ \A k \in DOMAIN F : \/ \E j \in DOMAIN v.queue : v.queue[j] = F[k]
                                 \/ \E j \in DOMAIN v.feed : v.feed[j] = F[k]
  <2>1. CASE conns[l].lagged
    BY <1>3, <1>11, <2>1, ZenonT(60)
  <2>2. CASE ~conns[l].lagged
    <3>1. 1 \in DOMAIN v.queue /\ v.queue[1] = F[1]
      BY <1>5, <1>11, <2>2
    <3>2. \A k \in DOMAIN F : k # 1 => k - 1 \in DOMAIN v.feed /\ v.feed[k - 1] = F[k]
      BY <1>5, <1>11, <2>2
    <3> QED BY <1>11, <2>2, <3>1, <3>2
  <2> QED BY <2>1, <2>2
<1>14. /\ conns' \in Seq(Connection) /\ Len(conns') = Len(conns)
       /\ \A k \in 1..Len(conns) : conns'[k] = IF k = l THEN v ELSE conns[k]
  BY <1>2, <1>6, <1>9, SeqExcept
<1>15. Links' = Links /\ Links = 1..Len(conns) /\ (link # 0 => link \in Links)
  BY <1>14 DEF Links, Inv, Typed
<1>16. \A k \in Links :
        /\ conns'[k].id = conns[k].id /\ conns'[k].origin = conns[k].origin
        /\ conns'[k].reading = conns[k].reading /\ conns'[k].open = conns[k].open
        /\ conns'[k].down = conns[k].down
  BY <1>10, <1>14, <1>15
<1>17. Typed'
  BY <1>1, <1>14 DEF Inv, Typed
<1>18. OneLink' /\ Served'
  BY <1>1, <1>15, <1>16 DEF Inv, OneLink, Served
<1>19. Numbered' /\ ClearedStaysCleared'
  BY <1>1 DEF Inv, Numbered, ClearedStaysCleared
<1>20. Wire' = Wire
  BY <1>1, <1>15, <1>16 DEF Wire
<1>21. InOrder' /\ Genuine'
  BY <1>1, <1>20 DEF Inv, InOrder, Genuine, CopyOfOurs
<1>22. Streams'
  <2> SUFFICES ASSUME NEW k \in Links, conns'[k].reading
               PROVE  /\ conns'[k].origin = side.origin
                      /\ \A i \in DOMAIN conns'[k].queue : \E c \in side.begun : c.id = conns'[k].queue[i]
                      /\ \A i \in DOMAIN conns'[k].feed : \E c \in side.begun : c.id = conns'[k].feed[i]
    BY <1>1, <1>15 DEF Streams
  <2>1. /\ conns[k].origin = side.origin
        /\ \A i \in DOMAIN conns[k].queue : \E c \in side.begun : c.id = conns[k].queue[i]
        /\ \A i \in DOMAIN conns[k].feed : \E c \in side.begun : c.id = conns[k].feed[i]
    BY <1>16 DEF Inv, Streams
  <2>2. CASE k = l
    <3>1. \A i \in DOMAIN F : \E c \in side.begun : c.id = F[i]
      BY <2>1, <2>2 DEF F
    <3>2. conns'[k] = v
      BY <1>14, <1>15, <2>2
    <3>3. ASSUME NEW i \in DOMAIN v.queue
          PROVE  \E c \in side.begun : c.id = v.queue[i]
      <4>1. CASE \E j \in DOMAIN all : all[j] = v.queue[i]
        BY <1>3, <4>1
      <4>2. CASE \E j \in DOMAIN F : F[j] = v.queue[i]
        BY <3>1, <4>2
      <4> QED BY <1>12, <4>1, <4>2
    <3>4. \A i \in DOMAIN v.feed : \E c \in side.begun : c.id = v.feed[i]
      BY <1>12, <3>1
    <3> QED BY <1>16, <2>1, <3>2, <3>3, <3>4
  <2>3. CASE k # l
    BY <1>14, <1>15, <2>1, <2>3
  <2> QED BY <2>2, <2>3
<1>23. Covered'
  <2>0. link # 0 => conns'[link].open = conns[link].open /\ conns'[link].reading = conns[link].reading
    BY <1>15, <1>16
  <2> SUFFICES ASSUME link # 0, conns[link].open /\ conns[link].reading, NEW e \in side.ring
               PROVE  e \in ring \/ Excused(e) \/ OnItsWay(e, conns'[link])
    BY <1>1, <2>0 DEF Covered, Excused
  <2>1. e \in ring \/ Excused(e) \/ OnItsWay(e, conns[link])
    BY DEF Inv, Covered
  <2>2. CASE link # l
    BY <1>14, <1>15, <2>1, <2>2
  <2>3. CASE link = l
    <3>1. conns'[link] = v
      BY <1>2, <1>14, <2>3
    <3>2. ~\E k \in DOMAIN conns[l].queue : conns[l].queue[k] = e.id
      BY <1>1
    <3>3. CASE \A x \in side.ring : \E k \in DOMAIN v.queue : v.queue[k] = x.id
      BY <3>1, <3>3 DEF OnItsWay
    <3>4. CASE ~\A x \in side.ring : \E k \in DOMAIN v.queue : v.queue[k] = x.id
      <4>1. v.lagged = conns[l].lagged
        BY <1>13, <3>4
      <4>2. CASE \E k \in DOMAIN F : F[k] = e.id
        BY <1>13, <3>1, <3>4, <4>2 DEF OnItsWay
      <4>3. CASE ~\E k \in DOMAIN F : F[k] = e.id
        BY <1>10, <2>1, <2>3, <3>1, <3>2, <4>1, <4>3 DEF OnItsWay, F
      <4> QED BY <4>2, <4>3
    <3> QED BY <3>3, <3>4
  <2> QED BY <2>2, <2>3
<1> QED BY <1>17, <1>18, <1>19, <1>21, <1>22, <1>23 DEF Inv

LEMMA SidecarRestartsInv ==
  ASSUME Inv, SidecarRestarts
  PROVE  Inv'
<1> DEFINE cut(c) == [c EXCEPT !.reading = FALSE, !.up = <<>>, !.feed = <<>>, !.queue = <<>>]
<1>1. /\ UNCHANGED <<mode, ring, cleared_at, watch, link, now, missed>> /\ late' = FALSE
      /\ side' = [origin |-> side.origin + 1, session |-> 0, mode |-> AllOff,
                  ring |-> {}, begun |-> {}]
      /\ conns' = [l \in Links |-> cut(conns[l])]
  BY DEF SidecarRestarts, daemonVars
<1>2. side.origin \in Nat /\ AllOff \in Modes
  BY DEF Inv, Typed, SideStore, AllOff, Modes
<1>3. /\ side' \in SideStore /\ side'.origin = side.origin + 1 /\ side'.mode = AllOff
      /\ side'.ring = {} /\ side'.begun = {}
  <2>1. side.origin + 1 \in Nat /\ 0 \in Nat /\ {} \in SUBSET Copy
    BY <1>2
  <2> HIDE DEF cut
  <2> QED BY <1>1, <1>2, <2>1 DEF SideStore
<1>4. \A l \in Links : /\ cut(conns[l]) \in Connection /\ ~cut(conns[l]).reading
                       /\ cut(conns[l]).open = conns[l].open /\ cut(conns[l]).down = conns[l].down
  <2> SUFFICES ASSUME NEW l \in Links
               PROVE  /\ cut(conns[l]) \in Connection /\ ~cut(conns[l]).reading
                      /\ cut(conns[l]).open = conns[l].open /\ cut(conns[l]).down = conns[l].down
    OBVIOUS
  <2>1. conns[l] \in Connection
    BY DEF Inv, Typed, Links
  <2>2. <<>> \in Seq(Modes) /\ <<>> \in Seq(Nat)
    OBVIOUS
  <2> QED BY <2>1, <2>2 DEF Connection
<1> HIDE DEF cut
<1>5. Len(conns) \in Nat /\ conns' \in [1..Len(conns) -> Connection]
  BY <1>1, <1>4 DEF Links, Inv, Typed
<1>6. conns' \in Seq(Connection) /\ Len(conns') = Len(conns)
  BY <1>5, SeqOfFun
<1>7. Links' = Links /\ (link # 0 => link \in Links)
  BY <1>6 DEF Links, Inv, Typed
<1>8. \A l \in Links : /\ ~conns'[l].reading /\ conns'[l].open = conns[l].open
                       /\ conns'[l].down = conns[l].down
  BY <1>1, <1>4
<1>9. Typed'
  BY <1>1, <1>3, <1>6 DEF Inv, Typed
<1>10. OneLink' /\ Streams' /\ Served'
  BY <1>1, <1>3, <1>7, <1>8 DEF Inv, OneLink, Streams, Served
<1>11. Numbered' /\ ClearedStaysCleared'
  BY <1>1, <1>3, FS_EmptySet DEF Inv, Numbered, ClearedStaysCleared
<1>12. Wire' = Wire
  BY <1>1, <1>7, <1>8 DEF Wire
<1>13. InOrder'
  BY <1>1, <1>12 DEF Inv, InOrder
<1>14. Genuine'
  <2>1. \A c : c \in ring \/ (\E k \in DOMAIN Wire : c = Wire[k]) => c.origin \in Nat
    <3>1. \A c \in ring : c.origin \in Nat
      BY DEF Inv, Typed, Copy
    <3>2. \A k \in DOMAIN Wire : Wire[k] \in Copy
      <4>1. CASE link = 0
        BY <4>1 DEF Wire
      <4>2. CASE link # 0
        <5>1. conns[link] \in Connection
          BY <4>2 DEF Inv, Typed
        <5>2. Wire \in Seq(Copy)
          BY <4>2, <5>1 DEF Wire, Connection
        <5> QED BY <5>2
      <4> QED BY <4>1, <4>2
    <3> QED BY <3>1, <3>2 DEF Copy
  <2>2. \A c : CopyOfOurs(c) /\ c.origin \in Nat => c.origin <= side'.origin /\ c.origin # side'.origin
    BY <1>2, <1>3 DEF CopyOfOurs
  <2>3. \A c \in ring : c.origin <= side'.origin /\ c.origin # side'.origin
    BY <2>1, <2>2 DEF Inv, Genuine
  <2>4. \A k \in DOMAIN Wire : Wire[k].origin <= side'.origin /\ Wire[k].origin # side'.origin
    BY <2>1, <2>2 DEF Inv, Genuine
  <2> QED BY <1>1, <1>12, <2>3, <2>4 DEF Genuine, CopyOfOurs
<1>15. Covered'
  BY <1>3 DEF Covered
<1> QED BY <1>9, <1>10, <1>11, <1>13, <1>14, <1>15 DEF Inv

----------------------------------------------------------------------------
(* What the sidecar records.                                               *)

\* A stream that is read gets the id; one that is full forgets its oldest and knows it.
Heard(c, p, id) ==
  /\ p.id = c.id /\ p.origin = c.origin /\ p.open = c.open /\ p.reading = c.reading
  /\ p.queue = c.queue /\ p.down = c.down
  /\ ~c.reading => p = c
  /\ c.reading =>
       /\ \A k \in DOMAIN p.feed : p.feed[k] = id \/ \E j \in DOMAIN c.feed : c.feed[j] = p.feed[k]
       /\ \E k \in DOMAIN p.feed : p.feed[k] = id
       /\ c.lagged => p.lagged
       /\ p.lagged \/ \A j \in DOMAIN c.feed : \E k \in DOMAIN p.feed : p.feed[k] = c.feed[j]

\* What publish does to one stream that is read.
LEMMA HeardOne ==
  ASSUME NEW c \in Connection, c.reading, NEW id \in Nat
  PROVE  LET p == [c EXCEPT !.lagged = @ \/ Len(c.feed) = FEED,
                            !.feed = Append(IF Len(c.feed) = FEED THEN Tail(@) ELSE @, id)]
         IN p \in Connection /\ Heard(c, p, id)
<1> DEFINE F == c.feed
           full == Len(F) = FEED
           R == IF full THEN Tail(F) ELSE F
           A == Append(R, id)
           p == [c EXCEPT !.lagged = @ \/ full, !.feed = A]
<1>1. F \in Seq(Nat) /\ c.lagged \in BOOLEAN /\ full \in BOOLEAN
  BY DEF Connection
<1>2. FEED \in Nat \ {0}
  BY CaptureAssumption
<1>3. /\ R \in Seq(Nat)
      /\ \A k \in DOMAIN R : \E j \in DOMAIN F : F[j] = R[k]
      /\ ~full => R = F
  <2>1. CASE full
    <3>1. F # <<>> /\ R = Tail(F)
      BY <1>1, <1>2, <2>1
    <3> HIDE DEF F, R
    <3>2. Tail(F) \in Seq(Nat) /\ \A k \in DOMAIN Tail(F) : k + 1 \in DOMAIN F /\ Tail(F)[k] = F[k + 1]
      BY <1>1, <3>1, TailFacts
    <3> QED BY <2>1, <3>1, <3>2
  <2>2. CASE ~full
    BY <1>1, <2>2
  <2> QED BY <2>1, <2>2
<1> HIDE DEF R
<1>4. /\ A \in Seq(Nat) /\ DOMAIN R = 1..Len(R) /\ DOMAIN A = 1..(Len(R) + 1) /\ Len(R) \in Nat
      /\ A[Len(R) + 1] = id /\ \A k \in DOMAIN R : A[k] = R[k]
  BY <1>3, AppendFacts
<1> HIDE DEF A, full
<1>5. /\ p \in Connection
      /\ p.id = c.id /\ p.origin = c.origin /\ p.open = c.open
      /\ p.reading = c.reading /\ p.queue = c.queue /\ p.down = c.down
      /\ p.feed = A /\ p.lagged = (c.lagged \/ full)
  BY <1>1, <1>4 DEF Connection
<1>6. \A k \in DOMAIN A : A[k] = id \/ \E j \in DOMAIN F : F[j] = A[k]
  <2>1. \A k \in DOMAIN A : k = Len(R) + 1 \/ k \in DOMAIN R
    BY <1>4
  <2> QED BY <1>3, <1>4, <2>1
<1>7. \E k \in DOMAIN A : A[k] = id
  <2>1. Len(R) + 1 \in DOMAIN A
    BY <1>4
  <2> QED BY <1>4, <2>1
<1>8. full \/ \A j \in DOMAIN F : \E k \in DOMAIN A : A[k] = F[j]
  <2>1. DOMAIN R \subseteq DOMAIN A
    BY <1>4
  <2> QED BY <1>3, <1>4, <2>1
<1> HIDE DEF p
<1>9. Heard(c, p, id)
  BY <1>5, <1>6, <1>7, <1>8 DEF Heard
<1> QED BY <1>5, <1>9 DEF p, A, R, full

LEMMA PublishedFacts ==
  ASSUME Typed, NEW id \in Nat
  PROVE  /\ Published(id) \in Seq(Connection) /\ Len(Published(id)) = Len(conns)
         /\ \A l \in Links : Heard(conns[l], Published(id)[l], id)
<1> DEFINE told(c) == [c EXCEPT !.lagged = @ \/ Len(c.feed) = FEED,
                                !.feed = Append(IF Len(c.feed) = FEED THEN Tail(@) ELSE @, id)]
           P == Published(id)
<1>1. /\ Len(conns) \in Nat /\ Links = 1..Len(conns)
      /\ \A l \in Links : conns[l] \in Connection
  BY DEF Typed, Links
<1>2. P = [l \in Links |-> IF ~conns[l].reading THEN conns[l] ELSE told(conns[l])]
  BY DEF Published
<1>3. \A l \in Links : conns[l].reading =>
        told(conns[l]) \in Connection /\ Heard(conns[l], told(conns[l]), id)
  BY <1>1, HeardOne
<1>4. \A l \in Links : ~conns[l].reading => Heard(conns[l], conns[l], id)
  BY DEF Heard
<1> HIDE DEF told
<1>5. \A l \in Links : P[l] \in Connection /\ Heard(conns[l], P[l], id)
  <2> TAKE l \in Links
  <2>1. CASE conns[l].reading
    <3>1. P[l] = told(conns[l])
      BY <1>2, <2>1
    <3> QED BY <1>3, <2>1, <3>1
  <2>2. CASE ~conns[l].reading
    <3>1. P[l] = conns[l]
      BY <1>2, <2>2
    <3> QED BY <1>1, <1>4, <2>2, <3>1
  <2> QED BY <2>1, <2>2
<1>6. P \in [1..Len(conns) -> Connection]
  BY <1>1, <1>2, <1>5
<1> HIDE DEF P
<1>7. P \in Seq(Connection) /\ Len(P) = Len(conns)
  BY <1>1, <1>6, SeqOfFun
<1> QED BY <1>5, <1>7 DEF P

LEMMA WireTyped ==
  ASSUME Typed
  PROVE  \A k \in DOMAIN Wire : Wire[k] \in Copy
<1>1. CASE link = 0
  BY <1>1 DEF Wire
<1>2. CASE link # 0
  <2>1. conns[link] \in Connection
    BY <1>2 DEF Typed
  <2>2. Wire \in Seq(Copy)
    BY <1>2, <2>1 DEF Wire, Connection
  <2> QED BY <2>2
<1> QED BY <1>1, <1>2

\* A step that puts a new exchange or a new version of one in the sidecar's store and tells
\* every stream of it.
LEMMA RecordedInv ==
  ASSUME Inv, NEW e \in Copy, conns' = Published(e.id),
         UNCHANGED <<mode, ring, cleared_at, watch, link, now, missed, late>>,
         side' \in SideStore, side'.origin = side.origin, side'.session = side.session,
         side'.mode = side.mode, Numbered', e \in side'.begun,
         \A b \in side.begun : \E c \in side'.begun : c.id = b.id /\ Follows(b, c),
         \A x \in side'.ring : x \in side.ring \/ x = e
  PROVE  Inv'
<1>1. e.id \in Nat /\ Typed
  BY DEF Copy, Inv
<1>2. /\ conns' \in Seq(Connection) /\ Len(conns') = Len(conns)
      /\ \A l \in Links : Heard(conns[l], conns'[l], e.id)
  BY <1>1, PublishedFacts
<1>3. Links' = Links /\ (link # 0 => link \in Links)
  BY <1>2 DEF Links, Inv, Typed
<1>4. \A k \in Links :
        /\ conns'[k].id = conns[k].id /\ conns'[k].origin = conns[k].origin
        /\ conns'[k].reading = conns[k].reading /\ conns'[k].open = conns[k].open
        /\ conns'[k].queue = conns[k].queue /\ conns'[k].down = conns[k].down
  BY <1>2 DEF Heard
<1>5. Typed'
  BY <1>2 DEF Inv, Typed
<1>6. OneLink' /\ Served'
  BY <1>3, <1>4 DEF Inv, OneLink, Served
<1>7. ClearedStaysCleared'
  BY DEF Inv, ClearedStaysCleared
<1>8. Wire' = Wire
  BY <1>3, <1>4 DEF Wire
<1>9. InOrder'
  BY <1>8 DEF Inv, InOrder
<1>10. Genuine'
  <2>1. \A c \in Copy : CopyOfOurs(c) => CopyOfOurs(c)'
    <3> SUFFICES ASSUME NEW c \in Copy, CopyOfOurs(c), c.origin = side.origin
                 PROVE  \E b \in side'.begun : b.id = c.id /\ Follows(c, b)
      BY DEF CopyOfOurs
    <3>1. PICK b \in side.begun : b.id = c.id /\ Follows(c, b)
      BY DEF CopyOfOurs
    <3>2. PICK d \in side'.begun : d.id = b.id /\ Follows(b, d)
      OBVIOUS
    <3>3. b.origin = side.origin /\ d.origin = side.origin
      BY DEF Inv, Numbered
    <3>4. b \in Copy /\ d \in Copy
      BY DEF Inv, Typed, SideStore
    <3>5. Follows(c, d)
      BY <3>1, <3>2, <3>3, <3>4 DEF Follows, Copy
    <3> QED BY <3>1, <3>2, <3>5
  <2>2. \A k \in DOMAIN Wire : Wire[k] \in Copy
    BY <1>1, WireTyped
  <2>3. \A c \in ring : CopyOfOurs(c)'
    BY <2>1 DEF Inv, Typed, Genuine
  <2>4. \A k \in DOMAIN Wire : CopyOfOurs(Wire[k])'
    <3> TAKE k \in DOMAIN Wire
    <3>1. Wire[k] \in Copy /\ CopyOfOurs(Wire[k])
      BY <2>2 DEF Inv, Genuine
    <3>2. \A c \in Copy : CopyOfOurs(c) =>
            /\ c.origin <= side'.origin
            /\ c.origin = side'.origin => \E b \in side'.begun : b.id = c.id /\ Follows(c, b)
      BY <2>1 DEF CopyOfOurs
    <3> QED BY <1>8, <3>1, <3>2 DEF CopyOfOurs
  <2> QED BY <1>8, <2>3, <2>4 DEF Genuine
<1>11. Streams'
  <2> SUFFICES ASSUME NEW l \in Links, conns'[l].reading
               PROVE  /\ conns'[l].origin = side'.origin
                      /\ \A k \in DOMAIN conns'[l].queue : \E b \in side'.begun : b.id = conns'[l].queue[k]
                      /\ \A k \in DOMAIN conns'[l].feed : \E b \in side'.begun : b.id = conns'[l].feed[k]
    BY <1>3 DEF Streams
  <2>1. /\ conns[l].reading /\ conns[l].origin = side.origin
        /\ \A k \in DOMAIN conns[l].queue : \E b \in side.begun : b.id = conns[l].queue[k]
        /\ \A k \in DOMAIN conns[l].feed : \E b \in side.begun : b.id = conns[l].feed[k]
    BY <1>4 DEF Inv, Streams
  <2>2. \A i : (\E b \in side.begun : b.id = i) => (\E b \in side'.begun : b.id = i)
    OBVIOUS
  <2>3. \A k \in DOMAIN conns'[l].queue : \E b \in side'.begun : b.id = conns'[l].queue[k]
    BY <1>4, <2>1, <2>2
  <2>4. \A k \in DOMAIN conns'[l].feed : \E b \in side'.begun : b.id = conns'[l].feed[k]
    <3> TAKE k \in DOMAIN conns'[l].feed
    <3>1. \/ conns'[l].feed[k] = e.id
          \/ \E j \in DOMAIN conns[l].feed : conns[l].feed[j] = conns'[l].feed[k]
      BY <1>2, <2>1 DEF Heard
    <3>2. CASE conns'[l].feed[k] = e.id
      BY <3>2
    <3>3. CASE \E j \in DOMAIN conns[l].feed : conns[l].feed[j] = conns'[l].feed[k]
      <4>1. \E b \in side.begun : b.id = conns'[l].feed[k]
        BY <2>1, <3>3
      <4> QED BY <2>2, <4>1
    <3> QED BY <3>1, <3>2, <3>3
  <2> QED BY <1>4, <2>1, <2>3, <2>4
<1>12. Covered'
  <2> SUFFICES ASSUME link # 0, conns'[link].open, conns'[link].reading, NEW x \in side'.ring
               PROVE  x \in ring \/ Excused(x) \/ OnItsWay(x, conns'[link])
    BY DEF Covered, Excused
  <2> DEFINE c == conns[link]
             p == conns'[link]
  <2>1. c.open /\ c.reading /\ Heard(c, p, e.id) /\ p.queue = c.queue /\ p.down = c.down
    BY <1>2, <1>3, <1>4
  <2>2. CASE x = e
    <3>1. \E k \in DOMAIN p.feed : p.feed[k] = e.id
      BY <2>1 DEF Heard
    <3> QED BY <2>2, <3>1 DEF OnItsWay
  <2>3. CASE x \in side.ring
    <3>1. x \in ring \/ Excused(x) \/ OnItsWay(x, c)
      BY <2>1, <2>3 DEF Inv, Covered
    <3>2. OnItsWay(x, c) => OnItsWay(x, p)
      <4> HIDE DEF c, p
      <4>1. CASE p.lagged
        BY <4>1 DEF OnItsWay
      <4>2. CASE ~p.lagged
        <5>1. ~c.lagged /\ \A j \in DOMAIN c.feed : \E k \in DOMAIN p.feed : p.feed[k] = c.feed[j]
          BY <2>1, <4>2 DEF Heard
        <5> QED BY <2>1, <5>1 DEF OnItsWay
      <4> QED BY <4>1, <4>2
    <3> QED BY <3>1, <3>2
  <2> QED BY <2>2, <2>3
<1> QED BY <1>5, <1>6, <1>7, <1>9, <1>10, <1>11, <1>12 DEF Inv

LEMMA BeginInv ==
  ASSUME Inv, NEW n \in Node, begin(n)
  PROVE  Inv'
<1> DEFINE id == Cardinality(side.begun) + 1
           e == [origin |-> side.origin, id |-> id, node |-> n, started |-> now, version |-> 1]
           B == side.begun \cup {e}
<1>1. /\ UNCHANGED <<mode, ring, cleared_at, watch, link, now, missed, late>>
      /\ side' = [side EXCEPT !.begun = @ \cup {e}, !.ring = @ \cup {e}]
      /\ conns' = Published(id)
  BY DEF begin, daemonVars
<1>2. Cardinality(side.begun) \in Nat /\ IsFiniteSet(side.begun)
  BY FS_CardinalityType DEF Inv, Numbered
<1>3. side \in SideStore /\ now \in Nat /\ side.origin \in Nat
  BY DEF Inv, Typed, SideStore
<1>4. /\ e \in Copy /\ e.id = id /\ e.origin = side.origin /\ e.started = now
  BY <1>2, <1>3 DEF Copy
<1> HIDE DEF e
<1>5. /\ side' \in SideStore /\ side'.origin = side.origin /\ side'.session = side.session
      /\ side'.mode = side.mode /\ side'.begun = B /\ side'.ring = side.ring \cup {e}
  <2>1. side.begun \cup {e} \in SUBSET Copy /\ side.ring \cup {e} \in SUBSET Copy
    BY <1>3, <1>4 DEF SideStore
  <2> QED BY <1>1, <1>3, <2>1 DEF SideStore
<1>6. \A b \in side.begun : b.id \in 1..Cardinality(side.begun) /\ b.id # id
  BY <1>2 DEF Inv, Numbered
<1>7. e \notin side.begun
  BY <1>4, <1>6
<1>8. IsFiniteSet(B) /\ Cardinality(B) = id
  BY <1>2, <1>7, FS_AddElement
<1>9. Numbered'
  <2>1. \A b, c \in B : b.id = c.id => b = c
    BY <1>4, <1>6 DEF Inv, Numbered
  <2>2. \A b \in B : b.origin = side.origin /\ b.started <= now
    BY <1>3, <1>4 DEF Inv, Numbered
  <2>3. \A b \in B : b.id \in 1..Cardinality(B)
    BY <1>2, <1>4, <1>6, <1>8
  <2>4. side'.ring \subseteq B
    BY <1>5 DEF Inv, Numbered
  <2> QED BY <1>1, <1>5, <1>8, <2>1, <2>2, <2>3, <2>4 DEF Numbered
<1>10. \A b \in side.begun : \E c \in side'.begun : c.id = b.id /\ Follows(b, c)
  <2>1. \A b \in side.begun : Follows(b, b)
    BY <1>3 DEF Follows, SideStore, Copy
  <2> QED BY <1>5, <2>1
<1>11. e \in side'.begun /\ \A x \in side'.ring : x \in side.ring \/ x = e
  BY <1>5
<1> QED BY <1>1, <1>4, <1>5, <1>9, <1>10, <1>11, RecordedInv

LEMMA ChangeInv ==
  ASSUME Inv, NEW o \in side.begun, change(o)
  PROVE  Inv'
<1> DEFINE e == [o EXCEPT !.version = @ + 1]
           B == (side.begun \ {o}) \cup {e}
           same == {c \in side.ring : c.id = e.id}
           R == IF \E c \in side.ring : c.id = e.id THEN (side.ring \ same) \cup {e} ELSE side.ring
<1>1. /\ UNCHANGED <<mode, ring, cleared_at, watch, link, now, missed, late>>
      /\ side' = Record(e) /\ conns' = Published(o.id)
  BY DEF change, daemonVars
<1>2. Cardinality(side.begun) \in Nat /\ IsFiniteSet(side.begun)
  BY FS_CardinalityType DEF Inv, Numbered
<1>3. side \in SideStore /\ o \in Copy /\ now \in Nat
  BY DEF Inv, Typed, SideStore
<1>4. /\ e \in Copy /\ e.id = o.id /\ e.origin = o.origin /\ e.started = o.started
      /\ e.node = o.node /\ e.version = o.version + 1
  BY <1>3 DEF Copy
<1>5. \A c \in side.begun : c.id = e.id <=> c = o
  BY <1>4 DEF Inv, Numbered
<1>6. /\ o.origin = side.origin /\ o.started <= now /\ o.id \in 1..Cardinality(side.begun)
  BY DEF Inv, Numbered
<1> HIDE DEF e
<1>7. (side.begun \ {c \in side.begun : c.id = e.id}) \cup {e} = B
  BY <1>5
<1>8. /\ side' \in SideStore /\ side'.origin = side.origin /\ side'.session = side.session
      /\ side'.mode = side.mode /\ side'.begun = B /\ side'.ring = R
  <2>1. B \in SUBSET Copy /\ R \in SUBSET Copy
    BY <1>3, <1>4 DEF SideStore
  <2>2. Record(e) = [side EXCEPT !.begun = B, !.ring = R]
    BY <1>3, <1>7 DEF Record, SideStore
  <2> HIDE DEF B, R
  <2> QED BY <1>1, <1>3, <2>1, <2>2 DEF SideStore
<1>9. IsFiniteSet(B) /\ Cardinality(B) = Cardinality(side.begun)
  <2>1. IsFiniteSet(side.begun \ {o}) /\ Cardinality(side.begun \ {o}) = Cardinality(side.begun) - 1
    BY <1>2, FS_RemoveElement
  <2>2. e \notin side.begun \ {o}
    BY <1>5
  <2>3. IsFiniteSet(B) /\ Cardinality(B) = Cardinality(side.begun \ {o}) + 1
    <3> DEFINE S == side.begun \ {o}
    <3> HIDE DEF S
    <3>1. IsFiniteSet(S) /\ e \notin S
      BY <2>1, <2>2 DEF S
    <3>2. IsFiniteSet(S \cup {e}) /\ Cardinality(S \cup {e}) = Cardinality(S) + 1
      BY <3>1, FS_AddElement
    <3> QED BY <3>2 DEF S
  <2> QED BY <1>2, <2>1, <2>3
<1>10. Numbered'
  <2>1. \A b, c \in B : b.id = c.id => b = c
    BY <1>5 DEF Inv, Numbered
  <2>2. \A b \in B : b.origin = side.origin /\ b.started <= now /\ b.id \in 1..Cardinality(side.begun)
    BY <1>4, <1>6 DEF Inv, Numbered
  <2>3. R \subseteq B
    <3> SUFFICES ASSUME NEW x \in R PROVE x \in B
      OBVIOUS
    <3>1. CASE x = e
      BY <3>1
    <3>2. CASE x # e
      <4>1. x \in side.ring /\ x.id # e.id
        BY <3>2
      <4> QED BY <1>4, <4>1 DEF Inv, Numbered
    <3> QED BY <3>1, <3>2
  <2> QED BY <1>1, <1>8, <1>9, <2>1, <2>2, <2>3 DEF Numbered
<1>11. \A b \in side.begun : \E c \in side'.begun : c.id = b.id /\ Follows(b, c)
  <2>1. \A b \in side.begun : Follows(b, b)
    BY <1>3 DEF Follows, SideStore, Copy
  <2>2. Follows(o, e) /\ e.id = o.id /\ e \in B
    BY <1>3, <1>4 DEF Follows, Copy
  <2>3. \A b \in side.begun : b # o => b \in B
    OBVIOUS
  <2> QED BY <1>8, <2>1, <2>2, <2>3
<1>12. e \in side'.begun /\ \A x \in side'.ring : x \in side.ring \/ x = e
  BY <1>8
<1>13. conns' = Published(e.id)
  BY <1>1, <1>4
<1> QED BY <1>1, <1>4, <1>8, <1>10, <1>11, <1>12, <1>13, RecordedInv

----------------------------------------------------------------------------
(* The theorem.                                                            *)

LEMMA StepInv ==
  ASSUME Inv, [Next]_vars
  PROVE  Inv'
<1>1. CASE UNCHANGED vars
  <2>1. UNCHANGED <<mode, ring, cleared_at, watch, link, side, conns, now, missed, late>>
    BY <1>1 DEF vars
  <2>2. Typed' /\ OneLink' /\ Numbered' /\ Streams'
    BY <2>1 DEF Inv, Typed, OneLink, Numbered, Streams, Links
  <2>3. InOrder' /\ Genuine' /\ ClearedStaysCleared'
    BY <2>1 DEF Inv, InOrder, Genuine, ClearedStaysCleared, Wire, CopyOfOurs
  <2>4. Covered' /\ Served'
    BY <2>1 DEF Inv, Covered, Served, Links, Excused
  <2> QED BY <2>2, <2>3, <2>4 DEF Inv
<1>2. ASSUME NEW n \in Node,
             ClearLog(n) \/ begin(n) \/ \E m \in BodyMode \cup {Off} : SetMode(n, m)
      PROVE  Inv'
  BY <1>2, ClearLogInv, BeginInv, SetModeInv
<1>3. ASSUME NEW e \in side.begun, change(e)
      PROVE  Inv'
  BY <1>3, ChangeInv
<1>4. ASSUME Sidecar
      PROVE  Inv'
  BY <1>4, ReadModesInv, SessionEndsInv, ShipInv, RecvInv DEF Sidecar
<1>5. ASSUME Daemon
      PROVE  Inv'
  BY <1>5, SyncInv, PullOnceInv, SendModesInv, IngestInv, PullEndsInv DEF Daemon
<1>6. ASSUME LinkBreaks \/ DaemonRestarts \/ SidecarRestarts \/ Tick
      PROVE  Inv'
  BY <1>6, LinkBreaksInv, DaemonRestartsInv, SidecarRestartsInv, TickInv
<1> QED BY <1>1, <1>2, <1>3, <1>4, <1>5, <1>6 DEF Next

LEMMA InvImplies ==
  ASSUME Inv
  PROVE  FeedWhole
<1>1. TypeOK
  BY DEF Inv, Typed, SideStore, OneLink, TypeOK
<1>2. NoGap
  <2> SUFFICES ASSUME Drained, NEW e \in side.ring
               PROVE  e \in ring \/ e.started <= cleared_at[e.node] \/ <<e.origin, e.id>> \in missed
    BY DEF NoGap
  <2>1. e \in ring \/ Excused(e) \/ OnItsWay(e, conns[link])
    BY DEF Inv, Covered, Drained
  <2>2. ~OnItsWay(e, conns[link])
    BY DEF Drained, OnItsWay
  <2> QED BY <2>1, <2>2 DEF Excused
<1>3. RecordsForSomeone
  BY DEF Inv, Served, RecordsForSomeone
<1> QED BY <1>1, <1>2, <1>3 DEF Inv, FeedWhole

\* The link between fghjd and a sidecar (web/capture.rs, daemon/capture.rs), over any number
\* of reconnects, overruns of the feed, clears, switches and restarts of either side: once it
\* has drained fghjd has the latest version of all the sidecar keeps, but for what was cleared
\* or came while its node was off; a cleared exchange does not come back; and the sidecar
\* records only while somebody reads, unless a superseded connection's set was applied late.
THEOREM FeedIsWhole == Spec => []FeedWhole
<1>1. Init => Inv
  BY InitInv
<1>2. Inv /\ [Next]_vars => Inv'
  BY StepInv
<1>3. Inv => FeedWhole
  BY InvImplies
<1> QED BY <1>1, <1>2, <1>3, PTL DEF Spec

----------------------------------------------------------------------------
(* Captures and the table: LogsWhole.                                      *)

Line == [seq : Nat, line : Nat]
Cap == [at : {"begin", "read", "write", "last", "done", "dead"}, aborted : BOOLEAN, box : Nat, from : Nat, pos : Nat, seq : Nat,
        gen : Nat, buffer : Seq(Line)]
Row == [gen : Nat, seq : Nat, line : Nat, by : Nat]
StartRec == [at : {"none", "build", "solve", "create", "restart", "attach"}, from : Nat]
TypeInv ==
  /\ printed \in Seq(Seq(Nat)) /\ up \in BOOLEAN /\ caps \in Seq(Cap) /\ rows \subseteq Row /\ start \in StartRec
  /\ past \in [starts : Nat, lines : Nat, late : BOOLEAN, crossed : BOOLEAN]
\* What runs, or is to be captured, has a container.
BoxInv ==
  /\ up \/ start.at \in {"restart", "attach"} => Box \in DOMAIN printed
  /\ start.at = "attach" => start.from <= Len(printed[Box])
\* A capture has read what its container printed from where it began, and has
\* some of it still in its buffer; one that was followed by another is over or aborted.
CapOK(c, k) ==
  /\ k.box \in DOMAIN printed /\ k.pos = k.from + k.seq /\ k.pos <= Len(printed[k.box])
  /\ Len(k.buffer) <= k.seq
  /\ k.at = "begin" => k.seq = 0
  /\ k.at = "done" => k.buffer = <<>>
  /\ k.at = "read" => ~k.aborted
  /\ c < Newest => k.at \in {"done", "dead"} \/ k.aborted
  /\ \A i \in 1..Len(k.buffer) :
       /\ k.buffer[i].seq = k.seq - Len(k.buffer) + i - 1
       /\ k.buffer[i].line = printed[k.box][k.from + k.buffer[i].seq + 1]
CapInv == \A c \in DOMAIN caps : CapOK(c, caps[c])
Written(c) == caps[c].seq - Len(caps[c].buffer)
\* A row is a line its capture has written.
RowOK(r) ==
  /\ r.by \in DOMAIN caps /\ caps[r.by].at # "begin" /\ r.gen = caps[r.by].gen /\ r.seq < Written(r.by)
  /\ r.line = printed[caps[r.by].box][caps[r.by].from + r.seq + 1]
RowInv == ~past.late => \A r \in rows : RowOK(r)
\* Some generation is the highest.
TopInv == rows = {} \/ \E t \in rows : \A r \in rows : r.gen <= t.gen
\* Generations grow with the captures, and whoever writes has the highest to itself.
Writing(k) == k.at \in {"read", "write", "last"} /\ ~k.aborted
GenInv ==
  ~past.late =>
    /\ \A q, r \in rows : q.by < r.by => q.gen < r.gen
    /\ \A c \in DOMAIN caps : Writing(caps[c]) => \A r \in rows : r.gen <= caps[c].gen /\ (r.gen = caps[c].gen => r.by = c)
\* No line is missing before one that is there, and what was written is there
\* until two later generations have begun.
Two(S) == \E a, b \in S : a # b
HeldInv ==
  ~past.late =>
    /\ \A r \in rows : \A k \in 0..r.seq : \E q \in rows : q.gen = r.gen /\ q.seq = k
    /\ \A c \in DOMAIN caps : caps[c].at = "begin" \/ Two(Later(c)) \/ \A k \in 0..(Written(c) - 1) : \E r \in rows : r.by = c /\ r.seq = k
LogInv == TypeInv /\ BoxInv /\ CapInv /\ RowInv /\ TopInv /\ GenInv /\ HeldInv

----------------------------------------------------------------------------
(* Sequences and the highest generation.                                   *)

LEMMA SetSeq ==
  ASSUME NEW S, NEW s \in Seq(S), NEW c \in DOMAIN s, NEW e \in S, NEW t, t = [s EXCEPT ![c] = e]
  PROVE  /\ t \in Seq(S) /\ Len(t) = Len(s) /\ DOMAIN t = DOMAIN s /\ t[c] = e
         /\ \A d \in DOMAIN s : d # c => t[d] = s[d]
  <1>1. t \in [1..Len(s) -> S] OBVIOUS
  <1> QED BY <1>1

LEMMA MaxIs ==
  ASSUME TypeInv, TopInv, rows # {}
  PROVE  /\ Max(Generations) \in Nat /\ (\E t \in rows : t.gen = Max(Generations)) /\ \A r \in rows : r.gen <= Max(Generations)
  <1>1. PICK t \in rows : \A r \in rows : r.gen <= t.gen BY DEF TopInv
  <1>2. \A r \in rows : r.gen \in Nat BY DEF TypeInv, Row
  <1>3. t.gen \in Generations /\ \A g \in Generations : g <= t.gen /\ g \in Nat BY <1>1, <1>2 DEF Generations
  <1>4. \E g \in Generations : \A h \in Generations : g >= h BY <1>3
  <1>5. Max(Generations) \in Generations /\ \A h \in Generations : Max(Generations) >= h BY <1>4 DEF Max
  <1> QED BY <1>2, <1>5 DEF Generations

LEMMA NextGen ==
  ASSUME TypeInv, TopInv
  PROVE  /\ NextGeneration \in Nat /\ (\A r \in rows : r.gen < NextGeneration)
         /\ rows = {} \/ \E t \in rows : NextGeneration = t.gen + 1 /\ \A r \in rows : r.gen <= t.gen
  <1>1. CASE rows = {} BY <1>1 DEF NextGeneration
  <1>2. CASE rows # {}
    <2>1. NextGeneration = Max(Generations) + 1 BY <1>2 DEF NextGeneration
    <2>2. \A r \in rows : r.gen \in Nat BY DEF TypeInv, Row
    <2> QED BY <1>2, <2>1, <2>2, MaxIs
  <1> QED BY <1>1, <1>2

LEMMA CapType ==
  ASSUME TypeInv, NEW c \in DOMAIN caps
  PROVE  caps[c] \in Cap /\ c \in 1..Newest /\ Newest \in Nat
  BY DEF TypeInv, Newest

\* What a capture has read its container has printed.
LEMMA ReadThere ==
  ASSUME LogInv, NEW c \in DOMAIN caps, NEW s \in Nat, s < caps[c].seq
  PROVE  caps[c].box \in DOMAIN printed /\ caps[c].from + s + 1 \in 1..Len(printed[caps[c].box])
  <1> DEFINE k == caps[c]
             n == Len(printed[k.box])
  <1>1. k \in Cap /\ CapOK(c, k) BY CapType DEF LogInv, CapInv
  <1>2. k.box \in DOMAIN printed /\ k.pos = k.from + k.seq /\ k.pos <= n BY <1>1 DEF CapOK
  <1>3. printed[k.box] \in Seq(Nat) BY <1>2 DEF LogInv, TypeInv
  <1>4. n \in Nat BY <1>3
  <1>5. k.from \in Nat /\ k.seq \in Nat /\ s < k.seq BY <1>1 DEF Cap
  <1> HIDE DEF n, k
  <1>6. k.from + s + 1 \in 1..n BY <1>2, <1>4, <1>5
  <1> QED BY <1>2, <1>6 DEF n, k

\* Every container has printed at least what it had.
Grows ==
  /\ printed' \in Seq(Seq(Nat)) /\ DOMAIN printed \subseteq DOMAIN printed'
  /\ \A b \in DOMAIN printed : /\ Len(printed[b]) <= Len(printed'[b])
                               /\ \A i \in 1..Len(printed[b]) : printed'[b][i] = printed[b][i]

LEMMA Grown ==
  ASSUME LogInv, Grows, UNCHANGED <<caps, rows>>, past'.late = past.late
  PROVE  (CapInv /\ RowInv /\ TopInv /\ GenInv /\ HeldInv)'
  <1>0. Newest' = Newest BY DEF Newest
  <1>1. CapInv'
    <2>1. SUFFICES ASSUME NEW c \in DOMAIN caps PROVE CapOK(c, caps[c])' BY DEF CapInv
    <2>2. CapOK(c, caps[c]) /\ caps[c] \in Cap BY CapType DEF LogInv, CapInv
    <2> DEFINE k == caps[c]
    <2>3. k.box \in DOMAIN printed' /\ k.pos <= Len(printed'[k.box])
      <3>1. printed[k.box] \in Seq(Nat) /\ printed'[k.box] \in Seq(Nat) BY <2>2 DEF CapOK, Grows, LogInv, TypeInv
      <3>2. k.pos <= Len(printed[k.box]) /\ Len(printed[k.box]) <= Len(printed'[k.box]) BY <2>2 DEF CapOK, Grows
      <3>3. k.pos \in Nat BY <2>2 DEF Cap
      <3> QED BY <2>2, <3>1, <3>2, <3>3 DEF CapOK, Grows
    <2>4. ASSUME NEW i \in 1..Len(k.buffer) PROVE k.buffer[i].line = printed'[k.box][k.from + k.buffer[i].seq + 1]
      <3>1. k.buffer \in Seq(Line) /\ k.seq \in Nat BY <2>2 DEF Cap
      <3>2. k.buffer[i].seq = k.seq - Len(k.buffer) + i - 1 /\ k.buffer[i].line = printed[k.box][k.from + k.buffer[i].seq + 1] BY <2>2, <2>4 DEF CapOK
      <3>3. Len(k.buffer) \in Nat /\ Len(k.buffer) <= k.seq BY <2>2, <3>1 DEF CapOK
      <3>4. k.buffer[i].seq \in Nat /\ k.buffer[i].seq < k.seq BY <2>4, <3>1, <3>2, <3>3
      <3>5. k.box \in DOMAIN printed /\ k.from + k.buffer[i].seq + 1 \in 1..Len(printed[k.box]) BY <3>4, ReadThere
      <3> QED BY <3>2, <3>5 DEF Grows
    <2> QED BY <1>0, <2>2, <2>3, <2>4 DEF CapOK
  <1>2. RowInv'
    <2>1. SUFFICES ASSUME ~past.late, NEW r \in rows PROVE RowOK(r)' BY DEF RowInv
    <2>2. RowOK(r) /\ r \in Row BY <2>1 DEF LogInv, RowInv, TypeInv
    <2> DEFINE k == caps[r.by]
    <2>3. k \in Cap /\ CapOK(r.by, k) BY <2>2, CapType DEF LogInv, CapInv, RowOK
    <2>4. r.seq \in Nat /\ r.seq < k.seq
      <3>1. r.seq \in Nat /\ k.seq \in Nat /\ Len(k.buffer) \in Nat /\ r.seq < k.seq - Len(k.buffer)
        BY <2>2, <2>3 DEF RowOK, Written, Row, Cap
      <3> QED BY <3>1
    <2>7. k.box \in DOMAIN printed /\ k.from + r.seq + 1 \in 1..Len(printed[k.box]) BY <2>2, <2>4, ReadThere DEF RowOK
    <2>8. printed'[k.box][k.from + r.seq + 1] = printed[k.box][k.from + r.seq + 1] BY <2>7 DEF Grows
    <2> QED BY <2>2, <2>8 DEF RowOK, Written
  <1>3. TopInv' BY DEF LogInv, TopInv
  <1>4. GenInv' BY DEF LogInv, GenInv, Writing
  <1>5. HeldInv'
    <2>1. \A c : Later(c)' = Later(c) /\ Written(c)' = Written(c) BY <1>0 DEF Later, Written
    <2> QED BY <2>1 DEF LogInv, HeldInv
  <1> QED BY <1>1, <1>2, <1>3, <1>4, <1>5

\* The capture may change state, but what it wrote and whether it may write stay.
Same(k, j) ==
  /\ j.box = k.box /\ j.from = k.from /\ j.gen = k.gen /\ (j.at = "begin" <=> k.at = "begin")
  /\ j.seq - Len(j.buffer) = k.seq - Len(k.buffer) /\ (Writing(j) => Writing(k))

LEMMA Keeps ==
  ASSUME LogInv, UNCHANGED <<printed, rows>>, past'.late = past.late, caps' \in Seq(Cap), Newest <= Newest',
         \A c \in DOMAIN caps : Same(caps[c], caps'[c]),
         \A c \in DOMAIN caps' : c \notin DOMAIN caps => caps'[c].at = "begin"
  PROVE  (RowInv /\ TopInv /\ GenInv /\ HeldInv)'
  <1>0. Newest \in Nat /\ Newest' \in Nat /\ DOMAIN caps = 1..Newest /\ DOMAIN caps' = 1..Newest'
    BY DEF LogInv, TypeInv, Newest
  <1>1. DOMAIN caps \subseteq DOMAIN caps' BY <1>0
  <1>2. \A c \in DOMAIN caps : Written(c)' = Written(c) BY DEF Same, Written
  <1>3. RowInv' 
    <2>1. SUFFICES ASSUME ~past.late, NEW r \in rows PROVE RowOK(r)' BY DEF RowInv
    <2>2. RowOK(r) BY <2>1 DEF LogInv, RowInv
    <2>3. r.by \in DOMAIN caps /\ Same(caps[r.by], caps'[r.by]) BY <2>2 DEF RowOK
    <2>4. r.seq < Written(r.by)' BY <1>2, <2>2, <2>3 DEF RowOK
    <2> QED BY <1>1, <2>2, <2>3, <2>4 DEF RowOK, Same
  <1>4. TopInv' BY DEF LogInv, TopInv
  <1>5. GenInv'
    <2>1. SUFFICES ASSUME ~past.late PROVE (\A c \in DOMAIN caps : Writing(caps[c]) => \A r \in rows : r.gen <= caps[c].gen /\ (r.gen = caps[c].gen => r.by = c))'
      BY DEF LogInv, GenInv
    <2>2. SUFFICES ASSUME NEW c \in DOMAIN caps', Writing(caps'[c]) PROVE \A r \in rows : r.gen <= caps'[c].gen /\ (r.gen = caps'[c].gen => r.by = c)
      BY DEF Writing
    <2>3. c \in DOMAIN caps /\ Same(caps[c], caps'[c]) BY <2>2 DEF Writing
    <2> QED BY <2>1, <2>2, <2>3 DEF LogInv, GenInv, Same
  <1>6. HeldInv'
    <2>1. ASSUME NEW c \in DOMAIN caps PROVE Later(c) \subseteq Later(c)'
      <3>1. SUFFICES ASSUME NEW e \in (c + 1)..Newest, caps[e].at # "begin" PROVE caps[e].gen \in Later(c)' BY DEF Later
      <3>2. e \in DOMAIN caps /\ c \in 1..Newest /\ e \in (c + 1)..Newest' BY <1>0, <2>1, <3>1
      <3>3. caps'[e].at # "begin" /\ caps'[e].gen = caps[e].gen BY <3>1, <3>2 DEF Same
      <3> QED BY <3>2, <3>3 DEF Later
    <2>2. SUFFICES ASSUME ~past.late, NEW c \in DOMAIN caps'
                   PROVE  caps'[c].at = "begin" \/ Two(Later(c)') \/ \A k \in 0..(Written(c)' - 1) : \E r \in rows : r.by = c /\ r.seq = k
      BY DEF LogInv, HeldInv, Two
    <2>3. CASE c \in DOMAIN caps
      <3>1. caps[c].at = "begin" \/ Two(Later(c)) \/ \A k \in 0..(Written(c) - 1) : \E r \in rows : r.by = c /\ r.seq = k
        BY <2>2, <2>3 DEF LogInv, HeldInv
      <3>2. Two(Later(c)) => Two(Later(c)') BY <2>1, <2>3 DEF Two
      <3>3. Written(c)' = Written(c) /\ (caps'[c].at = "begin" <=> caps[c].at = "begin") BY <1>2, <2>3 DEF Same
      <3> QED BY <3>1, <3>2, <3>3
    <2> QED BY <2>2, <2>3
  <1> QED BY <1>3, <1>4, <1>5, <1>6

----------------------------------------------------------------------------
(* The steps of a capture.                                                 *)

LEMMA BeginCaptureLogs ==
  ASSUME LogInv, NEW c \in DOMAIN caps, BeginCapture(c)
  PROVE  (TypeInv /\ CapInv /\ RowInv /\ TopInv /\ GenInv /\ HeldInv)'
  <1> DEFINE g == NextGeneration
             k == caps[c]
             j == [k EXCEPT !.gen = g, !.at = IF k.aborted THEN "dead" ELSE "read"]
  <1>0. k \in Cap /\ CapOK(c, k) /\ k.at = "begin" /\ c \in 1..Newest /\ Newest \in Nat BY CapType DEF LogInv, CapInv, BeginCapture
  <1>1. TypeInv /\ TopInv BY DEF LogInv
  <1>2. /\ g \in Nat /\ (\A r \in rows : r.gen < g)
        /\ rows = {} \/ \E t \in rows : g = t.gen + 1 /\ \A r \in rows : r.gen <= t.gen
    BY <1>1, NextGen
  <1>3. rows' = {r \in rows : r.gen + 2 > g} /\ past' = [past EXCEPT !.late = @ \/ k.aborted] /\ printed' = printed /\ up' = up /\ start' = start
    BY DEF BeginCapture, begin_log_generation
  <1>4. caps' = [caps EXCEPT ![c] = j] BY DEF BeginCapture, begin_log_generation
  <1> HIDE DEF g
  <1>5. j \in Cap BY <1>0, <1>2 DEF Cap
  <1>6. caps \in Seq(Cap) BY <1>1 DEF TypeInv
  <1>7. /\ caps' \in Seq(Cap) /\ Len(caps') = Len(caps) /\ DOMAIN caps' = DOMAIN caps /\ caps'[c] = j
        /\ \A d \in DOMAIN caps : d # c => caps'[d] = caps[d]
    BY <1>4, <1>5, <1>6, SetSeq
  <1>8. j.gen = g /\ j.at = (IF k.aborted THEN "dead" ELSE "read") /\ j.aborted = k.aborted /\ j.box = k.box /\ j.from = k.from
        /\ j.pos = k.pos /\ j.seq = k.seq /\ j.buffer = k.buffer
    BY <1>0 DEF Cap
  <1> HIDE DEF j
  <1>9. Newest' = Newest /\ DOMAIN caps = 1..Newest BY <1>6, <1>7 DEF Newest
  <1>10. TypeInv' 
    <2>1. past' \in [starts : Nat, lines : Nat, late : BOOLEAN, crossed : BOOLEAN] BY <1>0, <1>1, <1>3 DEF TypeInv, Cap
    <2> QED BY <1>1, <1>3, <1>7, <2>1 DEF TypeInv
  <1>11. CapInv'
    <2>1. SUFFICES ASSUME NEW d \in DOMAIN caps PROVE CapOK(d, caps[d])' BY <1>7 DEF CapInv
    <2>2. CASE d = c BY <1>0, <1>3, <1>7, <1>8, <1>9, <2>2 DEF CapOK
    <2>3. CASE d # c
      <3>1. CapOK(d, caps[d]) /\ caps'[d] = caps[d] BY <1>7, <2>3 DEF LogInv, CapInv
      <3> QED BY <1>3, <1>9, <3>1 DEF CapOK
    <2> QED BY <2>2, <2>3
  <1>12. ASSUME ~past'.late PROVE ~past.late /\ ~k.aborted /\ c = Newest
    <2>1. ~past.late /\ ~k.aborted BY <1>1, <1>3, <1>12 DEF TypeInv
    <2>2. ~(c < Newest) BY <1>0, <2>1 DEF CapOK
    <2> QED BY <1>0, <2>1, <2>2
  <1>13. rows' \subseteq rows BY <1>3
  <1>14. ASSUME ~past'.late, NEW r \in rows PROVE RowOK(r) /\ r.by # c /\ r.by \in DOMAIN caps /\ caps'[r.by] = caps[r.by] /\ r \in Row
    <2>1. RowOK(r) BY <1>12, <1>14 DEF LogInv, RowInv
    <2> QED BY <1>0, <1>1, <1>7, <2>1 DEF RowOK, TypeInv
  <1>15. RowInv' BY <1>3, <1>7, <1>13, <1>14 DEF RowInv, RowOK, Written
  <1>16. TopInv'
    <2>1. CASE rows = {} BY <1>13, <2>1 DEF TopInv
    <2>2. CASE rows # {}
      <3>1. PICK t \in rows : g = t.gen + 1 /\ \A r \in rows : r.gen <= t.gen BY <1>2, <2>2
      <3>2. t.gen \in Nat BY <1>1 DEF TypeInv, Row
      <3>3. t \in rows' BY <1>3, <3>1, <3>2
      <3> QED BY <1>13, <3>1, <3>3 DEF TopInv
    <2> QED BY <2>1, <2>2
  <1>17. GenInv'
    <2>1. SUFFICES ASSUME ~past'.late
                   PROVE  /\ \A q, r \in rows' : q.by < r.by => q.gen < r.gen
                          /\ \A d \in DOMAIN caps' : Writing(caps'[d]) => \A r \in rows' : r.gen <= caps'[d].gen /\ (r.gen = caps'[d].gen => r.by = d)
      BY DEF GenInv, Writing
    <2>2. GenInv /\ ~past.late BY <1>12, <2>1 DEF LogInv
    <2>3. \A q, r \in rows' : q.by < r.by => q.gen < r.gen BY <1>13, <2>2 DEF GenInv
    <2>4. ASSUME NEW d \in DOMAIN caps', Writing(caps'[d]), NEW r \in rows'
          PROVE  r.gen <= caps'[d].gen /\ (r.gen = caps'[d].gen => r.by = d)
      <3>1. CASE d = c
        <4>1. r.gen < g /\ r.gen \in Nat BY <1>1, <1>2, <1>13 DEF TypeInv, Row
        <4> QED BY <1>2, <1>7, <1>8, <3>1, <4>1
      <3>2. CASE d # c BY <1>7, <1>13, <2>2, <2>4, <3>2 DEF GenInv
      <3> QED BY <3>1, <3>2
    <2> QED BY <2>3, <2>4
  <1>18. ASSUME NEW d \in DOMAIN caps PROVE Later(d) \subseteq Later(d)'
    <2>1. SUFFICES ASSUME NEW e \in (d + 1)..Newest, caps[e].at # "begin" PROVE caps[e].gen \in Later(d)' BY DEF Later
    <2>2. e \in DOMAIN caps /\ e # c BY <1>0, <1>9, <1>18, <2>1
    <2>3. caps'[e] = caps[e] BY <1>7, <2>2
    <2> QED BY <1>9, <2>1, <2>3 DEF Later
  <1>19. ASSUME ~past'.late, NEW d \in DOMAIN caps, d # c, caps[d].at # "begin", ~Two(Later(d)'), NEW i \in 0..(Written(d) - 1)
         PROVE  \E r \in rows' : r.by = d /\ r.seq = i
    <2>1. PICK r \in rows : r.by = d /\ r.seq = i BY <1>12, <1>18, <1>19 DEF LogInv, HeldInv, Two
    <2>2. SUFFICES ASSUME ~(r.gen + 2 > g) PROVE FALSE BY <1>3, <2>1
    <2>3. PICK t \in rows : g = t.gen + 1 /\ \A q \in rows : q.gen <= t.gen BY <1>2
    <2>4. RowOK(t) /\ RowOK(r) /\ t \in Row /\ r \in Row /\ t.by # c /\ caps'[t.by] = caps[t.by] BY <1>14, <1>19
    <2>5. r.gen \in Nat /\ t.gen \in Nat /\ r.gen < t.gen BY <2>2, <2>3, <2>4 DEF Row
    <2>6. t.by # d BY <2>1, <2>4, <2>5 DEF RowOK
    <2>7. ~(t.by < r.by) BY <1>12, <1>19, <2>5 DEF LogInv, GenInv
    <2>8. t.by \in 1..Newest /\ d \in 1..Newest BY <1>9, <1>19, <2>4 DEF RowOK
    <2>9. t.by \in (d + 1)..Newest BY <1>0, <2>1, <2>6, <2>7, <2>8
    <2>10. caps'[t.by].gen = t.gen /\ caps'[t.by].at # "begin" BY <2>4 DEF RowOK
    <2>11. t.gen \in Later(d)' BY <1>9, <2>9, <2>10 DEF Later
    <2>12. c \in (d + 1)..Newest BY <1>0, <1>12, <1>19, <2>8
    <2>13. caps'[c].gen = g /\ caps'[c].at # "begin" BY <1>7, <1>8
    <2>14. g \in Later(d)' BY <1>9, <2>12, <2>13 DEF Later
    <2>15. g # t.gen BY <2>3, <2>5
    <2> QED BY <1>19, <2>11, <2>14, <2>15 DEF Two
  <1>20. HeldInv'
    <2>1. SUFFICES ASSUME ~past'.late
                   PROVE  /\ \A r \in rows' : \A i \in 0..r.seq : \E q \in rows' : q.gen = r.gen /\ q.seq = i
                          /\ \A d \in DOMAIN caps' : caps'[d].at = "begin" \/ Two(Later(d)') \/ \A i \in 0..(Written(d)' - 1) : \E r \in rows' : r.by = d /\ r.seq = i
      BY DEF HeldInv, Two
    <2>2. HeldInv /\ ~past.late BY <1>12, <2>1 DEF LogInv
    <2>3. ASSUME NEW r \in rows', NEW i \in 0..r.seq PROVE \E q \in rows' : q.gen = r.gen /\ q.seq = i
      <3>1. PICK q \in rows : q.gen = r.gen /\ q.seq = i BY <1>13, <2>2, <2>3 DEF HeldInv
      <3>2. q \in rows' BY <1>3, <2>3, <3>1
      <3> QED BY <3>1, <3>2
    <2>4. ASSUME NEW d \in DOMAIN caps, caps'[d].at # "begin", ~Two(Later(d)'), NEW i \in 0..(Written(d)' - 1)
          PROVE \E r \in rows' : r.by = d /\ r.seq = i
      <3>1. CASE d = c
        <4>1. Written(c)' = k.seq - Len(k.buffer) /\ k.seq = 0 /\ Len(k.buffer) \in Nat BY <1>0, <1>7, <1>8 DEF Written, Cap, CapOK
        <4> QED BY <2>4, <3>1, <4>1
      <3>2. CASE d # c
        <4>1. caps'[d] = caps[d] BY <1>7, <3>2
        <4>2. Written(d)' = Written(d) /\ caps[d].at # "begin" BY <2>4, <4>1 DEF Written
        <4> QED BY <1>19, <2>1, <2>4, <3>2, <4>2
      <3> QED BY <3>1, <3>2
    <2> QED BY <1>7, <2>3, <2>4
  <1> QED BY <1>10, <1>11, <1>15, <1>16, <1>17, <1>20

LEMMA ReadLineLogs ==
  ASSUME LogInv, NEW c \in DOMAIN caps, ReadLine(c)
  PROVE  (TypeInv /\ CapInv /\ RowInv /\ TopInv /\ GenInv /\ HeldInv)'
  <1> DEFINE k == caps[c]
             b == printed[k.box]
             new == [seq |-> k.seq, line |-> b[k.pos + 1]]
             buf == Append(k.buffer, new)
  <1>0. k \in Cap /\ CapOK(c, k) /\ k.at = "read" /\ k.pos < Len(b) BY CapType DEF LogInv, CapInv, ReadLine
  <1>1. k.pos \in Nat /\ k.seq \in Nat /\ k.from \in Nat /\ k.buffer \in Seq(Line) BY <1>0 DEF Cap
  <1>2. b \in Seq(Nat) /\ k.box \in DOMAIN printed BY <1>0 DEF CapOK, LogInv, TypeInv
  <1>3. new \in Line BY <1>0, <1>1, <1>2 DEF Line
  <1>4. PICK at \in {"write", "read"} : caps' = [caps EXCEPT ![c] = [k EXCEPT !.pos = @ + 1, !.seq = @ + 1, !.buffer = buf, !.at = at]]
    BY DEF ReadLine
  <1> DEFINE j == [k EXCEPT !.pos = @ + 1, !.seq = @ + 1, !.buffer = buf, !.at = at]
  <1> HIDE DEF new
  <1>5. buf \in Seq(Line) /\ Len(buf) = Len(k.buffer) + 1 /\ buf[Len(k.buffer) + 1] = new /\ \A i \in 1..Len(k.buffer) : buf[i] = k.buffer[i]
    BY <1>1, <1>3
  <1> HIDE DEF buf
  <1>6. j \in Cap
    <2>1. k.pos + 1 \in Nat /\ k.seq + 1 \in Nat BY <1>1
    <2> QED BY <1>0, <1>5, <2>1 DEF Cap
  <1>7. j.gen = k.gen /\ j.at = at /\ j.aborted = k.aborted /\ j.box = k.box /\ j.from = k.from
        /\ j.pos = k.pos + 1 /\ j.seq = k.seq + 1 /\ j.buffer = buf
    BY <1>0 DEF Cap
  <1> DEFINE n == Len(k.buffer)
             m == Len(j.buffer)
  <1>16. n \in Nat /\ m = n + 1 /\ j.seq = k.seq + 1 BY <1>1, <1>5, <1>7
  <1>8. caps \in Seq(Cap) /\ caps' = [caps EXCEPT ![c] = j] BY <1>4 DEF LogInv, TypeInv
  <1> HIDE DEF j, n, m
  <1>9. /\ caps' \in Seq(Cap) /\ Len(caps') = Len(caps) /\ DOMAIN caps' = DOMAIN caps /\ caps'[c] = j
        /\ \A d \in DOMAIN caps : d # c => caps'[d] = caps[d]
    BY <1>6, <1>8, SetSeq
  <1>10. Newest' = Newest /\ Newest \in Nat BY <1>8, <1>9 DEF Newest
  <1>11. UNCHANGED <<printed, up, rows, start, past>> BY DEF ReadLine
  <1>12. TypeInv' BY <1>9, <1>11 DEF LogInv, TypeInv
  <1>13. CapInv'
    <2>1. SUFFICES ASSUME NEW d \in DOMAIN caps PROVE CapOK(d, caps[d])' BY <1>9 DEF CapInv
    <2>2. CASE d = c
      <3>1. j.pos = j.from + j.seq /\ j.pos <= Len(b) /\ Len(j.buffer) <= j.seq
        <4>1. k.pos = k.from + k.seq /\ n <= k.seq BY <1>0 DEF CapOK, n
        <4>2. j.pos = j.from + j.seq /\ m <= j.seq BY <1>1, <1>7, <1>16, <4>1
        <4>3. Len(b) \in Nat BY <1>2
        <4>4. k.pos + 1 <= Len(b) BY <1>0, <1>1, <4>3
        <4> QED BY <1>7, <4>2, <4>4 DEF m
      <3>2. ASSUME NEW i \in 1..Len(j.buffer)
            PROVE  j.buffer[i].seq = j.seq - Len(j.buffer) + i - 1 /\ j.buffer[i].line = b[j.from + j.buffer[i].seq + 1]
        <4>1. CASE i = Len(k.buffer) + 1
          <5>1. j.buffer[i] = new BY <1>5, <1>7, <4>1
          <5>2. new.seq = k.seq /\ new.line = b[k.pos + 1] BY DEF new
          <5>3. k.pos = k.from + k.seq BY <1>0 DEF CapOK
          <5>4. k.seq = j.seq - Len(j.buffer) + i - 1
            <6>1. i = n + 1 BY <4>1 DEF n
            <6>2. k.seq = j.seq - m + i - 1 BY <1>1, <1>16, <6>1
            <6> QED BY <6>2 DEF m
          <5> QED BY <1>7, <5>1, <5>2, <5>3, <5>4
        <4>2. CASE i # Len(k.buffer) + 1
          <5>1. i \in 1..Len(k.buffer) BY <1>1, <1>5, <1>7, <3>2, <4>2
          <5>2. j.buffer[i] = k.buffer[i] BY <1>5, <1>7, <5>1
          <5>3. k.buffer[i].seq = k.seq - Len(k.buffer) + i - 1 /\ k.buffer[i].line = b[k.from + k.buffer[i].seq + 1] BY <1>0, <5>1 DEF CapOK
          <5>4. k.seq - Len(k.buffer) + i - 1 = j.seq - Len(j.buffer) + i - 1
            <6>1. k.seq - n = j.seq - m BY <1>1, <1>16, SMTT(60)
            <6> QED BY <6>1 DEF n, m
          <5> QED BY <1>7, <5>2, <5>3, <5>4
        <4> QED BY <4>1, <4>2
      <3>3. /\ j.at = "begin" => j.seq = 0
            /\ j.at = "done" => j.buffer = <<>>
            /\ j.at = "read" => ~j.aborted
            /\ c < Newest => j.at \in {"done", "dead"} \/ j.aborted
        BY <1>0, <1>7 DEF CapOK
      <3>4. j.box = k.box BY <1>7
      <3>5. caps'[d] = j /\ d = c BY <1>9, <2>2
      <3>6. /\ j.box \in DOMAIN printed /\ j.pos = j.from + j.seq /\ j.pos <= Len(printed[j.box]) /\ Len(j.buffer) <= j.seq
            /\ \A i \in 1..Len(j.buffer) :
                 j.buffer[i].seq = j.seq - Len(j.buffer) + i - 1 /\ j.buffer[i].line = printed[j.box][j.from + j.buffer[i].seq + 1]
        BY <1>2, <3>1, <3>2, <3>4
      <3> QED BY <1>10, <1>11, <3>3, <3>5, <3>6 DEF CapOK
    <2>3. CASE d # c
      <3>1. CapOK(d, caps[d]) /\ caps'[d] = caps[d] BY <1>9, <2>3 DEF LogInv, CapInv
      <3> QED BY <1>10, <1>11, <3>1 DEF CapOK
    <2> QED BY <2>2, <2>3
  <1>14. ASSUME NEW d \in DOMAIN caps PROVE Same(caps[d], caps'[d])
    <2>1. CASE d = c
      <3>3. j.seq - m = k.seq - n BY <1>1, <1>16
      <3>1. j.seq - Len(j.buffer) = k.seq - Len(k.buffer) BY <3>3 DEF n, m
      <3>2. Writing(k) BY <1>0 DEF Writing, CapOK
      <3> QED BY <1>0, <1>7, <1>9, <2>1, <3>1, <3>2 DEF Same
    <2>2. CASE d # c BY <1>9, <2>2 DEF Same
    <2> QED BY <2>1, <2>2
  <1>15. (RowInv /\ TopInv /\ GenInv /\ HeldInv)' BY <1>9, <1>10, <1>11, <1>14, Keeps
  <1> QED BY <1>12, <1>13, <1>15

LEMMA StreamEndsLogs ==
  ASSUME LogInv, NEW c \in DOMAIN caps, StreamEnds(c)
  PROVE  (TypeInv /\ CapInv /\ RowInv /\ TopInv /\ GenInv /\ HeldInv)'
  <1> DEFINE k == caps[c]
             at == IF k.buffer = <<>> THEN "done" ELSE "last"
             j == [k EXCEPT !.at = at]
  <1>0. k \in Cap /\ CapOK(c, k) /\ k.at = "read" BY CapType DEF LogInv, CapInv, StreamEnds
  <1>1. caps \in Seq(Cap) /\ caps' = [caps EXCEPT ![c] = j] BY DEF LogInv, TypeInv, StreamEnds
  <1>2. j \in Cap BY <1>0 DEF Cap
  <1>3. j.gen = k.gen /\ j.at = at /\ j.aborted = k.aborted /\ j.box = k.box /\ j.from = k.from
        /\ j.pos = k.pos /\ j.seq = k.seq /\ j.buffer = k.buffer
    BY <1>0 DEF Cap
  <1> HIDE DEF j
  <1>4. /\ caps' \in Seq(Cap) /\ Len(caps') = Len(caps) /\ DOMAIN caps' = DOMAIN caps /\ caps'[c] = j
        /\ \A d \in DOMAIN caps : d # c => caps'[d] = caps[d]
    BY <1>1, <1>2, SetSeq
  <1>5. Newest' = Newest /\ Newest \in Nat BY <1>1, <1>4 DEF Newest
  <1>6. UNCHANGED <<printed, up, rows, start, past>> BY DEF StreamEnds
  <1>7. TypeInv' BY <1>4, <1>6 DEF LogInv, TypeInv
  <1>8. CapInv'
    <2>1. SUFFICES ASSUME NEW d \in DOMAIN caps PROVE CapOK(d, caps[d])' BY <1>4 DEF CapInv
    <2>2. CASE d = c BY <1>0, <1>3, <1>4, <1>5, <1>6, <2>2, SMTT(40) DEF CapOK
    <2>3. CASE d # c
      <3>1. CapOK(d, caps[d]) /\ caps'[d] = caps[d] BY <1>4, <2>3 DEF LogInv, CapInv
      <3> QED BY <1>5, <1>6, <3>1 DEF CapOK
    <2> QED BY <2>2, <2>3
  <1>9. ASSUME NEW d \in DOMAIN caps PROVE Same(caps[d], caps'[d])
    <2>1. CASE d = c
      <3>1. Writing(k) BY <1>0 DEF Writing, CapOK
      <3> QED BY <1>0, <1>3, <1>4, <2>1, <3>1 DEF Same
    <2>2. CASE d # c BY <1>4, <2>2 DEF Same
    <2> QED BY <2>1, <2>2
  <1>10. (RowInv /\ TopInv /\ GenInv /\ HeldInv)' BY <1>4, <1>5, <1>6, <1>9, Keeps
  <1> QED BY <1>7, <1>8, <1>10

LEMMA WriteLinesLogs ==
  ASSUME LogInv, NEW c \in DOMAIN caps, WriteLines(c)
  PROVE  (TypeInv /\ CapInv /\ RowInv /\ TopInv /\ GenInv /\ HeldInv)'
  <1> DEFINE k == caps[c]
             at == IF k.aborted THEN "dead" ELSE IF k.at = "last" THEN "done" ELSE "read"
             j == [k EXCEPT !.buffer = <<>>, !.at = at]
             new == {[gen |-> k.gen, seq |-> b.seq, line |-> b.line, by |-> c] : b \in ToSet(k.buffer)}
             n == Len(k.buffer)
  <1>0. k \in Cap /\ CapOK(c, k) /\ k.at \in {"write", "last"} /\ c \in 1..Newest /\ Newest \in Nat BY CapType DEF LogInv, CapInv, WriteLines
  <1>1. TypeInv BY DEF LogInv
  <1>2. caps \in Seq(Cap) /\ caps' = [caps EXCEPT ![c] = j] BY <1>1 DEF TypeInv, WriteLines
  <1>3. rows' = rows \cup {x \in new : ~\E r \in rows : r.gen = x.gen /\ r.seq = x.seq} /\ past' = [past EXCEPT !.late = @ \/ k.aborted]
        /\ printed' = printed /\ up' = up /\ start' = start
    BY DEF WriteLines, insert_log_lines
  <1>4. j \in Cap
    <2>1. <<>> \in Seq(Line) /\ at \in {"dead", "done", "read"} OBVIOUS
    <2> HIDE DEF at
    <2> QED BY <1>0, <2>1 DEF Cap
  <1>5. j.gen = k.gen /\ j.at = at /\ j.aborted = k.aborted /\ j.box = k.box /\ j.from = k.from
        /\ j.pos = k.pos /\ j.seq = k.seq /\ j.buffer = <<>>
    BY <1>0 DEF Cap
  <1> HIDE DEF j
  <1>6. /\ caps' \in Seq(Cap) /\ Len(caps') = Len(caps) /\ DOMAIN caps' = DOMAIN caps /\ caps'[c] = j
        /\ \A d \in DOMAIN caps : d # c => caps'[d] = caps[d]
    BY <1>2, <1>4, SetSeq
  <1>7. Newest' = Newest /\ DOMAIN caps = 1..Newest BY <1>2, <1>6 DEF Newest
  <1>8. k.buffer \in Seq(Line) /\ k.seq \in Nat /\ k.gen \in Nat /\ k.from \in Nat BY <1>0 DEF Cap
  <1>9. n \in Nat /\ n <= k.seq BY <1>0, <1>8 DEF CapOK
  <1> HIDE DEF new
  \* What is written: the lines from Written(c) on.
  <1>10. ASSUME NEW x \in new
         PROVE  /\ x \in Row /\ x.gen = k.gen /\ x.by = c /\ x.seq \in Nat /\ k.seq - n <= x.seq /\ x.seq < k.seq
                /\ x.line = printed[k.box][k.from + x.seq + 1]
    <2>1. PICK i \in 1..n : x = [gen |-> k.gen, seq |-> k.buffer[i].seq, line |-> k.buffer[i].line, by |-> c]
      BY <1>8, <1>10 DEF new, ToSet
    <2>2. k.buffer[i] \in Line BY <1>8, <2>1
    <2>3. k.buffer[i].seq \in Nat /\ k.buffer[i].line \in Nat BY <2>2 DEF Line
    <2>4. k.buffer[i].seq = k.seq - n + i - 1 /\ k.buffer[i].line = printed[k.box][k.from + k.buffer[i].seq + 1] BY <1>0, <2>1 DEF CapOK
    <2>5. x.gen = k.gen /\ x.by = c /\ x.seq = k.buffer[i].seq /\ x.line = k.buffer[i].line BY <2>1
    <2>6. x \in Row BY <1>0, <1>8, <2>1, <2>3 DEF Row
    <2> HIDE DEF n
    <2>7. k.seq - n <= k.seq - n + i - 1 /\ k.seq - n + i - 1 < k.seq BY <1>8, <1>9, <2>1
    <2> QED BY <2>3, <2>4, <2>5, <2>6, <2>7
  <1>11. ASSUME NEW i \in Nat, k.seq - n <= i, i < k.seq PROVE \E x \in new : x.seq = i
    <2> DEFINE p == i - (k.seq - n) + 1
    <2> HIDE DEF n
    <2>1. p \in 1..n /\ k.seq - n + p - 1 = i BY <1>8, <1>9, <1>11, SMTT(60)
    <2> HIDE DEF p
    <2>2. k.buffer[p].seq = k.seq - n + p - 1 BY <1>0, <2>1 DEF CapOK, n
    <2>3. k.buffer[p] \in ToSet(k.buffer) BY <1>8, <2>1 DEF ToSet, n
    <2>4. [gen |-> k.gen, seq |-> k.buffer[p].seq, line |-> k.buffer[p].line, by |-> c] \in new BY <2>3 DEF new
    <2> QED BY <2>1, <2>2, <2>4
  <1>12. TypeInv'
    <2>1. past' \in [starts : Nat, lines : Nat, late : BOOLEAN, crossed : BOOLEAN] BY <1>0, <1>1, <1>3 DEF TypeInv, Cap
    <2>2. rows' \subseteq Row BY <1>1, <1>3, <1>10 DEF TypeInv
    <2> QED BY <1>1, <1>3, <1>6, <2>1, <2>2 DEF TypeInv
  <1>13. CapInv'
    <2>1. SUFFICES ASSUME NEW d \in DOMAIN caps PROVE CapOK(d, caps[d])' BY <1>6 DEF CapInv
    <2>2. CASE d = c
      <3>1. Len(j.buffer) = 0 BY <1>5
      <3>2. /\ j.at = "begin" => j.seq = 0
            /\ j.at = "done" => j.buffer = <<>>
            /\ j.at = "read" => ~j.aborted
            /\ c < Newest => j.at \in {"done", "dead"} \/ j.aborted
        BY <1>0, <1>5 DEF CapOK
      <3>3. j.box \in DOMAIN printed /\ j.pos = j.from + j.seq /\ j.pos <= Len(printed[j.box]) /\ 0 <= j.seq BY <1>0, <1>5, <1>8 DEF CapOK
      <3>4. \A i \in 1..Len(j.buffer) : FALSE BY <3>1
      <3> QED BY <1>3, <1>6, <1>7, <2>2, <3>1, <3>2, <3>3, <3>4 DEF CapOK
    <2>3. CASE d # c
      <3>1. CapOK(d, caps[d]) /\ caps'[d] = caps[d] BY <1>6, <2>3 DEF LogInv, CapInv
      <3> QED BY <1>3, <1>7, <3>1 DEF CapOK
    <2> QED BY <2>2, <2>3
  <1>14. TopInv'
    <2>1. CASE rows' = rows BY <2>1 DEF LogInv, TopInv
    <2>2. CASE rows' # rows
      <3>1. PICK x \in new : x \in rows' BY <1>3, <2>2
      <3>2. CASE rows = {} BY <1>3, <1>8, <1>10, <3>1, <3>2 DEF TopInv
      <3>3. CASE rows # {}
        <4>1. PICK t \in rows : \A r \in rows : r.gen <= t.gen BY <3>3 DEF LogInv, TopInv
        <4>2. t.gen \in Nat /\ \A r \in rows : r.gen \in Nat BY <1>1 DEF TypeInv, Row
        <4>3. \A r \in rows' : r \in rows \/ r.gen = k.gen BY <1>3, <1>10
        <4>4. CASE t.gen <= k.gen
          <5>1. \A r \in rows' : r.gen <= x.gen BY <1>8, <1>10, <4>1, <4>2, <4>3, <4>4
          <5> QED BY <3>1, <5>1 DEF TopInv
        <4>5. CASE k.gen <= t.gen
          <5>1. \A r \in rows' : r.gen <= t.gen BY <4>1, <4>3, <4>5
          <5>2. t \in rows' BY <1>3
          <5> QED BY <5>1, <5>2 DEF TopInv
        <4> QED BY <1>8, <4>2, <4>4, <4>5
      <3> QED BY <3>2, <3>3
    <2> QED BY <2>1, <2>2
  \* Nobody comes late: the generation is this capture's alone, and it is the newest.
  <1>15. ASSUME ~past'.late
         PROVE  ~past.late /\ Writing(k) /\ c = Newest /\ rows' = rows \cup new
    <2>1. ~past.late /\ ~k.aborted BY <1>1, <1>3, <1>15 DEF TypeInv
    <2>2. ~(c < Newest) BY <1>0, <2>1 DEF CapOK
    <2>3. Writing(k) BY <1>0, <2>1 DEF Writing
    <2>4. ASSUME NEW x \in new, NEW r \in rows, r.gen = x.gen, r.seq = x.seq PROVE FALSE
      <3>1. r.by = c BY <1>10, <2>1, <2>3, <2>4 DEF LogInv, GenInv
      <3>2. RowOK(r) BY <2>1 DEF LogInv, RowInv
      <3>3. x.seq < k.seq - n BY <2>4, <3>1, <3>2 DEF RowOK, Written
      <3>4. k.seq - n <= x.seq /\ x.seq \in Nat BY <1>10
      <3> HIDE DEF n
      <3> QED BY <1>8, <1>9, <3>3, <3>4
    <2> QED BY <1>0, <1>3, <2>1, <2>2, <2>3, <2>4
  <1>16. Written(c)' = k.seq /\ \A d \in DOMAIN caps : d # c => Written(d)' = Written(d)
    <2>1. Len(j.buffer) = 0 BY <1>5
    <2> QED BY <1>5, <1>6, <1>8, <2>1 DEF Written
  <1>17. RowInv'
    <2>1. SUFFICES ASSUME ~past'.late, NEW r \in rows' PROVE RowOK(r)' BY DEF RowInv
    <2>2. CASE r \in rows
      <3>1. RowOK(r) /\ r \in Row BY <1>1, <1>15, <2>1, <2>2 DEF LogInv, RowInv, TypeInv
      <3>2. CASE r.by = c
        <4>1. r.seq \in Nat /\ r.seq < k.seq - n BY <3>1, <3>2 DEF Row, RowOK, Written
        <4>2. r.seq < k.seq
          <5> HIDE DEF n
          <5> QED BY <1>8, <1>9, <4>1
        <4>3. j.at # "begin" BY <1>5
        <4> QED BY <1>3, <1>5, <1>6, <1>16, <3>1, <3>2, <4>2, <4>3 DEF RowOK
      <3>3. CASE r.by # c BY <1>3, <1>6, <1>16, <3>1, <3>3 DEF RowOK
      <3> QED BY <3>2, <3>3
    <2>3. CASE r \in new
      <3>1. j.at # "begin" BY <1>5
      <3> QED BY <1>3, <1>5, <1>6, <1>10, <1>16, <2>3, <3>1 DEF RowOK
    <2> QED BY <1>15, <2>1, <2>2, <2>3
  <1>18. GenInv'
    <2>1. SUFFICES ASSUME ~past'.late
                   PROVE  /\ \A q, r \in rows' : q.by < r.by => q.gen < r.gen
                          /\ \A d \in DOMAIN caps' : Writing(caps'[d]) => \A r \in rows' : r.gen <= caps'[d].gen /\ (r.gen = caps'[d].gen => r.by = d)
      BY DEF GenInv, Writing
    <2>2. GenInv /\ ~past.late /\ Writing(k) /\ c = Newest /\ rows' = rows \cup new BY <1>15, <2>1 DEF LogInv
    <2>3. \A r \in rows : r.gen \in Nat /\ r.by \in 1..Newest /\ r.gen <= k.gen /\ (r.gen = k.gen => r.by = c)
      BY <1>1, <1>7, <2>2 DEF GenInv, TypeInv, Row, LogInv, RowInv, RowOK
    <2>4. ASSUME NEW q \in rows', NEW r \in rows', q.by < r.by PROVE q.gen < r.gen
      <3>1. CASE q \in rows /\ r \in rows BY <2>2, <2>4, <3>1 DEF GenInv
      <3>2. CASE q \in rows /\ r \in new
        <4>1. r.by = c /\ r.gen = k.gen BY <1>10, <3>2
        <4>2. q.gen \in Nat /\ q.gen <= k.gen /\ q.gen # k.gen BY <1>0, <2>3, <2>4, <3>2, <4>1
        <4> QED BY <1>8, <4>1, <4>2
      <3>3. CASE q \in new
        <4>1. q.by = Newest /\ r.by \in 1..Newest BY <1>0, <1>10, <2>2, <2>3, <3>3
        <4> QED BY <1>0, <2>4, <4>1
      <3> QED BY <2>2, <3>1, <3>2, <3>3
    <2>5. ASSUME NEW d \in DOMAIN caps, Writing(caps'[d]), NEW r \in rows' PROVE r.gen <= caps'[d].gen /\ (r.gen = caps'[d].gen => r.by = d)
      <3>1. d = c
        <4>1. SUFFICES ASSUME d # c PROVE FALSE OBVIOUS
        <4>2. caps'[d] = caps[d] /\ CapOK(d, caps[d]) BY <1>6, <4>1 DEF LogInv, CapInv
        <4>3. d < Newest BY <1>0, <1>7, <2>2, <4>1
        <4> QED BY <2>5, <4>2, <4>3 DEF CapOK, Writing
      <3> QED BY <1>5, <1>6, <1>8, <1>10, <2>2, <2>3, <3>1
    <2> QED BY <1>6, <2>4, <2>5
  <1>19. HeldInv'
    <2>1. SUFFICES ASSUME ~past'.late
                   PROVE  /\ \A r \in rows' : \A i \in 0..r.seq : \E q \in rows' : q.gen = r.gen /\ q.seq = i
                          /\ \A d \in DOMAIN caps' : caps'[d].at = "begin" \/ Two(Later(d)') \/ \A i \in 0..(Written(d)' - 1) : \E r \in rows' : r.by = d /\ r.seq = i
      BY DEF HeldInv, Two
    <2>2. HeldInv /\ ~past.late /\ c = Newest /\ rows' = rows \cup new BY <1>15, <2>1 DEF LogInv
    <2>3. ASSUME NEW i \in Nat, i < k.seq PROVE \E r \in rows' : r.by = c /\ r.seq = i /\ r.gen = k.gen
      <3>1. CASE i < k.seq - n
        <4>1. Later(c) = {} 
          <5>1. \A e \in (c + 1)..Newest : FALSE BY <1>0, <2>2
          <5> QED BY <5>1 DEF Later
        <4>2. ~Two(Later(c)) BY <4>1 DEF Two
        <4>3. i \in 0..(Written(c) - 1)
          <5>1. Written(c) = k.seq - n BY DEF Written
          <5> HIDE DEF n
          <5> QED BY <1>8, <1>9, <2>3, <3>1, <5>1
        <4>4. PICK r \in rows : r.by = c /\ r.seq = i BY <1>0, <2>2, <4>2, <4>3 DEF HeldInv
        <4>5. RowOK(r) BY <2>2 DEF LogInv, RowInv
        <4> QED BY <2>2, <4>4, <4>5 DEF RowOK
      <3>2. CASE k.seq - n <= i
        <4>1. PICK x \in new : x.seq = i BY <1>11, <2>3, <3>2
        <4> QED BY <1>10, <2>2, <4>1
      <3>3. i < k.seq - n \/ k.seq - n <= i
        <4> HIDE DEF n
        <4> QED BY <1>8, <1>9, <2>3
      <3> QED BY <3>1, <3>2, <3>3
    <2>4. ASSUME NEW r \in rows', NEW i \in 0..r.seq PROVE \E q \in rows' : q.gen = r.gen /\ q.seq = i
      <3>1. CASE r \in rows BY <2>2, <2>4, <3>1 DEF HeldInv
      <3>2. CASE r \in new
        <4>1. r.gen = k.gen /\ i \in Nat /\ i < k.seq BY <1>8, <1>10, <2>4, <3>2
        <4> QED BY <2>3, <4>1
      <3> QED BY <2>2, <3>1, <3>2
    <2>5. ASSUME NEW d \in DOMAIN caps
          PROVE  caps'[d].at = "begin" \/ Two(Later(d)') \/ \A i \in 0..(Written(d)' - 1) : \E r \in rows' : r.by = d /\ r.seq = i
      <3>1. CASE d = c
        <4>1. \A i \in 0..(Written(c)' - 1) : i \in Nat /\ i < k.seq BY <1>8, <1>16
        <4> QED BY <2>3, <3>1, <4>1
      <3>2. CASE d # c
        <4>1. caps'[d] = caps[d] /\ Written(d)' = Written(d) BY <1>6, <1>16, <3>2
        <4>2. Later(d) \subseteq Later(d)'
          <5>1. SUFFICES ASSUME NEW e \in (d + 1)..Newest, caps[e].at # "begin" PROVE caps[e].gen \in Later(d)' BY DEF Later
          <5>2. e \in DOMAIN caps BY <1>0, <1>7, <2>5, <5>1
          <5>3. caps'[e].gen = caps[e].gen /\ caps'[e].at # "begin" BY <1>5, <1>6, <5>1, <5>2
          <5> QED BY <1>7, <5>1, <5>3 DEF Later
        <4>3. caps[d].at = "begin" \/ Two(Later(d)) \/ \A i \in 0..(Written(d) - 1) : \E r \in rows : r.by = d /\ r.seq = i BY <2>2 DEF HeldInv
        <4> QED BY <2>2, <4>1, <4>2, <4>3 DEF Two
      <3> QED BY <3>1, <3>2
    <2> QED BY <1>6, <2>4, <2>5
  <1> QED BY <1>12, <1>13, <1>14, <1>17, <1>18, <1>19

----------------------------------------------------------------------------
(* The other steps.                                                        *)

LEMMA NodeReadyLogs ==
  ASSUME LogInv, NodeReady
  PROVE  (TypeInv /\ CapInv /\ RowInv /\ TopInv /\ GenInv /\ HeldInv)'
  <1> DEFINE old == [c \in DOMAIN caps |-> IF c = Newest THEN Aborted(caps[c]) ELSE caps[c]]
             new == NewCapture(start.from)
  <1>0. caps' = Append(old, new) /\ start.at = "attach" /\ start' = NoStart /\ UNCHANGED <<printed, up, rows, past>>
    BY DEF NodeReady, spawn_log_capture
  <1>1. TypeInv /\ BoxInv BY DEF LogInv
  <1>2. caps \in Seq(Cap) /\ Newest \in Nat /\ DOMAIN caps = 1..Newest /\ start \in StartRec BY <1>1 DEF TypeInv, Newest
  <1>3. start.from \in Nat BY <1>2 DEF StartRec
  <1>4. Box \in Nat /\ Box \in DOMAIN printed /\ start.from <= Len(printed[Box]) BY <1>0, <1>1 DEF BoxInv, TypeInv, Box
  <1>5. new \in Cap /\ new.at = "begin" /\ ~new.aborted /\ new.box = Box /\ new.from = start.from /\ new.pos = start.from /\ new.seq = 0 /\ new.gen = 0 /\ new.buffer = <<>>
    <2>1. <<>> \in Seq(Line) OBVIOUS
    <2> QED BY <1>3, <1>4, <2>1 DEF NewCapture, Cap
  <1>6. ASSUME NEW k \in Cap
        PROVE  LET j == Aborted(k) IN
               /\ j \in Cap /\ j.box = k.box /\ j.from = k.from /\ j.pos = k.pos /\ j.seq = k.seq /\ j.gen = k.gen /\ j.buffer = k.buffer
               /\ j.at = IF k.at = "read" THEN "dead" ELSE k.at
               /\ j.at \in {"done", "dead"} \/ j.aborted
               /\ ~j.aborted => ~k.aborted
    BY <1>6 DEF Aborted, Cap
  <1>7. ASSUME NEW c \in DOMAIN caps
        PROVE  /\ old[c] \in Cap /\ old[c].box = caps[c].box /\ old[c].from = caps[c].from /\ old[c].pos = caps[c].pos
               /\ old[c].seq = caps[c].seq /\ old[c].gen = caps[c].gen /\ old[c].buffer = caps[c].buffer
               /\ old[c].at = caps[c].at \/ (old[c].at = "dead" /\ caps[c].at = "read")
               /\ c = Newest => old[c].at \in {"done", "dead"} \/ old[c].aborted
               /\ c # Newest => old[c] = caps[c]
               /\ ~old[c].aborted => ~caps[c].aborted
               /\ old[c].at = "read" => old[c] = caps[c]
    <2>1. caps[c] \in Cap BY <1>7, CapType, <1>1
    <2>2. CASE c = Newest
      <3>1. old[c] = Aborted(caps[c]) BY <2>2
      <3> DEFINE j == Aborted(caps[c])
      <3>2. /\ j \in Cap /\ j.box = caps[c].box /\ j.from = caps[c].from /\ j.pos = caps[c].pos /\ j.seq = caps[c].seq
            /\ j.gen = caps[c].gen /\ j.buffer = caps[c].buffer
            /\ j.at = (IF caps[c].at = "read" THEN "dead" ELSE caps[c].at) /\ (j.at \in {"done", "dead"} \/ j.aborted)
            /\ (~j.aborted => ~caps[c].aborted)
        BY <1>6, <2>1
      <3> HIDE DEF j, old
      <3>3. old[c] = j BY <3>1 DEF j
      <3> QED BY <2>2, <3>2, <3>3
    <2>3. CASE c # Newest
      <3>1. old[c] = caps[c] BY <2>3
      <3> HIDE DEF old
      <3> QED BY <2>1, <2>3, <3>1
    <2> QED BY <2>2, <2>3
  <1>8. old \in Seq(Cap) /\ Len(old) = Newest
    <2>1. old \in [1..Newest -> Cap] BY <1>2, <1>7
    <2> HIDE DEF old
    <2> QED BY <1>2, <2>1
  <1> HIDE DEF old, new
  <1>9. caps' \in Seq(Cap) /\ Len(caps') = Newest + 1 /\ caps'[Newest + 1] = new /\ \A c \in 1..Newest : caps'[c] = old[c]
    BY <1>0, <1>2, <1>5, <1>8
  <1>10. Newest' = Newest + 1 /\ DOMAIN caps' = 1..(Newest + 1) BY <1>9 DEF Newest
  <1>11. TypeInv'
    <2>1. NoStart \in StartRec BY DEF NoStart, StartRec
    <2> QED BY <1>0, <1>1, <1>9, <2>1 DEF TypeInv
  <1>12. CapInv'
    <2>1. SUFFICES ASSUME NEW d \in 1..(Newest + 1) PROVE CapOK(d, caps[d])' BY <1>10 DEF CapInv
    <2>2. CASE d = Newest + 1
      <3>1. caps'[d] = new BY <1>9, <2>2
      <3>2. Len(new.buffer) = 0 /\ new.pos = new.from + new.seq /\ new.pos <= Len(printed[Box]) BY <1>3, <1>4, <1>5
      <3>3. ~(d < Newest') BY <1>2, <1>10, <2>2
      <3>4. \A i \in 1..Len(new.buffer) : FALSE BY <3>2
      <3> QED BY <1>0, <1>4, <1>5, <3>1, <3>2, <3>3, <3>4 DEF CapOK
    <2>3. CASE d # Newest + 1
      <3>1. d \in DOMAIN caps /\ d \in 1..Newest BY <1>2, <2>1, <2>3
      <3>2. caps'[d] = old[d] /\ CapOK(d, caps[d]) BY <1>9, <3>1 DEF LogInv, CapInv
      <3>3. d # Newest => d < Newest BY <1>2, <3>1
      <3>4. /\ old[d].at = "begin" => old[d].seq = 0
            /\ old[d].at = "done" => old[d].buffer = <<>>
            /\ old[d].at = "read" => ~old[d].aborted
            /\ old[d].at \in {"done", "dead"} \/ old[d].aborted
        BY <1>7, <3>1, <3>2, <3>3 DEF CapOK
      <3>5. /\ old[d].box = caps[d].box /\ old[d].from = caps[d].from /\ old[d].pos = caps[d].pos /\ old[d].seq = caps[d].seq
            /\ old[d].buffer = caps[d].buffer
        BY <1>7, <3>1
      <3>6. /\ caps[d].box \in DOMAIN printed /\ caps[d].pos = caps[d].from + caps[d].seq /\ caps[d].pos <= Len(printed[caps[d].box])
            /\ Len(caps[d].buffer) <= caps[d].seq
            /\ \A i \in 1..Len(caps[d].buffer) :
                 /\ caps[d].buffer[i].seq = caps[d].seq - Len(caps[d].buffer) + i - 1
                 /\ caps[d].buffer[i].line = printed[caps[d].box][caps[d].from + caps[d].buffer[i].seq + 1]
        BY <3>2 DEF CapOK
      <3>7. /\ old[d].box \in DOMAIN printed /\ old[d].pos = old[d].from + old[d].seq /\ old[d].pos <= Len(printed[old[d].box])
            /\ Len(old[d].buffer) <= old[d].seq
            /\ \A i \in 1..Len(old[d].buffer) :
                 /\ old[d].buffer[i].seq = old[d].seq - Len(old[d].buffer) + i - 1
                 /\ old[d].buffer[i].line = printed[old[d].box][old[d].from + old[d].buffer[i].seq + 1]
        BY <3>5, <3>6
      <3> QED BY <1>0, <3>2, <3>4, <3>7 DEF CapOK
    <2> QED BY <2>2, <2>3
  <1>13. ASSUME NEW c \in DOMAIN caps PROVE Same(caps[c], caps'[c])
    <2>1. caps'[c] = old[c] BY <1>2, <1>9, <1>13
    <2>2. Writing(old[c]) => Writing(caps[c]) BY <1>7, <1>13 DEF Writing
    <2> QED BY <1>7, <1>13, <2>1, <2>2 DEF Same
  <1>14. ASSUME NEW c \in DOMAIN caps', c \notin DOMAIN caps PROVE caps'[c].at = "begin"
    <2>1. c = Newest + 1 BY <1>2, <1>10, <1>14
    <2> QED BY <1>5, <1>9, <2>1
  <1>15. Newest <= Newest' BY <1>2, <1>10
  <1>16. (RowInv /\ TopInv /\ GenInv /\ HeldInv)' BY <1>0, <1>9, <1>13, <1>14, <1>15, Keeps
  <1> QED BY <1>11, <1>12, <1>16

LEMMA GrownOrSame ==
  ASSUME LogInv, printed' = printed
  PROVE  Grows
  <1>1. \A b \in DOMAIN printed : Len(printed[b]) \in Nat BY DEF LogInv, TypeInv
  <1> QED BY <1>1 DEF Grows, LogInv, TypeInv

LEMMA CreateNodeLogs ==
  ASSUME LogInv, CreateNode
  PROVE  (TypeInv /\ BoxInv)' /\ Grows
  <1>1. printed' = Append(printed, <<>>) /\ start' = [at |-> "attach", from |-> 0] /\ up' = TRUE /\ UNCHANGED <<caps, rows, past>> BY DEF CreateNode
  <1>2. printed \in Seq(Seq(Nat)) /\ <<>> \in Seq(Nat) BY DEF LogInv, TypeInv
  <1>3. printed' \in Seq(Seq(Nat)) /\ Len(printed') = Len(printed) + 1 /\ printed'[Len(printed) + 1] = <<>> /\ \A b \in 1..Len(printed) : printed'[b] = printed[b]
    BY <1>1, <1>2
  <1>4. DOMAIN printed = 1..Len(printed) /\ DOMAIN printed' = 1..(Len(printed) + 1) /\ Len(printed) \in Nat BY <1>2, <1>3
  <1>5. \A b \in DOMAIN printed : Len(printed[b]) \in Nat BY <1>2
  <1>6. Grows BY <1>3, <1>4, <1>5 DEF Grows
  <1>7. start' \in StartRec BY <1>1 DEF StartRec
  <1>8. TypeInv' BY <1>1, <1>3, <1>7 DEF LogInv, TypeInv
  <1>9. BoxInv'
    <2>1. Box' = Len(printed) + 1 BY <1>3 DEF Box
    <2>2. Len(printed'[Box']) = 0 BY <1>3, <2>1
    <2> QED BY <1>1, <1>4, <2>1, <2>2 DEF BoxInv
  <1> QED BY <1>6, <1>8, <1>9

LEMMA ProcessPrintsLogs ==
  ASSUME LogInv, ProcessPrints
  PROVE  (TypeInv /\ BoxInv)' /\ Grows
  <1> DEFINE was == printed[Box]
             longer == Append(was, past.lines + 1)
  <1>1. up /\ printed' = [printed EXCEPT ![Box] = longer] /\ past' = [past EXCEPT !.lines = @ + 1] /\ UNCHANGED <<up, caps, rows, start>> BY DEF ProcessPrints
  <1>2. TypeInv /\ BoxInv BY DEF LogInv
  <1>3. Box \in DOMAIN printed /\ printed \in Seq(Seq(Nat)) /\ past.lines \in Nat BY <1>1, <1>2 DEF BoxInv, TypeInv
  <1>4. was \in Seq(Nat) /\ past.lines + 1 \in Nat BY <1>3
  <1>5. longer \in Seq(Nat) /\ Len(longer) = Len(was) + 1 /\ \A i \in 1..Len(was) : longer[i] = was[i] BY <1>4
  <1> HIDE DEF longer
  <1>6. /\ printed' \in Seq(Seq(Nat)) /\ Len(printed') = Len(printed) /\ DOMAIN printed' = DOMAIN printed /\ printed'[Box] = longer
        /\ \A d \in DOMAIN printed : d # Box => printed'[d] = printed[d]
    BY <1>1, <1>3, <1>5, SetSeq
  <1>7. \A b \in DOMAIN printed : Len(printed[b]) \in Nat BY <1>3
  <1>8. Grows
    <2>1. SUFFICES ASSUME NEW b \in DOMAIN printed
                   PROVE  Len(printed[b]) <= Len(printed'[b]) /\ \A i \in 1..Len(printed[b]) : printed'[b][i] = printed[b][i]
      BY <1>6 DEF Grows
    <2>2. CASE b = Box BY <1>5, <1>6, <1>7, <2>2
    <2>3. CASE b # Box BY <1>6, <1>7, <2>3
    <2> QED BY <2>2, <2>3
  <1>9. past' \in [starts : Nat, lines : Nat, late : BOOLEAN, crossed : BOOLEAN] BY <1>1, <1>2, <1>4 DEF TypeInv
  <1>10. TypeInv' BY <1>1, <1>2, <1>6, <1>9 DEF TypeInv
  <1>11. BoxInv'
    <2>1. Box' = Box BY <1>6 DEF Box
    <2>2. start.at = "attach" => start.from <= Len(longer)
      <3>1. start.from \in Nat BY <1>2 DEF TypeInv, StartRec
      <3>2. Len(was) \in Nat BY <1>4
      <3>3. start.at = "attach" => start.from <= Len(was) BY <1>2 DEF BoxInv
      <3> QED BY <1>5, <3>1, <3>2, <3>3
    <2> QED BY <1>1, <1>3, <1>6, <2>1, <2>2 DEF BoxInv
  <1> QED BY <1>8, <1>10, <1>11

\* The containers, the captures and the table stay: so does all that is said of them.
LEMMA LogsStay ==
  ASSUME LogInv, UNCHANGED <<printed, caps, rows>>, past'.late = past.late, TypeInv', BoxInv'
  PROVE  LogInv'
  <1>1. Grows BY GrownOrSame
  <1> QED BY <1>1, Grown DEF LogInv

LEMMA CaptureBox ==
  ASSUME LogInv, UNCHANGED <<printed, up, start>>
  PROVE  BoxInv'
  <1>1. Box' = Box BY DEF Box
  <1> QED BY <1>1 DEF LogInv, BoxInv

LEMMA LogStep ==
  ASSUME LogInv, HistoryNext
  PROVE  LogInv'
  <1>0. TypeInv /\ BoxInv BY DEF LogInv
  <1> DEFINE Past == [starts : Nat, lines : Nat, late : BOOLEAN, crossed : BOOLEAN]
  <1>1. ASSUME NEW c \in DOMAIN caps, BeginCapture(c) \/ ReadLine(c) \/ WriteLines(c) \/ StreamEnds(c) PROVE LogInv'
    <2>1. UNCHANGED <<printed, up, start>> BY <1>1 DEF BeginCapture, ReadLine, WriteLines, StreamEnds
    <2>2. BoxInv' BY <2>1, CaptureBox
    <2> QED BY <1>1, <2>2, BeginCaptureLogs, ReadLineLogs, WriteLinesLogs, StreamEndsLogs DEF LogInv
  <1>2. CASE StartNode
    <2>1. past' \in Past /\ past'.late = past.late
      <3>1. past.starts + 1 \in Nat BY <1>0 DEF TypeInv
      <3> QED BY <1>0, <1>2, <3>1 DEF StartNode, TypeInv
    <2>2. start' \in StartRec /\ start'.at = "build" BY <1>0, <1>2 DEF StartNode, Goes, TypeInv, StartRec
    <2>3. UNCHANGED <<printed, up, caps, rows>> BY <1>2 DEF StartNode
    <2>4. TypeInv' BY <1>0, <2>1, <2>2, <2>3 DEF TypeInv
    <2>5. BoxInv' BY <1>0, <2>2, <2>3 DEF BoxInv, Box
    <2> QED BY <2>1, <2>3, <2>4, <2>5, LogsStay
  <1>3. CASE BuildNode \/ NodeResolved \/ StepFails
    <2>1. start' \in StartRec /\ start'.at \in {"none", "solve", "create"}
      BY <1>0, <1>3 DEF BuildNode, NodeResolved, StepFails, Goes, TypeInv, StartRec, NoStart
    <2>2. UNCHANGED <<printed, up, caps, rows, past>> BY <1>3 DEF BuildNode, NodeResolved, StepFails
    <2>3. TypeInv' BY <1>0, <2>1, <2>2 DEF TypeInv
    <2>4. BoxInv' BY <1>0, <2>1, <2>2 DEF BoxInv, Box
    <2> QED BY <2>2, <2>3, <2>4, LogsStay
  <1>4. CASE CreateNode
    <2>1. UNCHANGED <<caps, rows, past>> BY <1>4 DEF CreateNode
    <2> QED BY <1>4, <2>1, CreateNodeLogs, Grown DEF LogInv
  <1>5. CASE RestartNode
    <2>1. past' \in Past /\ past'.late = past.late
      <3>1. past.starts + 1 \in Nat BY <1>0 DEF TypeInv
      <3> QED BY <1>0, <1>5, <3>1 DEF RestartNode, TypeInv
    <2>2. start' \in StartRec /\ start'.at = "restart" /\ up BY <1>0, <1>5 DEF RestartNode, Goes, TypeInv, StartRec
    <2>3. UNCHANGED <<printed, up, caps, rows>> BY <1>5 DEF RestartNode
    <2>4. TypeInv' BY <1>0, <2>1, <2>2, <2>3 DEF TypeInv
    <2>5. BoxInv' BY <1>0, <2>2, <2>3 DEF BoxInv, Box
    <2> QED BY <2>1, <2>3, <2>4, <2>5, LogsStay
  <1>6. CASE NodeRestarted
    <2>1. UNCHANGED <<printed, caps, rows, past>> /\ up' = TRUE BY <1>6 DEF NodeRestarted
    <2>2. Box \in DOMAIN printed /\ printed \in Seq(Seq(Nat)) BY <1>0, <1>6 DEF BoxInv, NodeRestarted, TypeInv
    <2>3. Len(printed[Box]) \in Nat BY <2>2
    <2>4. PICK k \in 0..1 : k <= Len(printed[Box]) /\ start' = [at |-> "attach", from |-> Len(printed[Box]) - k] BY <1>6 DEF NodeRestarted
    <2>5. Len(printed[Box]) - k \in Nat /\ Len(printed[Box]) - k <= Len(printed[Box]) BY <2>3, <2>4
    <2>6. TypeInv' BY <1>0, <2>1, <2>4, <2>5 DEF TypeInv, StartRec
    <2>7. BoxInv' BY <2>1, <2>2, <2>4, <2>5 DEF BoxInv, Box
    <2> QED BY <2>1, <2>6, <2>7, LogsStay
  <1>7. CASE NodeReady
    <2>1. start' = NoStart /\ UNCHANGED <<printed, up>> BY <1>7 DEF NodeReady
    <2>2. BoxInv' BY <1>0, <2>1 DEF BoxInv, NoStart, Box
    <2> QED BY <1>7, <2>2, NodeReadyLogs DEF LogInv
  <1>8. CASE CallOffStart
    <2>1. start' = NoStart /\ UNCHANGED <<printed, up, caps, rows, past>> BY <1>8 DEF CallOffStart
    <2>2. TypeInv' BY <1>0, <2>1 DEF TypeInv, NoStart, StartRec
    <2>3. BoxInv' BY <1>0, <2>1 DEF BoxInv, NoStart, Box
    <2> QED BY <2>1, <2>2, <2>3, LogsStay
  <1>9. CASE EventLands
    <2>1. UNCHANGED <<printed, up, caps, rows, start>> BY <1>9 DEF EventLands
    <2>2. past' \in Past /\ past'.late = past.late BY <1>0, <1>9 DEF EventLands, TypeInv
    <2>3. TypeInv' BY <1>0, <2>1, <2>2 DEF TypeInv
    <2>4. BoxInv' BY <2>1, CaptureBox
    <2> QED BY <2>1, <2>2, <2>3, <2>4, LogsStay
  <1>10. CASE record_start_called_off
    <2>1. UNCHANGED <<printed, up, caps, rows, start, past>> BY <1>10 DEF record_start_called_off
    <2>2. TypeInv' BY <1>0, <2>1 DEF TypeInv
    <2>3. BoxInv' BY <2>1, CaptureBox
    <2> QED BY <2>1, <2>2, <2>3, LogsStay
  <1>11. CASE ProcessPrints
    <2>1. UNCHANGED <<caps, rows>> /\ past'.late = past.late BY <1>0, <1>11 DEF ProcessPrints, TypeInv
    <2> QED BY <1>11, <2>1, ProcessPrintsLogs, Grown DEF LogInv
  <1>12. CASE ProcessEnds
    <2>1. up' = FALSE /\ UNCHANGED <<printed, caps, rows, start, past>> BY <1>12 DEF ProcessEnds
    <2>2. TypeInv' BY <1>0, <2>1 DEF TypeInv
    <2>3. BoxInv' BY <1>0, <2>1 DEF BoxInv, Box
    <2> QED BY <2>1, <2>2, <2>3, LogsStay
  <1> QED BY <1>1, <1>2, <1>3, <1>4, <1>5, <1>6, <1>7, <1>8, <1>9, <1>10, <1>11, <1>12 DEF HistoryNext

LEMMA LogInit ==
  ASSUME HistoryInit
  PROVE  LogInv
  <1>1. up = FALSE /\ start = NoStart BY DEF HistoryInit
  <1>2. start \in StartRec /\ start.at = "none" BY <1>1 DEF NoStart, StartRec
  <1>3. BoxInv BY <1>1, <1>2 DEF BoxInv
  <1>4. CASE printed = <<>> /\ caps = <<>> /\ rows = {} /\ past = Quiet
    <2>1. printed \in Seq(Seq(Nat)) /\ caps \in Seq(Cap) BY <1>4
    <2>4. TypeInv BY <1>1, <1>2, <1>4, <2>1 DEF TypeInv, Quiet
    <2>2. CapInv BY <1>4 DEF CapInv
    <2>3. RowInv /\ TopInv /\ GenInv /\ HeldInv BY <1>4 DEF RowInv, TopInv, GenInv, HeldInv
    <2> QED BY <1>3, <2>2, <2>3, <2>4 DEF LogInv
  <1>5. CASE /\ printed = <<<<1>>>> /\ caps = <<[NewCapture(0) EXCEPT !.at = "done", !.pos = 1, !.seq = 1]>>
             /\ rows = {[gen |-> 0, seq |-> 0, line |-> 1, by |-> 1]} /\ past = [Quiet EXCEPT !.lines = 1]
    <2> DEFINE n == [at |-> "begin", aborted |-> FALSE, box |-> 1, from |-> 0, pos |-> 0, seq |-> 0, gen |-> 0, buffer |-> <<>>]
               k == [n EXCEPT !.at = "done", !.pos = 1, !.seq = 1]
               r == [gen |-> 0, seq |-> 0, line |-> 1, by |-> 1]
    <2>1. Box = 1 BY <1>5 DEF Box
    <2>2. NewCapture(0) = n BY <2>1 DEF NewCapture
    <2>3. n \in Cap
      <3>1. <<>> \in Seq(Line) OBVIOUS
      <3> QED BY <3>1 DEF Cap
    <2>17. n.aborted = FALSE /\ n.box = 1 /\ n.from = 0 /\ n.gen = 0 /\ n.buffer = <<>> OBVIOUS
    <2> HIDE DEF n
    <2>18. caps = <<k>> BY <1>5, <2>2
    <2>19. k \in Cap BY <2>3 DEF Cap
    <2>4. k.at = "done" /\ k.aborted = FALSE /\ k.box = 1 /\ k.from = 0 /\ k.pos = 1 /\ k.seq = 1 /\ k.gen = 0 /\ k.buffer = <<>>
      BY <2>3, <2>17 DEF Cap
    <2>5. r \in Row /\ r.gen = 0 /\ r.seq = 0 /\ r.line = 1 /\ r.by = 1 /\ rows = {r} BY <1>5 DEF Row
    <2> HIDE DEF k, r
    <2>6. DOMAIN caps = {1} /\ caps[1] = k /\ caps \in Seq(Cap) /\ Newest = 1 BY <2>18, <2>19 DEF Newest
    <2>7. printed \in Seq(Seq(Nat)) /\ DOMAIN printed = {1} /\ printed[1] = <<1>> BY <1>5
    <2>8. Len(printed[1]) = 1 /\ printed[1][1] = 1 /\ Len(k.buffer) = 0 BY <2>4, <2>7
    <2>9. past \in [starts : Nat, lines : Nat, late : BOOLEAN, crossed : BOOLEAN] BY <1>5 DEF Quiet
    <2>10. TypeInv BY <1>1, <1>2, <2>5, <2>6, <2>7, <2>9 DEF TypeInv
    <2>11. CapInv
      <3>1. \A i \in 1..Len(k.buffer) : FALSE BY <2>8
      <3>2. CapOK(1, k) BY <2>4, <2>6, <2>7, <2>8, <3>1 DEF CapOK
      <3> QED BY <2>6, <3>2 DEF CapInv
    <2>12. Written(1) = 1 BY <2>4, <2>6, <2>8 DEF Written
    <2>13. RowInv BY <2>4, <2>5, <2>6, <2>7, <2>8, <2>12 DEF RowInv, RowOK
    <2>14. TopInv BY <2>5 DEF TopInv
    <2>15. GenInv BY <2>4, <2>5, <2>6 DEF GenInv, Writing
    <2>16. HeldInv
      <3>1. 0..r.seq = {0} /\ 0..(Written(1) - 1) = {0} BY <2>5, <2>12
      <3> QED BY <2>5, <2>6, <3>1 DEF HeldInv
    <2> QED BY <1>3, <2>10, <2>11, <2>13, <2>14, <2>15, <2>16 DEF LogInv
  <1> QED BY <1>4, <1>5 DEF HistoryInit

LEMMA LogsStand ==
  ASSUME LogInv
  PROVE  LogsWhole
  <1>1. LogsApart
    <2>1. SUFFICES ASSUME ~past.late, NEW r \in rows
                   PROVE  /\ \A q \in rows : q.gen = r.gen => q.by = r.by
                          /\ r.line = printed[caps[r.by].box][caps[r.by].from + r.seq + 1]
                          /\ \A k \in 0..r.seq : \E q \in rows : q.gen = r.gen /\ q.seq = k
      BY DEF LogsApart
    <2>2. ASSUME NEW q \in rows, q.gen = r.gen PROVE q.by = r.by
      <3>1. q.by \in Nat /\ r.by \in Nat /\ q.gen \in Nat BY DEF LogInv, TypeInv, Row
      <3>2. ~(q.by < r.by) /\ ~(r.by < q.by) BY <2>1, <2>2, <3>1 DEF LogInv, GenInv
      <3> QED BY <3>1, <3>2
    <2> QED BY <2>1, <2>2 DEF LogInv, RowInv, RowOK, HeldInv
  <1>2. LastWords
    <2>1. SUFFICES ASSUME NEW c \in DOMAIN caps, caps[c].at = "done", ~past.late, Cardinality(Later(c)) < 2,
                          NEW i \in (caps[c].from + 1)..caps[c].pos
                   PROVE  \E r \in rows : r.by = c /\ r.line = printed[caps[c].box][i]
      BY DEF LastWords
    <2> DEFINE k == caps[c]
               s == i - k.from - 1
    <2>2. k \in Cap /\ CapOK(c, k) /\ c \in 1..Newest /\ Newest \in Nat BY CapType DEF LogInv, CapInv
    <2>3. ~Two(Later(c))
      <3>1. IsFiniteSet((c + 1)..Newest) BY <2>2, FS_Interval
      <3> DEFINE E == {e \in (c + 1)..Newest : caps[e].at # "begin"}
      <3>2. IsFiniteSet(E) BY <3>1, FS_Subset
      <3>3. IsFiniteSet(Later(c))
        <4>1. Later(c) = {caps[d].gen : d \in E} BY DEF Later
        <4> HIDE DEF E
        <4> DEFINE f == [d \in E |-> caps[d].gen]
        <4>2. f \in Surjection(E, Later(c)) BY <4>1 DEF Surjection
        <4> HIDE DEF f
        <4> QED BY <3>2, <4>2, FS_Surjection
      <3>4. SUFFICES ASSUME NEW a \in Later(c), NEW b \in Later(c), a # b PROVE FALSE BY DEF Two
      <3>5. Cardinality({a, b}) = 2 /\ IsFiniteSet({a, b})
        <4>1. IsFiniteSet({b}) /\ Cardinality({b}) = 1 BY FS_Singleton
        <4>2. IsFiniteSet({b} \cup {a}) /\ Cardinality({b} \cup {a}) = Cardinality({b}) + 1 BY <3>4, <4>1, FS_AddElement
        <4>3. {b} \cup {a} = {a, b} OBVIOUS
        <4> QED BY <4>1, <4>2, <4>3
      <3>6. Cardinality({a, b}) <= Cardinality(Later(c)) BY <3>3, <3>4, FS_Subset
      <3>7. Cardinality(Later(c)) \in Nat BY <3>3, FS_CardinalityType
      <3> QED BY <2>1, <3>5, <3>6, <3>7
    <2>4. k.buffer = <<>> /\ k.pos = k.from + k.seq /\ k.from \in Nat /\ k.seq \in Nat /\ k.pos \in Nat BY <2>1, <2>2 DEF CapOK, Cap
    <2>5. Written(c) = k.seq BY <2>4 DEF Written
    <2>6. s \in 0..(k.seq - 1) /\ k.from + s + 1 = i BY <2>1, <2>4, SMTT(40)
    <2> HIDE DEF s
    <2>7. PICK r \in rows : r.by = c /\ r.seq = s BY <2>1, <2>3, <2>5, <2>6 DEF LogInv, HeldInv
    <2>8. r.line = printed[k.box][k.from + s + 1] BY <2>1, <2>7 DEF LogInv, RowInv, RowOK
    <2> QED BY <2>6, <2>7, <2>8
  <1> QED BY <1>1, <1>2 DEF LogsWhole

\* The lines that a workspace keeps of a node (logs.rs) are of one container
\* each generation, in order and without a hole, and the last ones of a capture
\* that ended stay until two later generations have begun, however many starts,
\* lines and batches there are; a call of an aborted capture that came late
\* excepted.
THEOREM LogsAlwaysWhole == HistorySpec => []LogsWhole
  <1>1. HistoryInit => LogInv BY LogInit
  <1>2. LogInv /\ [HistoryNext]_historyVars => LogInv'
    <2>1. ASSUME LogInv, UNCHANGED historyVars PROVE LogInv'
      <3>1. UNCHANGED <<printed, up, caps, rows, start, past>> BY <2>1 DEF historyVars
      <3>2. TypeInv' BY <2>1, <3>1 DEF LogInv, TypeInv
      <3>3. BoxInv' BY <2>1, <3>1, CaptureBox
      <3> QED BY <2>1, <3>1, <3>2, <3>3, LogsStay
    <2> QED BY <2>1, LogStep
  <1>3. LogInv => LogsWhole BY LogsStand
  <1> QED BY <1>1, <1>2, <1>3, PTL DEF HistorySpec

----------------------------------------------------------------------------
(* The narration of a start: NothingSpins.                                 *)

Steps == {"resolving", "building", "creating", "restarting", "ready"}
Words == {"running", "ok", "error", "cancelled"}
Said == Steps \X Words
\* The steps that a sequence of events leaves open.
OpenIn(s) == {s[i][1] : i \in {j \in DOMAIN s : s[j][2] = "running" /\ \A k \in DOMAIN s : s[k][1] = s[j][1] => k <= j}}
\* What may be open while a start is at its various points.
MayRun(at) ==
  CASE at = "build" -> {"resolving"} [] at = "solve" -> {"resolving", "building"}
    [] at = "create" -> {"creating"} [] at = "restart" -> {"restarting"} [] OTHER -> {}
SaidType ==
  /\ cycle \in Seq(Said) /\ flying \in {<<>>} \cup {<<e>> : e \in Said}
  /\ closing \in [at : {"none", "asked", "closing"}, steps : SUBSET Steps] /\ (closing.at = "none" => closing = NoClosing)
  /\ start \in StartRec /\ (start.at = "none" => start = NoStart)
  /\ past \in [starts : Nat, lines : Nat, late : BOOLEAN, crossed : BOOLEAN]
\* Nothing crosses: a start in flight has only its own steps open and nobody
\* closes anything; whoever closes has found all there is to close; and when all
\* is over nothing is open, or the error that ended it has been said.
Uncrossed ==
  /\ start # NoStart => closing = NoClosing /\ flying = <<>> /\ OpenIn(cycle) \subseteq MayRun(start.at)
  /\ closing.at = "closing" => OpenIn(cycle) \subseteq closing.steps
  /\ start = NoStart /\ closing = NoClosing /\ flying = <<>> => OpenIn(cycle) = {} \/ \E i \in DOMAIN cycle : cycle[i][2] = "error"
SpinInv == SaidType /\ (~past.crossed => Uncrossed)

LEMMA OpenOf == OpenSteps = OpenIn(cycle) BY DEF OpenSteps, Open, OpenIn

\* A new word on a step replaces the ones before it.
LEMMA SayOpens ==
  ASSUME NEW s \in Seq(Said), NEW e \in Said
  PROVE  /\ Append(s, e) \in Seq(Said)
         /\ OpenIn(Append(s, e)) \subseteq (OpenIn(s) \ {e[1]}) \cup (IF e[2] = "running" THEN {e[1]} ELSE {})
         /\ e[2] = "error" => \E i \in DOMAIN Append(s, e) : Append(s, e)[i][2] = "error"
  <1> DEFINE t == Append(s, e)
             n == Len(s)
  <1>1. t \in Seq(Said) /\ n \in Nat /\ DOMAIN s = 1..n /\ DOMAIN t = 1..(n + 1) /\ t[n + 1] = e /\ \A i \in 1..n : t[i] = s[i] OBVIOUS
  <1> HIDE DEF t, n
  <1>2. ASSUME NEW j \in DOMAIN t, t[j][2] = "running", \A k \in DOMAIN t : t[k][1] = t[j][1] => k <= j
        PROVE  t[j][1] \in (OpenIn(s) \ {e[1]}) \cup (IF e[2] = "running" THEN {e[1]} ELSE {})
    <2>1. CASE j = n + 1 BY <1>1, <1>2, <2>1
    <2>2. CASE j # n + 1
      <3>1. j \in 1..n /\ ~(n + 1 <= j) BY <1>1, <1>2, <2>2
      <3>2. t[j][1] # e[1] BY <1>1, <1>2, <3>1
      <3>3. s[j][2] = "running" /\ \A k \in 1..n : s[k][1] = s[j][1] => k <= j BY <1>1, <1>2, <3>1
      <3>4. s[j][1] \in OpenIn(s) BY <1>1, <3>1, <3>3 DEF OpenIn
      <3> QED BY <1>1, <3>1, <3>2, <3>4
    <2> QED BY <2>1, <2>2
  <1>3. OpenIn(t) \subseteq (OpenIn(s) \ {e[1]}) \cup (IF e[2] = "running" THEN {e[1]} ELSE {}) BY <1>2 DEF OpenIn
  <1>4. e[2] = "error" => \E i \in DOMAIN t : t[i][2] = "error" BY <1>1
  <1> QED BY <1>1, <1>3, <1>4 DEF t

LEMMA SaidPair ==
  ASSUME NEW step \in Steps, NEW word \in Words
  PROVE  <<step, word>> \in Said /\ <<step, word>>[1] = step /\ <<step, word>>[2] = word
  BY DEF Said

LEMMA TwoMore ==
  ASSUME NEW S, NEW s \in Seq(S), NEW a \in S, NEW b \in S
  PROVE  s \o <<a, b>> = Append(Append(s, a), b)
  <1> DEFINE t == s \o <<a, b>>
             u == Append(Append(s, a), b)
  <1>1. t \in Seq(S) /\ Len(t) = Len(s) + 2 /\ t[Len(s) + 1] = a /\ t[Len(s) + 2] = b /\ \A i \in 1..Len(s) : t[i] = s[i] OBVIOUS
  <1>2. u \in Seq(S) /\ Len(u) = Len(s) + 2 /\ u[Len(s) + 1] = a /\ u[Len(s) + 2] = b /\ \A i \in 1..Len(s) : u[i] = s[i] OBVIOUS
  <1>3. \A i \in 1..(Len(s) + 2) : i \in 1..Len(s) \/ i = Len(s) + 1 \/ i = Len(s) + 2 OBVIOUS
  <1> HIDE DEF t, u
  <1>4. \A i \in 1..(Len(s) + 2) : t[i] = u[i] BY <1>1, <1>2, <1>3
  <1>5. t = u BY <1>1, <1>2, <1>4
  <1> QED BY <1>5 DEF t, u

LEMMA FirstOpens ==
  ASSUME NEW step \in Steps
  PROVE  <<<<step, "running">>>> \in Seq(Said) /\ OpenIn(<<<<step, "running">>>>) \subseteq {step}
  <1> DEFINE s == <<<<step, "running">>>>
  <1>0. <<step, "running">> \in Said BY DEF Said, Words
  <1>1. s \in Seq(Said) /\ DOMAIN s = {1} /\ s[1][1] = step BY <1>0
  <1> HIDE DEF s
  <1>2. OpenIn(s) \subseteq {step} BY <1>1 DEF OpenIn
  <1> QED BY <1>1, <1>2 DEF s

\* A start begins over: what was said before is gone.
LEMMA BeginsSaid ==
  ASSUME SpinInv, NEW at \in {"build", "restart"}, NEW step \in Steps, MayRun(at) = {step},
         start = NoStart, start' = [start EXCEPT !.at = at], cycle' = <<<<step, "running">>>>,
         past' = [past EXCEPT !.starts = @ + 1, !.crossed = closing # NoClosing \/ flying # <<>>], UNCHANGED <<flying, closing>>
  PROVE  SpinInv'
  <1>1. SaidType BY DEF SpinInv
  <1>2. cycle' \in Seq(Said) /\ OpenIn(cycle') \subseteq {step} BY FirstOpens
  <1>3. start' \in StartRec /\ start'.at = at BY <1>1 DEF SaidType, StartRec
  <1>4. past' \in [starts : Nat, lines : Nat, late : BOOLEAN, crossed : BOOLEAN] /\ past'.crossed = (closing # NoClosing \/ flying # <<>>)
    <2>1. past.starts + 1 \in Nat BY <1>1 DEF SaidType
    <2> QED BY <1>1, <2>1 DEF SaidType
  <1>5. SaidType' BY <1>1, <1>2, <1>3, <1>4 DEF SaidType, NoStart, NoClosing
  <1>6. ASSUME ~past'.crossed PROVE Uncrossed'
    <2>1. closing' = NoClosing /\ flying' = <<>> BY <1>4, <1>6
    <2>2. start' # NoStart BY <1>3 DEF NoStart
    <2>3. closing'.at # "closing" BY <2>1 DEF NoClosing
    <2> QED BY <1>2, <1>3, <2>1, <2>2, <2>3 DEF Uncrossed, NoClosing, NoStart
  <1> QED BY <1>5, <1>6 DEF SpinInv

\* A start goes on: what it says opens only what may be open where it comes to.
LEMMA GoesOn ==
  ASSUME SpinInv, start # NoStart, start' \in StartRec, start'.at # "none", cycle' \in Seq(Said),
         OpenIn(cycle) \subseteq MayRun(start.at) => OpenIn(cycle') \subseteq MayRun(start'.at), UNCHANGED <<flying, closing, past>>
  PROVE  SpinInv'
  <1>1. SaidType BY DEF SpinInv
  <1>2. SaidType' BY <1>1 DEF SaidType, NoStart, NoClosing
  <1>3. ASSUME ~past'.crossed PROVE Uncrossed'
    <2>1. closing' = NoClosing /\ flying' = <<>> /\ OpenIn(cycle') \subseteq MayRun(start'.at) BY <1>3 DEF SpinInv, Uncrossed
    <2>2. start' # NoStart BY DEF NoStart
    <2>3. closing'.at # "closing" BY <2>1 DEF NoClosing
    <2> QED BY <2>1, <2>2, <2>3 DEF Uncrossed, NoClosing, NoStart
  <1> QED BY <1>2, <1>3 DEF SpinInv

\* A start is over: nothing is open, or the error is there.
LEMMA Ends ==
  ASSUME SpinInv, start # NoStart, start' = NoStart, cycle' \in Seq(Said),
         OpenIn(cycle) \subseteq MayRun(start.at) => OpenIn(cycle') = {} \/ \E i \in DOMAIN cycle' : cycle'[i][2] = "error",
         UNCHANGED <<flying, closing, past>>
  PROVE  SpinInv'
  <1>1. SaidType BY DEF SpinInv
  <1>2. start' \in StartRec BY DEF NoStart, StartRec
  <1>3. SaidType' BY <1>1, <1>2 DEF SaidType, NoStart, NoClosing
  <1>4. ASSUME ~past'.crossed PROVE Uncrossed'
    <2>1. closing' = NoClosing /\ flying' = <<>> /\ (OpenIn(cycle') = {} \/ \E i \in DOMAIN cycle' : cycle'[i][2] = "error") BY <1>4 DEF SpinInv, Uncrossed
    <2>2. closing'.at # "closing" BY <2>1 DEF NoClosing
    <2> QED BY <2>1, <2>2 DEF Uncrossed, NoClosing, NoStart
  <1> QED BY <1>3, <1>4 DEF SpinInv

\* No part of it moves.
LEMMA SaidStays ==
  ASSUME SpinInv, UNCHANGED <<start, cycle, flying, closing>>, past'.crossed = past.crossed,
         past' \in [starts : Nat, lines : Nat, late : BOOLEAN, crossed : BOOLEAN]
  PROVE  SpinInv'
  <1>1. SaidType' BY DEF SpinInv, SaidType, NoStart, NoClosing
  <1>2. Uncrossed => Uncrossed' BY DEF Uncrossed, NoStart, NoClosing
  <1> QED BY <1>1, <1>2 DEF SpinInv

LEMMA SpinStep ==
  ASSUME SpinInv, LogInv, HistoryNext
  PROVE  SpinInv'
  <1>0. SaidType BY DEF SpinInv
  <1>1. cycle \in Seq(Said) /\ start \in StartRec BY <1>0 DEF SaidType
  <1>2. ASSUME NEW c \in DOMAIN caps, BeginCapture(c) \/ ReadLine(c) \/ WriteLines(c) \/ StreamEnds(c) PROVE SpinInv'
    <2>1. UNCHANGED <<start, cycle, flying, closing>> BY <1>2 DEF BeginCapture, ReadLine, WriteLines, StreamEnds
    <2>2. past' = past \/ \E b \in BOOLEAN : past' = [past EXCEPT !.late = b]
      BY <1>2 DEF BeginCapture, ReadLine, WriteLines, StreamEnds
    <2>3. past'.crossed = past.crossed /\ past' \in [starts : Nat, lines : Nat, late : BOOLEAN, crossed : BOOLEAN] BY <1>0, <2>2 DEF SaidType
    <2> QED BY <2>1, <2>3, SaidStays
  <1>3. CASE StartNode
    <2>1. MayRun("build") = {"resolving"} BY DEF MayRun
    <2> QED BY <1>3, <2>1, BeginsSaid DEF StartNode, Goes, Steps
  <1>4. CASE RestartNode
    <2>1. MayRun("restart") = {"restarting"} BY DEF MayRun
    <2> QED BY <1>4, <2>1, BeginsSaid DEF RestartNode, Goes, Steps
  <1>5. CASE BuildNode
    <2> DEFINE e == <<"building", "running">>
    <2>1. start.at = "build" /\ start' = [start EXCEPT !.at = "solve"] /\ cycle' = Append(cycle, e) /\ UNCHANGED <<flying, closing, past>>
      BY <1>5 DEF BuildNode, Goes, Say
    <2>2. e \in Said /\ e[1] = "building" /\ e[2] = "running" BY SaidPair DEF Steps, Words
    <2> HIDE DEF e
    <2>3. cycle' \in Seq(Said) /\ OpenIn(cycle') \subseteq OpenIn(cycle) \cup {"building"} BY <1>1, <2>1, <2>2, SayOpens
    <2>4. start' \in StartRec /\ start'.at = "solve" /\ start # NoStart BY <1>1, <2>1 DEF StartRec, NoStart
    <2>5. MayRun("build") = {"resolving"} /\ MayRun("solve") = {"resolving", "building"} BY DEF MayRun
    <2> QED BY <2>1, <2>3, <2>4, <2>5, GoesOn
  <1>6. CASE NodeResolved
    <2> DEFINE b == <<"building", "ok">>
               r == <<"resolving", "ok">>
               c == <<"creating", "running">>
               s == IF start.at = "solve" THEN Append(cycle, b) ELSE cycle
    <2>1. start.at \in {"build", "solve"} /\ start' = [start EXCEPT !.at = "create"] /\ UNCHANGED <<flying, closing, past>>
      BY <1>6 DEF NodeResolved, Goes
    <2>2. b \in Said /\ r \in Said /\ c \in Said BY SaidPair DEF Steps, Words
    <2>3. b[1] = "building" /\ b[2] = "ok" /\ r[1] = "resolving" /\ r[2] = "ok" /\ c[1] = "creating" /\ c[2] = "running" OBVIOUS
    <2>4. cycle' = cycle \o (IF start.at = "solve" THEN <<b>> ELSE <<>>) \o <<r, c>> BY <1>6 DEF NodeResolved
    <2> HIDE DEF b, r, c
    <2>5. s \in Seq(Said) /\ (OpenIn(cycle) \subseteq MayRun(start.at) => OpenIn(s) \subseteq {"resolving"})
      <3>1. CASE start.at = "build"
        <4>1. MayRun("build") = {"resolving"} BY DEF MayRun
        <4> QED BY <1>1, <3>1, <4>1
      <3>2. CASE start.at = "solve"
        <4>1. MayRun("solve") = {"resolving", "building"} BY DEF MayRun
        <4>2. Append(cycle, b) \in Seq(Said) /\ OpenIn(Append(cycle, b)) \subseteq OpenIn(cycle) \ {"building"} BY <1>1, <2>2, <2>3, SayOpens
        <4> QED BY <3>2, <4>1, <4>2
      <3> QED BY <2>1, <3>1, <3>2
    <2>6. cycle' = Append(Append(s, r), c)
      <3>1. cycle \o (IF start.at = "solve" THEN <<b>> ELSE <<>>) = s BY <1>1, <2>2
      <3> HIDE DEF s
      <3>2. cycle' = s \o <<r, c>> BY <2>4, <3>1, Zenon
      <3>3. s \o <<r, c>> = Append(Append(s, r), c) BY <2>2, <2>5, TwoMore
      <3> QED BY <3>2, <3>3
    <2> HIDE DEF s
    <2>7. Append(s, r) \in Seq(Said) /\ OpenIn(Append(s, r)) \subseteq OpenIn(s) \ {"resolving"} BY <2>2, <2>3, <2>5, SayOpens
    <2>8. cycle' \in Seq(Said) /\ OpenIn(cycle') \subseteq OpenIn(Append(s, r)) \cup {"creating"} BY <2>2, <2>3, <2>6, <2>7, SayOpens
    <2>9. start' \in StartRec /\ start'.at = "create" /\ start # NoStart BY <1>1, <2>1 DEF StartRec, NoStart
    <2>10. MayRun("create") = {"creating"} BY DEF MayRun
    <2> QED BY <2>1, <2>5, <2>7, <2>8, <2>9, <2>10, GoesOn
  <1>7. CASE StepFails
    <2>1. PICK step \in Steps : cycle' = Append(cycle, <<step, "error">>)
      <3>1. start.at \in {"build", "solve", "create", "restart"} BY <1>7 DEF StepFails
      <3> QED BY <1>7, <3>1 DEF StepFails, Say, Steps
    <2> DEFINE e == <<step, "error">>
    <2>2. e \in Said /\ e[2] = "error" BY SaidPair DEF Words
    <2> HIDE DEF e
    <2>3. cycle' \in Seq(Said) /\ \E i \in DOMAIN cycle' : cycle'[i][2] = "error"
      <3>1. cycle' = Append(cycle, e) BY <2>1 DEF e
      <3> QED BY <1>1, <2>2, <3>1, SayOpens
    <2>4. start # NoStart /\ start' = NoStart /\ UNCHANGED <<flying, closing, past>> BY <1>7 DEF StepFails, NoStart
    <2> QED BY <2>3, <2>4, Ends
  <1>8. CASE CreateNode
    <2> DEFINE e == <<"creating", "ok">>
    <2>1. start.at = "create" /\ start' = [at |-> "attach", from |-> 0] /\ cycle' = Append(cycle, e) /\ UNCHANGED <<flying, closing, past>>
      BY <1>8 DEF CreateNode, Say
    <2>2. e \in Said /\ e[1] = "creating" /\ e[2] = "ok" BY SaidPair DEF Steps, Words
    <2> HIDE DEF e
    <2>3. cycle' \in Seq(Said) /\ OpenIn(cycle') \subseteq OpenIn(cycle) \ {"creating"} BY <1>1, <2>1, <2>2, SayOpens
    <2>4. start' \in StartRec /\ start'.at = "attach" /\ start # NoStart BY <2>1 DEF StartRec, NoStart
    <2>5. MayRun("create") = {"creating"} /\ MayRun("attach") = {} BY DEF MayRun
    <2> QED BY <2>1, <2>3, <2>4, <2>5, GoesOn
  <1>9. CASE NodeRestarted
    <2> DEFINE e == <<"restarting", "ok">>
    <2>1. start.at = "restart" /\ cycle' = Append(cycle, e) /\ UNCHANGED <<flying, closing, past>> BY <1>9 DEF NodeRestarted, Say
    <2>2. e \in Said /\ e[1] = "restarting" /\ e[2] = "ok" BY SaidPair DEF Steps, Words
    <2> HIDE DEF e
    <2>3. cycle' \in Seq(Said) /\ OpenIn(cycle') \subseteq OpenIn(cycle) \ {"restarting"} BY <1>1, <2>1, <2>2, SayOpens
    <2>5. MayRun("restart") = {"restarting"} /\ MayRun("attach") = {} BY DEF MayRun
    <2>6. start'.at = "attach" /\ start # NoStart BY <1>9, <2>1 DEF NodeRestarted, NoStart
    <2>7. start' \in StartRec BY LogStep DEF LogInv, TypeInv
    <2> QED BY <2>1, <2>3, <2>5, <2>6, <2>7, GoesOn
  <1>10. CASE NodeReady
    <2> DEFINE e == <<"ready", "ok">>
    <2>1. start.at = "attach" /\ start' = NoStart /\ cycle' = Append(cycle, e) /\ UNCHANGED <<flying, closing, past>> BY <1>10 DEF NodeReady, Say
    <2>2. e \in Said /\ e[1] = "ready" /\ e[2] = "ok" BY SaidPair DEF Steps, Words
    <2> HIDE DEF e
    <2>3. cycle' \in Seq(Said) /\ OpenIn(cycle') \subseteq OpenIn(cycle) BY <1>1, <2>1, <2>2, SayOpens
    <2>4. MayRun("attach") = {} /\ start # NoStart BY <2>1 DEF MayRun, NoStart
    <2> QED BY <2>1, <2>3, <2>4, Ends
  <1>11. CASE CallOffStart
    <2>1. start' = NoStart /\ closing' = [at |-> "asked", steps |-> {}] /\ UNCHANGED <<cycle, past>> BY <1>11 DEF CallOffStart
    <2>2. flying' \in {<<>>} \cup {<<e>> : e \in Said}
      <3>1. Sending \subseteq Said
        <4>1. {<<"building", "running">>, <<"building", "ok">>, <<"creating", "running">>} \subseteq Said BY SaidPair DEF Steps, Words
        <4> QED BY <4>1 DEF Sending
      <3>2. flying' \in {<<>>} \cup {<<e>> : e \in Sending} BY <1>11 DEF CallOffStart
      <3> HIDE DEF Sending
      <3> QED BY <3>1, <3>2
    <2>3. SaidType' BY <1>0, <2>1, <2>2 DEF SaidType, NoStart, StartRec
    <2>4. Uncrossed' BY <2>1 DEF Uncrossed, NoClosing
    <2> QED BY <2>3, <2>4 DEF SpinInv
  <1>12. CASE EventLands
    <2>1. flying # <<>> /\ cycle' = cycle \o flying /\ flying' = <<>> /\ past' = [past EXCEPT !.crossed = @ \/ closing.at # "asked"] /\ UNCHANGED <<start, closing>>
      BY <1>12 DEF EventLands
    <2>2. PICK e \in Said : flying = <<e>> BY <1>0, <2>1 DEF SaidType
    <2>3. cycle' \in Seq(Said) BY <1>1, <2>1, <2>2
    <2>4. past' \in [starts : Nat, lines : Nat, late : BOOLEAN, crossed : BOOLEAN] /\ (~past'.crossed => ~past.crossed /\ closing.at = "asked")
      BY <1>0, <2>1 DEF SaidType
    <2>5. SaidType' BY <1>0, <2>1, <2>3, <2>4 DEF SaidType, NoStart, NoClosing
    <2>6. ASSUME ~past'.crossed PROVE Uncrossed'
      <3>1. closing.at = "asked" /\ closing # NoClosing /\ Uncrossed BY <2>4, <2>6 DEF SpinInv, NoClosing
      <3>2. start' = NoStart /\ closing' # NoClosing /\ closing'.at # "closing" BY <2>1, <3>1 DEF Uncrossed
      <3> QED BY <3>2 DEF Uncrossed, NoClosing, NoStart
    <2> QED BY <2>5, <2>6 DEF SpinInv
  <1>13. CASE record_start_called_off
    <2>1. UNCHANGED <<start, flying, past>> BY <1>13 DEF record_start_called_off
    <2>2. CASE closing.at = "asked" /\ closing' = [at |-> "closing", steps |-> OpenSteps] /\ UNCHANGED cycle
      <3>1. OpenIn(cycle) \subseteq Steps BY <1>1 DEF OpenIn, Said
      <3>2. closing' = [at |-> "closing", steps |-> OpenIn(cycle)] BY <2>2, OpenOf
      <3>3. closing'.at = "closing" /\ closing'.steps = OpenIn(cycle) BY <3>2
      <3>4. SaidType' BY <1>0, <2>1, <2>2, <3>1, <3>2 DEF SaidType, NoStart
      <3>5. ASSUME ~past'.crossed PROVE Uncrossed'
        <4>1. start' = NoStart BY <2>1, <2>2, <3>5 DEF SpinInv, Uncrossed, NoClosing
        <4> QED BY <2>2, <3>3, <4>1 DEF Uncrossed, NoClosing, NoStart
      <3> QED BY <3>4, <3>5 DEF SpinInv
    <2>3. ASSUME closing.at = "closing", NEW step \in closing.steps, Say(step, "cancelled"), closing' = [closing EXCEPT !.steps = @ \ {step}] PROVE SpinInv'
      <3> DEFINE e == <<step, "cancelled">>
      <3>1. e \in Said /\ e[1] = step /\ e[2] = "cancelled" BY <1>0, <2>3, SaidPair DEF SaidType, Words
      <3>2. cycle' = Append(cycle, e) BY <2>3 DEF Say
      <3> HIDE DEF e
      <3>3. cycle' \in Seq(Said) /\ OpenIn(cycle') \subseteq OpenIn(cycle) \ {step} BY <1>1, <3>1, <3>2, SayOpens
      <3>4. closing' \in [at : {"none", "asked", "closing"}, steps : SUBSET Steps] /\ closing'.at = "closing" /\ closing'.steps = closing.steps \ {step}
        BY <1>0, <2>3 DEF SaidType
      <3>5. SaidType' BY <1>0, <2>1, <3>3, <3>4 DEF SaidType, NoStart
      <3>6. ASSUME ~past'.crossed PROVE Uncrossed'
        <4>1. start' = NoStart /\ OpenIn(cycle) \subseteq closing.steps BY <2>1, <2>3, <3>6 DEF SpinInv, Uncrossed, NoClosing
        <4>2. OpenIn(cycle') \subseteq closing'.steps BY <3>3, <3>4, <4>1
        <4> QED BY <3>4, <4>1, <4>2 DEF Uncrossed, NoClosing, NoStart
      <3> QED BY <3>5, <3>6 DEF SpinInv
    <2>4. CASE closing.at = "closing" /\ closing.steps = {} /\ closing' = NoClosing /\ UNCHANGED cycle
      <3>1. SaidType' BY <1>0, <2>1, <2>4 DEF SaidType, NoStart, NoClosing
      <3>2. ASSUME ~past'.crossed PROVE Uncrossed'
        <4>1. start' = NoStart /\ OpenIn(cycle) = {} BY <2>1, <2>4, <3>2 DEF SpinInv, Uncrossed, NoClosing
        <4> QED BY <2>4, <4>1 DEF Uncrossed, NoClosing, NoStart
      <3> QED BY <3>1, <3>2 DEF SpinInv
    <2> QED BY <1>13, <2>2, <2>3, <2>4 DEF record_start_called_off
  <1>14. CASE ProcessPrints
    <2>1. UNCHANGED <<start, cycle, flying, closing>> /\ past' = [past EXCEPT !.lines = @ + 1] BY <1>14 DEF ProcessPrints
    <2>2. past.lines + 1 \in Nat BY <1>0 DEF SaidType
    <2>3. past'.crossed = past.crossed /\ past' \in [starts : Nat, lines : Nat, late : BOOLEAN, crossed : BOOLEAN] BY <1>0, <2>1, <2>2 DEF SaidType
    <2> QED BY <2>1, <2>3, SaidStays
  <1>15. CASE ProcessEnds
    <2>1. UNCHANGED <<start, cycle, flying, closing, past>> BY <1>15 DEF ProcessEnds
    <2> QED BY <1>0, <2>1, SaidStays DEF SaidType
  <1> QED BY <1>2, <1>3, <1>4, <1>5, <1>6, <1>7, <1>8, <1>9, <1>10, <1>11, <1>12, <1>13, <1>14, <1>15 DEF HistoryNext

LEMMA SpinInit ==
  ASSUME HistoryInit
  PROVE  SpinInv
  <1>1. start = NoStart /\ cycle = <<>> /\ flying = <<>> /\ closing = NoClosing BY DEF HistoryInit
  <1>2. past \in [starts : Nat, lines : Nat, late : BOOLEAN, crossed : BOOLEAN] BY LogInit DEF LogInv, TypeInv
  <1>3. NoStart \in StartRec /\ NoClosing \in [at : {"none", "asked", "closing"}, steps : SUBSET Steps] BY DEF NoStart, StartRec, NoClosing
  <1>4. cycle \in Seq(Said) BY <1>1
  <1>5. SaidType BY <1>1, <1>2, <1>3, <1>4 DEF SaidType
  <1>6. OpenIn(cycle) = {} BY <1>1 DEF OpenIn
  <1>7. closing.at # "closing" BY <1>1 DEF NoClosing
  <1> QED BY <1>1, <1>5, <1>6, <1>7 DEF SpinInv, Uncrossed

\* When nothing is being started and nothing is still being said of a start, no
\* step of the last one reads as running (events.rs): it went well, it failed
\* and the error is there, or it was called off and each open step was closed,
\* however often the node is started; a start or a late event that crossed the
\* closing excepted.
THEOREM NothingEverSpins == HistorySpec => []NothingSpins
  <1> DEFINE BothInv == LogInv /\ SpinInv
  <1>1. HistoryInit => BothInv BY LogInit, SpinInit
  <1>2. BothInv /\ [HistoryNext]_historyVars => BothInv'
    <2>1. ASSUME BothInv, UNCHANGED historyVars PROVE BothInv'
      <3>1. UNCHANGED <<printed, up, caps, rows, start, cycle, flying, closing, past>> BY <2>1 DEF historyVars
      <3>2. TypeInv' BY <2>1, <3>1 DEF LogInv, TypeInv
      <3>3. BoxInv' BY <2>1, <3>1, CaptureBox
      <3>4. LogInv' BY <2>1, <3>1, <3>2, <3>3, LogsStay
      <3>5. SpinInv' BY <2>1, <3>1, SaidStays DEF SpinInv, SaidType
      <3> QED BY <3>4, <3>5
    <2> QED BY <2>1, LogStep, SpinStep
  <1>3. BothInv => NothingSpins BY OpenOf DEF SpinInv, Uncrossed, NothingSpins
  <1> HIDE DEF BothInv
  <1> QED BY <1>1, <1>2, <1>3, PTL DEF HistorySpec
=============================================================================
