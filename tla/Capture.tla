------------------------------ MODULE Capture ------------------------------
(***************************************************************************)
(* The link that brings the traffic a workspace's sidecar records into     *)
(* fghjd (src/web/capture.rs, src/daemon/capture.rs): fghjd dials in and   *)
(* streams the recording set up, the sidecar streams every exchange down   *)
(* as it changes.  Either side may restart, the connection may break, and  *)
(* a new one may be accepted before the old one is noticed as gone.        *)
(*                                                                         *)
(* Of an exchange only its identity, its node, its start and a version     *)
(* that every change raises are kept; what the store does with its bytes   *)
(* is Traffic's subject.  Both rings are taken as large enough.            *)
(***************************************************************************)
EXTENDS Integers, Sequences, FiniteSets, SequencesExt

CONSTANTS
  Node, BodyMode, Off,
  FEED,            \* how many changes the sidecar's feed holds for a subscriber
  MaxChanges,      \* exchanges the sidecar's run begins to record, and their changes
  MaxLinks,        \* connections fghjd makes
  MaxRequests,     \* switches and clears from the UI
  MaxCrashes       \* restarts and broken connections

ASSUME CaptureAssumption ==
  /\ Off \notin BodyMode
  /\ FEED \in Nat \ {0}

VARIABLES
  mode, ring, cleared_at,   \* fghjd's store: per node
  watch,                    \* the set a session sends up, NoSession without one
  link,                     \* the connection its pull has open, 0 for none
  side,                     \* the sidecar: its run, session counter and store
  conns,                    \* every connection made so far
  now,                      \* the wall clock both sides read
  missed,                   \* history: exchanges that arrived while their node was off
  late,                     \* history: a superseded connection's set was applied late
  left                      \* what is left of the bounds

daemonVars == <<mode, ring, cleared_at, watch, link>>
vars == <<mode, ring, cleared_at, watch, link, side, conns, now, missed, late, left>>

Modes == [Node -> BodyMode \cup {Off}]
AllOff == [n \in Node |-> Off]
NoSession == [n \in {} |-> Off]

Links == 1..Len(conns)

Init ==
  /\ mode = AllOff /\ ring = {} /\ cleared_at = [n \in Node |-> 0]
  /\ watch = NoSession /\ link = 0
  /\ side = [origin |-> 1, session |-> 0, mode |-> AllOff, ring |-> {}, begun |-> {}]
  /\ conns = <<>> /\ now = 1 /\ missed = {} /\ late = FALSE
  /\ left = [requests |-> MaxRequests, crashes |-> MaxCrashes]

----------------------------------------------------------------------------
(* The UI and the session of the workspace.                                *)

\* post_node_traffic_recording
SetMode(n, m) ==
  /\ left.requests > 0 /\ mode[n] # m
  /\ mode' = [mode EXCEPT ![n] = m]
  /\ left' = [left EXCEPT !.requests = @ - 1]
  /\ UNCHANGED <<ring, cleared_at, watch, link, side, conns, now, missed, late>>

\* post_node_traffic_clear
ClearLog(n) ==
  /\ left.requests > 0
  /\ ring' = {e \in ring : e.node # n}
  /\ cleared_at' = [cleared_at EXCEPT ![n] = now]
  /\ left' = [left EXCEPT !.requests = @ - 1]
  /\ UNCHANGED <<mode, watch, link, side, conns, now, missed, late>>

\* Closing our end: what was sent up can still be read, nothing comes down.
HangUp(l) == [conns EXCEPT ![l].open = FALSE, ![l].down = <<>>]

\* Mutant: the session is kept when nothing is recorded any more.
sync_keeps ==
  /\ mode # AllOff /\ watch # mode
  /\ watch' = mode
  /\ UNCHANGED <<mode, ring, cleared_at, link, conns, side, now, missed, late, left>>

\* sync: one session while any node records, holding the set it sends up.
sync ==
  /\ \/ /\ mode = AllOff /\ watch # NoSession
        /\ watch' = NoSession /\ link' = 0
        /\ conns' = IF link = 0 THEN conns ELSE HangUp(link)
     \/ /\ mode # AllOff /\ watch # mode
        /\ watch' = mode
        /\ UNCHANGED <<link, conns>>
  /\ UNCHANGED <<mode, ring, cleared_at, side, now, missed, late, left>>

\* What the sidecar makes of a connection it accepts: the newest session from
\* here on, subscribed before it takes its snapshot.
handle(modes) ==
  [id |-> side.session + 1, origin |-> side.origin, open |-> TRUE, reading |-> TRUE,
   up |-> <<modes>>, last |-> modes, feed |-> <<>>, lagged |-> FALSE,
   queue |-> SetToSeq({e.id : e \in side.ring}), down |-> <<>>]

\* The session's pull finds the sidecar running and dials in.
pull_once ==
  /\ watch # NoSession /\ link = 0 /\ Len(conns) < MaxLinks
  /\ conns' = Append(conns, handle(watch))
  /\ side' = [side EXCEPT !.session = @ + 1]
  /\ link' = Len(conns) + 1
  /\ UNCHANGED <<mode, ring, cleared_at, watch, now, missed, late, left>>

\* The stream of sets: a line whenever the watched set has changed.
send_modes ==
  /\ link # 0 /\ conns[link].open /\ conns[link].last # watch
  /\ conns' = [conns EXCEPT ![link].up = Append(@, watch), ![link].last = watch]
  /\ UNCHANGED <<daemonVars, side, now, missed, late, left>>

\* A shipped exchange: dropped while its node is off, put in place of an
\* earlier copy, and dropped when it is unknown and older than the last clear.
Ingested(r, e) ==
  LET known == {c \in r : c.origin = e.origin /\ c.id = e.id}
  IN IF mode[e.node] = Off \/ (known = {} /\ e.started < cleared_at[e.node])
     THEN r ELSE (r \ known) \cup {e}

ingest ==
  /\ link # 0 /\ conns[link].down # <<>>
  /\ LET e == Head(conns[link].down)
     IN /\ ring' = Ingested(ring, e)
        /\ missed' = IF mode[e.node] = Off THEN missed \cup {<<e.origin, e.id>>} ELSE missed
  /\ conns' = [conns EXCEPT ![link].down = Tail(@)]
  /\ UNCHANGED <<mode, cleared_at, watch, link, side, now, late, left>>

\* pull returns: the stream ended or broke. pull_forever tries again later.
pull_ends ==
  /\ link # 0
  /\ ~conns[link].reading /\ conns[link].down = <<>>
  /\ conns' = HangUp(link)
  /\ link' = 0
  /\ UNCHANGED <<mode, ring, cleared_at, watch, side, now, missed, late, left>>

----------------------------------------------------------------------------
(* The sidecar.                                                            *)

\* The nodes listed record, every other one stops and is cleared.
apply_modes(modes) ==
  [side EXCEPT !.mode = modes, !.ring = {e \in @ : modes[e.node] # Off}]

\* read_modes applies the next line of a connection, an older one's too.
read_modes(l) ==
  /\ conns[l].reading /\ conns[l].up # <<>>
  /\ side' = apply_modes(Head(conns[l].up))
  /\ conns' = [conns EXCEPT ![l].up = Tail(@)]
  /\ late' = (late \/ conns[l].id # side.session)
  /\ UNCHANGED <<daemonVars, now, missed, left>>

\* The request body has ended: only the newest session's end stops recording.
session_ends(l) ==
  /\ conns[l].reading /\ conns[l].up = <<>> /\ ~conns[l].open
  /\ side' = IF side.session = conns[l].id THEN apply_modes(AllOff) ELSE side
  /\ conns' = [conns EXCEPT ![l].reading = FALSE, ![l].feed = <<>>, ![l].queue = <<>>]
  /\ UNCHANGED <<daemonVars, now, missed, late, left>>

\* publish: every open stream is told; one that is behind loses the oldest.
Published(id) ==
  [l \in Links |->
     IF ~conns[l].reading THEN conns[l]
     ELSE LET full == Len(conns[l].feed) = FEED
          IN [conns[l] EXCEPT !.lagged = @ \/ full,
                              !.feed = Append(IF full THEN Tail(@) ELSE @, id)]]

Record(e) == [side EXCEPT !.begun = (@ \ {c \in @ : c.id = e.id}) \cup {e},
                          !.ring = IF \E c \in @ : c.id = e.id
                                   THEN (@ \ {c \in @ : c.id = e.id}) \cup {e} ELSE @]

Changes == FoldSet(LAMBDA e, k : k + e.version, 0, side.begun)

begin(n) ==
  /\ side.mode[n] # Off
  /\ Changes < MaxChanges
  /\ LET id == Cardinality(side.begun) + 1
         e == [origin |-> side.origin, id |-> id, node |-> n, started |-> now, version |-> 1]
     IN /\ side' = [side EXCEPT !.begun = @ \cup {e}, !.ring = @ \cup {e}]
        /\ conns' = Published(id)
  /\ UNCHANGED <<daemonVars, now, missed, late, left>>

\* A recorded request moves on, in the ring or no longer.
change(e) ==
  /\ Changes < MaxChanges
  /\ side' = Record([e EXCEPT !.version = @ + 1])
  /\ conns' = Published(e.id)
  /\ UNCHANGED <<daemonVars, now, missed, late, left>>

\* The next line down: what the exchange is at the time it is written.
ship(l) ==
  /\ conns[l].reading /\ conns[l].queue # <<>>
  /\ LET e == CHOOSE c \in side.begun : c.id = Head(conns[l].queue)
     IN conns' = [conns EXCEPT ![l].queue = Tail(@),
                               ![l].down = IF conns[l].open THEN Append(@, e) ELSE @]
  /\ UNCHANGED <<daemonVars, side, now, missed, late, left>>

\* Mutant: a gap in the feed is passed over.
recv_gap(l) ==
  /\ conns[l].reading /\ conns[l].queue = <<>> /\ conns[l].feed # <<>>
  /\ conns' = [conns EXCEPT ![l].queue = <<Head(conns[l].feed)>>, ![l].feed = Tail(@),
                            ![l].lagged = FALSE]
  /\ UNCHANGED <<daemonVars, side, now, missed, late, left>>

\* With nothing queued: the next change, or everything again after a gap.
recv(l) ==
  /\ conns[l].reading /\ conns[l].queue = <<>>
  /\ \/ /\ conns[l].lagged
        /\ conns' = [conns EXCEPT ![l].lagged = FALSE,
                                  ![l].queue = SetToSeq({e.id : e \in side.ring})]
     \/ /\ ~conns[l].lagged /\ conns[l].feed # <<>>
        /\ conns' = [conns EXCEPT ![l].queue = <<Head(conns[l].feed)>>,
                                  ![l].feed = Tail(@)]
  /\ UNCHANGED <<daemonVars, side, now, missed, late, left>>

----------------------------------------------------------------------------
(* What fails.                                                             *)

Crash == left.crashes > 0 /\ left' = [left EXCEPT !.crashes = @ - 1]

\* The connection breaks: the sidecar reads what it has, and then the end.
LinkBreaks ==
  /\ Crash /\ link # 0 /\ conns[link].open
  /\ conns' = HangUp(link)
  /\ link' = 0
  /\ UNCHANGED <<mode, ring, cleared_at, watch, side, now, missed, late>>

\* fghjd restarts: the store and the sessions were in memory only.
DaemonRestarts ==
  /\ Crash
  /\ mode' = AllOff /\ ring' = {} /\ cleared_at' = [n \in Node |-> 0]
  /\ watch' = NoSession /\ link' = 0
  /\ conns' = IF link = 0 THEN conns ELSE HangUp(link)
  /\ missed' = {}
  /\ UNCHANGED <<side, now, late>>

\* The sidecar restarts as another run: nothing is recorded, ids begin again.
SidecarRestarts ==
  /\ Crash
  /\ side' = [origin |-> side.origin + 1, session |-> 0, mode |-> AllOff,
              ring |-> {}, begun |-> {}]
  /\ conns' = [l \in Links |-> [conns[l] EXCEPT !.reading = FALSE, !.up = <<>>,
                                                !.feed = <<>>, !.queue = <<>>]]
  /\ late' = FALSE
  /\ UNCHANGED <<daemonVars, now, missed>>

Tick ==
  /\ now < 2 /\ now' = now + 1
  /\ UNCHANGED <<daemonVars, side, conns, missed, late, left>>

Sidecar == \E l \in Links : read_modes(l) \/ session_ends(l) \/ ship(l) \/ recv(l)
Daemon == sync \/ pull_once \/ send_modes \/ ingest \/ pull_ends

Next ==
  \/ \E n \in Node : \/ ClearLog(n) \/ begin(n)
                     \/ \E m \in BodyMode \cup {Off} : SetMode(n, m)
  \/ \E e \in side.begun : change(e)
  \/ Sidecar \/ Daemon
  \/ LinkBreaks \/ DaemonRestarts \/ SidecarRestarts \/ Tick

Spec == Init /\ [][Next]_vars

\* Tasks that can go on do: the supervised loops of both sides.
Fairness ==
  /\ WF_vars(Daemon)
  /\ \A l \in 1..MaxLinks :
       WF_vars(l \in Links /\ (read_modes(l) \/ session_ends(l) \/ ship(l) \/ recv(l)))
FairSpec == Spec /\ Fairness

----------------------------------------------------------------------------
(* Properties.                                                             *)

TypeOK ==
  /\ mode \in Modes /\ side.mode \in Modes
  /\ watch \in Modes \cup {NoSession}
  /\ link \in 0..Len(conns)
  /\ \A l \in Links : conns[l].open => l = link

\* The open connection has delivered everything it was given.
Drained ==
  /\ link # 0 /\ conns[link].open /\ conns[link].reading
  /\ conns[link].up = <<>> /\ ~conns[link].lagged
  /\ conns[link].feed = <<>> /\ conns[link].queue = <<>> /\ conns[link].down = <<>>

\* Neither a reconnect nor a feed that overran leaves a gap: once the link has
\* caught up, fghjd holds every exchange in the sidecar's ring at its latest
\* version, except one from before a clear or that arrived while its node was off.
NoGap ==
  Drained =>
    \A e \in side.ring :
       \/ e \in ring
       \/ e.started <= cleared_at[e.node]
       \/ <<e.origin, e.id>> \in missed

\* An exchange from before the last clear of its node doesn't come back, whatever
\* is still queued, shipped again or in flight.
ClearedStaysCleared == \A e \in ring : e.started >= cleared_at[e.node]

\* Nothing is recorded that nobody will see: the sidecar records only while a
\* connection is being read, unless an older connection's set was applied after a
\* newer one had been accepted.
RecordsForSomeone ==
  side.mode # AllOff => late \/ \E l \in Links : conns[l].reading /\ conns[l].origin = side.origin

\* Switched off for good, the sidecar stops: recording that stays off in fghjd
\* is off in the sidecar in the end, unless a superseded connection's set came late.
SidecarStops ==
  (<>[](mode = AllOff)) => <>[](late \/ side.mode = AllOff)

\* The feed from a sidecar, over reconnects, overruns, clears and restarts: what
\* is recorded arrives, what was cleared does not come back, and nothing is
\* recorded for nobody.
FeedWhole == TypeOK /\ NoGap /\ ClearedStaysCleared /\ RecordsForSomeone
=============================================================================
