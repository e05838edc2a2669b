------------------------------ MODULE History ------------------------------
(***************************************************************************)
(* What a workspace keeps of one node's past: the log lines captured from   *)
(* its containers, in generations, and the narration of its last start.     *)
(* src/src/orchestrator/{logs,events,registry}.rs and the two tables in     *)
(* src/src/persistence/sqlite.  Every call to the database is its own       *)
(* blocking task, so one that was sent by a task since aborted still runs.  *)
(***************************************************************************)
EXTENDS Naturals, Sequences, FiniteSets, FiniteSetsExt, SequencesExt

CONSTANTS
  MaxStarts,   \* how often the node is started or restarted
  MaxLines,    \* how many lines are printed in all
  BATCH        \* the buffer length at which a capture writes, 200 in the code

VARIABLES
  printed,     \* container -> what it printed, as Docker has it; the last one is the node's
  up,          \* does its process run?
  caps,        \* the capture tasks ever spawned; the last one is in log_captures
  rows,        \* the logs table
  start,       \* the start or restart in flight
  cycle,       \* the events table: the steps of the last start, in order
  flying,      \* an event sent by a start that was called off, not yet written
  closing,     \* record_start_called_off: not asked, asked, or with the steps it found open
  past         \* how often it was started, the lines printed; history: a call that came late

historyVars == <<printed, up, caps, rows, start, cycle, flying, closing, past>>

Box == Len(printed)
Newest == Len(caps)
NoClosing == [at |-> "none", steps |-> {}]
NoStart == [at |-> "none", from |-> 0]
Quiet == [starts |-> 0, lines |-> 0, late |-> FALSE, crossed |-> FALSE]

\* spawn_log_capture's task before its first step.
NewCapture(from) == [at |-> "begin", aborted |-> FALSE, box |-> Box, from |-> from, pos |-> from, seq |-> 0,
                     gen |-> 0, buffer |-> <<>>]
\* A node that was never started, or one that has run once and died.
HistoryInit ==
  /\ \/ printed = <<>> /\ caps = <<>> /\ rows = {} /\ past = Quiet
     \/ /\ printed = <<<<1>>>> /\ caps = <<[NewCapture(0) EXCEPT !.at = "done", !.pos = 1, !.seq = 1]>>
        /\ rows = {[gen |-> 0, seq |-> 0, line |-> 1, by |-> 1]} /\ past = [Quiet EXCEPT !.lines = 1]
  /\ up = FALSE /\ start = NoStart /\ cycle = <<>> /\ flying = <<>> /\ closing = NoClosing

---------------------------------------------------------------------------
(* Capturing.                                                              *)

Generations == {r.gen : r \in rows}
\* The number, and what is left of the table.  Nothing is written yet, so it is
\* taken only once a line of it is.
begin_log_generation(g) == [gen |-> g, rows |-> {r \in rows : r.gen + 2 > g}]
NextGeneration_same == IF rows = {} THEN 0 ELSE Max(Generations)
NextGeneration == IF rows = {} THEN 0 ELSE Max(Generations) + 1
BeginCapture(c) ==
  /\ caps[c].at = "begin"
  /\ LET begun == begin_log_generation(NextGeneration) IN
     /\ rows' = begun.rows
     /\ caps' = [caps EXCEPT ![c].gen = begun.gen, ![c].at = IF caps[c].aborted THEN "dead" ELSE "read"]
  /\ past' = [past EXCEPT !.late = @ \/ caps[c].aborted]
  /\ UNCHANGED <<printed, up, start, cycle, flying, closing>>

\* The next line; the batch goes when it is full or the time has come.
ReadLine(c) ==
  /\ caps[c].at = "read" /\ caps[c].pos < Len(printed[caps[c].box])
  /\ LET line == [seq |-> caps[c].seq, line |-> printed[caps[c].box][caps[c].pos + 1]]
         buffer == Append(caps[c].buffer, line)
     IN  \E flush \in {TRUE, Len(buffer) >= BATCH} :
           caps' = [caps EXCEPT ![c].pos = @ + 1, ![c].seq = @ + 1, ![c].buffer = buffer,
                                ![c].at = IF flush THEN "write" ELSE "read"]
  /\ UNCHANGED <<printed, up, rows, start, cycle, flying, closing, past>>

\* INSERT OR IGNORE: a number that is taken keeps the line it has.
insert_log_lines(c) ==
  LET new == {[gen |-> caps[c].gen, seq |-> b.seq, line |-> b.line, by |-> c] : b \in ToSet(caps[c].buffer)}
  IN  rows \cup {n \in new : ~\E r \in rows : r.gen = n.gen /\ r.seq = n.seq}
WriteLines(c) ==
  /\ caps[c].at \in {"write", "last"} /\ rows' = insert_log_lines(c)
  /\ past' = [past EXCEPT !.late = @ \/ caps[c].aborted]
  /\ caps' = [caps EXCEPT ![c].buffer = <<>>,
                ![c].at = IF caps[c].aborted THEN "dead" ELSE IF caps[c].at = "last" THEN "done" ELSE "read"]
  /\ UNCHANGED <<printed, up, start, cycle, flying, closing>>

\* The stream ends with the process, and with a removed container wherever it is.
Over(c) == IF caps[c].box < Box THEN TRUE ELSE ~up /\ caps[c].pos = Len(printed[Box])
StreamEnds(c) ==
  /\ caps[c].at = "read" /\ Over(c)
  /\ caps' = [caps EXCEPT ![c].at = IF caps[c].buffer = <<>> THEN "done" ELSE "last"]
  /\ UNCHANGED <<printed, up, rows, start, cycle, flying, closing, past>>

\* spawn_log_capture: the new task first, then the old one is aborted; a call
\* it is waiting for runs all the same.
Aborted(cap) == IF cap.at \in {"begin", "write", "last"} THEN [cap EXCEPT !.aborted = TRUE]
                ELSE IF cap.at = "read" THEN [cap EXCEPT !.aborted = TRUE, !.at = "dead"] ELSE cap
spawn_log_capture(from) ==
  caps' = Append([c \in DOMAIN caps |-> IF c = Newest THEN Aborted(caps[c]) ELSE caps[c]],
                 NewCapture(from))

---------------------------------------------------------------------------
(* Starting, and what is said of it.                                       *)

Say(step, status) == cycle' = Append(cycle, <<step, status>>)
Goes(at) == start' = [start EXCEPT !.at = at]
StartNode ==
  /\ start = NoStart /\ past.starts < MaxStarts
  /\ Goes("build") /\ cycle' = <<<<"resolving", "running">>>>
  /\ past' = [past EXCEPT !.starts = @ + 1, !.crossed = closing # NoClosing \/ flying # <<>>]
  /\ UNCHANGED <<printed, up, caps, rows, flying, closing>>
BuildNode ==
  /\ start.at = "build" /\ Goes("solve") /\ Say("building", "running")
  /\ UNCHANGED <<printed, up, caps, rows, flying, closing, past>>
NodeResolved ==
  /\ start.at \in {"build", "solve"} /\ Goes("create")
  /\ cycle' = cycle \o (IF start.at = "solve" THEN <<<<"building", "ok">>>> ELSE <<>>)
                    \o <<<<"resolving", "ok">>, <<"creating", "running">>>>
  /\ UNCHANGED <<printed, up, caps, rows, flying, closing, past>>
\* failed_unless_reported: an inner step's error is the cycle's.
StepFails ==
  /\ start.at \in {"build", "solve", "create", "restart"} /\ start' = NoStart
  /\ Say(CASE start.at = "build" -> "resolving" [] start.at = "solve" -> "building"
           [] start.at = "create" -> "creating" [] OTHER -> "restarting", "error")
  /\ UNCHANGED <<printed, up, caps, rows, flying, closing, past>>
CreateNode ==
  /\ start.at = "create" /\ start' = [at |-> "attach", from |-> 0] /\ Say("creating", "ok")
  /\ printed' = Append(printed, <<>>) /\ up' = TRUE
  /\ UNCHANGED <<caps, rows, flying, closing, past>>
\* restart_in_place; the stream begins at the second of the restart, so a line
\* printed just before may come again.
RestartNode ==
  /\ start = NoStart /\ up /\ past.starts < MaxStarts
  /\ Goes("restart") /\ cycle' = <<<<"restarting", "running">>>>
  /\ past' = [past EXCEPT !.starts = @ + 1, !.crossed = closing # NoClosing \/ flying # <<>>]
  /\ UNCHANGED <<printed, up, caps, rows, flying, closing>>
NodeRestarted ==
  /\ start.at = "restart" /\ Say("restarting", "ok") /\ up' = TRUE
  /\ \E k \in 0..1 : k <= Len(printed[Box]) /\ start' = [at |-> "attach", from |-> Len(printed[Box]) - k]
  /\ UNCHANGED <<printed, caps, rows, flying, closing, past>>
NodeReady ==
  /\ start.at = "attach" /\ spawn_log_capture(start.from) /\ start' = NoStart /\ Say("ready", "ok")
  /\ UNCHANGED <<printed, up, rows, flying, closing, past>>

\* abort_start: what the start was just writing may still be written.
Sending ==
  CASE start.at = "build" -> {<<"building", "running">>} [] start.at = "solve" -> {<<"building", "ok">>}
    [] start.at = "create" -> {<<"creating", "running">>} [] OTHER -> {}
CallOffStart ==
  /\ start # NoStart /\ closing = NoClosing /\ flying = <<>> /\ start' = NoStart /\ closing' = [at |-> "asked", steps |-> {}]
  /\ flying' \in {<<>>} \cup {<<e>> : e \in Sending}
  /\ UNCHANGED <<printed, up, caps, rows, cycle, past>>
EventLands ==
  /\ flying # <<>> /\ cycle' = cycle \o flying /\ flying' = <<>>
  /\ past' = [past EXCEPT !.crossed = @ \/ closing.at # "asked"]
  /\ UNCHANGED <<printed, up, caps, rows, start, closing>>
\* A step is open when the last thing said of it is that it runs.
Open(i) == cycle[i][2] = "running" /\ \A k \in DOMAIN cycle : cycle[k][1] = cycle[i][1] => k <= i
OpenSteps_last == {cycle[i][1] : i \in {j \in DOMAIN cycle : Open(j) /\ \A k \in DOMAIN cycle : Open(k) => k <= j}}
OpenSteps == {cycle[i][1] : i \in {j \in DOMAIN cycle : Open(j)}}
\* They are closed one call after the other; which first is left open.
record_start_called_off ==
  /\ \/ closing.at = "asked" /\ closing' = [at |-> "closing", steps |-> OpenSteps] /\ UNCHANGED cycle
     \/ /\ closing.at = "closing"
        /\ \E step \in closing.steps : Say(step, "cancelled") /\ closing' = [closing EXCEPT !.steps = @ \ {step}]
     \/ closing.at = "closing" /\ closing.steps = {} /\ closing' = NoClosing /\ UNCHANGED cycle
  /\ UNCHANGED <<printed, up, caps, rows, start, flying, past>>

---------------------------------------------------------------------------
ProcessPrints ==
  /\ up /\ past.lines < MaxLines
  /\ printed' = [printed EXCEPT ![Box] = Append(@, past.lines + 1)] /\ past' = [past EXCEPT !.lines = @ + 1]
  /\ UNCHANGED <<up, caps, rows, start, cycle, flying, closing>>
ProcessEnds ==
  /\ up /\ up' = FALSE
  /\ UNCHANGED <<printed, caps, rows, start, cycle, flying, closing, past>>

HistoryNext ==
  \/ \E c \in DOMAIN caps : BeginCapture(c) \/ ReadLine(c) \/ WriteLines(c) \/ StreamEnds(c)
  \/ StartNode \/ BuildNode \/ NodeResolved \/ StepFails \/ CreateNode \/ RestartNode \/ NodeRestarted \/ NodeReady
  \/ CallOffStart \/ EventLands \/ record_start_called_off \/ ProcessPrints \/ ProcessEnds
HistorySpec == HistoryInit /\ [][HistoryNext]_historyVars

---------------------------------------------------------------------------
\* The lines of a generation are those of one capture, in the order printed and
\* with none left out, unless a write of an aborted capture came late.
LogsApart ==
  past.late \/ \A r \in rows :
    /\ \A q \in rows : q.gen = r.gen => q.by = r.by
    /\ r.line = printed[caps[r.by].box][caps[r.by].from + r.seq + 1]
    /\ \A k \in 0..r.seq : \E q \in rows : q.gen = r.gen /\ q.seq = k

\* Last lines are kept: of a capture that ended, because its process did or
\* because its container was removed, all that it read is in the table until two
\* later generations have begun, unless a call of an aborted capture came late.
Later(c) == {caps[d].gen : d \in {e \in (c + 1)..Newest : caps[e].at # "begin"}}
LastWords ==
  \A c \in DOMAIN caps :
    caps[c].at = "done" /\ ~past.late /\ Cardinality(Later(c)) < 2 =>
      \A i \in (caps[c].from + 1)..caps[c].pos : \E r \in rows : r.by = c /\ r.line = printed[caps[c].box][i]

\* Nothing reads as still running when no start is: a start that failed says
\* where, and one that was called off has every open step closed, unless another
\* start began, or a call it had sent came, in the middle of closing them.
NothingSpins ==
  (start = NoStart /\ closing = NoClosing /\ flying = <<>> /\ ~past.crossed) =>
    \/ OpenSteps = {}
    \/ \E i \in DOMAIN cycle : cycle[i][2] = "error"

\* A container's log is kept whole, to its last line, and apart from the others'.
LogsWhole == LogsApart /\ LastWords
=============================================================================
