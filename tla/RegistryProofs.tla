--------------------------- MODULE RegistryProofs ---------------------------
(***************************************************************************)
(* Proofs about the workspaces fghjd knows: for every set of folders, of   *)
(* names and of nestings, and any number of requests, changes and crashes, *)
(*   - what a restarted fghjd believes is true (RehydratedTrue);           *)
(*   - no two wired workspaces fight (NoFight);                            *)
(*   - a removal holds and takes what it should (RemovalHolds);            *)
(*   - a store lags behind what is published and never goes back           *)
(*     (StoreKeepsUp, a refinement of module Kept).                        *)
(* The invariant is built in layers, each preserved with the help of those *)
(* before it.                                                              *)
(***************************************************************************)
EXTENDS Registry, TLAPS

Actors == Paths \X SLOTS

Env == [ver : Nat, kind : {"none", "bare", "made"}, reading : {"up", "down", "interrupted", "unseen"}, mark : BOOLEAN]

Actor == [env : Env, conv : BOOLEAN, job : {"none", "create", "report"}, pc : {"off", "look", "saving", "wait"},
          seen : Nat, snap : Env, last : Seq(Env), failed : BOOLEAN]

JobPc == {"none", "sweep", "network", "volumes", "finish", "failed"}
Job == [pc : JobPc, sweep : 0 .. SWEEPS]

SomePath == CHOOSE p \in Paths : TRUE

CallPc == {"done", "clash", "pending", "new", "insert", "save", "add", "take"}
Call == [pc : CallPc, kind : {"wire", "remove"}, path : Paths \cup {SomePath}, copy : SUBSET Paths, env : Env]

Live(a) == acts[a].pc # "off"
OpenCall(c) == ~At(c, "done")

-----------------------------------------------------------------------------
(* First layer: what the pieces are, and what a crash leaves of them. *)

Typed ==
  /\ up \in BOOLEAN /\ byId \in [Paths -> 0 .. 2] /\ acts \in [Actors -> Actor]
  /\ index \in SUBSET Paths /\ removing \in SUBSET Paths
  /\ db \in [Paths -> Env] /\ jobs \in [Paths -> Job]
  /\ docker \in [Labels -> SUBSET (Containers \cup {"network", "volume"})]
  /\ calls \in [Callers -> Call]
  /\ disputed \in SUBSET Paths /\ strays \in SUBSET Paths /\ gone \in SUBSET Paths
  /\ asked \in SUBSET Paths /\ unwatched \in SUBSET Paths

\* An actor's slot is used or free; what is being saved, or is saved, is created.
Slotted ==
  /\ \A a \in Actors : /\ acts[a].pc = "off" => acts[a] = NoActor
                       /\ acts[a].pc = "saving" => acts[a].snap.kind = "made"
  /\ \A p \in Paths : db[p].kind # "bare" /\ ~db[p].mark
  /\ \A c \in Callers : OpenCall(c) => Path(c) \in Paths
  /\ \A c \in Callers : calls[c].env.kind # "bare" /\ ~calls[c].env.mark
  /\ \A p \in Paths : Known(p) => Live(Act(p))

\* Nothing in memory outlives fghjd.
Stopped ==
  ~up => /\ \A p \in Paths : byId[p] = 0 /\ jobs[p].pc = "none"
         /\ \A a \in Actors : acts[a] = NoActor
         /\ \A c \in Callers : calls[c].pc = "done"

TypeInv == Typed /\ Slotted /\ Stopped

-----------------------------------------------------------------------------
(* Second layer: what is believed of a container that went unseen, at every *)
(* place the belief passes through, and where marks can be.                 *)

Owns(e) == e.kind = "made" => e.reading # "down"

BeliefInv ==
  /\ \A a \in Actors : acts[a].env.mark => a[1] \in asked
  /\ \A p \in unwatched : Owns(db[p])
  /\ \A a \in Actors : a[1] \in unwatched => Owns(acts[a].env) /\ (acts[a].pc = "saving" => Owns(acts[a].snap))
  /\ \A c \in Callers : At(c, "insert") /\ Path(c) \in unwatched => Owns(calls[c].env)

-----------------------------------------------------------------------------
(* Third layer: the requests under way against the maps and the two files. *)

Fights(p, q) == nesting_conflict(p, q) \/ SameLabel(p, q)

\* Requests that have not crossed are about different places.
Apart ==
  \A c, d \in Callers : c # d /\ OpenCall(c) /\ OpenCall(d) =>
    /\ Path(c) = Path(d) => Path(c) \in disputed
    /\ calls[c].kind = "wire" /\ calls[d].kind = "wire" /\ Fights(Path(c), Path(d)) =>
         Path(c) \in disputed /\ Path(d) \in disputed

Kinds ==
  \A c \in Callers : /\ calls[c].pc \in {"clash", "pending", "new", "insert"} => calls[c].kind = "wire"
                     /\ calls[c].pc \in {"add", "take"} => calls[c].kind = "remove"

\* What a wire has checked still holds when it acts on it.
WireSound ==
  \A c \in Callers : OpenCall(c) /\ calls[c].kind = "wire" /\ Path(c) \notin disputed =>
    /\ calls[c].pc \in {"pending", "new", "insert"} =>
         \A q \in Paths \ disputed : Known(q) => ~Fights(Path(c), q)
    /\ calls[c].pc \in {"new", "insert"} =>
         \A r \in removing \ disputed : Label[r] # Label[Path(c)]
    /\ At(c, "insert") => ~Known(Path(c))
    /\ At(c, "save") => Known(Path(c)) /\ Path(c) \notin removing /\ Path(c) \notin gone

RemoveSound ==
  \A c \in Callers : OpenCall(c) /\ calls[c].kind = "remove" /\ Path(c) \notin disputed =>
    /\ calls[c].pc \in {"add", "take"} => Known(Path(c))
    /\ At(c, "take") => Path(c) \in removing
    /\ At(c, "save") => Path(c) \in removing /\ ~Known(Path(c)) /\ jobs[Path(c)].pc = "none"

JobSound ==
  \A p \in Paths \ disputed : jobs[p].pc # "none" => p \in removing /\ p \notin index /\ ~Known(p)

\* The files against the maps, while fghjd runs.
Listed ==
  up => \A p \in index \ disputed :
          /\ p \notin removing => Known(p)
          /\ p \in removing =>
               \E c \in Callers : calls[c].kind = "remove" /\ Path(c) = p /\ calls[c].pc \in {"take", "save"}

\* A removal that finished before the next crash is off the index by then.
GoneListed == \A p \in (gone \cap index) \ disputed : p \in removing

GoneApart == \A p \in gone \ disputed, q \in Paths \ disputed : Known(q) /\ q # p => Label[p] # Label[q]

\* What a restart will wire does not fight, nor meets a removal.
Reloadable ==
  ~up => \A p \in index \ (removing \cup disputed) :
           /\ \A q \in index \ (removing \cup disputed) : ~Fights(p, q)
           /\ \A q \in (removing \cup gone) \ disputed : q # p => Label[q] # Label[p]

RequestInv ==
  /\ Apart /\ Kinds /\ WireSound /\ RemoveSound /\ JobSound /\ Listed /\ GoneListed /\ GoneApart /\ Reloadable
  /\ NoFight /\ TeardownAlone /\ RemovedStaysRemoved

-----------------------------------------------------------------------------
(* Fourth layer: who writes a store, and what of it is newer. *)

OneWriter ==
  \A a \in Actors : Live(a) /\ a[1] \notin disputed =>
    /\ \A b \in Actors : b[1] = a[1] /\ Live(b) => b = a
    /\ Known(a[1]) => byId[a[1]] = a[2]
    /\ db[a[1]].ver <= acts[a].env.ver
    /\ acts[a].pc = "saving" => db[a[1]].ver <= acts[a].snap.ver /\ acts[a].snap.ver <= acts[a].env.ver

Unwritten ==
  \A c \in Callers : At(c, "insert") /\ Path(c) \notin disputed =>
    /\ \A a \in Actors : a[1] = Path(c) => ~Live(a)
    /\ calls[c].env.ver = db[Path(c)].ver

Unstrayed ==
  \A a \in Actors : a[1] \notin disputed =>
    /\ acts[a].conv => byId[a[1]] = a[2]
    /\ acts[a].job # "none" => byId[a[1]] = a[2] \/ a[1] \in strays

WriterInv == OneWriter /\ Unwritten /\ Unstrayed

-----------------------------------------------------------------------------
(* Last layer: what a teardown that nobody disturbs has left of Docker's objects. *)

Undisturbed(p) == {q \in Paths : Label[q] = Label[p]} \cap (disputed \cup strays) = {}

SweptInv ==
  \A p \in Paths : Undisturbed(p) =>
    /\ jobs[p].pc = "network" => Of(p) \cap Containers = {}
    /\ jobs[p].pc = "volumes" => Of(p) \subseteq {"volume"}
    /\ jobs[p].pc = "finish" => Of(p) = {}
    /\ p \in gone \ removing => Of(p) = {}
-----------------------------------------------------------------------------
(* The pieces' types, once. *)

LEMMA PieceTypes ==
  /\ NoEnv \in Env /\ NoActor \in Actor /\ NoJob \in Job /\ NewJob \in Job /\ NoCall \in Call
  /\ NoActor.pc = "off" /\ NoActor.env = NoEnv /\ ~NoActor.conv /\ NoActor.job = "none" /\ NoEnv.kind = "none" /\ ~NoEnv.mark
  /\ NoCall.pc = "done" /\ NoCall.env = NoEnv /\ NoCall.kind = "wire"
<1>1. NoEnv \in Env /\ NoEnv.kind = "none" /\ ~NoEnv.mark
  BY DEF NoEnv, Env
<1>2. NoActor \in Actor /\ NoActor.pc = "off" /\ NoActor.env = NoEnv /\ ~NoActor.conv /\ NoActor.job = "none"
  BY <1>1 DEF NoActor, Actor
<1>3. NoJob \in Job /\ NewJob \in Job
  BY DEF NoJob, NewJob, Job, JobPc, SWEEPS
<1>4. NoCall \in Call /\ NoCall.pc = "done" /\ NoCall.env = NoEnv /\ NoCall.kind = "wire"
  BY <1>1 DEF NoCall, Call, CallPc, SomePath
<1> QED BY <1>1, <1>2, <1>3, <1>4

LEMMA ActorTuples ==
  /\ \A a \in Actors : a[1] \in Paths /\ a[2] \in SLOTS /\ a = <<a[1], a[2]>>
  /\ \A p \in Paths, s \in SLOTS : <<p, s>> \in Actors /\ <<p, s>>[1] = p /\ <<p, s>>[2] = s
BY DEF Actors

LEMMA ActOfKnown ==
  ASSUME Typed, NEW p \in Paths, Known(p)
  PROVE  Act(p) \in Actors /\ Act(p)[1] = p /\ Act(p)[2] = byId[p] /\ byId[p] \in SLOTS
<1>1. byId[p] \in SLOTS
  BY DEF Typed, Known, SLOTS
<1> QED BY <1>1, ActorTuples DEF Act

LEMMA LabelOfPath == \A p \in Paths : Label[p] \in Labels
BY DEF Labels

\* What is read back of a store is as much of a store's content as what is there.
LEMMA RehydrateType ==
  ASSUME Typed, NEW p \in Paths, NEW answers \in BOOLEAN
  PROVE  /\ rehydrate(p, answers) \in Env
         /\ rehydrate(p, answers).ver = db[p].ver /\ rehydrate(p, answers).mark = db[p].mark
         /\ rehydrate(p, answers).kind = db[p].kind
<1>1. db[p] \in Env
  BY DEF Typed
<1>2. settled(db[p].reading, Reading(p)) \in {"up", "down", "interrupted", "unseen"}
  BY DEF settled, Reading
<1> QED BY <1>1, <1>2 DEF rehydrate, Env

LEMMA SpawnedType ==
  ASSUME NEW env \in Env
  PROVE  Spawned(env) \in Actor /\ Spawned(env).pc = "look" /\ Spawned(env).env = env
         /\ Spawned(env).conv /\ Spawned(env).job = "none"
<1>1. NoActor \in Actor /\ NoActor.job = "none" /\ env.ver \in Nat
  BY PieceTypes DEF Env
<1> QED BY <1>1 DEF Spawned, Actor

LEMMA LookedType ==
  ASSUME NEW r \in Actor, r.pc # "off"
  PROVE  /\ Looked(r) \in Actor /\ Looked(r).pc # "off" /\ Looked(r).env = r.env
         /\ Looked(r).conv = r.conv /\ Looked(r).job = r.job
         /\ Looked(r).pc = "saving" => r.env.kind = "made" /\ Looked(r).snap = r.env
<1>1. r.env \in Env /\ <<r.env>> \in Seq(Env)
  BY DEF Actor
<1>2. CASE r.last # <<r.env>> /\ r.env.kind = "made"
  <2>1. Looked(r) = [r EXCEPT !.pc = "saving", !.snap = r.env]
    BY <1>2 DEF Looked
  <2> QED BY <1>1, <1>2, <2>1 DEF Actor
<1>3. CASE ~(r.last # <<r.env>> /\ r.env.kind = "made")
  <2>1. Looked(r) = [r EXCEPT !.pc = "wait", !.last = <<r.env>>]
    BY <1>3 DEF Looked
  <2> QED BY <1>1, <1>3, <2>1 DEF Actor
<1> QED BY <1>2, <1>3

-----------------------------------------------------------------------------
(* The steps, by what they leave alone. *)

PersonalStep(a) == PersistStep(a) \/ ActorStep(a) \/ SaveFails(a)

\* A step of the actor in slot a: its record becomes new.
Moves(a, new) ==
  /\ Live(a) /\ new \in Actor /\ acts' = [acts EXCEPT ![a] = new]
  /\ new.pc = "off" => new = NoActor /\ byId[a[1]] # a[2] /\ acts[a].pc = "wait"
  /\ new.pc = "saving" => \/ acts[a].pc = "saving" /\ new.snap = acts[a].snap
                          \/ new.snap.kind = "made" /\ new.snap = new.env /\ new.env = acts[a].env
  /\ new.conv => acts[a].conv
  /\ new.job # "none" => acts[a].conv \/ acts[a].job # "none"
  /\ new.pc # "off" => acts[a].env.ver <= new.env.ver
  /\ new.env.mark => acts[a].env.mark \/ a[1] \in asked'
  /\ \/ Owns(acts[a].env) => Owns(new.env)
     \/ unwatched' = unwatched \ {a[1]}

LEMMA MovesActs ==
  ASSUME Typed, NEW a \in Actors, NEW new, Moves(a, new)
  PROVE  /\ acts' \in [Actors -> Actor] /\ acts'[a] = new
         /\ \A b \in Actors : b # a => acts'[b] = acts[b]
BY DEF Typed, Moves

\* What the actors' steps leave alone.
ActorsOnly ==
  UNCHANGED <<up, byId, index, removing, calls, jobs, disputed, strays, gone>>

LEMMA PersonalMoves ==
  ASSUME TypeInv, NEW a \in Actors, PersonalStep(a)
  PROVE  /\ ActorsOnly /\ UNCHANGED asked
         /\ unwatched' = unwatched \/ unwatched' = unwatched \ {a[1]}
         /\ \E new \in Actor : Moves(a, new)
<1> DEFINE r == acts[a]
<1>1. r \in Actor /\ (r.pc = "off" => r = NoActor) /\ r.env \in Env /\ r.snap \in Env
  BY DEF TypeInv, Typed, Slotted, Actor
<1>2. CASE SpawnAction(a)
  <2> DEFINE new == [r EXCEPT !.job = "create"]
  <2>1. acts' = [acts EXCEPT ![a] = new]
    BY <1>2 DEF SpawnAction
  <2>2. r.pc # "off" /\ r.conv
    BY <1>1, <1>2, PieceTypes DEF SpawnAction
  <2>3. new \in Actor /\ new.pc = r.pc /\ new.env = r.env /\ new.snap = r.snap /\ new.conv = r.conv /\ new.job = "create"
    BY <1>1 DEF Actor
  <2> HIDE DEF new
  <2>4. Moves(a, new)
    BY <1>1, <2>1, <2>2, <2>3 DEF Moves, Live, Env, Owns
  <2> QED BY <1>2, <2>3, <2>4 DEF SpawnAction, ActorsOnly, requestVars, ghosts
<1>3. CASE CreateContainer(a)
  <2> DEFINE new == [r EXCEPT !.job = "report"]
  <2>1. acts' = [acts EXCEPT ![a] = new]
    BY <1>3 DEF CreateContainer
  <2>2. r.pc # "off" /\ r.job # "none"
    BY <1>1, <1>3, PieceTypes DEF CreateContainer
  <2>3. new \in Actor /\ new.pc = r.pc /\ new.env = r.env /\ new.snap = r.snap /\ new.conv = r.conv /\ new.job = "report"
    BY <1>1 DEF Actor
  <2> HIDE DEF new
  <2>4. Moves(a, new)
    BY <1>1, <2>1, <2>2, <2>3 DEF Moves, Live, Env, Owns
  <2> QED BY <1>3, <2>3, <2>4 DEF CreateContainer, ActorsOnly, requestVars, ghosts
<1>4. CASE Report(a)
  <2> DEFINE e == [ver |-> r.env.ver + 1, kind |-> "made", reading |-> Reading(a[1]), mark |-> FALSE]
             new == [r EXCEPT !.job = "none", !.env = e]
  <2>1. acts' = [acts EXCEPT ![a] = new]
    BY <1>4 DEF Report
  <2>2. r.pc # "off"
    BY <1>1, <1>4, PieceTypes DEF Report
  <2>3. e \in Env /\ r.env.ver <= e.ver /\ ~e.mark
    BY <1>1 DEF Env, Reading
  <2>4. new \in Actor /\ new.pc = r.pc /\ new.env = e /\ new.snap = r.snap /\ new.conv = r.conv /\ new.job = "none"
    BY <1>1, <2>3 DEF Actor
  <2> HIDE DEF new, e
  <2>5. Moves(a, new)
    BY <1>1, <1>4, <2>1, <2>2, <2>3, <2>4 DEF Moves, Live, Report
  <2> QED BY <1>4, <2>4, <2>5 DEF Report, ActorsOnly, requestVars, ghosts
<1>5. CASE Look(a)
  <2> DEFINE new == Looked(r)
  <2>1. acts' = [acts EXCEPT ![a] = new] /\ r.pc = "look"
    BY <1>5 DEF Look
  <2>2. /\ new \in Actor /\ new.pc # "off" /\ new.env = r.env /\ new.conv = r.conv /\ new.job = r.job
         /\ (new.pc = "saving" => r.env.kind = "made" /\ new.snap = r.env)
    BY <1>1, <2>1, LookedType
  <2> HIDE DEF new
  <2>3. Moves(a, new)
    BY <1>1, <2>1, <2>2 DEF Moves, Live, Env, Owns
  <2> QED BY <1>5, <2>3 DEF Look, ActorsOnly, requestVars, ghosts, Moves
<1>6. CASE save_env(a)
  <2> DEFINE new == [r EXCEPT !.pc = "wait", !.last = <<r.snap>>, !.failed = FALSE, !.snap = NoEnv]
  <2>1. acts' = [acts EXCEPT ![a] = new] /\ r.pc = "saving"
    BY <1>6 DEF save_env
  <2>2. <<r.snap>> \in Seq(Env) /\ NoEnv \in Env
    BY <1>1, PieceTypes
  <2>3. new \in Actor /\ new.pc = "wait" /\ new.env = r.env /\ new.conv = r.conv /\ new.job = r.job
    BY <1>1, <2>2 DEF Actor
  <2> HIDE DEF new
  <2>4. Moves(a, new)
    BY <1>1, <2>1, <2>3 DEF Moves, Live, Env, Owns
  <2> QED BY <1>6, <2>3, <2>4 DEF save_env, ActorsOnly, requestVars, ghosts
<1>7. CASE SaveFails(a)
  <2> DEFINE new == [r EXCEPT !.pc = "wait", !.failed = TRUE, !.snap = NoEnv]
  <2>1. acts' = [acts EXCEPT ![a] = new] /\ r.pc = "saving"
    BY <1>7 DEF SaveFails
  <2>3. new \in Actor /\ new.pc = "wait" /\ new.env = r.env /\ new.conv = r.conv /\ new.job = r.job
    BY <1>1, PieceTypes DEF Actor
  <2> HIDE DEF new
  <2>4. Moves(a, new)
    BY <1>1, <2>1, <2>3 DEF Moves, Live, Env, Owns
  <2> QED BY <1>7, <2>3, <2>4 DEF SaveFails, ActorsOnly, requestVars, ghosts
<1>8. CASE Wake(a)
  <2> DEFINE old == [r EXCEPT !.seen = r.env.ver]
             new == Looked(old)
  <2>1. acts' = [acts EXCEPT ![a] = new] /\ r.pc = "wait"
    BY <1>8 DEF Wake
  <2>2. old \in Actor /\ old.pc = "wait" /\ old.env = r.env /\ old.conv = r.conv /\ old.job = r.job
    BY <1>1, <2>1 DEF Actor, Env
  <2>3. /\ new \in Actor /\ new.pc # "off" /\ new.env = r.env /\ new.conv = r.conv /\ new.job = r.job
         /\ (new.pc = "saving" => r.env.kind = "made" /\ new.snap = r.env)
    <3> HIDE DEF old
    <3> QED BY <2>1, <2>2, LookedType
  <2> HIDE DEF new
  <2>4. Moves(a, new)
    BY <1>1, <2>1, <2>3 DEF Moves, Live, Env, Owns
  <2> QED BY <1>8, <2>4 DEF Wake, ActorsOnly, requestVars, ghosts, Moves
<1>9. CASE PersistEnds(a)
  <2>1. Moves(a, NoActor)
    BY <1>1, <1>9, PieceTypes DEF PersistEnds, Closed, Moves, Live, Owns
  <2> QED BY <1>9, <2>1 DEF PersistEnds, ActorsOnly, requestVars, ghosts, Moves
<1> QED BY <1>2, <1>3, <1>4, <1>5, <1>6, <1>7, <1>8, <1>9 DEF PersonalStep, PersistStep, ActorStep

\* What is published on an actor's own account: a request's mark, or a reading.
LEMMA PublicMoves ==
  ASSUME TypeInv, NEW p \in Paths, Request(p) \/ Observe(p)
  PROVE  /\ ActorsOnly /\ UNCHANGED <<db, docker>> /\ Known(p)
         /\ asked \subseteq asked' /\ asked' \subseteq asked \cup {p}
         /\ unwatched' = unwatched \/ unwatched' = unwatched \ {p}
         /\ \E new \in Actor : /\ Moves(Act(p), new) /\ new.env.ver = acts[Act(p)].env.ver + 1
                               /\ new.pc = acts[Act(p)].pc /\ new.snap = acts[Act(p)].snap
<1> DEFINE a == Act(p)
           r == acts[a]
<1>1. Known(p) /\ a \in Actors /\ a[1] = p
  BY ActOfKnown DEF Request, Observe, TypeInv
<1>2. r \in Actor /\ r.pc # "off" /\ r.env \in Env
  BY <1>1 DEF TypeInv, Typed, Slotted, Actor, Live
<1>3. CASE Request(p)
  <2> DEFINE e == [r.env EXCEPT !.mark = TRUE, !.kind = IF @ = "none" THEN "bare" ELSE @]
             f == [e EXCEPT !.ver = @ + 1]
             new == [r EXCEPT !.env = f]
  <2>1. acts' = [acts EXCEPT ![a] = new] /\ asked' = asked \cup {p}
    BY <1>3 DEF Request, Publish
  <2>2. f \in Env /\ f.ver = r.env.ver + 1 /\ (f.kind = "made" => r.env.kind = "made") /\ f.reading = r.env.reading
    <3>1. e \in Env /\ e.ver = r.env.ver /\ (e.kind = "made" => r.env.kind = "made") /\ e.reading = r.env.reading
      BY <1>2 DEF Env
    <3> HIDE DEF e
    <3> QED BY <3>1 DEF Env
  <2>3. new \in Actor /\ new.pc = r.pc /\ new.env = f /\ new.snap = r.snap /\ new.conv = r.conv /\ new.job = r.job
    BY <1>2, <2>2 DEF Actor
  <2>4. r.env.ver <= f.ver
    BY <1>2, <2>2 DEF Env
  <2> HIDE DEF new
  <2>5. Moves(a, new)
    BY <1>1, <1>2, <2>1, <2>2, <2>3, <2>4 DEF Moves, Live, Owns
  <2> QED BY <1>1, <1>3, <2>1, <2>2, <2>3, <2>5 DEF Request, ActorsOnly, requestVars
<1>4. CASE Observe(p)
  <2>1. PICK reading \in {"up", "down", "interrupted", "unseen"} :
          acts' = [acts EXCEPT ![a].env = [[r.env EXCEPT !.reading = reading] EXCEPT !.ver = @ + 1]]
    <3> DEFINE watched == r.env.reading = "up"
               reading == IF r.env.reading = "unseen" THEN settled(r.env.reading, Reading(p))
                          ELSE IF Reading(p) = "down" /\ ~watched THEN r.env.reading ELSE Reading(p)
    <3>1. reading \in {"up", "down", "interrupted", "unseen"}
      BY <1>2 DEF Env, settled, Reading
    <3>2. acts' = [acts EXCEPT ![a].env = [[r.env EXCEPT !.reading = reading] EXCEPT !.ver = @ + 1]]
      BY <1>4 DEF Observe, Publish
    <3> QED BY <3>1, <3>2
  <2> DEFINE f == [[r.env EXCEPT !.reading = reading] EXCEPT !.ver = @ + 1]
             new == [r EXCEPT !.env = f]
  <2>2. acts' = [acts EXCEPT ![a] = new]
    BY <2>1
  <2>3. f \in Env /\ f.ver = r.env.ver + 1 /\ f.mark = r.env.mark
    <3> DEFINE e == [r.env EXCEPT !.reading = reading]
    <3>1. e \in Env /\ e.ver = r.env.ver /\ e.mark = r.env.mark
      BY <1>2 DEF Env
    <3> HIDE DEF e
    <3>2. [e EXCEPT !.ver = @ + 1] \in Env /\ [e EXCEPT !.ver = @ + 1].ver = e.ver + 1 /\ [e EXCEPT !.ver = @ + 1].mark = e.mark
      BY <3>1 DEF Env
    <3> USE DEF e
    <3> QED BY <3>1, <3>2
  <2>4. new \in Actor /\ new.pc = r.pc /\ new.env = f /\ new.snap = r.snap /\ new.conv = r.conv /\ new.job = r.job
    BY <1>2, <2>3 DEF Actor
  <2>5. r.env.ver <= f.ver
    BY <1>2, <2>3 DEF Env
  <2>6. unwatched' = unwatched \ {p}
    BY <1>4 DEF Observe
  <2> HIDE DEF new
  <2>7. Moves(a, new)
    BY <1>1, <1>2, <2>2, <2>3, <2>4, <2>5, <2>6 DEF Moves, Live
  <2> QED BY <1>1, <1>4, <2>3, <2>4, <2>6, <2>7 DEF Observe, ActorsOnly, requestVars
<1> QED BY <1>3, <1>4

\* How a request's own steps change its record.
LEMMA GotoCall ==
  ASSUME Typed, NEW c \in Callers, NEW pc \in CallPc, Goto(c, pc)
  PROVE  /\ calls' \in [Callers -> Call] /\ \A d \in Callers : d # c => calls'[d] = calls[d]
         /\ calls'[c].pc = pc
         /\ pc = "done" => calls'[c] = NoCall
         /\ pc # "done" => /\ calls'[c].kind = calls[c].kind /\ calls'[c].path = calls[c].path
                           /\ calls'[c].env = calls[c].env /\ calls'[c].copy = calls[c].copy
<1>1. calls \in [Callers -> Call] /\ calls[c] \in Call
  BY DEF Typed
<1>2. CASE pc = "done"
  <2>1. calls' = [calls EXCEPT ![c] = NoCall]
    BY <1>2 DEF Goto
  <2> QED BY <1>1, <1>2, <2>1, PieceTypes
<1>3. CASE pc # "done"
  <2> DEFINE new == [calls[c] EXCEPT !.pc = pc]
  <2>1. calls' = [calls EXCEPT ![c] = new]
    BY <1>3 DEF Goto
  <2>2. /\ new \in Call /\ new.pc = pc /\ new.kind = calls[c].kind /\ new.path = calls[c].path
        /\ new.env = calls[c].env /\ new.copy = calls[c].copy
    BY <1>1 DEF Call
  <2> HIDE DEF new
  <2> QED BY <1>1, <1>3, <2>1, <2>2
<1> QED BY <1>2, <1>3

LEMMA OpenNew ==
  ASSUME Typed, NEW c \in Callers, NEW p \in Paths, NEW kind \in {"wire", "remove"}, NEW pc \in CallPc,
         Open(c, kind, p, pc)
  PROVE  /\ calls' \in [Callers -> Call] /\ \A d \in Callers : d # c => calls'[d] = calls[d]
         /\ calls'[c].pc = pc /\ calls'[c].kind = kind /\ calls'[c].path = p /\ calls'[c].env = NoEnv
<1> DEFINE new == [NoCall EXCEPT !.kind = kind, !.path = p, !.pc = pc]
<1>1. calls' = [calls EXCEPT ![c] = new]
  BY DEF Open
<1>2. new \in Call /\ new.pc = pc /\ new.kind = kind /\ new.path = p /\ new.env = NoEnv
  BY PieceTypes DEF Call
<1> HIDE DEF new
<1> QED BY <1>1, <1>2 DEF Typed

LEMMA LoadIndexCall ==
  ASSUME Typed, NEW c \in Callers, LoadIndex(c)
  PROVE  /\ calls' \in [Callers -> Call] /\ \A d \in Callers : d # c => calls'[d] = calls[d]
         /\ calls'[c].pc = "save" /\ calls'[c].kind = calls[c].kind /\ calls'[c].path = calls[c].path
         /\ calls'[c].env = NoEnv /\ calls'[c].copy = index
<1> DEFINE new == [calls[c] EXCEPT !.pc = "save", !.copy = index, !.env = NoEnv]
<1>1. calls[c] \in Call /\ calls \in [Callers -> Call] /\ index \in SUBSET Paths
  BY DEF Typed
<1>2. calls' = [calls EXCEPT ![c] = new]
  BY <1>1 DEF LoadIndex
<1>3. new \in Call /\ new.pc = "save" /\ new.kind = calls[c].kind /\ new.path = calls[c].path /\ new.env = NoEnv /\ new.copy = index
  BY <1>1, PieceTypes DEF Call, CallPc
<1> HIDE DEF new
<1> QED BY <1>1, <1>2, <1>3

\* New, when the folder is not wired: the store is read back.
LEMMA NewCall ==
  ASSUME Typed, NEW c \in Callers, NEW answers \in BOOLEAN, New(c, answers), ~Known(Path(c)), Path(c) \in Paths
  PROVE  /\ calls' \in [Callers -> Call] /\ \A d \in Callers : d # c => calls'[d] = calls[d]
         /\ calls'[c].pc = "insert" /\ calls'[c].kind = calls[c].kind /\ calls'[c].path = calls[c].path
         /\ calls'[c].env = rehydrate(Path(c), answers)
<1> DEFINE e == rehydrate(Path(c), answers)
           new == [calls[c] EXCEPT !.pc = "insert", !.env = e]
<1>1. calls[c] \in Call /\ calls \in [Callers -> Call] /\ e \in Env
  BY RehydrateType DEF Typed
<1> HIDE DEF e
<1>2. calls' = [calls EXCEPT ![c] = new]
  BY <1>1 DEF New, e
<1>3. new \in Call /\ new.pc = "insert" /\ new.kind = calls[c].kind /\ new.path = calls[c].path /\ new.env = e
  BY <1>1 DEF Call, CallPc
<1> HIDE DEF new
<1>4. calls'[c] = new
  BY <1>1, <1>2
<1> QED BY <1>1, <1>2, <1>3, <1>4 DEF e

\* A wire puts a new actor in a slot that is free.
LEMMA InsertActor ==
  ASSUME Typed, NEW c \in Callers, Insert(c), Path(c) \in Paths
  PROVE  \E s \in SLOTS :
           /\ acts[<<Path(c), s>>] = NoActor
           /\ byId' = [byId EXCEPT ![Path(c)] = s]
           /\ acts' = [acts EXCEPT ![<<Path(c), s>>] = Spawned(calls[c].env)]
<1> DEFINE s == CHOOSE s \in Free(Path(c)) : TRUE
<1>1. s \in Free(Path(c))
  BY DEF Insert
<1> QED BY <1>1 DEF Insert, Free

\* Taking a workspace off the maps stops its converge effect, and nothing else of its actor.
LEMMA TakenActors ==
  ASSUME Typed, NEW c \in Callers, Take(c), Path(c) \in Paths, NEW a \in Actors
  PROVE  /\ acts'[a].env = acts[a].env /\ acts'[a].pc = acts[a].pc /\ acts'[a].snap = acts[a].snap
         /\ acts'[a].job = acts[a].job
         /\ acts'[a].conv => acts[a].conv /\ ~(Known(Path(c)) /\ a = Act(Path(c)))
<1> DEFINE p == Path(c)
<1>1. CASE Known(p)
  <2> DEFINE e == Act(p)
             new == [acts[e] EXCEPT !.conv = FALSE]
  <2>1. e \in Actors /\ acts[e] \in Actor
    BY <1>1, ActOfKnown DEF Typed
  <2>2. acts' = [acts EXCEPT ![e] = new]
    BY <1>1 DEF Take
  <2>3. /\ new.env = acts[e].env /\ new.pc = acts[e].pc /\ new.snap = acts[e].snap /\ new.job = acts[e].job
        /\ ~new.conv
    BY <2>1 DEF Actor
  <2> HIDE DEF new
  <2>4. acts'[e] = new /\ (a # e => acts'[a] = acts[a])
    BY <2>1, <2>2 DEF Typed
  <2> QED BY <2>3, <2>4
<1>2. CASE ~Known(p)
  BY <1>2 DEF Take
<1> QED BY <1>1, <1>2

JobMove(p) == JobStep(p) \/ DiscardFails(p) \/ TeardownFails(p)

\* A teardown's own step: it gives up nothing of what it has done, and only Finish ends it.
LEMMA JobMoves ==
  ASSUME Typed, NEW p \in Paths, JobMove(p)
  PROVE  /\ UNCHANGED <<up, byId, acts, index, calls, db, disputed, strays, gone, asked, unwatched>>
         /\ jobs[p].pc # "none"
         /\ \E new \in Job : /\ jobs' = [jobs EXCEPT ![p] = new]
                             /\ \/ new.pc # "none" /\ removing' = removing
                                \/ new.pc = "none" /\ jobs[p].pc = "finish" /\ removing' = removing \ {p} /\ docker' = docker
         /\ \E S \in SUBSET docker[Label[p]] : docker' = [docker EXCEPT ![Label[p]] = S]
<1> DEFINE l == Label[p]
<1>1. jobs[p] \in Job /\ jobs \in [Paths -> Job] /\ l \in Labels /\ docker = [docker EXCEPT ![l] = docker[l]]
  BY LabelOfPath DEF Typed
<1>2. ASSUME NEW pc \in JobPc, Step(p, pc)
      PROVE  \E new \in Job : jobs' = [jobs EXCEPT ![p] = new] /\ new.pc = pc
  <2> DEFINE new == [jobs[p] EXCEPT !.pc = pc]
  <2>1. jobs' = [jobs EXCEPT ![p] = new] /\ new \in Job /\ new.pc = pc
    BY <1>1, <1>2 DEF Step, Job
  <2> QED BY <2>1
<1>3. ASSUME NEW n \in 0 .. SWEEPS, jobs' = [jobs EXCEPT ![p].sweep = n]
      PROVE  \E new \in Job : jobs' = [jobs EXCEPT ![p] = new] /\ new.pc = jobs[p].pc
  <2> DEFINE new == [jobs[p] EXCEPT !.sweep = n]
  <2>1. jobs' = [jobs EXCEPT ![p] = new] /\ new \in Job /\ new.pc = jobs[p].pc
    BY <1>1, <1>3 DEF Job
  <2> QED BY <2>1
<1>4. CASE Sweep(p)
  <2>1. CASE Step(p, "network") /\ UNCHANGED docker
    BY <1>1, <1>2, <1>4, <2>1 DEF Sweep, OnlyJob, ghosts, JobAt, JobPc
  <2>2. CASE Step(p, "failed") /\ UNCHANGED docker
    BY <1>1, <1>2, <1>4, <2>2 DEF Sweep, OnlyJob, ghosts, JobAt, JobPc
  <2>3. CASE /\ jobs[p].sweep < SWEEPS /\ docker' = [docker EXCEPT ![Label[p]] = @ \ Containers]
             /\ jobs' = [jobs EXCEPT ![p].sweep = @ + 1]
    <3>1. jobs[p].sweep + 1 \in 0 .. SWEEPS /\ jobs' = [jobs EXCEPT ![p].sweep = jobs[p].sweep + 1]
      BY <1>1, <2>3 DEF Job, SWEEPS
    <3>2. \E new \in Job : jobs' = [jobs EXCEPT ![p] = new] /\ new.pc = "sweep"
      BY <1>3, <1>4, <3>1 DEF Sweep, JobAt
    <3> QED BY <1>1, <1>4, <2>3, <3>2 DEF Sweep, OnlyJob, ghosts, JobAt
  <2> QED BY <1>4, <2>1, <2>2, <2>3 DEF Sweep
<1>5. CASE DiscardFails(p)
  <2>1. PICK n \in {jobs[p].sweep + 1, SWEEPS} : jobs' = [jobs EXCEPT ![p].sweep = n]
    BY <1>5 DEF DiscardFails
  <2>2. n \in 0 .. SWEEPS
    BY <1>1, <1>5, <2>1 DEF DiscardFails, Job, SWEEPS
  <2>3. \E new \in Job : jobs' = [jobs EXCEPT ![p] = new] /\ new.pc = "sweep"
    BY <1>3, <1>5, <2>1, <2>2 DEF DiscardFails, JobAt
  <2> QED BY <1>1, <1>5, <2>3 DEF DiscardFails, OnlyJob, ghosts, JobAt
<1>6. CASE RemoveNetwork(p)
  <2>1. PICK pc \in {"volumes", "failed"} : Step(p, pc)
    BY <1>6 DEF RemoveNetwork
  <2>2. \E S \in SUBSET docker[l] : docker' = [docker EXCEPT ![l] = S]
    BY <1>6 DEF RemoveNetwork
  <2> QED BY <1>1, <1>2, <1>6, <2>1, <2>2 DEF RemoveNetwork, OnlyJob, ghosts, JobAt, JobPc
<1>7. CASE RemoveVolumes(p)
  <2>1. PICK pc \in {"finish", "failed"} : Step(p, pc)
    BY <1>7 DEF RemoveVolumes
  <2>2. \E S \in SUBSET docker[l] : docker' = [docker EXCEPT ![l] = S]
    BY <1>7 DEF RemoveVolumes
  <2> QED BY <1>1, <1>2, <1>7, <2>1, <2>2 DEF RemoveVolumes, OnlyJob, ghosts, JobAt, JobPc
<1>8. CASE Finish(p)
  BY <1>1, <1>2, <1>8 DEF Finish, OnlyJob, ghosts, JobAt, JobPc
<1>9. CASE TeardownFails(p)
  BY <1>1, <1>2, <1>9 DEF TeardownFails, OnlyJob, ghosts, JobPc
<1> QED BY <1>4, <1>5, <1>6, <1>7, <1>8, <1>9 DEF JobMove, JobStep

-----------------------------------------------------------------------------
LEMMA TypeInit == Init => TypeInv
<1> SUFFICES ASSUME Init PROVE TypeInv
  OBVIOUS
<1>1. \A p \in Paths : AtFirst(p) \in Env /\ AtFirst(p).kind # "bare" /\ ~AtFirst(p).mark
  BY PieceTypes DEF AtFirst, Env
<1>2. \A p \in Paths : /\ Settled(AtFirst(p)) \in Actor /\ Settled(AtFirst(p)).pc = "wait"
                       /\ Settled(AtFirst(p)).env = AtFirst(p)
  <2> TAKE p \in Paths
  <2> DEFINE e == AtFirst(p)
  <2>1. e \in Env /\ <<e>> \in Seq(Env) /\ e.ver \in Nat
    BY <1>1 DEF Env
  <2> HIDE DEF e
  <2>2. Settled(e) \in Actor /\ Settled(e).pc = "wait" /\ Settled(e).env = e
    BY <2>1, PieceTypes DEF Settled, Actor
  <2> QED BY <2>2 DEF e
<1>3. \A a \in Actors : acts[a] \in Actor /\ (acts[a].pc = "off" => acts[a] = NoActor) /\ acts[a].pc # "saving"
  BY <1>2, PieceTypes, ActorTuples DEF Init, Actors
<1>4. Typed
  <2>1. acts \in [Actors -> Actor]
    BY <1>3 DEF Init, Actors
  <2>2. byId \in [Paths -> 0 .. 2]
    BY DEF Init
  <2>3. db \in [Paths -> Env] /\ jobs \in [Paths -> Job] /\ calls \in [Callers -> Call]
    BY <1>1, PieceTypes DEF Init
  <2>4. docker \in [Labels -> SUBSET (Containers \cup {"network", "volume"})]
    BY DEF Init
  <2> QED BY <2>1, <2>2, <2>3, <2>4, PathsAssumption DEF Init, Typed
<1>5. \A p \in Paths : Known(p) => Live(Act(p))
  <2> SUFFICES ASSUME NEW p \in Paths, Known(p) PROVE Live(Act(p))
    OBVIOUS
  <2>1. p \in Wired /\ byId[p] = 1 /\ <<p, 1>> \in Paths \X SLOTS
    BY DEF Init, Known, SLOTS
  <2>2. acts[<<p, 1>>] = Settled(AtFirst(p))
    BY <2>1 DEF Init
  <2> QED BY <1>2, <2>1, <2>2 DEF Live, Act
<1>6. Slotted
  BY <1>1, <1>3, <1>5, PieceTypes DEF Init, Slotted, OpenCall, At
<1> QED BY <1>4, <1>6 DEF TypeInv, Stopped, Init

LEMMA TypeStep == TypeInv /\ [Next]_vars => TypeInv'
<1> SUFFICES ASSUME TypeInv, [Next]_vars PROVE TypeInv'
  OBVIOUS
<1>0. Typed /\ Slotted /\ Stopped
  BY DEF TypeInv
<1>1. ASSUME NEW c \in Callers, OpenCall(c)
      PROVE  up /\ Path(c) \in Paths /\ calls[c] \in Call
  BY <1>0, <1>1 DEF Slotted, Stopped, Typed, OpenCall, At
<1> DEFINE Fixed == UNCHANGED <<up, byId, acts, db, docker, asked, strays, gone, unwatched>>
\* A request's steps that touch no actor.
<1>2. ASSUME Fixed, up, index' \in SUBSET Paths, removing' \in SUBSET Paths, disputed' \in SUBSET Paths,
             jobs' \in [Paths -> Job], calls' \in [Callers -> Call],
             \A c \in Callers : /\ ~At(c, "done")' => calls'[c].path \in Paths
                                /\ calls'[c].env.kind # "bare" /\ ~calls'[c].env.mark
      PROVE  TypeInv'
  <2>1. Typed'
    BY <1>0, <1>2 DEF Typed
  <2>2. Slotted'
    BY <1>0, <1>2 DEF Slotted, OpenCall, At, Path, Known, Live, Act
  <2> QED BY <1>2, <2>1, <2>2 DEF TypeInv, Stopped
\* A request's step to another of its places.
<1>3. ASSUME NEW c \in Callers, OpenCall(c), NEW pc \in CallPc, Goto(c, pc)
      PROVE  /\ up /\ calls' \in [Callers -> Call]
             /\ \A d \in Callers : /\ ~At(d, "done")' => calls'[d].path \in Paths
                                   /\ calls'[d].env.kind # "bare" /\ ~calls'[d].env.mark
  BY <1>0, <1>1, <1>3, GotoCall, PieceTypes DEF Slotted, OpenCall, At, Path
<1>4. ASSUME NEW c \in Callers, Clash(c) \/ PendingRemoval(c)
      PROVE  TypeInv'
  <2>1. PICK pc \in CallPc : Goto(c, pc)
    BY <1>4 DEF Clash, PendingRemoval, CallPc
  <2>2. OpenCall(c) /\ Quiet /\ UNCHANGED <<index, removing, disputed>>
    BY <1>4 DEF Clash, PendingRemoval, OpenCall, At
  <2> QED BY <1>0, <1>2, <1>3, <2>1, <2>2 DEF Quiet, Typed
<1>5. ASSUME NEW c \in Callers, NEW answers \in BOOLEAN, New(c, answers)
      PROVE  TypeInv'
  <2>1. OpenCall(c) /\ Quiet /\ UNCHANGED <<index, removing>> /\ jobs' = jobs
    BY <1>5 DEF New, OpenCall, At, Quiet
  <2>2. up /\ Path(c) \in Paths
    BY <1>1, <2>1
  <2>3. disputed' \in SUBSET Paths
    BY <1>0, <1>5, <2>2 DEF New, Contended, Typed
  <2>4. CASE Known(Path(c))
    <3>1. Goto(c, "done") /\ "done" \in CallPc
      BY <1>5, <2>4 DEF New, CallPc
    <3> QED BY <1>0, <1>2, <1>3, <2>1, <2>2, <2>3, <3>1 DEF Quiet, Typed
  <2>5. CASE ~Known(Path(c))
    <3>1. /\ calls' \in [Callers -> Call] /\ \A d \in Callers : d # c => calls'[d] = calls[d]
          /\ calls'[c].path \in Paths /\ calls'[c].env = rehydrate(Path(c), answers)
      BY <1>0, <1>5, <2>2, <2>5, NewCall DEF Path
    <3>2. calls'[c].env.kind # "bare" /\ ~calls'[c].env.mark
      BY <1>0, <2>2, <3>1, RehydrateType DEF Slotted
    <3>3. \A d \in Callers : /\ ~At(d, "done")' => calls'[d].path \in Paths
                             /\ calls'[d].env.kind # "bare" /\ ~calls'[d].env.mark
      BY <1>0, <3>1, <3>2 DEF Slotted, OpenCall, At, Path
    <3> QED BY <1>0, <1>2, <2>1, <2>2, <2>3, <3>1, <3>3 DEF Quiet, Typed
  <2> QED BY <2>4, <2>5
<1>6. ASSUME NEW c \in Callers, SaveIndex(c)
      PROVE  TypeInv'
  <2>1. OpenCall(c) /\ Goto(c, "done") /\ "done" \in CallPc
    BY <1>6 DEF SaveIndex, OpenCall, At, CallPc
  <2>2. Path(c) \in Paths /\ calls[c].copy \in SUBSET Paths
    BY <1>1, <2>1 DEF Call
  <2>3. index' \in SUBSET Paths /\ disputed' \in SUBSET Paths
    BY <1>0, <1>6, <2>2 DEF SaveIndex, Typed
  <2>4. jobs' \in [Paths -> Job]
    BY <1>0, <1>6, <2>2, PieceTypes DEF SaveIndex, spawn_teardown, Typed
  <2> QED BY <1>0, <1>2, <1>3, <1>6, <2>1, <2>3, <2>4 DEF SaveIndex, Typed
<1>7. ASSUME NEW c \in Callers, NEW p \in Paths, Resolve(c, p) \/ Remove(c, p)
      PROVE  TypeInv'
  <2>1. up /\ At(c, "done") /\ Fixed /\ UNCHANGED <<index, removing>>
    BY <1>7 DEF Resolve, Remove, Asked
  <2>2. disputed' \in SUBSET Paths
    <3>1. \A d \in Callers : ~At(d, "done") => Path(d) \in Paths
      BY <1>1 DEF OpenCall
    <3>2. disputed' = disputed \cup UNION {{p, Path(d)} : d \in {x \in Callers : Crosses(c, x, "wire", p)}}
          \/ disputed' = disputed \cup UNION {{p, Path(d)} : d \in {x \in Callers : Crosses(c, x, "remove", p)}}
      BY <1>7 DEF Resolve, Remove, Asked
    <3> QED BY <1>0, <3>1, <3>2 DEF Typed, Crosses
  <2>3. jobs' \in [Paths -> Job]
    BY <1>0, <1>7, PieceTypes DEF Resolve, Remove, spawn_teardown, Typed
  <2>4. \/ calls' = calls
        \/ \E kind \in {"wire", "remove"}, pc \in CallPc : Open(c, kind, p, pc)
    BY <1>7 DEF Resolve, Remove, CallPc
  <2>5. CASE calls' = calls
    BY <1>0, <1>2, <2>1, <2>2, <2>3, <2>5 DEF Typed, Slotted, OpenCall, At, Path
  <2>6. CASE \E kind \in {"wire", "remove"}, pc \in CallPc : Open(c, kind, p, pc)
    <3>1. PICK kind \in {"wire", "remove"}, pc \in CallPc : Open(c, kind, p, pc)
      BY <2>6
    <3>2. /\ calls' \in [Callers -> Call] /\ \A d \in Callers : d # c => calls'[d] = calls[d]
          /\ calls'[c].path = p /\ calls'[c].env = NoEnv
      BY <1>0, <3>1, OpenNew
    <3>3. \A d \in Callers : /\ ~At(d, "done")' => calls'[d].path \in Paths
                             /\ calls'[d].env.kind # "bare" /\ ~calls'[d].env.mark
      BY <1>0, <3>2, PieceTypes DEF Slotted, OpenCall, At, Path
    <3> QED BY <1>0, <1>2, <2>1, <2>2, <2>3, <3>2, <3>3 DEF Typed
  <2> QED BY <2>4, <2>5, <2>6
<1>8. ASSUME NEW c \in Callers, Add(c)
      PROVE  TypeInv'
  <2>1. OpenCall(c) /\ Goto(c, "take") /\ "take" \in CallPc
    BY <1>8 DEF Add, OpenCall, At, CallPc
  <2>2. /\ up /\ calls' \in [Callers -> Call]
        /\ \A d \in Callers : /\ ~At(d, "done")' => calls'[d].path \in Paths
                              /\ calls'[d].env.kind # "bare" /\ ~calls'[d].env.mark
    BY <1>3, <2>1
  <2>3. removing' \in SUBSET Paths /\ gone' \in SUBSET Paths
    BY <1>0, <1>1, <1>8, <2>1 DEF Add, Typed
  <2>4. Typed'
    BY <1>0, <1>8, <2>2, <2>3 DEF Typed, Add
  <2>5. Slotted'
    BY <1>0, <1>8, <2>2 DEF Slotted, Add, OpenCall, At, Path, Known, Live, Act
  <2> QED BY <1>8, <2>2, <2>4, <2>5 DEF TypeInv, Stopped, Add
<1>9. ASSUME NEW c \in Callers, Take(c)
      PROVE  TypeInv'
  <2> DEFINE p == Path(c)
  <2>1. up /\ p \in Paths /\ calls[c] \in Call /\ up' = up
    BY <1>1, <1>9 DEF Take, OpenCall, At
  <2>2. /\ calls' \in [Callers -> Call] /\ \A d \in Callers : d # c => calls'[d] = calls[d]
        /\ calls'[c].path = p /\ calls'[c].env = NoEnv
    BY <1>0, <1>9, LoadIndexCall DEF Take, Path
  <2>3. \A d \in Callers : /\ ~At(d, "done")' => calls'[d].path \in Paths
                           /\ calls'[d].env.kind # "bare" /\ ~calls'[d].env.mark
    BY <1>0, <2>1, <2>2, PieceTypes DEF Slotted, OpenCall, At, Path
  <2>4. /\ acts' \in [Actors -> Actor]
        /\ \A a \in Actors : acts'[a].pc = acts[a].pc /\ acts'[a].snap = acts[a].snap /\ (acts[a].pc = "off" => acts'[a] = acts[a])
    <3>1. CASE Known(p)
      <4> DEFINE a == Act(p)
                 new == [acts[a] EXCEPT !.conv = FALSE]
      <4>1. a \in Actors /\ acts[a] \in Actor /\ Live(a)
        BY <1>0, <2>1, <3>1, ActOfKnown DEF Typed, Slotted
      <4>2. acts' = [acts EXCEPT ![a] = new]
        BY <1>9, <3>1 DEF Take
      <4>3. new \in Actor /\ new.pc = acts[a].pc /\ new.snap = acts[a].snap
        BY <4>1 DEF Actor
      <4> HIDE DEF new, a
      <4> QED BY <1>0, <4>1, <4>2, <4>3 DEF Typed, Live
    <3>2. CASE ~Known(p)
      BY <1>0, <1>9, <3>2 DEF Take, Typed
    <3> QED BY <3>1, <3>2
  <2>5. byId' = [byId EXCEPT ![p] = 0] /\ byId' \in [Paths -> 0 .. 2] /\ strays' \in SUBSET Paths
    BY <1>0, <1>9, <2>1 DEF Take, Typed
  <2>6. Typed'
    BY <1>0, <1>9, <2>2, <2>4, <2>5 DEF Typed, Take
  <2>7. \A q \in Paths : Known(q)' => Live(Act(q))'
    <3> SUFFICES ASSUME NEW q \in Paths, Known(q)' PROVE Live(Act(q))'
      OBVIOUS
    <3>1. Known(q) /\ byId'[q] = byId[q]
      BY <1>0, <2>5 DEF Known, Typed
    <3>2. Act(q) \in Actors /\ Live(Act(q))
      BY <1>0, <3>1, ActOfKnown DEF Slotted
    <3> QED BY <2>4, <3>1, <3>2 DEF Live, Act
  <2>8. Slotted'
    BY <1>0, <1>9, <2>3, <2>4, <2>7 DEF Slotted, Take, OpenCall, Path
  <2> QED BY <2>1, <2>6, <2>8 DEF TypeInv, Stopped
<1>10. ASSUME NEW c \in Callers, Insert(c)
       PROVE  TypeInv'
  <2> DEFINE p == Path(c)
  <2>1. up /\ p \in Paths /\ calls[c] \in Call /\ up' = up
    BY <1>1, <1>10 DEF Insert, OpenCall, At
  <2>2. /\ calls' \in [Callers -> Call] /\ \A d \in Callers : d # c => calls'[d] = calls[d]
        /\ calls'[c].path = p /\ calls'[c].env = NoEnv
    BY <1>0, <1>10, LoadIndexCall DEF Insert, Path
  <2>3. \A d \in Callers : /\ ~At(d, "done")' => calls'[d].path \in Paths
                           /\ calls'[d].env.kind # "bare" /\ ~calls'[d].env.mark
    BY <1>0, <2>1, <2>2, PieceTypes DEF Slotted, OpenCall, At, Path
  <2>4. PICK s \in SLOTS : /\ byId' = [byId EXCEPT ![p] = s]
                           /\ acts' = [acts EXCEPT ![<<p, s>>] = Spawned(calls[c].env)]
    BY <1>0, <1>10, <2>1, InsertActor
  <2>5. calls[c].env \in Env
    BY <2>1 DEF Call
  <2>6. <<p, s>> \in Actors /\ Spawned(calls[c].env) \in Actor /\ Spawned(calls[c].env).pc = "look"
    BY <2>1, <2>5, SpawnedType, ActorTuples
  <2>7. /\ acts' \in [Actors -> Actor] /\ acts'[<<p, s>>].pc = "look"
        /\ \A a \in Actors : a # <<p, s>> => acts'[a] = acts[a]
    BY <1>0, <2>4, <2>6 DEF Typed
  <2>8. byId' \in [Paths -> 0 .. 2]
    <3>1. s \in 0 .. 2
      BY DEF SLOTS
    <3> QED BY <1>0, <2>4, <3>1 DEF Typed
  <2>9. gone' \in SUBSET Paths /\ disputed' \in SUBSET Paths
    BY <1>0, <1>10, <2>1 DEF Insert, Contended, Typed
  <2>10. Typed'
    BY <1>0, <1>10, <2>2, <2>7, <2>8, <2>9 DEF Typed, Insert
  <2>11. \A q \in Paths : Known(q)' => Live(Act(q))'
    <3> SUFFICES ASSUME NEW q \in Paths, Known(q)' PROVE Live(Act(q))'
      OBVIOUS
    <3>1. CASE q = p
      BY <1>0, <2>1, <2>4, <2>7, <3>1 DEF Live, Act, Typed
    <3>2. CASE q # p
      <4>1. Known(q) /\ byId'[q] = byId[q]
        BY <1>0, <2>4, <3>2 DEF Known, Typed
      <4>2. Act(q) \in Actors /\ Live(Act(q)) /\ Act(q) # <<p, s>>
        BY <1>0, <3>2, <4>1, ActOfKnown DEF Slotted, Act
      <4> QED BY <2>7, <4>1, <4>2 DEF Live, Act
    <3> QED BY <3>1, <3>2
  <2>12. Slotted'
    BY <1>0, <1>10, <2>3, <2>7, <2>11 DEF Slotted, Insert, OpenCall, Path
  <2> QED BY <2>1, <2>10, <2>12 DEF TypeInv, Stopped
\* An actor's own step.
<1>11. ASSUME NEW a \in Actors, NEW new, Moves(a, new), ActorsOnly, asked' \in SUBSET Paths, unwatched' \in SUBSET Paths,
              docker' \in [Labels -> SUBSET (Containers \cup {"network", "volume"})], db' \in [Paths -> Env],
              \A p \in Paths : db'[p].kind # "bare" /\ ~db'[p].mark
       PROVE  TypeInv'
  <2>1. /\ acts' \in [Actors -> Actor] /\ acts'[a] = new /\ \A b \in Actors : b # a => acts'[b] = acts[b]
    BY <1>0, <1>11, MovesActs
  <2>2. Typed'
    BY <1>0, <1>11, <2>1 DEF Typed, ActorsOnly
  <2>3. up
    BY <1>0, <1>11, PieceTypes DEF Stopped, Moves, Live
  <2>4. \A q \in Paths : Known(q)' => Live(Act(q))'
    <3> SUFFICES ASSUME NEW q \in Paths, Known(q)' PROVE Live(Act(q))'
      OBVIOUS
    <3>1. Known(q) /\ Act(q)' = Act(q)
      BY <1>11 DEF Known, Act, ActorsOnly
    <3>2. Act(q) \in Actors /\ Live(Act(q)) /\ Act(q)[1] = q /\ Act(q)[2] = byId[q]
      BY <1>0, <3>1, ActOfKnown DEF Slotted
    <3> QED BY <1>11, <2>1, <3>1, <3>2 DEF Live, Moves
  <2>5. new.pc = "saving" => new.snap.kind = "made"
    BY <1>0, <1>11 DEF Moves, Slotted
  <2>6. Slotted'
    BY <1>0, <1>11, <2>1, <2>4, <2>5 DEF Slotted, ActorsOnly, OpenCall, At, Path, Moves
  <2> QED BY <1>11, <2>2, <2>3, <2>6 DEF TypeInv, Stopped, ActorsOnly
<1>12. ASSUME NEW a \in Actors, PersonalStep(a)
       PROVE  TypeInv'
  <2>1. /\ ActorsOnly /\ UNCHANGED asked /\ unwatched' \in SUBSET Paths
        /\ \E new \in Actor : Moves(a, new)
    BY <1>0, <1>12, PersonalMoves DEF Typed
  <2>2. docker' \in [Labels -> SUBSET (Containers \cup {"network", "volume"})]
    BY <1>0, <1>12, ActorTuples, LabelOfPath
    DEF PersonalStep, PersistStep, ActorStep, Look, save_env, SaveFails, Wake, PersistEnds, SpawnAction,
        CreateContainer, Report, Typed, Containers
  <2>3. db' \in [Paths -> Env] /\ \A p \in Paths : db'[p].kind # "bare" /\ ~db'[p].mark
    <3>1. CASE save_env(a)
      <4>1. acts[a].snap \in Env /\ acts[a].snap.kind = "made"
        BY <1>0, <3>1 DEF save_env, Typed, Slotted, Actor
      <4>2. Columns(acts[a].snap) \in Env /\ Columns(acts[a].snap).kind = "made" /\ ~Columns(acts[a].snap).mark
        BY <4>1 DEF Columns, Env
      <4>3. db' = [db EXCEPT ![a[1]] = Columns(acts[a].snap)]
        BY <3>1 DEF save_env
      <4> QED BY <1>0, <4>2, <4>3 DEF Typed, Slotted
    <3>2. CASE ~save_env(a)
      <4>1. db' = db
        BY <1>12, <3>2
        DEF PersonalStep, PersistStep, ActorStep, Look, SaveFails, Wake, PersistEnds, SpawnAction, CreateContainer, Report
      <4> QED BY <1>0, <4>1 DEF Typed, Slotted
    <3> QED BY <3>1, <3>2
  <2> QED BY <1>0, <1>11, <2>1, <2>2, <2>3 DEF Typed
<1>13. ASSUME NEW p \in Paths, Request(p) \/ Observe(p)
       PROVE  TypeInv'
  <2>1. /\ ActorsOnly /\ UNCHANGED <<db, docker>> /\ Act(p) \in Actors
        /\ asked' \in SUBSET Paths /\ unwatched' \in SUBSET Paths
        /\ \E new \in Actor : Moves(Act(p), new)
    BY <1>0, <1>13, PublicMoves, ActOfKnown DEF Typed
  <2> QED BY <1>0, <1>11, <2>1 DEF Typed, Slotted
<1>14. ASSUME NEW p \in Paths, JobMove(p)
       PROVE  TypeInv'
  <2>1. /\ UNCHANGED <<up, byId, acts, index, calls, db, disputed, strays, gone, asked, unwatched>>
        /\ jobs[p].pc # "none" /\ removing' \in SUBSET Paths /\ jobs' \in [Paths -> Job]
        /\ docker' \in [Labels -> SUBSET (Containers \cup {"network", "volume"})]
    BY <1>0, <1>14, JobMoves, LabelOfPath DEF Typed
  <2>2. Typed'
    BY <1>0, <2>1 DEF Typed
  <2>3. Slotted'
    BY <1>0, <2>1 DEF Slotted, OpenCall, At, Path, Known, Live, Act
  <2>4. up
    BY <1>0, <2>1 DEF Stopped
  <2> QED BY <2>1, <2>2, <2>3, <2>4 DEF TypeInv, Stopped
<1>15. ASSUME NEW l \in Labels, ContainerGoes(l)
       PROVE  TypeInv'
  <2>1. docker' \in [Labels -> SUBSET (Containers \cup {"network", "volume"})] /\ unwatched' \in SUBSET Paths
    BY <1>0, <1>15 DEF ContainerGoes, Typed
  <2>2. UNCHANGED <<up, byId, acts, index, removing, calls, db, jobs, disputed, strays, gone, asked>>
    BY <1>15 DEF ContainerGoes, requestVars
  <2>3. Typed'
    BY <1>0, <2>1, <2>2 DEF Typed
  <2>4. Slotted'
    BY <1>0, <2>2 DEF Slotted, OpenCall, At, Path, Known, Live, Act
  <2> QED BY <1>0, <2>2, <2>3, <2>4 DEF TypeInv, Stopped
<1>16. CASE Crash
  <2>1. /\ ~up' /\ byId' = [p \in Paths |-> 0] /\ acts' = [a \in Actors |-> NoActor]
        /\ jobs' = [p \in Paths |-> NoJob] /\ calls' = [c \in Callers |-> NoCall] /\ asked' = {}
        /\ UNCHANGED <<index, removing, db, disputed, strays, gone, unwatched>>
    BY <1>16 DEF Crash, Actors
  <2>2. docker' \in [Labels -> SUBSET (Containers \cup {"network", "volume"})]
    <3>1. PICK landed : docker' = [l \in Labels |-> IF l \in landed THEN docker[l] \cup {"node"} ELSE docker[l]]
      BY <1>16 DEF Crash
    <3> QED BY <1>0, <3>1 DEF Typed, Containers
  <2>3. up' \in BOOLEAN
    BY <1>16 DEF Crash
  <2>4. Typed'
    BY <1>0, <2>1, <2>2, <2>3, PieceTypes DEF Typed
  <2>5. Slotted'
    BY <1>0, <2>1, PieceTypes DEF Slotted, OpenCall, At, Path, Known
  <2>6. NoJob.pc = "none"
    BY DEF NoJob
  <2> QED BY <2>1, <2>4, <2>5, <2>6, PieceTypes DEF TypeInv, Stopped
<1>17. ASSUME NEW answers \in BOOLEAN, load_from(answers)
       PROVE  TypeInv'
  <2>1. /\ up' = TRUE /\ index' \in SUBSET Paths /\ byId' = [p \in Paths |-> IF p \in index' THEN 1 ELSE 0]
        /\ acts' = [a \in Actors |-> IF a[1] \in index' /\ a[2] = 1 THEN Spawned(rehydrate(a[1], answers)) ELSE NoActor]
        /\ jobs' = [p \in Paths |-> IF p \in removing THEN NewJob ELSE NoJob]
        /\ UNCHANGED <<removing, db, docker, calls, disputed, strays, gone, asked, unwatched>>
    BY <1>0, <1>17 DEF load_from, Typed, Actors, ghosts
  <2>2. \A p \in Paths : Spawned(rehydrate(p, answers)) \in Actor /\ Spawned(rehydrate(p, answers)).pc = "look"
    BY <1>0, RehydrateType, SpawnedType
  <2>3. acts' \in [Actors -> Actor]
    BY <2>1, <2>2, PieceTypes, ActorTuples
  <2>4. jobs' \in [Paths -> Job] /\ byId' \in [Paths -> 0 .. 2]
    BY <2>1, PieceTypes
  <2>5. Typed'
    BY <1>0, <2>1, <2>3, <2>4 DEF Typed
  <2>6. \A q \in Paths : Known(q)' => Live(Act(q))'
    <3> SUFFICES ASSUME NEW q \in Paths, Known(q)' PROVE Live(Act(q))'
      OBVIOUS
    <3>1. q \in index' /\ byId'[q] = 1
      BY <2>1 DEF Known
    <3>2. <<q, 1>> \in Actors /\ <<q, 1>>[1] = q /\ <<q, 1>>[2] = 1
      <4>1. 1 \in SLOTS
        BY DEF SLOTS
      <4> QED BY <4>1, ActorTuples
    <3>3. acts'[<<q, 1>>] = Spawned(rehydrate(q, answers))
      BY <2>1, <3>1, <3>2
    <3> QED BY <2>2, <3>1, <3>3 DEF Live, Act
  <2>7. \A a \in Actors : /\ acts'[a].pc = "off" => acts'[a] = NoActor
                          /\ acts'[a].pc # "saving"
    BY <2>1, <2>2, PieceTypes, ActorTuples
  <2>8. Slotted'
    BY <1>0, <2>1, <2>6, <2>7 DEF Slotted, OpenCall, At, Path
  <2> QED BY <2>1, <2>5, <2>8 DEF TypeInv, Stopped
<1>18. CASE UNCHANGED vars
  BY <1>0, <1>18 DEF vars, requestVars, ghosts, TypeInv, Typed, Slotted, Stopped, OpenCall, At, Path, Known, Live, Act
<1> QED BY <1>4, <1>5, <1>6, <1>7, <1>8, <1>9, <1>10, <1>12, <1>13, <1>14, <1>15, <1>16, <1>17, <1>18
        DEF Next, Onward, CallStep, JobMove, PersonalStep, Actors

-----------------------------------------------------------------------------
LEMMA RehydrateOwns ==
  ASSUME Typed, NEW p \in Paths, NEW answers \in BOOLEAN, Owns(db[p]) PROVE Owns(rehydrate(p, answers))
<1>1. db[p] \in Env
  BY DEF Typed
<1>2. CASE db[p].kind = "none"
  BY <1>2 DEF rehydrate, Owns
<1>3. CASE db[p].kind # "none"
  <2> DEFINE r == IF answers THEN settled(db[p].reading, Reading(p)) ELSE "unseen"
  <2>1. rehydrate(p, answers) = [db[p] EXCEPT !.reading = r]
    BY <1>3 DEF rehydrate
  <2>2. rehydrate(p, answers).reading = r /\ rehydrate(p, answers).kind = db[p].kind
    BY <1>1, <2>1 DEF Env
  <2>3. db[p].reading # "down" => r # "down"
    BY DEF settled
  <2> QED BY <2>2, <2>3 DEF Owns
<1> QED BY <1>2, <1>3

LEMMA BeliefInit == Init => BeliefInv
<1> SUFFICES ASSUME Init PROVE BeliefInv
  OBVIOUS
<1>1. \A p \in Paths : ~Settled(AtFirst(p)).env.mark
  BY DEF Settled, AtFirst, NoActor, NoEnv
<1>2. \A a \in Actors : ~acts[a].env.mark
  BY <1>1, ActorTuples, PieceTypes DEF Init, Actors
<1> QED BY <1>2 DEF Init, BeliefInv

\* A belief is passed on, never made up: saved, read back, and published again.
LEMMA BeliefStep == TypeInv /\ BeliefInv /\ [Next]_vars => BeliefInv'
<1> SUFFICES ASSUME TypeInv, BeliefInv, [Next]_vars PROVE BeliefInv'
  OBVIOUS
<1>0. Typed /\ Slotted /\ Stopped
  BY DEF TypeInv
<1>1. ASSUME NEW c \in Callers, OpenCall(c)
      PROVE  up /\ Path(c) \in Paths /\ calls[c] \in Call
  BY <1>0, <1>1 DEF Slotted, Stopped, Typed, OpenCall, At
\* Steps of requests that read no store.
<1>2. ASSUME UNCHANGED <<acts, db, asked, unwatched>>,
             \A d \in Callers : calls'[d].pc = "insert" => calls'[d] = calls[d]
      PROVE  BeliefInv'
  BY <1>2 DEF BeliefInv, At, Path
<1>3. ASSUME NEW c \in Callers, NEW pc \in CallPc \ {"insert"}, Goto(c, pc)
      PROVE  \A d \in Callers : calls'[d].pc = "insert" => calls'[d] = calls[d]
  BY <1>0, <1>3, GotoCall
<1>4. ASSUME NEW c \in Callers, Clash(c) \/ PendingRemoval(c) \/ SaveIndex(c) \/ Add(c)
      PROVE  BeliefInv'
  <2>1. PICK pc \in CallPc \ {"insert"} : Goto(c, pc)
    BY <1>4 DEF Clash, PendingRemoval, SaveIndex, Add, CallPc
  <2>2. UNCHANGED <<acts, db, asked, unwatched>>
    BY <1>4 DEF Clash, PendingRemoval, SaveIndex, Add, Quiet
  <2> QED BY <1>2, <1>3, <2>1, <2>2
<1>5. ASSUME NEW c \in Callers, NEW p \in Paths, Resolve(c, p) \/ Remove(c, p)
      PROVE  BeliefInv'
  <2>1. UNCHANGED <<acts, db, asked, unwatched>>
    BY <1>5 DEF Resolve, Remove, Asked
  <2>2. calls' = calls \/ Open(c, "wire", p, "clash") \/ Open(c, "remove", p, "add")
    BY <1>5 DEF Resolve, Remove
  <2>3. \A d \in Callers : calls'[d].pc = "insert" => calls'[d] = calls[d]
    BY <1>0, <2>2, OpenNew DEF CallPc
  <2> QED BY <1>2, <2>1, <2>3
<1>6. ASSUME NEW c \in Callers, NEW answers \in BOOLEAN, New(c, answers)
      PROVE  BeliefInv'
  <2>1. UNCHANGED <<acts, db, asked, unwatched>> /\ Path(c) \in Paths
    BY <1>1, <1>6 DEF New, Quiet, OpenCall, At
  <2>2. CASE Known(Path(c))
    <3>1. Goto(c, "done")
      BY <1>6, <2>2 DEF New
    <3> QED BY <1>2, <1>3, <2>1, <3>1 DEF CallPc
  <2>3. CASE ~Known(Path(c))
    <3>1. /\ \A d \in Callers : d # c => calls'[d] = calls[d]
          /\ calls'[c].path = Path(c) /\ calls'[c].env = rehydrate(Path(c), answers)
      BY <1>0, <1>6, <2>1, <2>3, NewCall DEF Path
    <3>2. Path(c) \in unwatched => Owns(calls'[c].env)
      BY <1>0, <2>1, <3>1, RehydrateOwns DEF BeliefInv
    <3> QED BY <2>1, <3>1, <3>2 DEF BeliefInv, At, Path
  <2> QED BY <2>2, <2>3
<1>7. ASSUME NEW c \in Callers, Take(c)
      PROVE  BeliefInv'
  <2> DEFINE p == Path(c)
  <2>1. p \in Paths /\ UNCHANGED <<db, asked, unwatched>>
    BY <1>1, <1>7 DEF Take, OpenCall, At
  <2>2. \A d \in Callers : calls'[d].pc = "insert" => calls'[d] = calls[d]
    BY <1>0, <1>7, LoadIndexCall DEF Take
  <2>3. \A a \in Actors : acts'[a].env = acts[a].env /\ acts'[a].pc = acts[a].pc /\ acts'[a].snap = acts[a].snap
    BY <1>0, <1>7, <2>1, TakenActors
  <2> QED BY <2>1, <2>2, <2>3 DEF BeliefInv, At, Path
<1>8. ASSUME NEW c \in Callers, Insert(c)
      PROVE  BeliefInv'
  <2> DEFINE p == Path(c)
  <2>1. p \in Paths /\ calls[c].env \in Env /\ At(c, "insert") /\ UNCHANGED <<db, asked, unwatched>>
    BY <1>1, <1>8 DEF Insert, OpenCall, At, Call
  <2>2. \A d \in Callers : calls'[d].pc = "insert" => calls'[d] = calls[d]
    BY <1>0, <1>8, LoadIndexCall DEF Insert
  <2>3. PICK s \in SLOTS : acts' = [acts EXCEPT ![<<p, s>>] = Spawned(calls[c].env)]
    BY <1>0, <1>8, <2>1, InsertActor
  <2>4. <<p, s>> \in Actors /\ <<p, s>>[1] = p
    BY <2>1, ActorTuples
  <2>5. /\ acts'[<<p, s>>].env = calls[c].env /\ acts'[<<p, s>>].pc = "look"
        /\ \A b \in Actors : b # <<p, s>> => acts'[b] = acts[b]
    BY <1>0, <2>1, <2>3, <2>4, SpawnedType DEF Typed
  <2>6. ~calls[c].env.mark
    BY <1>0 DEF Slotted
  <2> QED BY <2>1, <2>2, <2>4, <2>5, <2>6 DEF BeliefInv, At, Path
<1>9. ASSUME NEW a \in Actors, NEW new, Moves(a, new), calls' = calls, asked \subseteq asked', a[1] \in Paths,
             unwatched' = unwatched \/ unwatched' = unwatched \ {a[1]},
             \A p \in unwatched' : Owns(db'[p])
      PROVE  BeliefInv'
  <2>1. acts'[a] = new /\ \A b \in Actors : b # a => acts'[b] = acts[b]
    BY <1>0, <1>9, MovesActs
  <2>2. new.env.mark => a[1] \in asked'
    BY <1>9 DEF Moves, BeliefInv
  <2>3. a[1] \in unwatched' => Owns(new.env) /\ (new.pc = "saving" => Owns(new.snap))
    BY <1>9 DEF Moves, BeliefInv
  <2>4. unwatched' \subseteq unwatched
    BY <1>9
  <2> QED BY <1>9, <2>1, <2>2, <2>3, <2>4 DEF BeliefInv, At, Path
<1>10. ASSUME NEW a \in Actors, PersonalStep(a)
       PROVE  BeliefInv'
  <2>1. /\ calls' = calls /\ asked' = asked /\ a[1] \in Paths
        /\ unwatched' = unwatched \/ unwatched' = unwatched \ {a[1]}
        /\ \E new \in Actor : Moves(a, new)
    BY <1>10, PersonalMoves, ActorTuples DEF ActorsOnly
  <2>2. \A p \in unwatched' : Owns(db'[p])
    <3>1. CASE save_env(a)
      <4>1. acts[a].snap \in Env /\ acts[a].pc = "saving"
        BY <1>0, <3>1 DEF save_env, Typed, Actor
      <4>2. Owns(acts[a].snap) => Owns(Columns(acts[a].snap))
        BY <4>1 DEF Columns, Env, Owns
      <4>3. db' = [db EXCEPT ![a[1]] = Columns(acts[a].snap)] /\ unwatched' = unwatched
        BY <3>1 DEF save_env, ghosts
      <4>4. ASSUME NEW p \in unwatched' PROVE Owns(db'[p])
        <5>1. CASE p = a[1]
          <6>1. db'[p] = Columns(acts[a].snap)
            BY <1>0, <2>1, <4>3, <5>1 DEF Typed
          <6> QED BY <4>1, <4>2, <4>3, <4>4, <5>1, <6>1 DEF BeliefInv
        <5>2. CASE p # a[1]
          <6>1. db'[p] = db[p]
            BY <1>0, <2>1, <4>3, <4>4, <5>2 DEF Typed
          <6> QED BY <4>3, <4>4, <6>1 DEF BeliefInv
        <5> QED BY <5>1, <5>2
      <4> QED BY <4>4
    <3>2. CASE ~save_env(a)
      <4>1. db' = db
        BY <1>10, <3>2
        DEF PersonalStep, PersistStep, ActorStep, Look, SaveFails, Wake, PersistEnds, SpawnAction, CreateContainer, Report
      <4> QED BY <2>1, <4>1 DEF BeliefInv
    <3> QED BY <3>1, <3>2
  <2> QED BY <1>9, <2>1, <2>2
<1>11. ASSUME NEW p \in Paths, Request(p) \/ Observe(p)
       PROVE  BeliefInv'
  <2>1. /\ calls' = calls /\ db' = db /\ Act(p) \in Actors /\ Act(p)[1] = p
        /\ asked \subseteq asked' /\ (unwatched' = unwatched \/ unwatched' = unwatched \ {p})
        /\ \E new \in Actor : Moves(Act(p), new)
    BY <1>0, <1>11, PublicMoves, ActOfKnown DEF ActorsOnly
  <2>2. \A q \in unwatched' : Owns(db'[q])
    BY <2>1 DEF BeliefInv
  <2> QED BY <1>9, <2>1, <2>2
<1>12. ASSUME NEW p \in Paths, JobMove(p)
       PROVE  BeliefInv'
  <2>1. UNCHANGED <<acts, calls, db, asked, unwatched>>
    BY <1>0, <1>12, JobMoves
  <2> QED BY <1>2, <2>1
<1>13. ASSUME NEW l \in Labels, ContainerGoes(l)
       PROVE  BeliefInv'
  <2>1. UNCHANGED <<acts, calls, db, asked>>
    BY <1>13 DEF ContainerGoes, requestVars
  <2>2. CASE up
    BY <1>2, <1>13, <2>1, <2>2 DEF ContainerGoes
  <2>3. CASE ~up
    <3>1. \A p \in unwatched' : p \in unwatched \/ Owns(db[p])
      BY <1>13, <2>3 DEF ContainerGoes, Owns
    <3>2. \A a \in Actors : acts[a] = NoActor
      BY <1>0, <2>3 DEF Stopped
    <3>3. \A c \in Callers : ~At(c, "insert")
      BY <1>0, <2>3 DEF Stopped, At
    <3> QED BY <2>1, <3>1, <3>2, <3>3, PieceTypes DEF BeliefInv, Owns, At
  <2> QED BY <2>2, <2>3
<1>14. CASE Crash
  <2>1. /\ acts' = [a \in Actors |-> NoActor] /\ calls' = [c \in Callers |-> NoCall]
        /\ db' = db /\ unwatched' = unwatched
    BY <1>14 DEF Crash, Actors
  <2> QED BY <2>1, PieceTypes DEF BeliefInv, Owns, At
<1>15. ASSUME NEW answers \in BOOLEAN, load_from(answers)
       PROVE  BeliefInv'
  <2>1. /\ acts' = [a \in Actors |-> IF a[1] \in index' /\ a[2] = 1 THEN Spawned(rehydrate(a[1], answers)) ELSE NoActor]
        /\ UNCHANGED <<db, calls, asked, unwatched>>
    BY <1>15 DEF load_from, Actors, ghosts
  <2>2. ASSUME NEW a \in Actors
        PROVE  ~acts'[a].env.mark /\ acts'[a].pc # "saving" /\ (a[1] \in unwatched => Owns(acts'[a].env))
    <3>1. CASE a[1] \in index' /\ a[2] = 1
      <4>1. acts'[a] = Spawned(rehydrate(a[1], answers)) /\ a[1] \in Paths
        BY <2>1, <3>1, ActorTuples
      <4>2. acts'[a].env = rehydrate(a[1], answers) /\ acts'[a].pc = "look"
        BY <1>0, <4>1, RehydrateType, SpawnedType
      <4>3. ~acts'[a].env.mark
        BY <1>0, <4>1, <4>2, RehydrateType DEF Slotted
      <4>4. a[1] \in unwatched => Owns(acts'[a].env)
        BY <1>0, <4>1, <4>2, RehydrateOwns DEF BeliefInv
      <4> QED BY <4>2, <4>3, <4>4
    <3>2. CASE ~(a[1] \in index' /\ a[2] = 1)
      BY <2>1, <3>2, PieceTypes DEF Owns
    <3> QED BY <3>1, <3>2
  <2> QED BY <2>1, <2>2 DEF BeliefInv, At, Path
<1>16. CASE UNCHANGED vars
  BY <1>16 DEF vars, requestVars, ghosts, BeliefInv, At, Path
<1> QED BY <1>4, <1>5, <1>6, <1>7, <1>8, <1>10, <1>11, <1>12, <1>13, <1>14, <1>15, <1>16
        DEF Next, Onward, CallStep, JobMove, PersonalStep, Actors

\* The invariant of the first two layers gives the property.
LEMMA BeliefGives == TypeInv /\ BeliefInv => RehydratedTrue
<1> SUFFICES ASSUME TypeInv, BeliefInv PROVE RehydratedTrue
  OBVIOUS
<1>0. Typed /\ Slotted /\ Stopped
  BY DEF TypeInv
<1>1. \A p \in Paths : Known(p) => up
  BY <1>0 DEF Stopped, Known
<1>2. TypeOK
  BY <1>0, <1>1 DEF Typed, Slotted, TypeOK, Live, Actors, Actor, Env, Job
<1>3. \A p \in Paths : Known(p) => Act(p) \in Actors /\ Act(p)[1] = p
  BY <1>0, ActOfKnown
<1>4. InterruptionShows
  BY <1>0, <1>3 DEF InterruptionShows, BeliefInv, Owns, Typed
<1>5. NothingRedone
  BY <1>3 DEF NothingRedone, BeliefInv
<1> QED BY <1>2, <1>4, <1>5 DEF RehydratedTrue

(***************************************************************************)
(* After any number of crashes, restarts and requests a workspace fghjd    *)
(* has wired is typed, never calls a container down that went while nobody *)
(* watched (settle_interruption), and carries out nothing it was not asked *)
(* for since fghjd started (load_env reads no marks).                      *)
(***************************************************************************)
THEOREM RehydratedIsTrue == Spec => []RehydratedTrue
<1>1. Init => TypeInv /\ BeliefInv
  BY TypeInit, BeliefInit
<1>2. TypeInv /\ BeliefInv /\ [Next]_vars => (TypeInv /\ BeliefInv)'
  BY TypeStep, BeliefStep
<1> QED BY <1>1, <1>2, BeliefGives, PTL DEF Spec

-----------------------------------------------------------------------------
(* The third layer, a step at a time. *)

LEMMA FightsSymmetric == \A p, q : Fights(p, q) <=> Fights(q, p)
BY DEF Fights, nesting_conflict, SameLabel

LEMMA NoFightMeans == NoFight <=> \A p, q \in Paths \ disputed : Known(p) /\ Known(q) => ~Fights(p, q)
BY DEF NoFight, Fights

LEMMA NoFightMeansNext ==
  NoFight' <=> \A p, q \in Paths \ disputed' : Known(p)' /\ Known(q)' => ~Fights(p, q)
BY DEF NoFight, Fights, nesting_conflict, SameLabel

LEMMA RequestInit == Init => RequestInv
<1> SUFFICES ASSUME Init PROVE RequestInv
  OBVIOUS
<1>1. \A c \in Callers : calls[c].pc = "done"
  BY PieceTypes DEF Init
<1>2. \A p \in Paths : Known(p) <=> p \in Wired
  BY DEF Init, Known
<1>3. \A p \in Paths : jobs[p].pc = "none"
  BY DEF Init, NoJob
<1>4. Apart /\ Kinds /\ WireSound /\ RemoveSound
  BY <1>1 DEF Apart, Kinds, WireSound, RemoveSound, OpenCall, At
<1>5. JobSound /\ Listed /\ GoneListed /\ GoneApart /\ Reloadable
  BY <1>2, <1>3, PathsAssumption DEF JobSound, Listed, GoneListed, GoneApart, Reloadable, Init
<1>6. NoFight
  BY <1>2, PathsAssumption DEF NoFight, nesting_conflict, SameLabel
<1>7. TeardownAlone /\ RemovedStaysRemoved
  BY DEF TeardownAlone, RemovedStaysRemoved, Init
<1> QED BY <1>4, <1>5, <1>6, <1>7 DEF RequestInv

\* Steps that touch neither maps, nor files, nor requests, and start or end no teardown.
LEMMA RequestFrame ==
  ASSUME RequestInv, UNCHANGED <<up, byId, index, removing, calls, disputed, gone>>,
         \A p \in Paths : (jobs'[p].pc = "none") <=> (jobs[p].pc = "none"),
         \A c \in Callers : OpenCall(c) => Path(c) \in Paths
  PROVE  RequestInv'
<1>1. Apart' /\ Kinds'
  BY DEF RequestInv, Apart, Kinds, OpenCall, At, Path, Fights, nesting_conflict, SameLabel
<1>2. WireSound'
  BY DEF RequestInv, WireSound, OpenCall, At, Path, Known, Fights, nesting_conflict, SameLabel
<1>3. RemoveSound' /\ JobSound'
  BY DEF RequestInv, RemoveSound, JobSound, OpenCall, At, Path, Known
<1>4. Listed' /\ GoneListed' /\ GoneApart'
  BY DEF RequestInv, Listed, GoneListed, GoneApart, Path, Known
<1>5. Reloadable'
  BY DEF RequestInv, Reloadable, Fights, nesting_conflict, SameLabel
<1>6. NoFight' /\ TeardownAlone' /\ RemovedStaysRemoved'
  BY DEF RequestInv, NoFight, TeardownAlone, RemovedStaysRemoved, Known, At, Path, nesting_conflict, SameLabel
<1> QED BY <1>1, <1>2, <1>3, <1>4, <1>5, <1>6 DEF RequestInv

\* A request that is under way, c, takes a step; requests may be found to cross.
GoesOn(c) ==
  /\ up' = up /\ disputed \subseteq disputed'
  /\ OpenCall(c) /\ \A d \in Callers : d # c => calls'[d] = calls[d]
  /\ calls'[c].pc # "done" => calls'[c].kind = calls[c].kind /\ calls'[c].path = calls[c].path

LEMMA ApartKept ==
  ASSUME RequestInv, NEW c \in Callers, GoesOn(c)
  PROVE  Apart'
<1>1. Apart
  BY DEF RequestInv
<1>2. ASSUME NEW d \in Callers, calls'[d].pc # "done"
      PROVE  OpenCall(d) /\ calls'[d].kind = calls[d].kind /\ calls'[d].path = calls[d].path
  BY <1>2 DEF GoesOn, OpenCall, At
<1>3. disputed \subseteq disputed'
  BY DEF GoesOn
<1> QED BY <1>1, <1>2, <1>3 DEF Apart, OpenCall, At, Path, Fights, nesting_conflict, SameLabel

\* A request is opened.
LEMMA RequestAsked ==
  ASSUME TypeInv, RequestInv, NEW c \in Callers, NEW p \in Paths, Resolve(c, p) \/ Remove(c, p)
  PROVE  RequestInv'
<1>0. Typed /\ Slotted /\ Stopped
  BY DEF TypeInv
<1>1. PICK kind \in {"wire", "remove"} :
        /\ disputed' = disputed \cup UNION {{p, Path(d)} : d \in {x \in Callers : Crosses(c, x, kind, p)}}
        /\ \/ Open(c, kind, p, "clash") /\ kind = "wire" /\ jobs' = jobs
           \/ Open(c, kind, p, "add") /\ kind = "remove" /\ jobs' = jobs /\ Known(p)
           \/ calls' = calls /\ kind = "remove" /\ ~Known(p) /\ p \in removing /\ spawn_teardown(p)
  BY DEF Resolve, Remove, Asked
<1>2. up /\ At(c, "done") /\ UNCHANGED <<up, byId, index, removing, gone>>
  BY DEF Resolve, Remove, Asked
<1>3. /\ disputed \subseteq disputed' /\ \A d \in Callers : d # c => calls'[d] = calls[d]
      /\ \/ calls'[c] = calls[c]
         \/ /\ calls'[c].path = p /\ calls'[c].kind = kind
            /\ \/ kind = "wire" /\ calls'[c].pc = "clash"
               \/ kind = "remove" /\ calls'[c].pc = "add" /\ Known(p)
  BY <1>0, <1>1, OpenNew DEF CallPc
<1>4. \A d \in Callers : Crosses(c, d, kind, p) => p \in disputed' /\ Path(d) \in disputed'
  BY <1>1
<1>5. \A d \in Callers : d # c /\ OpenCall(d) =>
        /\ Path(d) = p => p \in disputed'
        /\ kind = "wire" /\ calls[d].kind = "wire" /\ Fights(p, Path(d)) => p \in disputed' /\ Path(d) \in disputed'
  BY <1>4 DEF Crosses, OpenCall, Fights
<1>6. ASSUME NEW d \in Callers, OpenCall(d) PROVE d # c /\ calls'[d] = calls[d]
  BY <1>2, <1>3, <1>6 DEF OpenCall
<1>7. Apart'
  <2>1. Apart
    BY DEF RequestInv
  <2>2. ASSUME NEW a \in Callers, NEW b \in Callers, a # b, calls'[a].pc # "done", calls'[b].pc # "done"
        PROVE  /\ calls'[a].path = calls'[b].path => calls'[a].path \in disputed'
               /\ calls'[a].kind = "wire" /\ calls'[b].kind = "wire" /\ Fights(calls'[a].path, calls'[b].path) =>
                    calls'[a].path \in disputed' /\ calls'[b].path \in disputed'
    <3>1. CASE a # c /\ b # c
      BY <1>3, <2>1, <2>2, <3>1 DEF Apart, OpenCall, At, Path
    <3>2. CASE a = c
      BY <1>2, <1>3, <1>5, <2>2, <3>2 DEF OpenCall, At, Path
    <3>3. CASE b = c
      BY <1>2, <1>3, <1>5, <2>2, <3>3, FightsSymmetric DEF OpenCall, At, Path
    <3> QED BY <3>1, <3>2, <3>3
  <2> QED BY <2>2 DEF Apart, OpenCall, At, Path, Fights, nesting_conflict, SameLabel
<1>8. Kinds'
  BY <1>3 DEF RequestInv, Kinds
<1>9. WireSound'
  <2>1. WireSound
    BY DEF RequestInv
  <2>2. ASSUME NEW d \in Callers, calls'[d].pc \notin {"done", "clash"}, calls'[d].kind = "wire"
        PROVE  calls'[d] = calls[d] /\ OpenCall(d)
    BY <1>2, <1>3, <2>2 DEF OpenCall, At
  <2> QED BY <1>2, <1>3, <2>1, <2>2 DEF WireSound, OpenCall, At, Path, Known, Fights, nesting_conflict, SameLabel
<1>10. \A q \in Paths \ disputed' : jobs'[q].pc # "none" =>
          \/ jobs[q].pc # "none"
          \/ q = p /\ ~Known(p) /\ p \in removing
  BY <1>0, <1>1 DEF Typed, spawn_teardown
<1>11. RemoveSound'
  <2>1. RemoveSound /\ JobSound
    BY DEF RequestInv
  <2>2. ASSUME NEW d \in Callers, calls'[d].pc \in {"add", "take", "save"}, calls'[d].kind = "remove",
               calls'[d].path \notin disputed'
        PROVE  /\ calls'[d].pc \in {"add", "take"} => Known(calls'[d].path)
               /\ calls'[d].pc = "take" => calls'[d].path \in removing
               /\ calls'[d].pc = "save" => calls'[d].path \in removing /\ ~Known(calls'[d].path) /\ jobs'[calls'[d].path].pc = "none"
    <3>1. CASE ~OpenCall(d)
      BY <1>2, <1>3, <2>2, <3>1 DEF OpenCall, At
    <3>2. CASE OpenCall(d)
      <4>1. d # c /\ calls'[d] = calls[d] /\ Path(d) # p /\ Path(d) \notin disputed
        BY <1>3, <1>5, <1>6, <2>2, <3>2 DEF Path
      <4>2. Path(d) \in Paths
        BY <1>0, <3>2 DEF Slotted
      <4> QED BY <1>10, <2>1, <2>2, <3>2, <4>1, <4>2 DEF RemoveSound, Path, At
    <3> QED BY <3>1, <3>2
  <2> QED BY <1>2, <2>2 DEF RemoveSound, OpenCall, At, Path, Known, Call, CallPc, Typed, Kinds
<1>12. Listed'
  <2>1. Listed
    BY DEF RequestInv
  <2>2. \A d \in Callers : calls[d].pc \in {"take", "save"} => calls'[d] = calls[d]
    BY <1>6 DEF OpenCall, At
  <2> QED BY <1>2, <1>3, <2>1, <2>2 DEF Listed, Path, Known
<1>13. JobSound'
  <2>1. JobSound /\ Listed
    BY DEF RequestInv
  <2>2. ASSUME NEW q \in Paths \ disputed', jobs'[q].pc # "none"
        PROVE  q \in removing /\ q \notin index /\ ~Known(q)
    <3>1. CASE jobs[q].pc # "none"
      BY <1>3, <2>1, <2>2, <3>1 DEF JobSound
    <3>2. CASE q = p /\ ~Known(p) /\ p \in removing
      <4>1. ASSUME p \in index PROVE FALSE
        <5>1. PICK d \in Callers : calls[d].kind = "remove" /\ Path(d) = p /\ calls[d].pc \in {"take", "save"}
          BY <1>2, <1>3, <2>1, <2>2, <3>2, <4>1 DEF Listed
        <5>2. OpenCall(d) /\ d # c
          BY <1>2, <5>1 DEF OpenCall, At
        <5> QED BY <1>5, <2>2, <3>2, <5>1, <5>2
      <4> QED BY <3>2, <4>1
    <3> QED BY <1>10, <2>2, <3>1, <3>2
  <2> QED BY <1>2, <2>2 DEF JobSound, Known
<1>14. GoneListed' /\ GoneApart'
  BY <1>2, <1>3 DEF RequestInv, GoneListed, GoneApart, Known
<1>15. Reloadable'
  BY <1>2 DEF Reloadable
<1>16. NoFight'
  BY <1>2, <1>3, NoFightMeans, NoFightMeansNext DEF RequestInv, Known
<1>17. \A d \in Callers : calls[d].pc = "take" => calls'[d] = calls[d]
  BY <1>6 DEF OpenCall, At
<1>18. TeardownAlone'
  BY <1>2, <1>3, <1>17 DEF RequestInv, TeardownAlone, Known, At, Path
<1>19. RemovedStaysRemoved'
  BY <1>2, <1>3, <1>17 DEF RequestInv, RemovedStaysRemoved, Known, At, Path
<1> QED BY <1>7, <1>8, <1>9, <1>11, <1>12, <1>13, <1>14, <1>15, <1>16, <1>18, <1>19 DEF RequestInv

\* A wire's checks and the reading of the store.
LEMMA RequestChecked ==
  ASSUME TypeInv, RequestInv, NEW c \in Callers,
         Clash(c) \/ PendingRemoval(c) \/ \E answers \in BOOLEAN : New(c, answers)
  PROVE  RequestInv'
<1>0. Typed /\ Slotted /\ Stopped
  BY DEF TypeInv
<1>1. /\ OpenCall(c) /\ UNCHANGED <<up, byId, index, removing, gone, jobs>>
      /\ calls[c].pc \in {"clash", "pending", "new"}
  BY DEF Clash, PendingRemoval, New, Quiet, OpenCall, At
<1>2. up /\ Path(c) \in Paths /\ calls[c].kind = "wire"
  BY <1>0, <1>1 DEF Stopped, Slotted, OpenCall, At, RequestInv, Kinds
<1>3. /\ disputed \subseteq disputed' /\ \A d \in Callers : d # c => calls'[d] = calls[d]
      /\ \/ calls'[c].pc = "done" /\ calls'[c].kind = "wire"
         \/ /\ calls'[c].kind = calls[c].kind /\ calls'[c].path = calls[c].path
            /\ \/ /\ calls[c].pc = "clash" /\ calls'[c].pc = "pending"
                  /\ \A q \in Paths : Known(q) => ~Fights(Path(c), q)
               \/ /\ calls[c].pc = "pending" /\ calls'[c].pc = "new"
                  /\ \A q \in removing : Label[q] # Label[Path(c)]
               \/ /\ calls[c].pc = "new" /\ calls'[c].pc = "insert" /\ ~Known(Path(c))
  <2>1. CASE Clash(c)
    <3>1. CASE Goto(c, "done") /\ disputed' = disputed
      BY <1>0, <3>1, GotoCall, PieceTypes DEF CallPc
    <3>2. CASE /\ Goto(c, "pending") /\ disputed' = disputed
               /\ ~\E q \in Paths : Known(q) /\ (nesting_conflict(Path(c), q) \/ SameLabel(Path(c), q))
      BY <1>0, <2>1, <3>2, GotoCall DEF CallPc, Clash, At, Fights
    <3> QED BY <2>1, <3>1, <3>2 DEF Clash
  <2>2. CASE PendingRemoval(c)
    <3>1. CASE Goto(c, "done") /\ disputed' = disputed
      BY <1>0, <3>1, GotoCall, PieceTypes DEF CallPc
    <3>2. CASE /\ Goto(c, "new") /\ disputed' = disputed
               /\ ~\E q \in removing : Label[q] = Label[Path(c)]
      BY <1>0, <2>2, <3>2, GotoCall DEF CallPc, PendingRemoval, At
    <3> QED BY <2>2, <3>1, <3>2 DEF PendingRemoval
  <2>3. CASE \E answers \in BOOLEAN : New(c, answers)
    <3>1. PICK answers \in BOOLEAN : New(c, answers)
      BY <2>3
    <3>2. CASE Known(Path(c))
      <4>1. Goto(c, "done") /\ disputed' = disputed
        BY <3>1, <3>2 DEF New
      <4> QED BY <1>0, <4>1, GotoCall, PieceTypes DEF CallPc
    <3>3. CASE ~Known(Path(c))
      <4>1. disputed \subseteq disputed' /\ calls[c].pc = "new"
        BY <3>1, <3>3 DEF New, Contended, At
      <4> QED BY <1>0, <1>2, <3>1, <3>3, <4>1, NewCall
    <3> QED BY <3>2, <3>3
  <2> QED BY <2>1, <2>2, <2>3
<1>4. Apart'
  BY <1>1, <1>3, ApartKept DEF GoesOn
<1>5. Kinds'
  BY <1>2, <1>3 DEF RequestInv, Kinds
<1>6. WireSound'
  <2>1. WireSound
    BY DEF RequestInv
  <2>2. ASSUME NEW d \in Callers, calls'[d].pc # "done", calls'[d].kind = "wire", calls'[d].path \notin disputed'
        PROVE  /\ calls'[d].pc \in {"pending", "new", "insert"} =>
                    \A q \in Paths \ disputed' : Known(q) => ~Fights(calls'[d].path, q)
               /\ calls'[d].pc \in {"new", "insert"} => \A r \in removing \ disputed' : Label[r] # Label[calls'[d].path]
               /\ calls'[d].pc = "insert" => ~Known(calls'[d].path)
               /\ calls'[d].pc = "save" => Known(calls'[d].path) /\ calls'[d].path \notin removing /\ calls'[d].path \notin gone
    <3>1. CASE d # c
      BY <1>3, <2>1, <2>2, <3>1 DEF WireSound, OpenCall, At, Path
    <3>2. CASE d = c
      BY <1>1, <1>2, <1>3, <2>1, <2>2, <3>2 DEF WireSound, OpenCall, At, Path
    <3> QED BY <3>1, <3>2
  <2> QED BY <1>1, <2>2 DEF WireSound, OpenCall, At, Path, Known, Fights, nesting_conflict, SameLabel
<1>7. RemoveSound'
  <2>1. \A d \in Callers : calls'[d].pc # "done" /\ calls'[d].kind = "remove" => calls'[d] = calls[d]
    BY <1>2, <1>3
  <2> QED BY <1>1, <1>3, <2>1 DEF RequestInv, RemoveSound, OpenCall, At, Path, Known
<1>8. JobSound' /\ GoneListed' /\ GoneApart' /\ Reloadable'
  BY <1>1, <1>2, <1>3 DEF RequestInv, JobSound, GoneListed, GoneApart, Reloadable, Known
<1>9. \A d \in Callers : calls[d].kind = "remove" => calls'[d] = calls[d]
  BY <1>2, <1>3
<1>10. Listed'
  BY <1>1, <1>2, <1>3, <1>9 DEF RequestInv, Listed, Known, Path
<1>11. NoFight'
  BY <1>1, <1>3, NoFightMeans, NoFightMeansNext DEF RequestInv, Known
<1>12. TeardownAlone'
  BY <1>1, <1>3, <1>9 DEF RequestInv, TeardownAlone, Known, At, Path
<1>13. RemovedStaysRemoved'
  BY <1>1, <1>3, <1>9 DEF RequestInv, RemovedStaysRemoved, Known, At, Path
<1> QED BY <1>4, <1>5, <1>6, <1>7, <1>8, <1>10, <1>11, <1>12, <1>13 DEF RequestInv

\* A wire puts its workspace on the maps: what it has checked still holds.
LEMMA RequestInserted ==
  ASSUME TypeInv, RequestInv, NEW c \in Callers, Insert(c)
  PROVE  RequestInv'
<1> DEFINE p == Path(c)
<1>0. Typed /\ Slotted /\ Stopped
  BY DEF TypeInv
<1>1. OpenCall(c) /\ calls[c].pc = "insert" /\ UNCHANGED <<up, index, removing, jobs>>
  BY DEF Insert, OpenCall, At
<1>2. up /\ p \in Paths /\ calls[c].kind = "wire"
  BY <1>0, <1>1 DEF Stopped, Slotted, OpenCall, At, RequestInv, Kinds
<1>3. /\ \A d \in Callers : d # c => calls'[d] = calls[d]
      /\ calls'[c].pc = "save" /\ calls'[c].kind = "wire" /\ calls'[c].path = p
  BY <1>0, <1>2, LoadIndexCall DEF Insert, Path
<1>4. PICK s \in SLOTS : byId' = [byId EXCEPT ![p] = s]
  BY <1>0, <1>2, InsertActor
<1>5. /\ disputed \subseteq disputed' /\ gone' \subseteq gone
      /\ \A q \in gone' : Label[q] # Label[p]
  BY <1>0 DEF Insert, Contended, Typed
<1>6. \A q \in Paths : byId'[q] # 0 <=> (byId[q] # 0 \/ q = p)
  <2>1. s # 0
    BY DEF SLOTS
  <2> QED BY <1>0, <1>2, <1>4, <2>1 DEF Typed
<1>7. /\ Apart /\ WireSound /\ RemoveSound /\ JobSound
  BY DEF RequestInv
<1>8. p \notin disputed => /\ \A q \in Paths \ disputed : Known(q) => ~Fights(p, q)
                           /\ \A r \in removing \ disputed : Label[r] # Label[p]
                           /\ p \notin removing
  BY <1>1, <1>2, <1>7 DEF WireSound, At
<1>9. \A d \in Callers : d # c /\ OpenCall(d) =>
         /\ Path(d) = p => p \in disputed
         /\ calls[d].kind = "wire" /\ Fights(Path(d), p) => p \in disputed
  BY <1>1, <1>2, <1>7 DEF Apart
<1>10. Apart'
  BY <1>1, <1>2, <1>3, <1>5, ApartKept DEF GoesOn, Path
<1>11. Kinds'
  BY <1>3 DEF RequestInv, Kinds
<1>12. WireSound'
  <2>2. ASSUME NEW d \in Callers, calls'[d].pc # "done", calls'[d].kind = "wire", calls'[d].path \notin disputed'
        PROVE  /\ calls'[d].pc \in {"pending", "new", "insert"} =>
                    \A q \in Paths \ disputed' : byId'[q] # 0 => ~Fights(calls'[d].path, q)
               /\ calls'[d].pc \in {"new", "insert"} => \A r \in removing \ disputed' : Label[r] # Label[calls'[d].path]
               /\ calls'[d].pc = "insert" => byId'[calls'[d].path] = 0
               /\ calls'[d].pc = "save" => byId'[calls'[d].path] # 0 /\ calls'[d].path \notin removing /\ calls'[d].path \notin gone'
    <3>1. CASE d # c
      <4>1. calls'[d] = calls[d] /\ OpenCall(d) /\ Path(d) \in Paths
        BY <1>0, <1>3, <2>2, <3>1 DEF OpenCall, At, Slotted
      <4>2. /\ Path(d) \notin disputed
            /\ calls[d].pc \in {"pending", "new", "insert"} => \A q \in Paths \ disputed : Known(q) => ~Fights(Path(d), q)
            /\ calls[d].pc \in {"new", "insert"} => \A r \in removing \ disputed : Label[r] # Label[Path(d)]
            /\ calls[d].pc = "insert" => ~Known(Path(d))
            /\ calls[d].pc = "save" => Known(Path(d)) /\ Path(d) \notin removing /\ Path(d) \notin gone
        BY <1>5, <1>7, <2>2, <4>1 DEF WireSound, At, Path
      <4>3. p \notin disputed' => Path(d) # p /\ ~Fights(Path(d), p)
        BY <1>5, <1>9, <2>2, <3>1, <4>1
      <4>4. Path(d) # p
        BY <1>5, <1>9, <2>2, <3>1, <4>1 DEF Path
      <4>5. calls'[d].path = Path(d) /\ calls'[d].pc = calls[d].pc /\ (byId'[Path(d)] # 0 <=> byId[Path(d)] # 0)
        BY <1>6, <4>1, <4>4 DEF Path
      <4>6. calls[d].pc \in {"pending", "new", "insert"} => \A q \in Paths \ disputed' : byId'[q] # 0 => ~Fights(Path(d), q)
        BY <1>5, <1>6, <4>2, <4>3 DEF Known
      <4> QED BY <1>5, <4>2, <4>5, <4>6 DEF Known
    <3>2. CASE d = c
      <4>1. byId'[calls'[c].path] # 0
        BY <1>2, <1>3, <1>6
      <4> QED BY <1>3, <1>5, <1>8, <2>2, <3>2, <4>1
    <3> QED BY <3>1, <3>2
  <2> QED BY <1>1, <2>2 DEF WireSound, OpenCall, At, Path, Known, Fights, nesting_conflict, SameLabel
<1>13. RemoveSound'
  <2>1. ASSUME NEW d \in Callers, calls'[d].pc # "done", calls'[d].kind = "remove", calls'[d].path \notin disputed'
        PROVE  calls'[d] = calls[d] /\ OpenCall(d) /\ Path(d) \notin disputed /\ (byId'[Path(d)] # 0 <=> byId[Path(d)] # 0)
    <3>1. calls'[d] = calls[d] /\ OpenCall(d) /\ d # c
      BY <1>3, <2>1 DEF OpenCall, At
    <3>2. Path(d) \in Paths /\ Path(d) # p /\ Path(d) \notin disputed
      BY <1>0, <1>5, <1>9, <2>1, <3>1 DEF Slotted, Path
    <3> QED BY <1>6, <3>1, <3>2
  <2> QED BY <1>1, <1>7, <2>1 DEF RemoveSound, OpenCall, At, Path, Known
<1>14. JobSound'
  BY <1>1, <1>5, <1>6, <1>7, <1>8 DEF JobSound, Known
<1>15. \A d \in Callers : calls[d].kind = "remove" => calls'[d] = calls[d]
  BY <1>2, <1>3
<1>16. Listed'
  BY <1>0, <1>1, <1>5, <1>6, <1>15 DEF RequestInv, Listed, Path, Typed, Known
<1>17. GoneListed' /\ GoneApart' /\ Reloadable'
  BY <1>0, <1>1, <1>2, <1>5, <1>6 DEF RequestInv, GoneListed, GoneApart, Reloadable, Typed, Known
<1>18. NoFight'
  <2>1. ~Fights(p, p)
    BY <1>2, PathsAssumption DEF Fights, nesting_conflict, SameLabel
  <2> QED BY <1>2, <1>5, <1>6, <1>8, <2>1, NoFightMeans, NoFightMeansNext, FightsSymmetric DEF RequestInv, Known
<1>19. TeardownAlone'
  BY <1>0, <1>1, <1>5, <1>6, <1>8, <1>15 DEF RequestInv, TeardownAlone, At, Path, Typed, Known
<1>20. RemovedStaysRemoved'
  BY <1>0, <1>2, <1>5, <1>6, <1>15 DEF RequestInv, RemovedStaysRemoved, At, Path, Typed, Known
<1> QED BY <1>10, <1>11, <1>12, <1>13, <1>14, <1>16, <1>17, <1>18, <1>19, <1>20 DEF RequestInv

\* The index is written back: it changes by the request's own folder, but for updates that are lost.
LEMMA RequestSaved ==
  ASSUME TypeInv, RequestInv, NEW c \in Callers, SaveIndex(c)
  PROVE  RequestInv'
<1> DEFINE p == Path(c)
<1>0. Typed /\ Slotted /\ Stopped
  BY DEF TypeInv
<1>1. OpenCall(c) /\ calls[c].pc = "save" /\ UNCHANGED <<up, byId, removing, gone>>
  BY DEF SaveIndex, OpenCall, At
<1>2. up /\ p \in Paths /\ calls[c].copy \in SUBSET Paths
  BY <1>0, <1>1 DEF Stopped, Slotted, OpenCall, At, Typed, Call
<1>3. /\ \A d \in Callers : d # c => calls'[d] = calls[d]
      /\ calls'[c].pc = "done" /\ calls'[c].kind = "wire"
  BY <1>0, GotoCall, PieceTypes DEF SaveIndex, CallPc
<1>4. /\ disputed \subseteq disputed'
      /\ \A q \in Paths \ disputed' : q \in index <=> q \in calls[c].copy
  BY DEF SaveIndex
<1>5. /\ Apart /\ WireSound /\ RemoveSound /\ JobSound /\ Listed /\ GoneListed
  BY DEF RequestInv
<1>6. \/ /\ calls[c].kind = "wire" /\ jobs' = jobs
         /\ \A q \in Paths \ disputed' : q \in index' <=> (q \in index \/ q = p)
      \/ /\ calls[c].kind = "remove" /\ spawn_teardown(p)
         /\ \A q \in Paths \ disputed' : q \in index' <=> (q \in index /\ q # p)
  BY <1>4 DEF SaveIndex
<1>7. \A d \in Callers : d # c /\ OpenCall(d) /\ Path(d) = p => p \in disputed
  BY <1>1, <1>5 DEF Apart
<1>8. /\ calls[c].kind = "wire" /\ p \notin disputed => Known(p) /\ p \notin removing /\ p \notin gone
      /\ calls[c].kind = "remove" /\ p \notin disputed => p \in removing /\ ~Known(p) /\ jobs[p].pc = "none"
  BY <1>1, <1>5 DEF WireSound, RemoveSound, At
<1>9. \A q \in Paths \ disputed' : q # p => jobs'[q] = jobs[q]
  BY <1>0, <1>6 DEF Typed, spawn_teardown
<1>10. index' \in SUBSET Paths
  BY <1>0, <1>2 DEF SaveIndex, Typed
<1>11. \A d \in Callers : calls'[d].pc # "done" => d # c /\ OpenCall(d) /\ calls'[d] = calls[d]
  BY <1>3 DEF OpenCall, At
<1>12. Apart'
  BY <1>1, <1>3, <1>4, ApartKept DEF GoesOn
<1>13. Kinds'
  BY <1>3 DEF RequestInv, Kinds
<1>14. WireSound'
  BY <1>1, <1>4, <1>5, <1>11 DEF WireSound, OpenCall, At, Path, Known, Fights, nesting_conflict, SameLabel
<1>15. RemoveSound'
  <2>1. ASSUME NEW d \in Callers, calls'[d].pc # "done", calls'[d].path \notin disputed'
        PROVE  calls'[d] = calls[d] /\ OpenCall(d) /\ Path(d) \notin disputed /\ jobs'[Path(d)] = jobs[Path(d)]
    <3>1. d # c /\ calls'[d] = calls[d] /\ OpenCall(d) /\ Path(d) \in Paths
      BY <1>0, <1>11, <2>1 DEF Slotted
    <3>2. Path(d) # p /\ Path(d) \notin disputed'
      BY <1>4, <1>7, <2>1, <3>1 DEF Path
    <3> QED BY <1>4, <1>9, <3>1, <3>2
  <2> QED BY <1>1, <1>5, <2>1 DEF RemoveSound, OpenCall, At, Path, Known
<1>16. JobSound'
  <2>1. ASSUME NEW q \in Paths \ disputed', jobs'[q].pc # "none"
        PROVE  q \in removing /\ q \notin index' /\ ~Known(q)
    <3>1. CASE q # p
      BY <1>4, <1>5, <1>6, <1>9, <2>1, <3>1 DEF JobSound
    <3>2. CASE q = p
      BY <1>4, <1>5, <1>6, <1>8, <2>1, <3>2 DEF JobSound
    <3> QED BY <3>1, <3>2
  <2> QED BY <1>1, <2>1 DEF JobSound, Known
<1>17. Listed'
  <2>1. ASSUME NEW q \in index' \ disputed'
        PROVE  /\ q \notin removing => Known(q)
               /\ q \in removing => \E d \in Callers : calls'[d].kind = "remove" /\ calls'[d].path = q /\ calls'[d].pc \in {"take", "save"}
    <3>1. CASE q \in index /\ (calls[c].kind = "remove" => q # p)
      <4>1. ASSUME q \in removing
            PROVE  \E d \in Callers : calls'[d].kind = "remove" /\ calls'[d].path = q /\ calls'[d].pc \in {"take", "save"}
        <5>1. PICK d \in Callers : calls[d].kind = "remove" /\ Path(d) = q /\ calls[d].pc \in {"take", "save"}
          BY <1>2, <1>4, <1>5, <2>1, <3>1, <4>1 DEF Listed
        <5>2. d # c
          BY <3>1, <5>1
        <5> QED BY <1>3, <5>1, <5>2 DEF Path
      <4> QED BY <1>2, <1>4, <1>5, <2>1, <3>1, <4>1 DEF Listed
    <3>2. CASE q = p /\ calls[c].kind = "wire"
      BY <1>4, <1>8, <2>1, <3>2
    <3> QED BY <1>6, <1>10, <2>1, <3>1, <3>2
  <2> QED BY <1>1, <2>1 DEF Listed, Known, Path
<1>18. GoneListed'
  BY <1>0, <1>1, <1>4, <1>5, <1>6, <1>8 DEF GoneListed, Typed
<1>19. GoneApart' /\ Reloadable'
  BY <1>1, <1>2, <1>4 DEF RequestInv, GoneApart, Reloadable, Known
<1>20. NoFight'
  BY <1>1, <1>4, NoFightMeans, NoFightMeansNext DEF RequestInv, Known
<1>21. \A d \in Callers : calls[d].pc = "take" => calls'[d] = calls[d]
  BY <1>1, <1>3
<1>22. TeardownAlone'
  BY <1>1, <1>4, <1>21 DEF RequestInv, TeardownAlone, Known, At, Path
<1>23. RemovedStaysRemoved'
  BY <1>1, <1>4, <1>21 DEF RequestInv, RemovedStaysRemoved, Known, At, Path
<1> QED BY <1>12, <1>13, <1>14, <1>15, <1>16, <1>17, <1>18, <1>19, <1>20, <1>22, <1>23 DEF RequestInv

\* A removal is listed.
LEMMA RequestAdded ==
  ASSUME TypeInv, RequestInv, NEW c \in Callers, Add(c)
  PROVE  RequestInv'
<1> DEFINE p == Path(c)
<1>0. Typed /\ Slotted /\ Stopped
  BY DEF TypeInv
<1>1. /\ OpenCall(c) /\ calls[c].pc = "add" /\ UNCHANGED <<up, byId, index, jobs, disputed>>
      /\ removing' = removing \cup {p} /\ gone' = gone \cup {p}
  BY DEF Add, OpenCall, At
<1>2. up /\ p \in Paths /\ calls[c].kind = "remove"
  BY <1>0, <1>1 DEF Stopped, Slotted, OpenCall, At, RequestInv, Kinds
<1>3. /\ \A d \in Callers : d # c => calls'[d] = calls[d]
      /\ calls'[c].pc = "take" /\ calls'[c].kind = "remove" /\ calls'[c].path = p
  BY <1>0, <1>2, GotoCall DEF Add, CallPc, Path
<1>5. /\ Apart /\ WireSound /\ RemoveSound /\ JobSound /\ Listed /\ GoneListed /\ TeardownAlone
      /\ \A q, r \in Paths \ disputed : Known(q) /\ Known(r) => ~Fights(q, r)
  BY NoFightMeans DEF RequestInv
<1>6. p \notin disputed => Known(p)
  BY <1>1, <1>2, <1>5 DEF RemoveSound
<1>7. \A d \in Callers : d # c /\ OpenCall(d) /\ Path(d) = p => p \in disputed
  BY <1>1, <1>5 DEF Apart
<1>8. ASSUME NEW q \in Paths \ disputed, Known(q), Label[q] = Label[p], p \notin disputed PROVE q = p
  BY <1>2, <1>5, <1>6, <1>8 DEF Fights, SameLabel
<1>12. Apart'
  BY <1>1, <1>2, <1>3, ApartKept DEF GoesOn, Path
<1>13. Kinds'
  BY <1>3 DEF RequestInv, Kinds
<1>14. WireSound'
  <2>1. ASSUME NEW d \in Callers, calls'[d].pc # "done", calls'[d].kind = "wire", calls'[d].path \notin disputed
        PROVE  /\ calls'[d] = calls[d] /\ OpenCall(d) /\ Path(d) # p /\ Path(d) \in Paths
               /\ calls[d].pc \in {"new", "insert"} /\ p \notin disputed => Label[p] # Label[Path(d)]
    <3>1. d # c /\ calls'[d] = calls[d] /\ OpenCall(d) /\ Path(d) \in Paths
      BY <1>0, <1>3, <2>1 DEF OpenCall, At, Slotted
    <3>2. Path(d) # p
      BY <1>7, <2>1, <3>1 DEF Path
    <3>3. ASSUME calls[d].pc \in {"new", "insert"}, p \notin disputed, Label[p] = Label[Path(d)] PROVE FALSE
      <4>1. ~Fights(Path(d), p)
        BY <1>2, <1>5, <1>6, <2>1, <3>1, <3>3 DEF WireSound, Path
      <4> QED BY <3>2, <3>3, <4>1 DEF Fights, SameLabel
    <3> QED BY <3>1, <3>2, <3>3
  <2> QED BY <1>1, <1>5, <2>1 DEF WireSound, OpenCall, At, Path, Known, Fights, nesting_conflict, SameLabel
<1>15. RemoveSound'
  <2>1. ASSUME NEW d \in Callers, calls'[d].pc # "done", calls'[d].kind = "remove", calls'[d].path \notin disputed
        PROVE  \/ d = c
               \/ calls'[d] = calls[d] /\ OpenCall(d) /\ Path(d) \notin disputed
    BY <1>3, <2>1 DEF OpenCall, At, Path
  <2> QED BY <1>1, <1>3, <1>5, <1>6, <2>1 DEF RemoveSound, OpenCall, At, Path, Known
<1>16. JobSound'
  BY <1>1, <1>5 DEF JobSound, Known
<1>17. Listed'
  <2>1. \A d \in Callers : calls[d].pc \in {"take", "save"} => calls'[d] = calls[d]
    BY <1>1, <1>3
  <2> QED BY <1>1, <1>3, <1>5, <2>1 DEF Listed, Known, Path
<1>18. GoneListed' /\ Reloadable'
  BY <1>1, <1>2, <1>5 DEF GoneListed, Reloadable
<1>19. GoneApart'
  BY <1>1, <1>8 DEF RequestInv, GoneApart, Known
<1>20. NoFight'
  BY <1>1, NoFightMeans, NoFightMeansNext DEF RequestInv, Known
<1>21. \A d \in Callers : calls[d].pc = "take" => calls'[d] = calls[d]
  BY <1>1, <1>3
<1>22. TeardownAlone'
  BY <1>0, <1>1, <1>3, <1>5, <1>8, <1>21 DEF TeardownAlone, Known, At, Path, Typed
<1>23. RemovedStaysRemoved'
  BY <1>1, <1>3, <1>21 DEF RequestInv, RemovedStaysRemoved, Known, At, Path
<1> QED BY <1>12, <1>13, <1>14, <1>15, <1>16, <1>17, <1>18, <1>19, <1>20, <1>22, <1>23 DEF RequestInv

\* A workspace being removed leaves the maps.
LEMMA RequestTaken ==
  ASSUME TypeInv, RequestInv, NEW c \in Callers, Take(c)
  PROVE  RequestInv'
<1> DEFINE p == Path(c)
<1>0. Typed /\ Slotted /\ Stopped
  BY DEF TypeInv
<1>1. OpenCall(c) /\ calls[c].pc = "take" /\ UNCHANGED <<up, index, removing, jobs, disputed, gone>>
  BY DEF Take, OpenCall, At
<1>2. up /\ p \in Paths /\ calls[c].kind = "remove"
  BY <1>0, <1>1 DEF Stopped, Slotted, OpenCall, At, RequestInv, Kinds
<1>3. /\ \A d \in Callers : d # c => calls'[d] = calls[d]
      /\ calls'[c].pc = "save" /\ calls'[c].kind = "remove" /\ calls'[c].path = p
  BY <1>0, <1>2, LoadIndexCall DEF Take, Path
<1>4. \A q \in Paths : byId'[q] = IF q = p THEN 0 ELSE byId[q]
  BY <1>0, <1>2 DEF Take, Typed
<1>5. /\ Apart /\ WireSound /\ RemoveSound /\ JobSound /\ Listed
  BY DEF RequestInv
<1>6. p \notin disputed => Known(p) /\ p \in removing /\ jobs[p].pc = "none"
  BY <1>1, <1>2, <1>5 DEF RemoveSound, JobSound, At
<1>7. \A d \in Callers : d # c /\ OpenCall(d) /\ Path(d) = p => p \in disputed
  BY <1>1, <1>5 DEF Apart
<1>8. ASSUME NEW d \in Callers, d # c, calls'[d].pc # "done", calls'[d].path \notin disputed
      PROVE  /\ calls'[d] = calls[d] /\ OpenCall(d) /\ Path(d) \in Paths /\ Path(d) \notin disputed
             /\ byId'[Path(d)] = byId[Path(d)]
  <2>1. calls'[d] = calls[d] /\ OpenCall(d) /\ Path(d) \in Paths
    BY <1>0, <1>3, <1>8 DEF OpenCall, At, Slotted
  <2>2. Path(d) # p /\ Path(d) \notin disputed
    BY <1>7, <1>8, <2>1 DEF Path
  <2> QED BY <1>4, <2>1, <2>2
<1>12. Apart'
  BY <1>1, <1>2, <1>3, ApartKept DEF GoesOn, Path
<1>13. Kinds'
  BY <1>3 DEF RequestInv, Kinds
<1>14. WireSound'
  <2>1. \A d \in Callers : calls'[d].kind = "wire" => d # c
    BY <1>3
  <2>2. \A q \in Paths : byId'[q] # 0 => byId[q] # 0
    BY <1>4
  <2> QED BY <1>1, <1>5, <1>8, <2>1, <2>2 DEF WireSound, OpenCall, At, Path, Known, Fights, nesting_conflict, SameLabel
<1>15. RemoveSound'
  <2>1. p \notin disputed => byId'[p] = 0
    BY <1>2, <1>4
  <2>2. ASSUME NEW d \in Callers, calls'[d].pc # "done", calls'[d].kind = "remove", calls'[d].path \notin disputed
        PROVE  /\ calls'[d].pc \in {"add", "take"} => byId'[calls'[d].path] # 0
               /\ calls'[d].pc = "take" => calls'[d].path \in removing
               /\ calls'[d].pc = "save" => calls'[d].path \in removing /\ byId'[calls'[d].path] = 0 /\ jobs[calls'[d].path].pc = "none"
    <3>1. CASE d = c
      BY <1>3, <1>6, <2>1, <2>2, <3>1
    <3>2. CASE d # c
      BY <1>5, <1>8, <2>2, <3>2 DEF RemoveSound, At, Path, Known
    <3> QED BY <3>1, <3>2
  <2> QED BY <1>1, <2>2 DEF RemoveSound, OpenCall, At, Path, Known
<1>16. JobSound'
  BY <1>1, <1>4, <1>5 DEF JobSound, Known
<1>17. Listed'
  <2>1. ASSUME NEW q \in index \ disputed
        PROVE  /\ q \notin removing => byId'[q] # 0
               /\ q \in removing => \E d \in Callers : calls'[d].kind = "remove" /\ calls'[d].path = q /\ calls'[d].pc \in {"take", "save"}
    <3>1. CASE q = p
      BY <1>3, <1>6, <2>1, <3>1
    <3>2. CASE q # p
      <4>1. ASSUME q \in removing
            PROVE  \E d \in Callers : calls'[d].kind = "remove" /\ calls'[d].path = q /\ calls'[d].pc \in {"take", "save"}
        <5>1. PICK d \in Callers : calls[d].kind = "remove" /\ Path(d) = q /\ calls[d].pc \in {"take", "save"}
          BY <1>2, <1>5, <2>1, <4>1 DEF Listed
        <5> QED BY <1>3, <3>2, <5>1 DEF Path
      <4> QED BY <1>0, <1>2, <1>4, <1>5, <2>1, <3>2, <4>1 DEF Listed, Known, Typed
    <3> QED BY <3>1, <3>2
  <2> QED BY <1>1, <2>1 DEF Listed, Known, Path
<1>18. GoneListed' /\ Reloadable' /\ GoneApart'
  BY <1>1, <1>2, <1>4 DEF RequestInv, GoneListed, Reloadable, GoneApart, Known
<1>20. NoFight'
  BY <1>1, <1>4, NoFightMeans, NoFightMeansNext DEF RequestInv, Known
<1>21. \A d \in Callers : calls[d].pc = "take" /\ Path(d) # p => calls'[d] = calls[d]
  BY <1>3
<1>22. TeardownAlone'
  BY <1>1, <1>2, <1>4, <1>21 DEF RequestInv, TeardownAlone, Known, At, Path
<1>23. RemovedStaysRemoved'
  BY <1>0, <1>1, <1>2, <1>4, <1>21 DEF RequestInv, RemovedStaysRemoved, Known, At, Path, Typed
<1> QED BY <1>12, <1>13, <1>14, <1>15, <1>16, <1>17, <1>18, <1>20, <1>22, <1>23 DEF RequestInv

\* A teardown goes on, or finishes.
LEMMA RequestTornDown ==
  ASSUME TypeInv, RequestInv, NEW p \in Paths, JobMove(p)
  PROVE  RequestInv'
<1>0. Typed /\ Slotted /\ Stopped
  BY DEF TypeInv
<1>1. UNCHANGED <<up, byId, index, calls, disputed, gone>> /\ jobs[p].pc # "none"
  BY <1>0, JobMoves
<1>2. PICK new \in Job : /\ jobs' = [jobs EXCEPT ![p] = new]
                         /\ \/ new.pc # "none" /\ removing' = removing
                            \/ new.pc = "none" /\ jobs[p].pc = "finish" /\ removing' = removing \ {p}
  BY <1>0, JobMoves
<1>3. CASE new.pc # "none" /\ removing' = removing
  <2>1. \A q \in Paths : (jobs'[q].pc = "none") <=> (jobs[q].pc = "none")
    BY <1>0, <1>1, <1>2, <1>3 DEF Typed
  <2> QED BY <1>0, <1>1, <1>3, <2>1, RequestFrame DEF Slotted
<1>4. CASE new.pc = "none" /\ removing' = removing \ {p}
  <2>1. jobs'[p].pc = "none" /\ \A q \in Paths : q # p => jobs'[q] = jobs[q]
    BY <1>0, <1>2, <1>4 DEF Typed
  <2>2. p \notin disputed => p \notin index /\ ~Known(p)
    BY <1>1 DEF RequestInv, JobSound
  <2>3. Apart' /\ Kinds'
    BY <1>1 DEF RequestInv, Apart, Kinds, OpenCall, At, Path, Fights, nesting_conflict, SameLabel
  <2>4. WireSound'
    BY <1>1, <1>4 DEF RequestInv, WireSound, OpenCall, At, Path, Known, Fights, nesting_conflict, SameLabel
  <2>5. RemoveSound'
    <3>1. ASSUME NEW d \in Callers, OpenCall(d), calls[d].kind = "remove", Path(d) \notin disputed, calls[d].pc \in {"take", "save"}
          PROVE  Path(d) # p /\ Path(d) \in Paths
      BY <1>0, <1>1, <2>2, <3>1 DEF RequestInv, RemoveSound, At, Slotted
    <3> QED BY <1>1, <1>4, <2>1, <3>1 DEF RequestInv, RemoveSound, OpenCall, At, Path, Known
  <2>6. JobSound'
    BY <1>1, <1>4, <2>1 DEF RequestInv, JobSound, Known
  <2>7. Listed' /\ GoneListed' /\ GoneApart'
    BY <1>1, <1>4, <2>2 DEF RequestInv, Listed, GoneListed, GoneApart, Known, Path
  <2>8. Reloadable'
    <3>1. up
      BY <1>0, <1>1 DEF Stopped
    <3> QED BY <1>1, <3>1 DEF Reloadable
  <2>9. NoFight' /\ TeardownAlone' /\ RemovedStaysRemoved'
    BY <1>1, <1>4 DEF RequestInv, NoFight, TeardownAlone, RemovedStaysRemoved, Known, At, Path, nesting_conflict, SameLabel
  <2> QED BY <2>3, <2>4, <2>5, <2>6, <2>7, <2>8, <2>9 DEF RequestInv
<1> QED BY <1>2, <1>3, <1>4

\* fghjd dies: what the files list then is what was wired, or being removed.
LEMMA RequestCrashed ==
  ASSUME TypeInv, RequestInv, Crash
  PROVE  RequestInv'
<1>0. Typed /\ Slotted /\ Stopped
  BY DEF TypeInv
<1>1. /\ up /\ ~up' /\ byId' = [p \in Paths |-> 0] /\ jobs' = [p \in Paths |-> NoJob]
      /\ calls' = [c \in Callers |-> NoCall] /\ UNCHANGED <<index, removing, disputed, gone>>
  BY DEF Crash
<1>2. \A c \in Callers : calls'[c].pc = "done"
  BY <1>1, PieceTypes
<1>3. Apart' /\ Kinds' /\ WireSound' /\ RemoveSound'
  BY <1>2 DEF Apart, Kinds, WireSound, RemoveSound, OpenCall, At
<1>4. JobSound' /\ Listed' /\ GoneListed' /\ GoneApart'
  BY <1>1 DEF RequestInv, JobSound, Listed, GoneListed, GoneApart, Known, NoJob
<1>5. Reloadable'
  <2>1. ASSUME NEW p \in index \ (removing \cup disputed)
        PROVE  p \in Paths /\ Known(p)
    BY <1>0, <1>1, <2>1 DEF RequestInv, Listed, Typed
  <2>2. ASSUME NEW p \in index \ (removing \cup disputed), NEW q \in index \ (removing \cup disputed)
        PROVE  ~Fights(p, q)
    BY <2>1, <2>2, NoFightMeans DEF RequestInv
  <2>3. ASSUME NEW p \in index \ (removing \cup disputed), NEW q \in (removing \cup gone) \ disputed, q # p
        PROVE  Label[q] # Label[p]
    BY <2>1, <2>3 DEF RequestInv, TeardownAlone, GoneApart
  <2> QED BY <1>1, <2>2, <2>3 DEF Reloadable, Fights, nesting_conflict, SameLabel
<1>6. NoFight' /\ TeardownAlone' /\ RemovedStaysRemoved'
  BY <1>0, <1>1 DEF NoFight, TeardownAlone, RemovedStaysRemoved, Known, Typed
<1> QED BY <1>3, <1>4, <1>5, <1>6 DEF RequestInv

\* fghjd starts again, on the files alone.
LEMMA RequestLoaded ==
  ASSUME TypeInv, RequestInv, NEW answers \in BOOLEAN, load_from(answers)
  PROVE  RequestInv'
<1>0. Typed /\ Slotted /\ Stopped
  BY DEF TypeInv
<1>1. /\ ~up /\ up' /\ index' = index \ removing /\ byId' = [p \in Paths |-> IF p \in index' THEN 1 ELSE 0]
      /\ jobs' = [p \in Paths |-> IF p \in removing THEN NewJob ELSE NoJob]
      /\ UNCHANGED <<removing, calls, disputed, gone>>
  BY DEF load_from, ghosts
<1>2. \A c \in Callers : calls'[c].pc = "done"
  BY <1>0, <1>1 DEF Stopped
<1>3. \A p \in Paths : (byId'[p] # 0 <=> p \in index') /\ (jobs'[p].pc # "none" => p \in removing)
  BY <1>1 DEF NoJob
<1>4. Apart' /\ Kinds' /\ WireSound' /\ RemoveSound'
  BY <1>2 DEF Apart, Kinds, WireSound, RemoveSound, OpenCall, At
<1>5. JobSound' /\ Listed' /\ GoneListed'
  BY <1>0, <1>1, <1>3 DEF RequestInv, JobSound, Listed, GoneListed, Known, Typed
<1>6. Reloadable /\ GoneListed
  BY DEF RequestInv
<1>7. GoneApart'
  BY <1>1, <1>3, <1>6 DEF GoneApart, Reloadable, Known
<1>8. Reloadable'
  BY <1>1 DEF Reloadable
<1>9. NoFight'
  BY <1>1, <1>3, <1>6, NoFightMeansNext DEF Reloadable, Known
<1>10. TeardownAlone'
  BY <1>1, <1>3, <1>6 DEF TeardownAlone, Reloadable, Known
<1>11. RemovedStaysRemoved'
  BY <1>0, <1>1, <1>3, <1>6 DEF RemovedStaysRemoved, GoneListed, Known, Typed
<1> QED BY <1>4, <1>5, <1>7, <1>8, <1>9, <1>10, <1>11 DEF RequestInv

LEMMA RequestStep == TypeInv /\ RequestInv /\ [Next]_vars => RequestInv'
<1> SUFFICES ASSUME TypeInv, RequestInv, [Next]_vars PROVE RequestInv'
  OBVIOUS
<1>1. \A c \in Callers : OpenCall(c) => Path(c) \in Paths
  BY DEF TypeInv, Slotted
<1>2. ASSUME NEW a \in Actors, PersonalStep(a) PROVE RequestInv'
  BY <1>1, <1>2, PersonalMoves, RequestFrame DEF ActorsOnly
<1>3. ASSUME NEW p \in Paths, Request(p) \/ Observe(p) PROVE RequestInv'
  BY <1>1, <1>3, PublicMoves, RequestFrame DEF ActorsOnly
<1>4. ASSUME NEW l \in Labels, ContainerGoes(l) PROVE RequestInv'
  BY <1>1, <1>4, RequestFrame DEF ContainerGoes, requestVars
<1>5. CASE UNCHANGED vars
  BY <1>1, <1>5, RequestFrame DEF vars, requestVars, ghosts
<1> QED BY <1>2, <1>3, <1>4, <1>5, RequestAsked, RequestChecked, RequestInserted, RequestSaved, RequestAdded,
           RequestTaken, RequestTornDown, RequestCrashed, RequestLoaded
        DEF Next, Onward, CallStep, JobMove, PersonalStep, Actors

(***************************************************************************)
(* No two wired workspaces nest or bear one name, whatever requests, jobs  *)
(* and crashes come in between, unless requests about them have crossed:   *)
(* resolve's checks, made before the workspace is on the maps, still hold  *)
(* when it is put there, and the index never lists two that fight.         *)
(***************************************************************************)
THEOREM NoWorkspacesFight == Spec => []NoFight
<1>1. Init => TypeInv /\ RequestInv
  BY TypeInit, RequestInit
<1>2. TypeInv /\ RequestInv /\ [Next]_vars => (TypeInv /\ RequestInv)'
  BY TypeStep, RequestStep
<1>3. RequestInv => NoFight
  BY DEF RequestInv
<1> QED BY <1>1, <1>2, <1>3, PTL DEF Spec

-----------------------------------------------------------------------------
(* The fourth layer. *)

LEMMA WriterInit == Init => WriterInv
<1> SUFFICES ASSUME Init PROVE WriterInv
  OBVIOUS
<1>1. ASSUME NEW a \in Actors
      PROVE  \/ acts[a] = NoActor
             \/ a[1] \in Wired /\ a[2] = 1 /\ acts[a] = Settled(AtFirst(a[1]))
  BY DEF Init, Actors
<1>2. \A p \in Paths : /\ Settled(AtFirst(p)).env = AtFirst(p) /\ Settled(AtFirst(p)).pc = "wait"
                       /\ Settled(AtFirst(p)).job = "none" /\ AtFirst(p).ver \in Nat
  BY DEF Settled, NoActor, AtFirst, NoEnv
<1>3. \A a \in Actors : a[1] \in Wired /\ a[2] = 1 => byId[a[1]] = 1
  BY ActorTuples DEF Init
<1>4. \A a \in Actors : db[a[1]] = AtFirst(a[1])
  BY ActorTuples DEF Init
<1>5. OneWriter
  <2> SUFFICES ASSUME NEW a \in Actors, Live(a)
               PROVE  /\ \A b \in Actors : b[1] = a[1] /\ Live(b) => b = a
                      /\ Known(a[1]) => byId[a[1]] = a[2]
                      /\ db[a[1]].ver <= acts[a].env.ver
                      /\ acts[a].pc # "saving"
    BY DEF OneWriter
  <2>1. \A b \in Actors : Live(b) => b[1] \in Wired /\ b[2] = 1 /\ acts[b] = Settled(AtFirst(b[1]))
    BY <1>1, PieceTypes DEF Live
  <2>2. \A b \in Actors : b[1] = a[1] /\ Live(b) => b = a
    BY <2>1, ActorTuples
  <2> QED BY <1>2, <1>3, <1>4, <2>1, <2>2, ActorTuples
<1>6. Unwritten
  BY PieceTypes DEF Unwritten, Init, At
<1>7. Unstrayed
  BY <1>1, <1>2, <1>3, ActorTuples, PieceTypes DEF Unstrayed
<1> QED BY <1>5, <1>6, <1>7 DEF WriterInv

\* Steps that touch no actor, map or store; a store may have been read.
LEMMA WriterFrame ==
  ASSUME WriterInv, UNCHANGED <<byId, acts, db, strays>>, disputed \subseteq disputed',
         \A c \in Callers : calls'[c].pc = "insert" => calls'[c] = calls[c]
  PROVE  WriterInv'
<1>1. OneWriter'
  BY DEF WriterInv, OneWriter, Live, Known
<1>2. Unwritten'
  BY DEF WriterInv, Unwritten, Live, At, Path
<1>3. Unstrayed'
  BY DEF WriterInv, Unstrayed
<1> QED BY <1>1, <1>2, <1>3 DEF WriterInv

\* An actor's own step, which may write its store.
LEMMA WriterMoved ==
  ASSUME TypeInv, WriterInv, NEW a \in Actors, NEW new, Moves(a, new), ActorsOnly,
         \/ db' = db
         \/ /\ acts[a].pc = "saving" /\ new.pc = "wait" /\ db'[a[1]].ver = acts[a].snap.ver
            /\ new.env = acts[a].env /\ \A q \in Paths : q # a[1] => db'[q] = db[q]
  PROVE  WriterInv'
<1>0. Typed /\ Slotted
  BY DEF TypeInv
<1>1. acts'[a] = new /\ \A b \in Actors : b # a => acts'[b] = acts[b]
  BY <1>0, MovesActs
<1>2. UNCHANGED <<byId, calls, disputed, strays>> /\ Live(a)
  BY DEF ActorsOnly, Moves
<1>3. \A b \in Actors : acts'[b].pc # "off" => Live(b)
  BY <1>1, <1>2 DEF Live
<1>4. ASSUME NEW b \in Actors, acts'[b].pc # "off", b[1] \notin disputed
      PROVE  /\ \A e \in Actors : e[1] = b[1] /\ acts'[e].pc # "off" => e = b
             /\ Known(b[1]) => byId[b[1]] = b[2]
             /\ db'[b[1]].ver <= acts'[b].env.ver
             /\ acts'[b].pc = "saving" => db'[b[1]].ver <= acts'[b].snap.ver /\ acts'[b].snap.ver <= acts'[b].env.ver
  <2>1. /\ \A e \in Actors : e[1] = b[1] /\ Live(e) => e = b
        /\ Known(b[1]) => byId[b[1]] = b[2]
        /\ db[b[1]].ver <= acts[b].env.ver
        /\ acts[b].pc = "saving" => db[b[1]].ver <= acts[b].snap.ver /\ acts[b].snap.ver <= acts[b].env.ver
    BY <1>3, <1>4 DEF WriterInv, OneWriter
  <2>2. /\ b[1] \in Paths /\ db[b[1]].ver \in Nat /\ acts[b].env.ver \in Nat /\ acts[b].snap.ver \in Nat
    BY <1>0, ActorTuples DEF Typed, Actor, Env
  <2>3. CASE b # a
    <3>1. b[1] # a[1]
      BY <1>2, <1>3, <1>4, <2>1, <2>3
    <3> QED BY <1>1, <1>3, <2>1, <2>2, <2>3, <3>1
  <2>4. CASE b = a
    <3>1. new.env.ver \in Nat /\ acts[a].env.ver <= new.env.ver
      BY <1>1, <1>4, <2>4 DEF Moves, Actor, Env
    <3> QED BY <1>1, <1>3, <2>1, <2>2, <2>4, <3>1 DEF Moves
  <2> QED BY <2>3, <2>4
<1>5. OneWriter'
  BY <1>2, <1>4 DEF OneWriter, Live, Known
<1>6. Unwritten'
  <2>1. ASSUME NEW c \in Callers, At(c, "insert"), Path(c) \notin disputed
        PROVE  /\ \A b \in Actors : b[1] = Path(c) => acts'[b].pc = "off"
               /\ calls[c].env.ver = db'[Path(c)].ver
    <3>1. /\ \A b \in Actors : b[1] = Path(c) => ~Live(b)
          /\ calls[c].env.ver = db[Path(c)].ver /\ Path(c) \in Paths
      BY <1>0, <2>1 DEF WriterInv, Unwritten, Slotted, OpenCall, At
    <3> QED BY <1>2, <1>3, <3>1
  <2> QED BY <1>2, <2>1 DEF Unwritten, At, Path, Live
<1>7. Unstrayed'
  BY <1>1, <1>2 DEF WriterInv, Unstrayed, Moves
<1> QED BY <1>5, <1>6, <1>7 DEF WriterInv

LEMMA WriterStep == TypeInv /\ RequestInv /\ WriterInv /\ [Next]_vars => WriterInv'
<1> SUFFICES ASSUME TypeInv, RequestInv, WriterInv, [Next]_vars PROVE WriterInv'
  OBVIOUS
<1>0. Typed /\ Slotted /\ Stopped
  BY DEF TypeInv
<1>1. ASSUME NEW c \in Callers, OpenCall(c)
      PROVE  up /\ Path(c) \in Paths /\ calls[c] \in Call
  BY <1>0, <1>1 DEF Slotted, Stopped, Typed, OpenCall, At
<1>2. ASSUME NEW c \in Callers, Clash(c) \/ PendingRemoval(c) \/ SaveIndex(c) \/ Add(c)
      PROVE  WriterInv'
  <2>1. PICK pc \in CallPc \ {"insert"} : Goto(c, pc)
    BY <1>2 DEF Clash, PendingRemoval, SaveIndex, Add, CallPc
  <2>2. UNCHANGED <<byId, acts, db, strays>> /\ disputed \subseteq disputed'
    BY <1>2 DEF Clash, PendingRemoval, SaveIndex, Add, Quiet
  <2>3. \A d \in Callers : calls'[d].pc = "insert" => calls'[d] = calls[d]
    BY <1>0, <2>1, GotoCall
  <2> QED BY <2>2, <2>3, WriterFrame
<1>3. ASSUME NEW c \in Callers, NEW p \in Paths, Resolve(c, p) \/ Remove(c, p)
      PROVE  WriterInv'
  <2>1. UNCHANGED <<byId, acts, db, strays>> /\ disputed \subseteq disputed'
    BY <1>3 DEF Resolve, Remove, Asked
  <2>2. calls' = calls \/ Open(c, "wire", p, "clash") \/ Open(c, "remove", p, "add")
    BY <1>3 DEF Resolve, Remove
  <2>3. \A d \in Callers : calls'[d].pc = "insert" => calls'[d] = calls[d]
    BY <1>0, <2>2, OpenNew DEF CallPc
  <2> QED BY <2>1, <2>3, WriterFrame
<1>4. ASSUME NEW c \in Callers, NEW answers \in BOOLEAN, New(c, answers)
      PROVE  WriterInv'
  <2>1. UNCHANGED <<byId, acts, db, strays>> /\ Path(c) \in Paths
    BY <1>1, <1>4 DEF New, Quiet, OpenCall, At
  <2>2. CASE Known(Path(c))
    <3>1. Goto(c, "done") /\ disputed' = disputed
      BY <1>4, <2>2 DEF New
    <3>2. \A d \in Callers : calls'[d].pc = "insert" => calls'[d] = calls[d]
      BY <1>0, <3>1, GotoCall DEF CallPc
    <3> QED BY <2>1, <3>1, <3>2, WriterFrame
  <2>3. CASE ~Known(Path(c))
    <3>1. /\ \A d \in Callers : d # c => calls'[d] = calls[d]
          /\ calls'[c].path = Path(c) /\ calls'[c].env.ver = db[Path(c)].ver
      BY <1>0, <1>4, <2>1, <2>3, NewCall, RehydrateType DEF Path
    <3>2. disputed \subseteq disputed' /\ (Path(c) \notin disputed' => Free(Path(c)) = SLOTS)
      BY <1>4, <2>3 DEF New, Contended
    <3>3. Path(c) \notin disputed' => \A a \in Actors : a[1] = Path(c) => ~Live(a)
      BY <3>2, ActorTuples, PieceTypes DEF Free, Live
    <3>4. OneWriter'
      BY <2>1, <3>2 DEF WriterInv, OneWriter, Live, Known
    <3>5. Unwritten'
      BY <2>1, <3>1, <3>2, <3>3 DEF WriterInv, Unwritten, Live, At, Path
    <3>6. Unstrayed'
      BY <2>1, <3>2 DEF WriterInv, Unstrayed
    <3> QED BY <3>4, <3>5, <3>6 DEF WriterInv
  <2> QED BY <2>2, <2>3
<1>5. ASSUME NEW c \in Callers, Insert(c)
      PROVE  WriterInv'
  <2> DEFINE p == Path(c)
  <2>1. p \in Paths /\ OpenCall(c) /\ calls[c].env \in Env /\ At(c, "insert") /\ UNCHANGED <<db, strays>>
    BY <1>1, <1>5 DEF Insert, OpenCall, At, Call
  <2>2. calls'[c].pc = "save" /\ \A d \in Callers : d # c => calls'[d] = calls[d]
    BY <1>0, <1>5, LoadIndexCall DEF Insert
  <2>3. PICK s \in SLOTS : /\ byId' = [byId EXCEPT ![p] = s]
                           /\ acts' = [acts EXCEPT ![<<p, s>>] = Spawned(calls[c].env)]
    BY <1>0, <1>5, <2>1, InsertActor
  <2> DEFINE n == <<p, s>>
  <2>4. n \in Actors /\ n[1] = p /\ n[2] = s
    BY <2>1, ActorTuples
  <2> HIDE DEF n
  <2>5. /\ acts'[n].env = calls[c].env /\ acts'[n].pc = "look" /\ acts'[n].job = "none"
        /\ \A b \in Actors : b # n => acts'[b] = acts[b]
    BY <1>0, <2>1, <2>3, <2>4, SpawnedType DEF Typed, n
  <2>6. disputed \subseteq disputed' /\ (p \notin disputed' => p \notin disputed)
    BY <1>5 DEF Insert, Contended
  <2>7. byId'[p] = s /\ \A q \in Paths : q # p => byId'[q] = byId[q]
    BY <1>0, <2>1, <2>3 DEF Typed
  <2>8. p \notin disputed => /\ \A a \in Actors : a[1] = p => ~Live(a) /\ acts[a] = NoActor
                             /\ calls[c].env.ver = db[p].ver
    BY <1>0, <2>1 DEF WriterInv, Unwritten, Slotted, Live
  <2>9. db[p].ver \in Nat
    BY <1>0, <2>1 DEF Typed, Env
  <2>10. ASSUME NEW b \in Actors, acts'[b].pc # "off", b[1] \notin disputed'
         PROVE  /\ \A e \in Actors : e[1] = b[1] /\ acts'[e].pc # "off" => e = b
                /\ byId'[b[1]] # 0 => byId'[b[1]] = b[2]
                /\ db[b[1]].ver <= acts'[b].env.ver
                /\ acts'[b].pc = "saving" => db[b[1]].ver <= acts'[b].snap.ver /\ acts'[b].snap.ver <= acts'[b].env.ver
    <3>1. CASE b[1] = p
      <4>1. \A e \in Actors : e[1] = p /\ acts'[e].pc # "off" => e = n
        BY <2>5, <2>6, <2>8, <2>10, <3>1 DEF Live
      <4>2. b = n
        BY <2>10, <3>1, <4>1
      <4> QED BY <2>4, <2>5, <2>6, <2>7, <2>8, <2>9, <2>10, <4>1, <4>2
    <3>2. CASE b[1] # p
      <4>1. \A e \in Actors : e[1] = b[1] => acts'[e] = acts[e]
        BY <2>4, <2>5, <3>2
      <4>2. byId'[b[1]] = byId[b[1]]
        BY <2>7, <3>2, ActorTuples
      <4> QED BY <2>6, <2>10, <4>1, <4>2 DEF WriterInv, OneWriter, Live, Known
    <3> QED BY <3>1, <3>2
  <2>11. OneWriter'
    BY <2>1, <2>10 DEF OneWriter, Live, Known
  <2>12. Unwritten'
    <3>1. ASSUME NEW d \in Callers, calls'[d].pc = "insert", calls'[d].path \notin disputed'
          PROVE  /\ calls'[d] = calls[d] /\ At(d, "insert") /\ Path(d) \notin disputed /\ Path(d) # p
      <4>1. d # c /\ calls'[d] = calls[d] /\ OpenCall(d)
        BY <2>2, <3>1 DEF OpenCall, At
      <4>2. Path(d) = p => p \in disputed
        BY <2>1, <4>1 DEF RequestInv, Apart
      <4> QED BY <2>6, <3>1, <4>1, <4>2 DEF At, Path
    <3> QED BY <2>1, <2>4, <2>5, <3>1 DEF WriterInv, Unwritten, Live, At, Path
  <2>13. Unstrayed'
    <3>1. ASSUME NEW b \in Actors, b[1] \notin disputed'
          PROVE  /\ acts'[b].conv => byId'[b[1]] = b[2]
                 /\ acts'[b].job # "none" => byId'[b[1]] = b[2] \/ b[1] \in strays
      <4>1. CASE b = n
        BY <2>4, <2>5, <2>7, <4>1
      <4>2. CASE b # n /\ b[1] = p
        BY <2>5, <2>6, <2>8, <3>1, <4>2, PieceTypes
      <4>3. CASE b # n /\ b[1] # p
        BY <2>5, <2>6, <2>7, <3>1, <4>3, ActorTuples DEF WriterInv, Unstrayed
      <4> QED BY <4>1, <4>2, <4>3
    <3> QED BY <2>1, <3>1 DEF Unstrayed
  <2> QED BY <2>11, <2>12, <2>13 DEF WriterInv
<1>6. ASSUME NEW c \in Callers, Take(c)
      PROVE  WriterInv'
  <2> DEFINE p == Path(c)
  <2>1. p \in Paths /\ UNCHANGED <<db, disputed>>
    BY <1>1, <1>6 DEF Take, OpenCall, At
  <2>2. \A d \in Callers : calls'[d].pc = "insert" => calls'[d] = calls[d]
    BY <1>0, <1>6, LoadIndexCall DEF Take
  <2>3. byId'[p] = 0 /\ \A q \in Paths : q # p => byId'[q] = byId[q]
    BY <1>0, <1>6, <2>1 DEF Take, Typed
  <2>4. ASSUME NEW a \in Actors
        PROVE  /\ acts'[a].env = acts[a].env /\ acts'[a].pc = acts[a].pc /\ acts'[a].snap = acts[a].snap
               /\ acts'[a].job = acts[a].job
               /\ acts'[a].conv => acts[a].conv /\ ~(Known(p) /\ a = Act(p))
    BY <1>0, <1>6, <2>1, TakenActors
  <2>5. strays \subseteq strays' /\ \A s \in SLOTS : acts[<<p, s>>].job # "none" => p \in strays'
    BY <1>6 DEF Take
  <2>6. OneWriter'
    <3>1. \A a \in Actors : byId'[a[1]] # 0 => byId'[a[1]] = byId[a[1]]
      BY <2>3, ActorTuples
    <3> QED BY <2>1, <2>4, <3>1 DEF WriterInv, OneWriter, Live, Known
  <2>7. Unwritten'
    BY <2>1, <2>2, <2>4 DEF WriterInv, Unwritten, Live, At, Path
  <2>8. Unstrayed'
    <3>1. ASSUME NEW a \in Actors, a[1] \notin disputed
          PROVE  /\ acts'[a].conv => byId'[a[1]] = a[2]
                 /\ acts'[a].job # "none" => byId'[a[1]] = a[2] \/ a[1] \in strays'
      <4>1. CASE a[1] = p
        <5>1. a[2] \in SLOTS /\ a = <<p, a[2]>> /\ a[2] # 0
          BY <4>1, ActorTuples DEF SLOTS
        <5>2. ~acts'[a].conv
          BY <2>4, <3>1, <4>1, <5>1 DEF WriterInv, Unstrayed, Known, Act
        <5> QED BY <2>4, <2>5, <4>1, <5>1, <5>2
      <4>2. CASE a[1] # p
        BY <2>3, <2>4, <2>5, <3>1, <4>2, ActorTuples DEF WriterInv, Unstrayed
      <4> QED BY <4>1, <4>2
    <3> QED BY <2>1, <3>1 DEF Unstrayed
  <2> QED BY <2>6, <2>7, <2>8 DEF WriterInv
<1>7. ASSUME NEW a \in Actors, PersonalStep(a)
      PROVE  WriterInv'
  <2>1. ActorsOnly /\ \E new \in Actor : Moves(a, new)
    BY <1>7, PersonalMoves
  <2>2. CASE save_env(a)
    <3>1. /\ acts[a].pc = "saving" /\ db' = [db EXCEPT ![a[1]] = Columns(acts[a].snap)] /\ acts[a] \in Actor
          /\ acts[a].snap \in Env /\ a[1] \in Paths
      BY <1>0, <2>2, ActorTuples DEF save_env, Typed, Actor
    <3>2. db'[a[1]].ver = acts[a].snap.ver /\ \A q \in Paths : q # a[1] => db'[q] = db[q]
      BY <1>0, <3>1 DEF Columns, Env, Typed
    <3>3. acts'[a].pc = "wait" /\ acts'[a].env = acts[a].env
      <4> DEFINE new == [acts[a] EXCEPT !.pc = "wait", !.last = <<acts[a].snap>>, !.failed = FALSE, !.snap = NoEnv]
      <4>1. acts' = [acts EXCEPT ![a] = new] /\ new.pc = "wait" /\ new.env = acts[a].env
        BY <2>2, <3>1 DEF save_env, Actor
      <4> QED BY <1>0, <4>1 DEF Typed
    <3>4. PICK new \in Actor : Moves(a, new)
      BY <2>1
    <3>5. acts'[a] = new
      BY <1>0, <3>4, MovesActs
    <3> QED BY <2>1, <3>1, <3>2, <3>3, <3>4, <3>5, WriterMoved
  <2>3. CASE ~save_env(a)
    <3>1. db' = db
      BY <1>7, <2>3
      DEF PersonalStep, PersistStep, ActorStep, Look, SaveFails, Wake, PersistEnds, SpawnAction, CreateContainer, Report
    <3> QED BY <2>1, <3>1, WriterMoved
  <2> QED BY <2>2, <2>3
<1>8. ASSUME NEW p \in Paths, Request(p) \/ Observe(p)
      PROVE  WriterInv'
  <2>1. ActorsOnly /\ db' = db /\ Act(p) \in Actors /\ \E new \in Actor : Moves(Act(p), new)
    BY <1>0, <1>8, PublicMoves, ActOfKnown
  <2> QED BY <2>1, WriterMoved
<1>9. ASSUME NEW p \in Paths, JobMove(p)
      PROVE  WriterInv'
  <2>1. UNCHANGED <<byId, acts, calls, db, disputed, strays>>
    BY <1>0, <1>9, JobMoves
  <2> QED BY <2>1, WriterFrame
<1>10. ASSUME NEW l \in Labels, ContainerGoes(l)
       PROVE  WriterInv'
  BY <1>10, WriterFrame DEF ContainerGoes, requestVars
<1>11. CASE Crash
  <2>1. acts' = [a \in Actors |-> NoActor] /\ calls' = [c \in Callers |-> NoCall]
    BY <1>11 DEF Crash, Actors
  <2> QED BY <2>1, PieceTypes DEF WriterInv, OneWriter, Unwritten, Unstrayed, Live, At
<1>12. ASSUME NEW answers \in BOOLEAN, load_from(answers)
       PROVE  WriterInv'
  <2>1. /\ ~up /\ byId' = [p \in Paths |-> IF p \in index' THEN 1 ELSE 0]
        /\ acts' = [a \in Actors |-> IF a[1] \in index' /\ a[2] = 1 THEN Spawned(rehydrate(a[1], answers)) ELSE NoActor]
        /\ UNCHANGED <<db, calls, disputed, strays>>
    BY <1>12 DEF load_from, Actors, ghosts
  <2>2. \A c \in Callers : calls'[c].pc = "done"
    BY <1>0, <2>1 DEF Stopped
  <2>3. ASSUME NEW a \in Actors
        PROVE  \/ acts'[a] = NoActor
               \/ /\ a[2] = 1 /\ byId'[a[1]] = 1 /\ acts'[a].env.ver = db[a[1]].ver /\ db[a[1]].ver \in Nat
                  /\ acts'[a].pc = "look" /\ acts'[a].job = "none"
    <3>1. a[1] \in Paths
      BY ActorTuples
    <3>2. rehydrate(a[1], answers) \in Env /\ rehydrate(a[1], answers).ver = db[a[1]].ver /\ db[a[1]].ver \in Nat
      BY <1>0, <3>1, RehydrateType DEF Env
    <3> QED BY <2>1, <3>1, <3>2, SpawnedType
  <2>4. OneWriter'
    <3>1. ASSUME NEW a \in Actors, acts'[a].pc # "off"
          PROVE  /\ \A b \in Actors : b[1] = a[1] /\ acts'[b].pc # "off" => b = a
                 /\ byId'[a[1]] = a[2] /\ db[a[1]].ver <= acts'[a].env.ver /\ acts'[a].pc # "saving"
      BY <2>3, <3>1, ActorTuples, PieceTypes
    <3> QED BY <2>1, <3>1 DEF OneWriter, Live
  <2>5. Unwritten'
    BY <2>2 DEF Unwritten, At
  <2>6. Unstrayed'
    BY <2>3, PieceTypes DEF Unstrayed
  <2> QED BY <2>4, <2>5, <2>6 DEF WriterInv
<1>13. CASE UNCHANGED vars
  BY <1>13, WriterFrame DEF vars, requestVars, ghosts
<1> QED BY <1>2, <1>3, <1>4, <1>5, <1>6, <1>7, <1>8, <1>9, <1>10, <1>11, <1>12, <1>13
        DEF Next, Onward, CallStep, JobMove, PersonalStep, Actors

-----------------------------------------------------------------------------
(* The last layer. *)

LEMMA SweptInit == Init => SweptInv
BY DEF Init, SweptInv, NoJob

\* Disputes and strays are never taken back.
LEMMA StaysUndisturbed ==
  ASSUME NEW p \in Paths, Undisturbed(p)', disputed \subseteq disputed', strays \subseteq strays'
  PROVE  Undisturbed(p)
BY DEF Undisturbed

\* Docker's objects only go, and no teardown or removal moves on.
LEMMA SweptFrame ==
  ASSUME Typed, SweptInv, docker' \in [Labels -> SUBSET (Containers \cup {"network", "volume"})],
         \A l \in Labels : docker'[l] \subseteq docker[l],
         disputed \subseteq disputed', strays \subseteq strays',
         \A p \in Paths : jobs'[p].pc \in {jobs[p].pc, "none", "sweep", "failed"},
         gone' \ removing' \subseteq gone \ removing
  PROVE  SweptInv'
<1> SUFFICES ASSUME NEW p \in Paths, Undisturbed(p)'
             PROVE  /\ jobs'[p].pc = "network" => docker'[Label[p]] \cap Containers = {}
                    /\ jobs'[p].pc = "volumes" => docker'[Label[p]] \subseteq {"volume"}
                    /\ jobs'[p].pc = "finish" => docker'[Label[p]] = {}
                    /\ p \in gone' \ removing' => docker'[Label[p]] = {}
  BY DEF SweptInv, Of
<1>1. /\ jobs[p].pc = "network" => docker[Label[p]] \cap Containers = {}
      /\ jobs[p].pc = "volumes" => docker[Label[p]] \subseteq {"volume"}
      /\ jobs[p].pc = "finish" => docker[Label[p]] = {}
      /\ p \in gone \ removing => docker[Label[p]] = {}
  BY StaysUndisturbed DEF SweptInv, Of
<1>2. docker'[Label[p]] \subseteq docker[Label[p]]
  BY LabelOfPath
<1> QED BY <1>1, <1>2

\* While an actor of p's name may still start something, p is neither torn down nor removed.
LEMMA StartsElsewhere ==
  ASSUME TypeInv, RequestInv, WriterInv, NEW p \in Paths, Undisturbed(p), NEW a \in Actors,
         Label[a[1]] = Label[p], acts[a].conv \/ acts[a].job # "none"
  PROVE  jobs[p].pc = "none" /\ p \notin gone \ removing
<1> DEFINE q == a[1]
<1>1. q \in Paths /\ q \notin disputed /\ q \notin strays /\ p \notin disputed /\ a[2] # 0
  BY ActorTuples DEF Undisturbed, SLOTS
<1>2. byId[q] = a[2]
  BY <1>1 DEF WriterInv, Unstrayed
<1>3. Known(q)
  BY <1>1, <1>2 DEF Known
<1>4. jobs[p].pc = "none"
  <2> SUFFICES ASSUME jobs[p].pc # "none" PROVE FALSE
    OBVIOUS
  <2>1. p \in removing /\ ~Known(p)
    BY <1>1 DEF RequestInv, JobSound
  <2> QED BY <1>1, <1>3, <2>1 DEF RequestInv, TeardownAlone
<1>5. p \notin gone \ removing
  <2> SUFFICES ASSUME p \in gone, p \notin removing PROVE FALSE
    OBVIOUS
  <2>1. q = p
    BY <1>1, <1>3 DEF RequestInv, GoneApart
  <2>2. PICK c \in Callers : calls[c].kind = "remove" /\ Path(c) = p /\ At(c, "take")
    BY <1>1, <1>3, <2>1 DEF RequestInv, RemovedStaysRemoved
  <2> QED BY <1>1, <2>2 DEF RequestInv, RemoveSound, OpenCall, At
<1> QED BY <1>4, <1>5

\* A start adds to Docker's objects only where no teardown has swept.
LEMMA SweptStarts ==
  ASSUME TypeInv, RequestInv, WriterInv, SweptInv, UNCHANGED <<jobs, removing, disputed, strays, gone>>, NEW a \in Actors,
         acts[a].conv \/ acts[a].job # "none",
         \A l \in Labels : l # Label[a[1]] => docker'[l] = docker[l]
  PROVE  SweptInv'
<1> SUFFICES ASSUME NEW p \in Paths, Undisturbed(p)
             PROVE  /\ jobs[p].pc = "network" => docker'[Label[p]] \cap Containers = {}
                    /\ jobs[p].pc = "volumes" => docker'[Label[p]] \subseteq {"volume"}
                    /\ jobs[p].pc = "finish" => docker'[Label[p]] = {}
                    /\ p \in gone \ removing => docker'[Label[p]] = {}
  BY DEF SweptInv, Of, Undisturbed
<1>1. CASE Label[a[1]] = Label[p]
  BY <1>1, StartsElsewhere
<1>2. CASE Label[a[1]] # Label[p]
  <2>1. docker'[Label[p]] = docker[Label[p]]
    BY <1>2, LabelOfPath
  <2> QED BY <2>1 DEF SweptInv, Of
<1> QED BY <1>1, <1>2

LEMMA SweptStep == TypeInv /\ RequestInv /\ WriterInv /\ SweptInv /\ [Next]_vars => SweptInv'
<1> SUFFICES ASSUME TypeInv, RequestInv, WriterInv, SweptInv, [Next]_vars PROVE SweptInv'
  OBVIOUS
<1>0. Typed /\ Slotted /\ Stopped
  BY DEF TypeInv
<1>1. TypeInv'
  BY TypeStep
<1>2. docker' \in [Labels -> SUBSET (Containers \cup {"network", "volume"})]
  BY <1>1 DEF TypeInv, Typed
<1>3. ASSUME NEW c \in Callers, CallStep(c)
      PROVE  SweptInv'
  <2>1. docker' = docker /\ disputed \subseteq disputed' /\ strays \subseteq strays'
    BY <1>3 DEF CallStep, Clash, PendingRemoval, New, Insert, SaveIndex, Add, Take, Quiet, Contended
  <2>2. \A q \in Paths : jobs'[q].pc \in {jobs[q].pc, "sweep"}
    BY <1>0, <1>3 DEF CallStep, Clash, PendingRemoval, New, Insert, SaveIndex, Add, Take, Quiet, spawn_teardown, NewJob, Typed
  <2>3. gone' \ removing' \subseteq gone \ removing
    BY <1>3 DEF CallStep, Clash, PendingRemoval, New, Insert, SaveIndex, Add, Take, Quiet
  <2> QED BY <1>0, <1>2, <2>1, <2>2, <2>3, SweptFrame
<1>4. ASSUME NEW c \in Callers, NEW p \in Paths, Resolve(c, p) \/ Remove(c, p)
      PROVE  SweptInv'
  <2>1. UNCHANGED <<docker, strays, gone, removing>> /\ disputed \subseteq disputed'
    BY <1>4 DEF Resolve, Remove, Asked
  <2>2. \A q \in Paths : jobs'[q].pc \in {jobs[q].pc, "sweep"}
    BY <1>0, <1>4 DEF Resolve, Remove, spawn_teardown, NewJob, Typed
  <2> QED BY <1>0, <1>2, <2>1, <2>2, SweptFrame
<1>5. ASSUME NEW a \in Actors, PersonalStep(a)
      PROVE  SweptInv'
  <2>1. UNCHANGED <<jobs, removing, disputed, strays, gone>>
    BY <1>5, PersonalMoves DEF ActorsOnly
  <2>2. CASE SpawnAction(a) \/ CreateContainer(a)
    <3>1. (acts[a].conv \/ acts[a].job # "none") /\ \A l \in Labels : l # Label[a[1]] => docker'[l] = docker[l]
      BY <1>0, <2>2 DEF SpawnAction, CreateContainer, Typed
    <3> QED BY <2>1, <3>1, SweptStarts
  <2>3. CASE ~(SpawnAction(a) \/ CreateContainer(a))
    <3>1. docker' = docker
      BY <1>5, <2>3 DEF PersonalStep, PersistStep, ActorStep, Look, save_env, SaveFails, Wake, PersistEnds, Report
    <3> QED BY <1>0, <1>2, <2>1, <3>1, SweptFrame
  <2> QED BY <2>2, <2>3
<1>6. ASSUME NEW p \in Paths, Request(p) \/ Observe(p)
      PROVE  SweptInv'
  <2>1. UNCHANGED <<jobs, removing, disputed, strays, gone, docker>>
    BY <1>6, PublicMoves DEF ActorsOnly
  <2> QED BY <1>0, <1>2, <2>1, SweptFrame
<1>7. ASSUME NEW l \in Labels, ContainerGoes(l)
      PROVE  SweptInv'
  <2>1. UNCHANGED <<jobs, removing, disputed, strays, gone>> /\ \A k \in Labels : docker'[k] \subseteq docker[k]
    BY <1>0, <1>7 DEF ContainerGoes, requestVars, Typed
  <2> QED BY <1>0, <1>2, <2>1, SweptFrame
<1>8. ASSUME NEW p \in Paths, JobMove(p)
      PROVE  SweptInv'
  <2>1. UNCHANGED <<disputed, strays, gone>>
    BY <1>0, <1>8, JobMoves
  <2>2. /\ \A q \in Paths : q # p => jobs'[q] = jobs[q]
        /\ \A l \in Labels : docker'[l] \subseteq docker[l]
        /\ removing \ {p} \subseteq removing' /\ removing' \subseteq removing
    BY <1>0, <1>8, JobMoves, LabelOfPath DEF Typed
  <2>3. docker[Label[p]] \in SUBSET (Containers \cup {"network", "volume"}) /\ Label[p] \in Labels /\ jobs[p] \in Job
    BY <1>0, LabelOfPath DEF Typed
  <2>4. ASSUME Undisturbed(p)
        PROVE  /\ jobs'[p].pc = "network" => docker'[Label[p]] \cap Containers = {}
               /\ jobs'[p].pc = "volumes" => docker'[Label[p]] \subseteq {"volume"}
               /\ jobs'[p].pc = "finish" => docker'[Label[p]] = {}
               /\ p \in gone \ removing' => docker'[Label[p]] = {}
    <3>1. /\ jobs[p].pc = "network" => docker[Label[p]] \cap Containers = {}
          /\ jobs[p].pc = "volumes" => docker[Label[p]] \subseteq {"volume"}
          /\ jobs[p].pc = "finish" => docker[Label[p]] = {}
          /\ p \in gone \ removing => docker[Label[p]] = {}
      BY <2>4 DEF SweptInv, Of
    <3>2. docker'[Label[p]] \subseteq docker[Label[p]]
      BY <2>2, <2>3
    <3>3. ASSUME NEW pc, Step(p, pc) PROVE jobs'[p].pc = pc
      BY <1>0, <2>3, <3>3 DEF Step, Typed, Job
    <3>4. CASE Sweep(p)
      <4>1. removing' = removing
        BY <3>4 DEF Sweep
      <4>2. CASE Of(p) \cap Containers = {} /\ Step(p, "network") /\ UNCHANGED docker
        BY <3>1, <3>3, <4>1, <4>2 DEF Of
      <4>3. CASE Step(p, "failed")
        BY <3>1, <3>2, <3>3, <4>1, <4>3
      <4>4. CASE jobs' = [jobs EXCEPT ![p].sweep = @ + 1]
        <5>1. jobs'[p].pc = "sweep"
          BY <1>0, <2>3, <3>4, <4>4 DEF Typed, Job, Sweep, JobAt
        <5> QED BY <3>1, <3>2, <4>1, <5>1
      <4> QED BY <3>4, <4>2, <4>3, <4>4 DEF Sweep
    <3>5. CASE DiscardFails(p)
      <4>1. jobs'[p].pc = "sweep"
        BY <1>0, <2>3, <3>5 DEF Typed, Job, DiscardFails, JobAt
      <4> QED BY <3>1, <3>2, <3>5, <4>1 DEF DiscardFails
    <3>6. CASE RemoveNetwork(p)
      <4>1. jobs[p].pc = "network" /\ removing' = removing /\ Of(p) \cap Containers = {}
        BY <3>1, <3>6 DEF RemoveNetwork, JobAt, Of
      <4>2. jobs'[p].pc = "volumes"
        BY <3>3, <3>6, <4>1 DEF RemoveNetwork
      <4>3. docker'[Label[p]] = docker[Label[p]] \ {"network"}
        BY <1>0, <2>3, <3>6, <4>1 DEF RemoveNetwork, Typed, Of
      <4>4. docker'[Label[p]] \subseteq {"volume"}
        BY <2>3, <4>1, <4>3 DEF Containers, Of
      <4> QED BY <3>1, <3>2, <4>1, <4>2, <4>4
    <3>7. CASE RemoveVolumes(p)
      <4>1. jobs[p].pc = "volumes" /\ removing' = removing /\ Of(p) \subseteq {"volume"}
        BY <3>1, <3>7 DEF RemoveVolumes, JobAt, Of
      <4>2. jobs'[p].pc = "finish"
        BY <3>3, <3>7, <4>1 DEF RemoveVolumes
      <4>3. docker'[Label[p]] = docker[Label[p]] \ {"volume"}
        BY <1>0, <2>3, <3>7, <4>1 DEF RemoveVolumes, Typed, Of
      <4> QED BY <3>1, <3>2, <4>1, <4>2, <4>3 DEF Of
    <3>8. CASE Finish(p)
      <4>1. jobs[p].pc = "finish" /\ jobs'[p].pc = "none" /\ docker' = docker
        BY <3>3, <3>8 DEF Finish, JobAt
      <4> QED BY <3>1, <4>1
    <3>9. CASE TeardownFails(p)
      <4>1. jobs'[p].pc = "failed" /\ removing' = removing
        BY <3>3, <3>9 DEF TeardownFails
      <4> QED BY <3>1, <3>2, <4>1
    <3> QED BY <1>8, <3>4, <3>5, <3>6, <3>7, <3>8, <3>9 DEF JobMove, JobStep
  <2>5. ASSUME NEW q \in Paths, Undisturbed(q)
        PROVE  /\ jobs'[q].pc = "network" => docker'[Label[q]] \cap Containers = {}
               /\ jobs'[q].pc = "volumes" => docker'[Label[q]] \subseteq {"volume"}
               /\ jobs'[q].pc = "finish" => docker'[Label[q]] = {}
               /\ q \in gone \ removing' => docker'[Label[q]] = {}
    <3>1. CASE q = p
      BY <2>4, <2>5, <3>1
    <3>2. CASE q # p
      <4>1. /\ jobs[q].pc = "network" => docker[Label[q]] \cap Containers = {}
            /\ jobs[q].pc = "volumes" => docker[Label[q]] \subseteq {"volume"}
            /\ jobs[q].pc = "finish" => docker[Label[q]] = {}
            /\ q \in gone \ removing => docker[Label[q]] = {}
        BY <2>5 DEF SweptInv, Of
      <4>2. docker'[Label[q]] \subseteq docker[Label[q]] /\ jobs'[q] = jobs[q] /\ (q \in removing => q \in removing')
        BY <2>2, <3>2, LabelOfPath
      <4> QED BY <4>1, <4>2
    <3> QED BY <3>1, <3>2
  <2> QED BY <2>1, <2>5 DEF SweptInv, Of, Undisturbed
<1>9. CASE Crash
  <2>1. jobs' = [p \in Paths |-> NoJob] /\ UNCHANGED <<removing, disputed, strays, gone>>
    BY <1>9 DEF Crash
  <2>2. PICK landed \in SUBSET {Label[a[1]] : a \in {x \in Actors : acts[x].job = "create"}} :
          docker' = [l \in Labels |-> IF l \in landed THEN docker[l] \cup {"node"} ELSE docker[l]]
    BY <1>9 DEF Crash, Actors
  <2>3. ASSUME NEW p \in Paths, Undisturbed(p), p \in gone \ removing
        PROVE  docker'[Label[p]] = {}
    <3>1. docker[Label[p]] = {} /\ Label[p] \in Labels
      BY <2>3, LabelOfPath DEF SweptInv, Of
    <3>2. Label[p] \notin landed
      <4> SUFFICES ASSUME Label[p] \in landed PROVE FALSE
        OBVIOUS
      <4>1. PICK a \in Actors : acts[a].job = "create" /\ Label[a[1]] = Label[p]
        BY <2>2
      <4> QED BY <2>3, <4>1, StartsElsewhere
    <3> QED BY <2>2, <3>1, <3>2
  <2> QED BY <2>1, <2>3 DEF SweptInv, Of, Undisturbed, NoJob
<1>10. ASSUME NEW answers \in BOOLEAN, load_from(answers)
       PROVE  SweptInv'
  <2>1. UNCHANGED <<docker, removing, disputed, strays, gone>>
    BY <1>10 DEF load_from, ghosts
  <2>2. \A p \in Paths : jobs'[p].pc \in {"none", "sweep"}
    BY <1>10 DEF load_from, NewJob, NoJob
  <2> QED BY <1>0, <1>2, <2>1, <2>2, SweptFrame
<1>11. CASE UNCHANGED vars
  <2>1. UNCHANGED <<docker, jobs, removing, disputed, strays, gone>>
    BY <1>11 DEF vars, requestVars, ghosts
  <2> QED BY <1>0, <1>2, <2>1, SweptFrame
<1> QED BY <1>3, <1>4, <1>5, <1>6, <1>7, <1>8, <1>9, <1>10, <1>11 DEF Next, Onward, JobMove, PersonalStep, Actors

(***************************************************************************)
(* A removal, once begun, holds: the workspace is not wired again by what  *)
(* a crash left behind, its teardown meets no workspace of its name, and   *)
(* when it has finished nothing of it is left in Docker.  The exceptions   *)
(* are the ones the property states: requests that crossed, and a start    *)
(* that was still running when the workspace was taken off the maps.       *)
(***************************************************************************)
THEOREM RemovalsHold == Spec => []RemovalHolds
<1> DEFINE I == TypeInv /\ RequestInv /\ WriterInv /\ SweptInv
<1>1. Init => I
  BY TypeInit, RequestInit, WriterInit, SweptInit
<1>2. I /\ [Next]_vars => I'
  BY TypeStep, RequestStep, WriterStep, SweptStep
<1>3. I => RemovalHolds
  <2> SUFFICES ASSUME I PROVE RemovalHolds
    OBVIOUS
  <2>1. RemovedStaysRemoved /\ TeardownAlone
    BY DEF RequestInv
  <2>2. FinishedIsClean
    BY DEF SweptInv, FinishedIsClean, Undisturbed, Of, TypeInv, Typed
  <2> QED BY <2>1, <2>2 DEF RemovalHolds
<1> QED BY <1>1, <1>2, <1>3, PTL DEF Spec

-----------------------------------------------------------------------------
(* The refinement: a store, its folder's actors and what was read back, seen *)
(* as the state that was told and the state that is kept.                    *)

ToldFacts ==
  /\ Told \in [Paths -> Nat] /\ KeptVersions \in [Paths -> Nat]
  /\ \A p \in Paths : KeptVersions[p] = db[p].ver
  /\ \A a \in Actors : a[1] \notin disputed /\ Live(a) => Told[a[1]] = acts[a].env.ver
  /\ \A p \in Paths : Known(p) => Told[p] = acts[Act(p)].env.ver
  /\ \A p \in Paths : (\A a \in Actors : a[1] = p => ~Live(a)) => Told[p] = db[p].ver

\* What is told is what the folder's actor has published last, or else what its store holds.
LEMMA ToldIs == TypeInv /\ WriterInv => ToldFacts
<1> SUFFICES ASSUME TypeInv, WriterInv PROVE ToldFacts
  OBVIOUS
<1>0. Typed /\ Slotted
  BY DEF TypeInv
<1>1. \A a \in Actors : acts[a].env.ver \in Nat /\ (Live(a) <=> acts[a] # NoActor)
  BY <1>0, PieceTypes DEF Typed, Slotted, Actor, Env, Live
<1>2. \A p \in Paths : db[p].ver \in Nat
  BY <1>0 DEF Typed, Env
<1>3. KeptVersions \in [Paths -> Nat] /\ \A p \in Paths : KeptVersions[p] = db[p].ver
  BY <1>2 DEF KeptVersions
<1> DEFINE ending(p) == {s \in SLOTS : acts[<<p, s>>] # NoActor}
           last(p) == CHOOSE s \in ending(p) : TRUE
           its(p) == IF Known(p) THEN acts[Act(p)].env.ver
                     ELSE IF ending(p) = {} THEN db[p].ver ELSE acts[<<p, last(p)>>].env.ver
<1>4. Told = [p \in Paths |-> its(p)]
  BY DEF Told
<1>5. ASSUME NEW p \in Paths, ending(p) # {}
      PROVE  last(p) \in SLOTS /\ <<p, last(p)>> \in Actors /\ Live(<<p, last(p)>>) /\ <<p, last(p)>>[1] = p
  <2>1. last(p) \in ending(p)
    BY <1>5
  <2> HIDE DEF last
  <2> QED BY <1>1, <2>1, ActorTuples
<1>6. ASSUME NEW p \in Paths, Known(p)
      PROVE  Told[p] = acts[Act(p)].env.ver /\ Act(p) \in Actors /\ Live(Act(p)) /\ Act(p)[1] = p
  BY <1>0, <1>4, <1>6, ActOfKnown DEF Slotted
<1>7. ASSUME NEW p \in Paths, ~Known(p), ending(p) # {}
      PROVE  Told[p] = acts[<<p, last(p)>>].env.ver
  BY <1>4, <1>7
<1>8. ASSUME NEW p \in Paths, ~Known(p), ending(p) = {}
      PROVE  Told[p] = db[p].ver
  BY <1>4, <1>8
<1>9. \A p \in Paths : its(p) \in Nat
  <2> TAKE p \in Paths
  <2>1. CASE Known(p)
    BY <1>1, <1>6, <2>1
  <2>2. CASE ~Known(p) /\ ending(p) # {}
    <3> HIDE DEF last, ending
    <3> QED BY <1>1, <1>5, <2>2
  <2>3. CASE ~Known(p) /\ ending(p) = {}
    BY <1>2, <2>3
  <2> QED BY <2>1, <2>2, <2>3
<1>10. Told \in [Paths -> Nat]
  BY <1>4, <1>9
<1>11. ASSUME NEW a \in Actors, a[1] \notin disputed, Live(a)
       PROVE  Told[a[1]] = acts[a].env.ver
  <2>1. a[1] \in Paths /\ a[2] \in SLOTS /\ a = <<a[1], a[2]>>
    BY ActorTuples
  <2>2. \A b \in Actors : b[1] = a[1] /\ Live(b) => b = a
    BY <1>11 DEF WriterInv, OneWriter
  <2>3. CASE Known(a[1])
    BY <1>6, <2>1, <2>2, <2>3
  <2>4. CASE ~Known(a[1])
    <3>1. ending(a[1]) # {}
      BY <1>1, <1>11, <2>1
    <3> HIDE DEF last, ending
    <3> QED BY <1>5, <1>7, <2>1, <2>2, <2>4, <3>1
  <2> QED BY <2>3, <2>4
<1>12. ASSUME NEW p \in Paths, \A a \in Actors : a[1] = p => ~Live(a)
       PROVE  Told[p] = db[p].ver
  <2>1. ~Known(p)
    BY <1>6, <1>12
  <2>2. ending(p) = {}
    BY <1>5, <1>12
  <2> QED BY <1>8, <2>1, <2>2
<1> QED BY <1>3, <1>6, <1>10, <1>11, <1>12 DEF ToldFacts

\* Steps that publish and save nothing for a folder nobody disputes.
LEMMA StoreDisputes ==
  ASSUME ToldFacts, ToldFacts', disputed \subseteq disputed', disputed' \in SUBSET Paths,
         \A p \in Paths \ disputed' : db'[p].ver = db[p].ver,
         \A a \in Actors : a[1] \notin disputed' /\ acts'[a].pc # "off" =>
           \/ Live(a) /\ acts'[a].env.ver = acts[a].env.ver
           \/ acts'[a].env.ver = db[a[1]].ver
  PROVE  Store!Next
<1>1. \A a \in Actors : a[1] \notin disputed' /\ acts'[a].pc # "off" => Told'[a[1]] = acts'[a].env.ver
  BY DEF ToldFacts, Live
<1>2. \A p \in Paths : (\A a \in Actors : a[1] = p => acts'[a].pc = "off") => Told'[p] = db'[p].ver
  BY DEF ToldFacts, Live
<1>3. \A p \in Paths : KeptVersions'[p] = db'[p].ver /\ KeptVersions[p] = db[p].ver
  BY DEF ToldFacts
<1>4. ASSUME NEW p \in Paths \ disputed'
      PROVE  KeptVersions'[p] = KeptVersions[p] /\ Told'[p] \in {Told[p], KeptVersions[p]}
  <2>1. CASE \A a \in Actors : a[1] = p => acts'[a].pc = "off"
    BY <1>2, <1>3, <2>1
  <2>2. CASE \E a \in Actors : a[1] = p /\ acts'[a].pc # "off"
    <3>1. PICK a \in Actors : a[1] = p /\ acts'[a].pc # "off"
      BY <2>2
    <3>2. Told'[p] = acts'[a].env.ver
      BY <1>1, <3>1
    <3>3. Live(a) => Told[p] = acts[a].env.ver
      BY <3>1 DEF ToldFacts
    <3> QED BY <1>3, <3>1, <3>2, <3>3
  <2> QED BY <2>1, <2>2
<1>5. Store!Dispute
  BY <1>4 DEF Store!Dispute
<1> QED BY <1>5 DEF Store!Next

\* A state is published for a folder that is wired, or was when its start began.
LEMMA StoreChanges ==
  ASSUME TypeInv, WriterInv, ToldFacts, ToldFacts', NEW a \in Actors, NEW new, Moves(a, new), ActorsOnly, db' = db,
         new.pc # "off", new.env.ver = acts[a].env.ver + 1
  PROVE  Store!Next
<1>0. Typed
  BY DEF TypeInv
<1>1. acts'[a] = new /\ (\A b \in Actors : b # a => acts'[b] = acts[b]) /\ Live(a) /\ disputed' = disputed /\ byId' = byId
  BY <1>0, MovesActs DEF ActorsOnly, Moves
<1>2. CASE a[1] \in disputed
  <2>1. \A b \in Actors : b[1] \notin disputed' => acts'[b] = acts[b]
    BY <1>1, <1>2
  <2> QED BY <1>0, <1>1, <2>1, StoreDisputes DEF Typed, Live
<1>3. CASE a[1] \notin disputed
  <2> DEFINE p == a[1]
  <2>1. p \in Paths
    BY ActorTuples
  <2>2. Told'[p] = Told[p] + 1
    BY <1>1, <1>3 DEF ToldFacts, Live
  <2>3. ASSUME NEW q \in Paths, q # p
        PROVE  Told'[q] = Told[q]
    <3>1. \A b \in Actors : b[1] = q => acts'[b] = acts[b]
      BY <1>1, <2>3
    <3>2. CASE Known(q)
      <4>1. Act(q) \in Actors /\ Act(q)[1] = q /\ Act(q)' = Act(q) /\ Known(q)'
        BY <1>0, <1>1, <3>2, ActOfKnown DEF Act, Known
      <4>2. Told[q] = acts[Act(q)].env.ver /\ Told'[q] = acts'[Act(q)].env.ver
        BY <3>2, <4>1 DEF ToldFacts
      <4> QED BY <3>1, <4>1, <4>2
    <3>3. CASE ~Known(q)
      <4>1. ~Known(q)'
        BY <1>1, <3>3 DEF Known
      <4>2. \A s \in SLOTS : acts'[<<q, s>>] = acts[<<q, s>>]
        BY <3>1, ActorTuples
      <4> DEFINE ending == {s \in SLOTS : acts[<<q, s>>] # NoActor}
                 ended == {s \in SLOTS : acts'[<<q, s>>] # NoActor}
                 Of1(S) == CHOOSE s \in S : TRUE
      <4>3. ended = ending
        BY <4>2
      <4>4. Told[q] = IF ending = {} THEN db[q].ver ELSE acts[<<q, Of1(ending)>>].env.ver
        BY <3>3 DEF Told
      <4>5. Told'[q] = IF ended = {} THEN db'[q].ver ELSE acts'[<<q, Of1(ended)>>].env.ver
        BY <4>1 DEF Told
      <4>6. ending # {} => Of1(ending) \in SLOTS
        OBVIOUS
      <4> HIDE DEF ending, ended, Of1
      <4> QED BY <4>2, <4>3, <4>4, <4>5, <4>6
    <3> QED BY <3>2, <3>3
  <2>4. Told' = [Told EXCEPT ![p] = @ + 1]
    BY <2>1, <2>2, <2>3 DEF ToldFacts
  <2>5. KeptVersions' = KeptVersions
    BY DEF KeptVersions
  <2>6. Store!Change(p)
    BY <1>1, <2>4, <2>5 DEF Store!Change
  <2> QED BY <2>1, <2>6 DEF Store!Next
<1> QED BY <1>2, <1>3

\* A save writes a state told since the last one that was kept, and no older one.
LEMMA StoreSaves ==
  ASSUME TypeInv, WriterInv, ToldFacts, ToldFacts', NEW a \in Actors, save_env(a), PersonalStep(a)
  PROVE  Store!Next \/ UNCHANGED <<Told, KeptVersions, disputed>>
<1> DEFINE p == a[1]
<1>0. Typed
  BY DEF TypeInv
<1>1. acts[a].pc = "saving" /\ acts[a] \in Actor /\ acts[a].snap \in Env /\ p \in Paths /\ acts[a].env \in Env
  BY <1>0, ActorTuples DEF save_env, Typed, Actor
<1>2. db' = [db EXCEPT ![p] = Columns(acts[a].snap)] /\ byId' = byId /\ disputed' = disputed
  BY DEF save_env, ghosts
<1>3. db'[p].ver = acts[a].snap.ver /\ \A q \in Paths : q # p => db'[q] = db[q]
  BY <1>0, <1>1, <1>2 DEF Columns, Env, Typed
<1>4. /\ acts'[a].pc = "wait" /\ acts'[a].env = acts[a].env
      /\ \A b \in Actors : b # a => acts'[b] = acts[b]
  <2> DEFINE new == [acts[a] EXCEPT !.pc = "wait", !.last = <<acts[a].snap>>, !.failed = FALSE, !.snap = NoEnv]
  <2>1. acts' = [acts EXCEPT ![a] = new] /\ new.pc = "wait" /\ new.env = acts[a].env
    BY <1>1 DEF save_env, Actor
  <2> QED BY <1>0, <2>1 DEF Typed
<1>5. \A b \in Actors : acts'[b].env = acts[b].env /\ (acts'[b].pc # "off" <=> Live(b))
  BY <1>1, <1>4 DEF Live
<1>6. CASE p \in disputed
  BY <1>0, <1>2, <1>3, <1>5, <1>6, StoreDisputes DEF Typed
<1>7. CASE p \notin disputed
  <2>1. /\ db[p].ver <= acts[a].snap.ver /\ acts[a].snap.ver <= acts[a].env.ver
        /\ db[p].ver \in Nat /\ acts[a].snap.ver \in Nat /\ acts[a].env.ver \in Nat
    BY <1>0, <1>1, <1>7 DEF WriterInv, OneWriter, Live, Typed, Env
  <2>2. Told[p] = acts[a].env.ver /\ Told'[p] = Told[p]
    BY <1>1, <1>2, <1>5, <1>7 DEF ToldFacts, Live
  <2>3. ASSUME NEW q \in Paths, q # p
        PROVE  Told'[q] = Told[q]
    <3>1. \A s \in SLOTS : acts'[<<q, s>>] = acts[<<q, s>>]
      BY <1>4, <2>3, ActorTuples
    <3>2. Known(q) => acts'[Act(q)] = acts[Act(q)]
      BY <1>0, <1>4, <2>3, ActOfKnown
    <3>3. (Known(q)' <=> Known(q)) /\ Act(q)' = Act(q)
      BY <1>2 DEF Known, Act
    <3> DEFINE ending == {s \in SLOTS : acts[<<q, s>>] # NoActor}
               ended == {s \in SLOTS : acts'[<<q, s>>] # NoActor}
               Of1(S) == CHOOSE s \in S : TRUE
    <3>4. ended = ending
      BY <3>1
    <3>5. Told[q] = IF Known(q) THEN acts[Act(q)].env.ver ELSE IF ending = {} THEN db[q].ver ELSE acts[<<q, Of1(ending)>>].env.ver
      BY DEF Told
    <3>6. Told'[q] = IF Known(q) THEN acts'[Act(q)].env.ver ELSE IF ended = {} THEN db'[q].ver ELSE acts'[<<q, Of1(ended)>>].env.ver
      BY <3>3 DEF Told
    <3>7. ending # {} => Of1(ending) \in SLOTS
      OBVIOUS
    <3> HIDE DEF ending, ended, Of1
    <3> QED BY <1>3, <2>3, <3>1, <3>2, <3>4, <3>5, <3>6, <3>7
  <2>4. Told' = Told
    BY <2>2, <2>3 DEF ToldFacts
  <2> DEFINE v == acts[a].snap.ver
  <2>5. KeptVersions' = [KeptVersions EXCEPT ![p] = v] /\ KeptVersions[p] = db[p].ver
    BY <1>1, <1>3 DEF ToldFacts
  <2>6. CASE v = db[p].ver
    <3>1. KeptVersions' = KeptVersions
      BY <1>1, <2>5, <2>6 DEF ToldFacts
    <3> QED BY <1>2, <2>4, <3>1
  <2>7. CASE v # db[p].ver
    <3>1. v \in KeptVersions[p] + 1 .. Told[p]
      BY <2>1, <2>2, <2>5, <2>7
    <3>2. Store!Save(p)
      BY <1>2, <2>4, <2>5, <3>1 DEF Store!Save
    <3> QED BY <1>1, <3>2 DEF Store!Next
  <2> QED BY <2>6, <2>7
<1> QED BY <1>6, <1>7

LEMMA StoreStep ==
  ASSUME TypeInv, WriterInv, TypeInv', ToldFacts, ToldFacts', [Next]_vars, RequestInv
  PROVE  [Store!Next]_<<Told, KeptVersions, disputed>>
<1>0. Typed /\ Slotted /\ Stopped /\ disputed' \in SUBSET Paths
  BY DEF TypeInv, Typed
<1>1. ASSUME NEW c \in Callers, OpenCall(c)
      PROVE  up /\ Path(c) \in Paths /\ calls[c] \in Call
  BY <1>0, <1>1 DEF Slotted, Stopped, Typed, OpenCall, At
<1>2. ASSUME UNCHANGED <<acts, db>>, disputed \subseteq disputed'
      PROVE  Store!Next
  BY <1>0, <1>2, StoreDisputes DEF Live
<1>3. ASSUME NEW c \in Callers, Clash(c) \/ PendingRemoval(c) \/ SaveIndex(c) \/ Add(c) \/ \E answers \in BOOLEAN : New(c, answers)
      PROVE  Store!Next
  BY <1>2, <1>3 DEF Clash, PendingRemoval, SaveIndex, Add, New, Quiet, Contended
<1>4. ASSUME NEW c \in Callers, NEW p \in Paths, Resolve(c, p) \/ Remove(c, p)
      PROVE  Store!Next
  BY <1>2, <1>4 DEF Resolve, Remove, Asked
<1>5. ASSUME NEW c \in Callers, Insert(c)
      PROVE  Store!Next
  <2> DEFINE p == Path(c)
  <2>1. p \in Paths /\ calls[c].env \in Env /\ At(c, "insert") /\ db' = db /\ disputed \subseteq disputed'
    BY <1>1, <1>5 DEF Insert, OpenCall, At, Call, Contended
  <2>2. PICK s \in SLOTS : acts' = [acts EXCEPT ![<<p, s>>] = Spawned(calls[c].env)]
    BY <1>0, <1>5, <2>1, InsertActor
  <2>3. <<p, s>> \in Actors /\ <<p, s>>[1] = p
    BY <2>1, ActorTuples
  <2>4. acts'[<<p, s>>].env = calls[c].env /\ \A b \in Actors : b # <<p, s>> => acts'[b] = acts[b]
    BY <1>0, <2>1, <2>2, <2>3, SpawnedType DEF Typed
  <2>5. p \notin disputed => calls[c].env.ver = db[p].ver
    BY <2>1 DEF WriterInv, Unwritten
  <2>6. ASSUME NEW a \in Actors, a[1] \notin disputed', acts'[a].pc # "off"
        PROVE  \/ Live(a) /\ acts'[a].env.ver = acts[a].env.ver
               \/ acts'[a].env.ver = db[a[1]].ver
    BY <2>1, <2>3, <2>4, <2>5, <2>6 DEF Live
  <2> QED BY <1>0, <2>1, <2>6, StoreDisputes
<1>6. ASSUME NEW c \in Callers, Take(c)
      PROVE  Store!Next
  <2> DEFINE p == Path(c)
  <2>1. p \in Paths /\ UNCHANGED <<db, disputed>>
    BY <1>1, <1>6 DEF Take, OpenCall, At
  <2>2. \A a \in Actors : acts'[a].env = acts[a].env /\ acts'[a].pc = acts[a].pc
    BY <1>0, <1>6, <2>1, TakenActors
  <2> QED BY <1>0, <2>1, <2>2, StoreDisputes DEF Live
<1>7. ASSUME NEW a \in Actors, NEW new, Moves(a, new), ActorsOnly, db' = db,
             new.pc = "off" \/ new.env = acts[a].env
      PROVE  Store!Next
  <2>1. acts'[a] = new /\ (\A b \in Actors : b # a => acts'[b] = acts[b]) /\ Live(a) /\ disputed' = disputed
    BY <1>0, <1>7, MovesActs DEF ActorsOnly, Moves
  <2> QED BY <1>0, <1>7, <2>1, StoreDisputes DEF Live
<1>8. ASSUME NEW a \in Actors, PersonalStep(a), ~save_env(a)
      PROVE  Store!Next
  <2>1. PICK new \in Actor : Moves(a, new) /\ ActorsOnly
    BY <1>8, PersonalMoves
  <2>2. db' = db /\ acts'[a] = new /\ acts[a] \in Actor
    <3>1. db' = db
      BY <1>8
      DEF PersonalStep, PersistStep, ActorStep, Look, SaveFails, Wake, PersistEnds, SpawnAction, CreateContainer, Report
    <3> QED BY <1>0, <2>1, <3>1, MovesActs DEF Typed
  <2>3. CASE Report(a)
    <3>1. acts'[a].pc = acts[a].pc /\ acts'[a].env.ver = acts[a].env.ver + 1
      BY <1>0, <2>2, <2>3 DEF Report, Typed, Actor
    <3>2. acts[a].pc # "off"
      BY <2>1 DEF Moves, Live
    <3> QED BY <2>1, <2>2, <3>1, <3>2, StoreChanges
  <2>4. CASE SpawnAction(a) \/ CreateContainer(a) \/ SaveFails(a)
    <3>1. acts'[a].env = acts[a].env
      <4>1. CASE SpawnAction(a)
        BY <1>0, <2>2, <4>1 DEF SpawnAction, Typed, Actor
      <4>2. CASE CreateContainer(a)
        BY <1>0, <2>2, <4>2 DEF CreateContainer, Typed, Actor
      <4>3. CASE SaveFails(a)
        <5> DEFINE r == [acts[a] EXCEPT !.pc = "wait", !.failed = TRUE, !.snap = NoEnv]
        <5>1. acts' = [acts EXCEPT ![a] = r] /\ r.env = acts[a].env
          BY <2>2, <4>3 DEF SaveFails, Actor
        <5> QED BY <1>0, <5>1 DEF Typed
      <4> QED BY <2>4, <4>1, <4>2, <4>3
    <3> QED BY <1>7, <2>1, <2>2, <3>1
  <2>5. CASE Look(a)
    <3>1. acts'[a] = Looked(acts[a]) /\ acts[a].pc = "look"
      BY <1>0, <2>5 DEF Look, Typed
    <3>2. acts'[a].env = acts[a].env
      BY <2>2, <3>1, LookedType
    <3> QED BY <1>7, <2>1, <2>2, <3>2
  <2>6. CASE Wake(a)
    <3> DEFINE old == [acts[a] EXCEPT !.seen = acts[a].env.ver]
    <3>1. acts'[a] = Looked(old)
      BY <1>0, <2>6 DEF Wake, Typed
    <3>2. old \in Actor /\ old.pc = "wait" /\ old.env = acts[a].env
      BY <2>2, <2>6 DEF Wake, Actor, Env
    <3> HIDE DEF old
    <3>3. acts'[a].env = acts[a].env
      BY <3>1, <3>2, LookedType
    <3> QED BY <1>7, <2>1, <2>2, <3>3
  <2>7. CASE PersistEnds(a)
    <3>1. acts'[a] = NoActor
      BY <1>0, <2>7 DEF PersistEnds, Typed
    <3> QED BY <1>7, <2>1, <2>2, <3>1, PieceTypes
  <2> QED BY <1>8, <2>3, <2>4, <2>5, <2>6, <2>7 DEF PersonalStep, PersistStep, ActorStep
<1>9. ASSUME NEW p \in Paths, Request(p) \/ Observe(p)
      PROVE  Store!Next
  <2>1. Act(p) \in Actors /\ Live(Act(p)) /\ ActorsOnly /\ db' = db
    BY <1>0, <1>9, PublicMoves, ActOfKnown DEF Slotted
  <2>2. PICK new \in Actor : /\ Moves(Act(p), new) /\ new.env.ver = acts[Act(p)].env.ver + 1
                             /\ new.pc = acts[Act(p)].pc
    BY <1>9, PublicMoves
  <2> QED BY <2>1, <2>2, StoreChanges DEF Live
<1>10. ASSUME NEW p \in Paths, JobMove(p)
       PROVE  Store!Next
  <2>1. UNCHANGED <<acts, db, disputed>>
    BY <1>0, <1>10, JobMoves
  <2> QED BY <1>2, <2>1
<1>11. ASSUME NEW l \in Labels, ContainerGoes(l)
       PROVE  Store!Next
  BY <1>2, <1>11 DEF ContainerGoes
<1>12. CASE Crash
  <2>1. acts' = [a \in Actors |-> NoActor] /\ UNCHANGED <<db, disputed>>
    BY <1>12 DEF Crash, Actors
  <2> QED BY <1>0, <2>1, StoreDisputes, PieceTypes
<1>13. ASSUME NEW answers \in BOOLEAN, load_from(answers)
       PROVE  Store!Next
  <2>1. /\ acts' = [a \in Actors |-> IF a[1] \in index' /\ a[2] = 1 THEN Spawned(rehydrate(a[1], answers)) ELSE NoActor]
        /\ UNCHANGED <<db, disputed>>
    BY <1>13 DEF load_from, Actors, ghosts
  <2>2. \A p \in Paths : Spawned(rehydrate(p, answers)).env.ver = db[p].ver
    BY <1>0, RehydrateType, SpawnedType
  <2>3. \A a \in Actors : acts'[a].pc # "off" => acts'[a].env.ver = db[a[1]].ver
    BY <2>1, <2>2, ActorTuples, PieceTypes
  <2> QED BY <1>0, <2>1, <2>3, StoreDisputes
<1>14. CASE UNCHANGED vars
  BY <1>2, <1>14 DEF vars, ghosts
<1> QED BY <1>3, <1>4, <1>5, <1>6, <1>8, <1>9, <1>10, <1>11, <1>12, <1>13, <1>14, StoreSaves
        DEF Next, Onward, CallStep, JobMove, PersonalStep, PersistStep, Actors

(***************************************************************************)
(* A workspace's store keeps up with what is published as module Kept      *)
(* promises: save_env writes only states published since the last one it   *)
(* wrote, whatever fails or crashes between two saves, and what a wire or  *)
(* a start reads back is what was written.                                 *)
(***************************************************************************)
THEOREM StoresKeepUp == Spec => StoreKeepsUp
<1> DEFINE I == TypeInv /\ RequestInv /\ WriterInv
<1>1. Init => I
  BY TypeInit, RequestInit, WriterInit
<1>2. I /\ [Next]_vars => I'
  BY TypeStep, RequestStep, WriterStep
<1>3. I => ToldFacts
  BY ToldIs
<1>4. Init => Store!Init
  <2> SUFFICES ASSUME Init PROVE Store!Init
    OBVIOUS
  <2>1. ToldFacts /\ TypeInv
    BY <1>1, <1>3
  <2>2. ASSUME NEW p \in Paths
        PROVE  Told[p] = KeptVersions[p]
    <3>1. CASE p \in Wired
      <4>1. byId[p] = 1 /\ <<p, 1>> \in Paths \X SLOTS /\ db[p] = AtFirst(p)
        BY <3>1 DEF Init, SLOTS
      <4>2. acts[<<p, 1>>] = Settled(AtFirst(p)) /\ Known(p) /\ Act(p) = <<p, 1>>
        BY <3>1, <4>1 DEF Init, Known, Act
      <4>3. acts[<<p, 1>>].env = AtFirst(p)
        BY <4>2 DEF Settled, NoActor
      <4> QED BY <2>1, <4>1, <4>2, <4>3 DEF ToldFacts
    <3>2. CASE p \notin Wired
      <4>1. \A a \in Actors : a[1] = p => ~Live(a)
        BY <3>2, PieceTypes DEF Init, Actors, Live
      <4> QED BY <2>1, <4>1 DEF ToldFacts
    <3> QED BY <3>1, <3>2
  <2>3. KeptVersions = Told
    BY <2>1, <2>2 DEF ToldFacts
  <2> QED BY <2>1, <2>3 DEF Store!Init, ToldFacts, Init
<1>5. I /\ I' /\ ToldFacts /\ ToldFacts' /\ [Next]_vars => [Store!Next]_<<Told, KeptVersions, disputed>>
  BY StoreStep
<1>6. Spec => Store!Spec
  <2> HIDE DEF I
  <2> QED BY <1>1, <1>2, <1>3, <1>4, <1>5, PTL DEF Spec, Store!Spec
<1> QED BY <1>6 DEF StoreKeepsUp

=============================================================================
