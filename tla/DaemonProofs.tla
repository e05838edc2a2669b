---------------------------- MODULE DaemonProofs ----------------------------
(***************************************************************************)
(* Proofs about Daemon for any workspaces, containers, callers, sockets and *)
(* numbers of requests, changes, faults and activations: NoLostWake,        *)
(* StopHolds and CertsHold are invariants.                                  *)
(***************************************************************************)
EXTENDS Daemon, FiniteSetTheorems, TLAPS

TaskIds == Gens \X Effects
TaskFields == {"pc", "fwd", "poked", "mapNew", "last", "snap", "round", "failed", "aborted"}

----------------------------------------------------------------------------
(* Waking up: NoLostWake.                                                  *)

\* Nothing has changed for a task since it last looked, as far as it can tell.
Unwoken(r) == ~r.poked /\ ~r.mapNew /\ r.fwd = actors
\* A task is off or whole; what it is about to write, and what it wrote last
\* before it went to sleep, is what there is unless something will wake it.
TaskOK(t, r) ==
  \/ r = Off
  \/ /\ DOMAIN r = TaskFields /\ r.pc \in {"look", "write", "wait"}
     /\ r.pc = "write" /\ Unwoken(r) => r.snap = extract(t[2])
     /\ r.pc = "wait" /\ Unwoken(r) => r.failed \/ r.last = <<extract(t[2])>>
WakeInv == DOMAIN tasks = TaskIds /\ \A t \in TaskIds : TaskOK(t, tasks[t])

LEMMA OffIs == DOMAIN Off = {"pc"} /\ Off.pc = "off" BY DEF Off

LEMMA FreshOK ==
  ASSUME NEW t \in TaskIds
  PROVE  TaskOK(t, Fresh) /\ TaskOK(t, Off) /\ Fresh.pc = "look" /\ ~Fresh.aborted
  <1>1. DOMAIN Fresh = TaskFields BY DEF Fresh, TaskFields
  <1>2. Fresh.pc = "look" /\ Fresh.aborted = FALSE BY DEF Fresh
  <1> HIDE DEF Fresh
  <1> QED BY <1>1, <1>2 DEF TaskOK

\* Looking: what it sees is what there is.
LEMMA LookedOK ==
  ASSUME NEW t \in TaskIds, NEW r, DOMAIN r = TaskFields
  PROVE  TaskOK(t, Looked(r, t[2])) /\ Looked(r, t[2]).pc # "off" /\ Looked(r, t[2]).aborted = r.aborted
  <1> DEFINE snap == extract(t[2])
             seen == [r EXCEPT !.fwd = Followed(@)]
             a == [seen EXCEPT !.pc = "wait"]
             b == [seen EXCEPT !.pc = "write", !.snap = snap]
  <1>1. Looked(r, t[2]) = IF seen.last = <<snap>> THEN a ELSE b BY DEF Looked
  <1> HIDE DEF snap
  <1>2. DOMAIN seen = TaskFields /\ seen.aborted = r.aborted BY DEF TaskFields
  <1> HIDE DEF seen
  <1>3. DOMAIN a = TaskFields /\ a.pc = "wait" /\ a.last = seen.last /\ a.aborted = seen.aborted BY <1>2 DEF TaskFields
  <1>4. DOMAIN b = TaskFields /\ b.pc = "write" /\ b.snap = snap /\ b.aborted = seen.aborted BY <1>2 DEF TaskFields
  <1> HIDE DEF a, b
  <1>5. seen.last = <<snap>> => TaskOK(t, a) BY <1>3 DEF TaskOK, snap
  <1>6. TaskOK(t, b) BY <1>4 DEF TaskOK, snap
  <1> QED BY <1>1, <1>2, <1>3, <1>4, <1>5, <1>6

\* What an effect makes of the workspaces depends on the workspaces alone.
LEMMA ExtractSame ==
  ASSUME actors' = actors, pub' = pub
  PROVE  \A e : extract(e)' = extract(e)
  BY DEF extract, Live, Running

LEMMA WakeKeep ==
  ASSUME actors' = actors, pub' = pub, DOMAIN tasks' = TaskIds, \A t \in TaskIds : TaskOK(t, tasks'[t])
  PROVE  WakeInv'
  <1> SUFFICES ASSUME NEW t \in TaskIds PROVE TaskOK(t, tasks[t])' BY DEF WakeInv
  <1>1. extract(t[2])' = extract(t[2]) BY ExtractSame
  <1>2. TaskOK(t, tasks'[t]) OBVIOUS
  <1> QED BY <1>1, <1>2 DEF TaskOK, Unwoken

\* One task's record changes.
LEMMA WakeSet ==
  ASSUME WakeInv, actors' = actors, pub' = pub, NEW t \in TaskIds, NEW r, TaskOK(t, r), Set(t, r)
  PROVE  WakeInv'
  <1>1. DOMAIN tasks' = TaskIds BY DEF Set, WakeInv
  <1>2. \A u \in TaskIds : TaskOK(u, tasks'[u]) BY DEF Set, WakeInv
  <1> QED BY <1>1, <1>2, WakeKeep

LEMMA UpWhole ==
  ASSUME WakeInv, NEW t \in TaskIds, tasks[t].pc # "off"
  PROVE  DOMAIN tasks[t] = TaskFields /\ TaskOK(t, tasks[t]) /\ tasks[t] # Off
  BY OffIs DEF WakeInv, TaskOK

LEMMA ConvergedOK ==
  ASSUME WakeInv, NEW t \in TaskIds, tasks[t].pc = "write", NEW ok \in BOOLEAN,
         actors' = actors, pub' = pub, Converged(t, ok)
  PROVE  WakeInv'
  <1> DEFINE r == tasks[t]
             n == [r EXCEPT !.pc = "wait", !.failed = ~ok, !.snap = {}, !.round = 0,
                            !.last = IF ok THEN <<r.snap>> ELSE @]
             m == IF r.aborted THEN Off ELSE n
  <1>1. Set(t, m) BY DEF Converged
  <1>2. DOMAIN r = TaskFields /\ TaskOK(t, r) /\ r # Off BY UpWhole
  <1>3. r.pc = "write" OBVIOUS
  <1> HIDE DEF r
  <1>4. /\ DOMAIN n = TaskFields /\ n.pc = "wait" /\ n.poked = r.poked /\ n.mapNew = r.mapNew /\ n.fwd = r.fwd
        /\ n.failed = ~ok /\ (ok => n.last = <<r.snap>>)
    BY <1>2 DEF TaskFields
  <1> HIDE DEF n
  <1>5. TaskOK(t, n) BY <1>2, <1>3, <1>4 DEF TaskOK, Unwoken
  <1>6. TaskOK(t, m) BY <1>5 DEF TaskOK
  <1> QED BY <1>1, <1>6, WakeSet

LEMMA AbortedOK ==
  ASSUME NEW t \in TaskIds, NEW r, TaskOK(t, r)
  PROVE  TaskOK(t, Aborted(r))
  <1>1. CASE r.pc \in {"off", "look", "wait"} BY <1>1 DEF Aborted, TaskOK
  <1>2. CASE r.pc \notin {"off", "look", "wait"}
    <2> DEFINE n == [r EXCEPT !.aborted = TRUE]
    <2>1. DOMAIN r = TaskFields BY <1>2, OffIs DEF TaskOK
    <2>2. /\ DOMAIN n = TaskFields /\ n.pc = r.pc /\ n.poked = r.poked /\ n.mapNew = r.mapNew /\ n.fwd = r.fwd
          /\ n.failed = r.failed /\ n.last = r.last /\ n.snap = r.snap
      BY <2>1 DEF TaskFields
    <2>3. Aborted(r) = n BY <1>2 DEF Aborted
    <2> HIDE DEF n
    <2>4. r # Off BY <1>2, OffIs
    <2> QED BY <2>2, <2>3, <2>4 DEF TaskOK, Unwoken
  <1> QED BY <1>1, <1>2

LEMMA WakeSame ==
  ASSUME WakeInv, UNCHANGED <<actors, pub, tasks>>
  PROVE  WakeInv'
  BY WakeKeep DEF WakeInv

LEMMA WakeAllOff ==
  ASSUME WakeInv, UNCHANGED <<actors, pub>>, tasks' = [t \in DOMAIN tasks |-> Off]
  PROVE  WakeInv'
  BY WakeKeep, FreshOK DEF WakeInv

LEMMA WakePublish ==
  ASSUME WakeInv, NEW c, NEW p, Publish(c, p)
  PROVE  WakeInv'
  <1> USE DEF Publish
  <1>1. DOMAIN tasks' = TaskIds /\ actors' = actors BY DEF WakeInv
  <1> SUFFICES ASSUME NEW t \in TaskIds PROVE TaskOK(t, tasks[t])' BY <1>1 DEF WakeInv
  <1> DEFINE w == Declared[c].ws
             follows == Up(t) /\ tasks[t].fwd[w] = actors[w]
             n == [tasks[t] EXCEPT !.poked = TRUE]
  <1>2. tasks'[t] = IF follows THEN n ELSE tasks[t] BY DEF WakeInv
  <1>3. CASE follows
    <2>1. DOMAIN tasks[t] = TaskFields /\ tasks[t] # Off BY <1>3, UpWhole DEF Up
    <2>2. tasks[t].pc \in {"look", "write", "wait"} BY <2>1 DEF WakeInv, TaskOK
    <2>3. DOMAIN n = TaskFields /\ n.poked /\ n.pc = tasks[t].pc BY <2>1 DEF TaskFields
    <2> HIDE DEF n
    <2> QED BY <1>2, <1>3, <2>2, <2>3 DEF TaskOK, Unwoken
  <1>4. CASE ~follows
    <2>1. tasks'[t] = tasks[t] BY <1>2, <1>4
    <2>2. CASE tasks[t] = Off BY <2>1, <2>2 DEF TaskOK
    <2>3. CASE tasks[t] # Off
      <3>1. DOMAIN tasks[t] = TaskFields /\ tasks[t].pc \in {"look", "write", "wait"} BY <2>3 DEF WakeInv, TaskOK
      <3>2. tasks[t].fwd # actors BY <1>4, <3>1 DEF Up
      <3> QED BY <1>1, <2>1, <3>1, <3>2 DEF TaskOK, Unwoken
    <2> QED BY <2>2, <2>3
  <1> QED BY <1>3, <1>4

LEMMA WakeMap ==
  ASSUME WakeInv, MapChanges
  PROVE  WakeInv'
  <1> USE DEF MapChanges
  <1>1. DOMAIN tasks' = TaskIds BY DEF WakeInv
  <1> SUFFICES ASSUME NEW t \in TaskIds PROVE TaskOK(t, tasks[t])' BY <1>1 DEF WakeInv
  <1> DEFINE n == [tasks[t] EXCEPT !.mapNew = TRUE]
  <1>2. tasks'[t] = IF Up(t) THEN n ELSE tasks[t] BY DEF WakeInv
  <1>3. CASE Up(t)
    <2>1. DOMAIN tasks[t] = TaskFields /\ tasks[t] # Off BY <1>3, UpWhole DEF Up
    <2>2. tasks[t].pc \in {"look", "write", "wait"} BY <2>1 DEF WakeInv, TaskOK
    <2>3. DOMAIN n = TaskFields /\ n.mapNew /\ n.pc = tasks[t].pc BY <2>1 DEF TaskFields
    <2> HIDE DEF n
    <2> QED BY <1>2, <1>3, <2>2, <2>3 DEF TaskOK, Unwoken
  <1>4. CASE ~Up(t)
    <2>1. tasks[t] = Off BY <1>4 DEF WakeInv, TaskOK, Up
    <2> QED BY <1>2, <1>4, <2>1 DEF TaskOK
  <1> QED BY <1>3, <1>4

LEMMA WakeLook ==
  ASSUME WakeInv, NEW t \in TaskIds, Look(t)
  PROVE  WakeInv'
  <1> DEFINE r == tasks[t]
  <1>1. actors' = actors /\ pub' = pub BY DEF Look
  <1>2. DOMAIN r = TaskFields BY UpWhole DEF Look, Up
  <1>3. CASE Set(t, Looked(r, t[2])) BY <1>1, <1>2, <1>3, LookedOK, WakeSet
  <1>4. CASE Set(t, Looked([r EXCEPT !.poked = FALSE], t[2]))
    <2> DEFINE n == [r EXCEPT !.poked = FALSE]
    <2>1. DOMAIN n = TaskFields BY <1>2
    <2>2. Set(t, Looked(n, t[2])) BY <1>4
    <2> HIDE DEF n
    <2> QED BY <1>1, <2>1, <2>2, LookedOK, WakeSet
  <1>5. CASE Set(t, Looked([r EXCEPT !.mapNew = FALSE], t[2]))
    <2> DEFINE n == [r EXCEPT !.mapNew = FALSE]
    <2>1. DOMAIN n = TaskFields BY <1>2
    <2>2. Set(t, Looked(n, t[2])) BY <1>5
    <2> HIDE DEF n
    <2> QED BY <1>1, <2>1, <2>2, LookedOK, WakeSet
  <1> QED BY <1>3, <1>4, <1>5 DEF Look

LEMMA WakeReconcile ==
  ASSUME WakeInv, NEW t \in TaskIds, NEW bad, reconcile(t, bad)
  PROVE  WakeInv'
  <1> DEFINE r == tasks[t]
             n == [r EXCEPT !.round = @ + 1]
  <1>1. actors' = actors /\ pub' = pub /\ r.pc = "write" BY DEF reconcile, Writing
  <1>2. Set(t, n) \/ Converged(t, bad = {}) BY DEF reconcile
  <1>3. CASE Set(t, n)
    <2>1. DOMAIN r = TaskFields /\ TaskOK(t, r) /\ r # Off BY <1>1, UpWhole
    <2> HIDE DEF r
    <2>2. /\ DOMAIN n = TaskFields /\ n.pc = r.pc /\ n.poked = r.poked /\ n.mapNew = r.mapNew /\ n.fwd = r.fwd
          /\ n.snap = r.snap
      BY <2>1 DEF TaskFields
    <2>3. Set(t, n) BY <1>3
    <2> HIDE DEF n
    <2>4. TaskOK(t, n) BY <1>1, <2>1, <2>2 DEF TaskOK, Unwoken
    <2> QED BY <1>1, <2>3, <2>4, WakeSet
  <1>4. CASE Converged(t, bad = {}) BY <1>1, <1>4, ConvergedOK
  <1> QED BY <1>2, <1>3, <1>4

LEMMA WakeTask ==
  ASSUME WakeInv, NEW t \in TaskIds, TaskStep(t)
  PROVE  WakeInv'
  <1>1. CASE Look(t) BY <1>1, WakeLook
  <1>2. CASE WriteHosts(t) BY <1>2, ConvergedOK DEF WriteHosts, Writing
  <1>3. CASE install_os_resolver_config(t) BY <1>3, ConvergedOK DEF install_os_resolver_config, Writing
  <1>4. CASE WriteFails(t) BY <1>4, ConvergedOK DEF WriteFails, Writing
  <1>5. ASSUME NEW bad, reconcile(t, bad) PROVE WakeInv' BY <1>5, WakeReconcile
  <1> QED BY <1>1, <1>2, <1>3, <1>4, <1>5 DEF TaskStep

LEMMA WakeSpawn ==
  ASSUME WakeInv, NEW c, SpawnEffects(c)
  PROVE  WakeInv'
  <1>1. actors' = actors /\ pub' = pub /\ DOMAIN tasks' = TaskIds BY DEF SpawnEffects, Untouched, WakeInv
  <1>2. \A t \in TaskIds : tasks'[t] \in {Fresh, tasks[t]} BY DEF SpawnEffects, WakeInv
  <1>3. \A t \in TaskIds : TaskOK(t, tasks'[t]) BY <1>2, FreshOK DEF WakeInv
  <1> QED BY <1>1, <1>3, WakeKeep

LEMMA WakeTake ==
  ASSUME WakeInv, NEW c, TakeActive(c)
  PROVE  WakeInv'
  <1>1. actors' = actors /\ pub' = pub /\ DOMAIN tasks' = TaskIds BY DEF TakeActive, Untouched, WakeInv
  <1>2. \A t \in TaskIds : tasks'[t] \in {Aborted(tasks[t]), tasks[t]} BY DEF TakeActive, WakeInv
  <1>3. \A t \in TaskIds : TaskOK(t, tasks'[t]) BY <1>2, AbortedOK DEF WakeInv
  <1> QED BY <1>1, <1>3, WakeKeep

LEMMA WakeEnds ==
  ASSUME WakeInv, ProcessEnds
  PROVE  WakeInv'
  BY WakeAllOff DEF ProcessEnds

LEMMA WakeCall ==
  ASSUME WakeInv, NEW c, CallStep(c)
  PROVE  WakeInv'
  <1> USE DEF Untouched, taskVars, netVars
  <1>1. CASE CheckActive(c) BY <1>1, WakeSame DEF CheckActive
  <1>2. CASE BindDns(c) BY <1>2, WakeSame DEF BindDns
  <1>3. CASE AddAlias(c) BY <1>3, WakeSame DEF AddAlias
  <1>4. CASE Bind(c, "http", "https") \/ Bind(c, "https", "spawn") BY <1>4, WakeSame DEF Bind
  <1>5. CASE SpawnEffects(c) BY <1>5, WakeSpawn
  <1>6. CASE StoreActive(c) BY <1>6, WakeSame DEF StoreActive
  <1>7. CASE ActivateFails(c) BY <1>7, WakeSame, WakeEnds DEF ActivateFails
  <1>8. CASE TakeActive(c) BY <1>8, WakeTake
  <1>9. CASE ClearInstalled(c) BY <1>9, WakeSame DEF ClearInstalled
  <1>10. CASE LoadSettings(c) BY <1>10, WakeSame DEF LoadSettings
  <1>11. CASE SaveSettings(c) BY <1>11, WakeSame DEF SaveSettings
  <1>12. CASE SaveFails(c) BY <1>12, WakeSame DEF SaveFails
  <1>13. CASE Sweep(c) BY <1>13, WakeSame DEF Sweep
  <1>14. CASE Untrust(c) BY <1>14, WakeSame DEF Untrust
  <1>15. CASE Erase(c) BY <1>15, WakeSame DEF Erase
  <1> QED
    BY <1>1, <1>2, <1>3, <1>4, <1>5, <1>6, <1>7, <1>8, <1>9, <1>10, <1>11, <1>12, <1>13, <1>14, <1>15 DEF CallStep

LEMMA WakeStep ==
  ASSUME WakeInv, [Next]_vars
  PROVE  WakeInv'
  <1> USE DEF taskVars, netVars
  <1>1. CASE CertStep BY <1>1, WakeSame DEF CertStep, Elsewhere
  <1>2. CASE Boot BY <1>2, WakeSame DEF Boot
  <1>3. CASE BootNetwork BY <1>3, WakeSame DEF BootNetwork
  <1>4. CASE Exit BY <1>4, WakeAllOff DEF Exit
  <1>5. CASE Crash BY <1>5, WakeEnds DEF Crash
  <1>6. CASE Environment
    <2>1. ASSUME NEW c \in Containers, NEW p, Publish(c, p) PROVE WakeInv' BY <2>1, WakePublish
    <2>2. ASSUME NEW w \in Workspaces, wire_actor(w) \/ Unwire(w) PROVE WakeInv'
      BY <2>2, WakeMap DEF wire_actor, Unwire
    <2>3. ASSUME NEW a, OtherListens(a) PROVE WakeInv' BY <2>3, WakeSame DEF OtherListens
    <2> QED BY <1>6, <2>1, <2>2, <2>3 DEF Environment
  <1>7. ASSUME NEW t \in Gens \X Effects, TaskStep(t) PROVE WakeInv' BY <1>7, WakeTask DEF TaskIds
  <1>8. ASSUME NEW c \in Threads, CallStep(c) PROVE WakeInv' BY <1>8, WakeCall
  <1>9. ASSUME NEW c, NEW kind, NEW socket, Ask(c, kind, socket) PROVE WakeInv'
    BY <1>9, WakeSame DEF Ask, Untouched
  <1>10. CASE UNCHANGED vars BY <1>10, WakeSame DEF vars
  <1> QED BY <1>1, <1>2, <1>3, <1>4, <1>5, <1>6, <1>7, <1>8, <1>9, <1>10 DEF Next

(* No wake-up is lost (effects/mod.rs, run_fanned_in_effect): whatever workspaces are   *)
(* wired, unwired and publish while an effect looks, writes or fails, one that sleeps  *)
(* has converged to the workspaces as they are, or its last try failed.                *)
THEOREM NoWakeEverLost == Spec => []NoLostWake
  <1>1. Init => WakeInv BY FreshOK DEF Init, WakeInv, TaskIds
  <1>2. WakeInv /\ [Next]_vars => WakeInv' BY WakeStep
  <1>3. WakeInv => NoLostWake
    BY OffIs DEF WakeInv, NoLostWake, Asleep, FollowsAll, TaskOK, TaskIds, Unwoken
  <1> QED BY <1>1, <1>2, <1>3, PTL DEF Spec

----------------------------------------------------------------------------
(* Who is where: requests, fghjd's own thread and the stages of its start.  *)

CallFields == {"kind", "pc", "gen", "copy", "socket"}
\* The steps of switching fghjd on, and those of asking it to stand down.
Activating == {"check", "dns", "alias", "http", "https", "spawn", "store"}
Deactivating == {"take", "clear", "load", "save"}

\* fghjd's own thread starts it and shuts it down; requests come while it is up,
\* and only an uninstall outlives it.
Fits(c, kind, pc) ==
  \/ pc = "done"
  \/ c = "fghjd" /\ kind = "boot" /\ pc \in Activating /\ stage = "network"
  \/ c = "fghjd" /\ kind = "shutdown" /\ pc \in {"take", "clear"} /\ stage = "up"
  \/ c # "fghjd" /\ kind = "start" /\ pc \in Activating \cup {"load", "save"} /\ stage = "up"
  \/ c # "fghjd" /\ kind = "stop" /\ pc \in Deactivating /\ stage = "up"
  \/ c # "fghjd" /\ kind = "docker" /\ pc \in {"load", "save"} /\ stage = "up"
  \/ c # "fghjd" /\ kind = "purge" /\ pc \in Deactivating /\ stage = "up"
  \/ c # "fghjd" /\ kind = "purge" /\ pc \in {"sweep", "untrust", "erase"}
CallOK(c, r) == DOMAIN r = CallFields /\ Fits(c, r.kind, r.pc)
CallInv ==
  /\ DOMAIN calls = Threads /\ \A c \in Threads : CallOK(c, calls[c])
  /\ stage # "up" => active = 0

\* Only c's record changes: it is at this step now, with this activation's number.
MovedTo(c, pc, gen) ==
  /\ DOMAIN calls' = Threads /\ \A d \in Threads \ {c} : calls'[d] = calls[d]
  /\ DOMAIN calls'[c] = CallFields
  /\ calls'[c].pc = pc /\ calls'[c].kind = calls[c].kind /\ calls'[c].gen = gen
\* Only c's record changes: it is a new request.
NewAt(c, kind, pc) ==
  /\ DOMAIN calls' = Threads /\ \A d \in Threads \ {c} : calls'[d] = calls[d]
  /\ DOMAIN calls'[c] = CallFields /\ calls'[c].pc = pc /\ calls'[c].kind = kind /\ calls[c].pc = "done"

LEMMA IdleIs ==
  DOMAIN Idle = CallFields /\ Idle.pc = "done" /\ Idle.kind = "none" /\ Idle.gen = 0
  BY DEF Idle, CallFields

LEMMA GotoMoves ==
  ASSUME CallInv, NEW c \in Threads, NEW pc, Goto(c, pc)
  PROVE  MovedTo(c, pc, calls[c].gen)
  <1> DEFINE r == calls[c]
             n == [r EXCEPT !.pc = pc]
  <1>1. DOMAIN r = CallFields /\ DOMAIN calls = Threads BY DEF CallInv, CallOK
  <1>2. calls' = [calls EXCEPT ![c] = n] BY DEF Goto
  <1> HIDE DEF r
  <1>3. DOMAIN n = CallFields /\ n.pc = pc /\ n.kind = r.kind /\ n.gen = r.gen
    BY <1>1 DEF CallFields
  <1> HIDE DEF n
  <1>4. DOMAIN calls' = Threads /\ calls'[c] = n /\ \A d \in Threads \ {c} : calls'[d] = calls[d] BY <1>1, <1>2
  <1> QED BY <1>3, <1>4 DEF MovedTo, r

LEMMA CallMove ==
  ASSUME CallInv, NEW c \in Threads, NEW pc, NEW gen, MovedTo(c, pc, gen), stage' = stage, stage # "up" => active' = 0,
         Fits(c, calls[c].kind, pc)
  PROVE  CallInv'
  <1>1. ASSUME NEW d \in Threads PROVE CallOK(d, calls[d])'
    <2>1. CASE d = c BY <2>1 DEF MovedTo, CallOK, Fits
    <2>2. CASE d # c BY <2>2 DEF MovedTo, CallInv, CallOK, Fits
    <2> QED BY <2>1, <2>2
  <1> QED BY <1>1 DEF MovedTo, CallInv

LEMMA CallSame ==
  ASSUME CallInv, UNCHANGED <<calls, stage, active>>
  PROVE  CallInv'
  BY DEF CallInv, CallOK, Fits

\* fghjd ends: its requests are gone and an uninstall goes on without it.
LEMMA AllEnded ==
  ASSUME CallInv, ProcessEnds \/ Exit
  PROVE  /\ DOMAIN calls' = Threads /\ stage' = "down" /\ active' = 0
         /\ \A c \in Threads : \/ calls'[c] = Idle
                               \/ /\ DOMAIN calls'[c] = CallFields /\ calls'[c].kind = "purge" /\ c # "fghjd"
                                  /\ calls[c].kind = "purge" /\ calls[c].pc # "done"
                                  /\ \/ calls'[c].pc = "sweep"
                                     \/ calls'[c].pc = calls[c].pc /\ calls[c].pc \in {"sweep", "untrust", "erase"}
  <1>1. DOMAIN calls' = Threads /\ stage' = "down" /\ active' = 0 BY DEF ProcessEnds, Exit, Dead
  <1> SUFFICES ASSUME NEW c \in Threads, calls'[c] # Idle
               PROVE  /\ DOMAIN calls'[c] = CallFields /\ calls'[c].kind = "purge" /\ c # "fghjd"
                      /\ calls[c].kind = "purge" /\ calls[c].pc # "done"
                      /\ \/ calls'[c].pc = "sweep"
                         \/ calls'[c].pc = calls[c].pc /\ calls[c].pc \in {"sweep", "untrust", "erase"}
    BY <1>1
  <1> DEFINE r == calls[c]
             n == [r EXCEPT !.pc = "sweep"]
  <1>2. calls'[c] \in {r, n} /\ r.kind = "purge" /\ r.pc # "done" /\ (calls'[c] = r => r.pc \notin Deactivating \/ calls'[c] = n)
    BY DEF ProcessEnds, Exit, At, Deactivating
  <1>3. DOMAIN r = CallFields /\ Fits(c, r.kind, r.pc) BY DEF CallInv, CallOK
  <1> HIDE DEF r
  <1>4. DOMAIN n = CallFields /\ n.pc = "sweep" /\ n.kind = r.kind BY <1>3 DEF CallFields
  <1> HIDE DEF n
  <1>5. c # "fghjd" BY <1>2, <1>3 DEF Fits
  <1> QED BY <1>2, <1>3, <1>4, <1>5 DEF Fits, Deactivating, r

LEMMA CallEnds ==
  ASSUME CallInv, ProcessEnds \/ Exit
  PROVE  CallInv'
  <1>1. \A c \in Threads : CallOK(c, calls[c])' BY AllEnded, IdleIs DEF CallOK, Fits
  <1> QED BY <1>1, AllEnded DEF CallInv

LEMMA LoadMoves ==
  ASSUME CallInv, NEW c \in Threads, LoadSettings(c)
  PROVE  MovedTo(c, "save", calls[c].gen)
  <1> DEFINE r == calls[c]
             n == [r EXCEPT !.pc = "save", !.copy = settings]
  <1>1. DOMAIN r = CallFields /\ DOMAIN calls = Threads BY DEF CallInv, CallOK
  <1>2. calls' = [calls EXCEPT ![c] = n] BY DEF LoadSettings
  <1> HIDE DEF r
  <1>3. DOMAIN n = CallFields /\ n.pc = "save" /\ n.kind = r.kind /\ n.gen = r.gen BY <1>1 DEF CallFields
  <1> HIDE DEF n
  <1>4. DOMAIN calls' = Threads /\ calls'[c] = n /\ \A d \in Threads \ {c} : calls'[d] = calls[d] BY <1>1, <1>2
  <1> QED BY <1>3, <1>4 DEF MovedTo, r

LEMMA DnsMoves ==
  ASSUME CallInv, NEW c \in Threads, BindDns(c)
  PROVE  MovedTo(c, "alias", gens + 1)
  <1> DEFINE r == calls[c]
             n == [r EXCEPT !.pc = "alias", !.gen = gens + 1]
  <1>1. DOMAIN r = CallFields /\ DOMAIN calls = Threads BY DEF CallInv, CallOK
  <1>2. calls' = [calls EXCEPT ![c] = n] BY DEF BindDns
  <1> HIDE DEF r
  <1>3. DOMAIN n = CallFields /\ n.pc = "alias" /\ n.kind = r.kind /\ n.gen = gens + 1 BY <1>1 DEF CallFields
  <1> HIDE DEF n
  <1>4. DOMAIN calls' = Threads /\ calls'[c] = n /\ \A d \in Threads \ {c} : calls'[d] = calls[d] BY <1>1, <1>2
  <1> QED BY <1>3, <1>4 DEF MovedTo, r

LEMMA AskIs ==
  ASSUME CallInv, NEW c \in Threads, NEW kind, NEW socket, Ask(c, kind, socket)
  PROVE  NewAt(c, kind, FirstStep(kind))
  <1> DEFINE n == [Idle EXCEPT !.kind = kind, !.pc = FirstStep(kind), !.socket = socket]
  <1>1. calls' = [calls EXCEPT ![c] = n] /\ calls[c].pc = "done" BY DEF Ask, At
  <1>2. DOMAIN n = CallFields /\ n.pc = FirstStep(kind) /\ n.kind = kind BY IdleIs DEF CallFields
  <1> HIDE DEF n
  <1> QED BY <1>1, <1>2 DEF NewAt, CallInv

LEMMA BootIs ==
  ASSUME CallInv, BootNetwork
  PROVE  \/ UNCHANGED calls /\ stage' = "up" /\ settings.idle
         \/ NewAt("fghjd", "boot", "check") /\ stage' = stage /\ ~settings.idle
  <1> DEFINE n == [Idle EXCEPT !.kind = "boot", !.pc = "check"]
  <1>1. CASE settings.idle BY <1>1 DEF BootNetwork
  <1>2. CASE ~settings.idle
    <2>1. calls' = [calls EXCEPT !["fghjd"] = n] /\ calls["fghjd"].pc = "done" /\ stage' = stage
      BY <1>2 DEF BootNetwork, At
    <2>2. DOMAIN n = CallFields /\ n.pc = "check" /\ n.kind = "boot" BY IdleIs DEF CallFields
    <2> HIDE DEF n
    <2> QED BY <1>2, <2>1, <2>2 DEF NewAt, CallInv, Threads
  <1> QED BY <1>1, <1>2

\* Saving ends the request, and a change of socket may have fghjd shut itself down.
SavedAt(c, pc) ==
  /\ DOMAIN calls' = Threads /\ c # "fghjd" /\ \A d \in Threads \ {c, "fghjd"} : calls'[d] = calls[d]
  /\ DOMAIN calls'[c] = CallFields /\ calls'[c].pc = pc /\ calls'[c].kind = calls[c].kind
  /\ \/ calls'["fghjd"] = calls["fghjd"]
     \/ /\ calls["fghjd"].pc = "done" /\ calls[c].kind = "docker"
        /\ DOMAIN calls'["fghjd"] = CallFields /\ calls'["fghjd"].kind = "shutdown" /\ calls'["fghjd"].pc = "take"
AfterPc(c) == IF calls[c].kind = "purge" THEN "sweep" ELSE "done"

LEMMA SaveMoves ==
  ASSUME CallInv, NEW c \in Threads, SaveSettings(c)
  PROVE  SavedAt(c, AfterPc(c))
  <1> DEFINE r == calls[c]
             n == [r EXCEPT !.pc = AfterPc(c)]
             s == [Idle EXCEPT !.kind = "shutdown", !.pc = "take"]
             f == calls["fghjd"]
             g == IF r.kind = "docker" /\ r.socket # dialled /\ f.pc = "done" THEN s ELSE f
  <1>1. DOMAIN r = CallFields /\ DOMAIN calls = Threads /\ r.pc = "save" /\ Fits(c, r.kind, r.pc)
    BY DEF CallInv, CallOK, SaveSettings, At
  <1>2. c # "fghjd" BY <1>1 DEF Fits, Activating, Deactivating
  <1>3. calls' = [calls EXCEPT ![c] = n, !["fghjd"] = g] BY <1>2 DEF SaveSettings, AfterSave, AfterPc
  <1> HIDE DEF r
  <1>4. DOMAIN n = CallFields /\ n.pc = AfterPc(c) /\ n.kind = r.kind BY <1>1 DEF CallFields
  <1>5. DOMAIN s = CallFields /\ s.pc = "take" /\ s.kind = "shutdown" BY IdleIs DEF CallFields
  <1>6. g = f \/ (g = s /\ f.pc = "done" /\ r.kind = "docker") OBVIOUS
  <1> HIDE DEF n, s, g
  <1>7. "fghjd" \in Threads BY DEF Threads
  <1>8. DOMAIN calls' = Threads /\ calls'[c] = n /\ calls'["fghjd"] = g
    BY <1>1, <1>2, <1>3, <1>7
  <1>9. \A d \in Threads \ {c, "fghjd"} : calls'[d] = calls[d] BY <1>1, <1>2, <1>3, <1>7
  <1> QED BY <1>2, <1>4, <1>5, <1>6, <1>8, <1>9 DEF SavedAt, r

\* The steps of a request, each as it moves its caller.
Stays(c, from, to) == calls[c].pc = from /\ MovedTo(c, to, calls[c].gen)

LEMMA Moves ==
  ASSUME CallInv, NEW c \in Threads
  PROVE  /\ CheckActive(c) => Stays(c, "check", IF active # 0 THEN "load" ELSE "dns")
         /\ AddAlias(c) => Stays(c, "alias", "http")
         /\ Bind(c, "http", "https") => Stays(c, "http", "https")
         /\ Bind(c, "https", "spawn") => Stays(c, "https", "spawn")
         /\ SpawnEffects(c) => Stays(c, "spawn", "store")
         /\ StoreActive(c) => Stays(c, "store", IF c = "fghjd" THEN "done" ELSE "load")
         /\ ActivateFails(c) => ProcessEnds \/ (c # "fghjd" /\ Stays(c, calls[c].pc, "done"))
         /\ TakeActive(c) => Stays(c, "take", "clear")
         /\ ClearInstalled(c) => Stays(c, "clear", "load") /\ calls[c].kind # "shutdown"
         /\ SaveFails(c) => Stays(c, "save", AfterPc(c))
         /\ Sweep(c) => Stays(c, "sweep", "untrust")
         /\ Untrust(c) => Stays(c, "untrust", "erase")
         /\ Erase(c) => Stays(c, "erase", "done")
  <1> USE GotoMoves DEF Stays, At
  <1>1. CheckActive(c) => Stays(c, "check", IF active # 0 THEN "load" ELSE "dns") BY DEF CheckActive
  <1>2. AddAlias(c) => Stays(c, "alias", "http") BY DEF AddAlias
  <1>3. Bind(c, "http", "https") => Stays(c, "http", "https") BY DEF Bind
  <1>4. Bind(c, "https", "spawn") => Stays(c, "https", "spawn") BY DEF Bind
  <1>5. SpawnEffects(c) => Stays(c, "spawn", "store") BY DEF SpawnEffects
  <1>6. StoreActive(c) => Stays(c, "store", IF c = "fghjd" THEN "done" ELSE "load") BY DEF StoreActive
  <1>7. ActivateFails(c) => ProcessEnds \/ (c # "fghjd" /\ Stays(c, calls[c].pc, "done")) BY DEF ActivateFails, Goto
  <1>8. TakeActive(c) => Stays(c, "take", "clear") BY DEF TakeActive
  <1>9. ClearInstalled(c) => Stays(c, "clear", "load") /\ calls[c].kind # "shutdown" BY DEF ClearInstalled
  <1>10. SaveFails(c) => Stays(c, "save", AfterPc(c)) BY DEF SaveFails, AfterPc, Goto
  <1>11. Sweep(c) => Stays(c, "sweep", "untrust") BY DEF Sweep
  <1>12. Untrust(c) => Stays(c, "untrust", "erase") BY DEF Untrust
  <1>13. Erase(c) => Stays(c, "erase", "done") BY DEF Erase
  <1> QED BY <1>1, <1>2, <1>3, <1>4, <1>5, <1>6, <1>7, <1>8, <1>9, <1>10, <1>11, <1>12, <1>13

LEMMA CallCall ==
  ASSUME CallInv, NEW c \in Threads, CallStep(c)
  PROVE  CallInv'
  <1> USE DEF Untouched, certVars
  <1>0. Fits(c, calls[c].kind, calls[c].pc) /\ (stage # "up" => active = 0) BY DEF CallInv, CallOK
  <1> USE DEF Fits, Activating, Deactivating, Stays
  <1>1. CASE CheckActive(c) BY <1>0, <1>1, Moves, CallMove DEF CheckActive
  <1>2. CASE BindDns(c) BY <1>0, <1>2, DnsMoves, CallMove DEF BindDns, At
  <1>3. CASE AddAlias(c) BY <1>0, <1>3, Moves, CallMove DEF AddAlias
  <1>4. CASE Bind(c, "http", "https") BY <1>0, <1>4, Moves, CallMove DEF Bind
  <1>5. CASE Bind(c, "https", "spawn") BY <1>0, <1>5, Moves, CallMove DEF Bind
  <1>6. CASE SpawnEffects(c) BY <1>0, <1>6, Moves, CallMove DEF SpawnEffects
  <1>7. CASE StoreActive(c)
    <2>1. CASE c = "fghjd"
      <3>1. stage' = "up" /\ MovedTo(c, "done", calls[c].gen) /\ stage = "network"
        BY <1>0, <1>7, <2>1, Moves DEF StoreActive, At
      <3>2. ASSUME NEW d \in Threads PROVE CallOK(d, calls[d])'
        <4>1. CASE d = c BY <3>1, <4>1 DEF MovedTo, CallOK
        <4>2. CASE d # c
          <5>1. calls'[d] = calls[d] /\ CallOK(d, calls[d]) BY <3>1, <4>2 DEF MovedTo, CallInv
          <5> QED BY <2>1, <3>1, <4>2, <5>1 DEF CallOK
        <4> QED BY <4>1, <4>2
      <3> QED BY <3>1, <3>2 DEF CallInv, MovedTo
    <2>2. CASE c # "fghjd"
      <3>1. MovedTo(c, "load", calls[c].gen) /\ calls[c].pc = "store" /\ stage' = stage BY <1>7, <2>2, Moves DEF StoreActive
      <3>2. calls[c].kind = "start" /\ stage = "up" BY <1>0, <2>2, <3>1
      <3> QED BY <2>2, <3>1, <3>2, CallMove
    <2> QED BY <2>1, <2>2
  <1>8. CASE ActivateFails(c)
    <2>1. CASE ProcessEnds BY <2>1, CallEnds
    <2>2. CASE ~ProcessEnds
      <3>1. MovedTo(c, "done", calls[c].gen) /\ stage' = stage /\ active' = active BY <1>8, <2>2, Moves DEF ActivateFails
      <3> QED BY <1>0, <3>1, CallMove
    <2> QED BY <2>1, <2>2
  <1>9. CASE TakeActive(c) BY <1>0, <1>9, Moves, CallMove DEF TakeActive
  <1>10. CASE ClearInstalled(c) BY <1>0, <1>10, Moves, CallMove DEF ClearInstalled
  <1>11. CASE LoadSettings(c) BY <1>0, <1>11, LoadMoves, CallMove DEF LoadSettings, At
  <1>12. CASE SaveSettings(c)
    <2>1. SavedAt(c, AfterPc(c)) BY <1>12, SaveMoves
    <2>2. stage' = stage /\ active' = active /\ calls[c].pc = "save" BY <1>12 DEF SaveSettings, At
    <2>3. stage = "up" BY <1>0, <2>2
    <2>4. ASSUME NEW d \in Threads PROVE CallOK(d, calls[d])'
      <3>1. CallOK(d, calls[d]) /\ CallOK(c, calls[c]) BY DEF CallInv
      <3>2. CASE d = c BY <2>1, <2>2, <2>3, <3>2, <1>0 DEF SavedAt, CallOK, AfterPc
      <3>3. CASE d # c /\ calls'[d] = calls[d] BY <2>2, <3>1, <3>3 DEF CallOK
      <3>4. CASE d # c /\ calls'[d] # calls[d] BY <2>1, <2>2, <2>3, <3>4 DEF SavedAt, CallOK
      <3> QED BY <3>2, <3>3, <3>4
    <2> QED BY <2>1, <2>2, <2>3, <2>4 DEF CallInv, SavedAt
  <1>13. CASE SaveFails(c) BY <1>0, <1>13, Moves, CallMove DEF SaveFails, AfterPc
  <1>14. CASE Sweep(c) BY <1>0, <1>14, Moves, CallMove DEF Sweep
  <1>15. CASE Untrust(c) BY <1>0, <1>15, Moves, CallMove DEF Untrust
  <1>16. CASE Erase(c) BY <1>0, <1>16, Moves, CallMove DEF Erase
  <1> QED
    BY <1>1, <1>2, <1>3, <1>4, <1>5, <1>6, <1>7, <1>8, <1>9, <1>10, <1>11, <1>12, <1>13, <1>14, <1>15, <1>16
    DEF CallStep

\* fghjd starts step by step, and nobody but an uninstall is there to see it.
LEMMA CallStage ==
  ASSUME CallInv, UNCHANGED <<calls, active>>, stage \notin {"network", "up"}
  PROVE  CallInv'
  <1>1. ASSUME NEW c \in Threads PROVE CallOK(c, calls[c])'
    BY DEF CallInv, CallOK, Fits
  <1> QED BY <1>1 DEF CallInv

LEMMA CallNew ==
  ASSUME CallInv, NEW c \in Threads, NEW kind, NEW pc, NewAt(c, kind, pc), Fits(c, kind, pc), UNCHANGED <<stage, active>>
  PROVE  CallInv'
  <1>1. ASSUME NEW d \in Threads PROVE CallOK(d, calls[d])'
    <2>1. CASE d = c BY <2>1 DEF NewAt, CallOK, Fits
    <2>2. CASE d # c BY <2>2 DEF NewAt, CallInv, CallOK, Fits
    <2> QED BY <2>1, <2>2
  <1> QED BY <1>1 DEF NewAt, CallInv

Kinds == {"start", "stop", "shutdown", "purge", "docker"}

LEMMA CallStepOK ==
  ASSUME CallInv, [Next]_vars
  PROVE  CallInv'
  <1> USE DEF taskVars, netVars, controlVars, certVars
  <1>1. CASE CertStep
    <2>1. stage \notin {"network", "up"}
      BY <1>1 DEF CertStep, SetUp, LoadRoot, generate_ca, WriteRootKey, LoadSigning, generate_signing_ca,
                  WriteSigningKey, WriteGeneration, CopyCert, CopyKey, CopySkipped, InstallTrust
    <2> QED BY <1>1, <2>1, CallStage DEF CertStep, Elsewhere
  <1>2. CASE Boot BY <1>2, CallStage DEF Boot, Begin
  <1>3. CASE BootNetwork
    <2>1. active' = active /\ stage = "network" /\ calls["fghjd"].pc = "done" BY <1>3 DEF BootNetwork, At
    <2>2. CASE UNCHANGED calls /\ stage' = "up"
      <3>1. ASSUME NEW c \in Threads PROVE CallOK(c, calls[c])'
        BY <2>1, <2>2 DEF CallInv, CallOK, Fits, Threads
      <3> QED BY <2>2, <3>1 DEF CallInv
    <2>3. CASE NewAt("fghjd", "boot", "check") /\ stage' = stage
      BY <2>1, <2>3, CallNew DEF Fits, Activating, Threads
    <2> QED BY <1>3, <2>2, <2>3, BootIs
  <1>4. CASE Exit BY <1>4, CallEnds
  <1>5. CASE Crash BY <1>5, CallEnds DEF Crash
  <1>6. CASE Environment
    BY <1>6, CallSame DEF Environment, Publish, wire_actor, Unwire, OtherListens
  <1>7. ASSUME NEW t \in Gens \X Effects, TaskStep(t) PROVE CallInv'
    BY <1>7, CallSame DEF TaskStep, Look, WriteHosts, install_os_resolver_config, WriteFails, reconcile
  <1>8. ASSUME NEW c \in Threads, CallStep(c) PROVE CallInv' BY <1>8, CallCall
  <1>9. ASSUME NEW c \in Threads, NEW kind \in Kinds, NEW socket, Ask(c, kind, socket) PROVE CallInv'
    <2>1. NewAt(c, kind, FirstStep(kind)) /\ UNCHANGED <<stage, active>> BY <1>9, AskIs DEF Ask, Untouched
    <2>2. Fits(c, kind, FirstStep(kind)) BY <1>9 DEF Ask, Fits, FirstStep, Kinds, Activating, Deactivating
    <2> QED BY <2>1, <2>2, CallNew
  <1>10. CASE UNCHANGED vars BY <1>10, CallSame DEF vars
  <1> QED BY <1>1, <1>2, <1>3, <1>4, <1>5, <1>6, <1>7, <1>8, <1>9, <1>10 DEF Next, Kinds

----------------------------------------------------------------------------
(* One activation at a time: OneWriter.                                    *)

\* The steps that hold an activation's number, and each of the proxy's ports.
Numbered == {"alias", "http", "https", "spawn", "store"}
Holders == [http |-> {"https", "spawn", "store"}, https |-> {"spawn", "store"}]
Holds(c, port) == calls[c].pc \in Holders[port]
\* The task of an activation that nobody has called off.
Working(t) == Up(t) /\ ~tasks[t].aborted

\* Activations under way have numbers of their own.
OwnNumbers ==
  /\ gens \in Nat /\ active \in 0 .. gens
  /\ \A c \in Threads : calls[c].pc \in Numbered => calls[c].gen \in 1 .. gens /\ calls[c].gen # active
  /\ \A c, d \in Threads :
       calls[c].pc \in Numbered /\ calls[d].pc \in Numbered /\ calls[c].gen = calls[d].gen => c = d
\* A port is held by the activation, or the one under way, that bound it.
OwnPorts ==
  /\ ports \in [{"http", "https"} -> Nat]
  /\ \A p \in {"http", "https"} :
       /\ \A c \in Threads : Holds(c, p) => ports[p] = calls[c].gen
       /\ active # 0 => ports[p] = active
       /\ ports[p] # 0 => ports[p] = active \/ \E c \in Threads : Holds(c, p) /\ calls[c].gen = ports[p]
\* A task works for the activation, or for the one about to be stored.
OwnTasks ==
  \A t \in TaskIds : Working(t) => t[1] = active \/ \E c \in Threads : calls[c].pc = "store" /\ calls[c].gen = t[1]
OwnInv == OwnNumbers /\ OwnPorts /\ OwnTasks

LEMMA HoldersAre ==
  /\ Holders["http"] = {"https", "spawn", "store"} /\ Holders["https"] = {"spawn", "store"}
  /\ Holders["http"] \subseteq Numbered /\ Holders["https"] \subseteq Numbered
  BY DEF Holders, Numbered

\* Nobody begins, goes on with or gives up an activation.
LEMMA OwnQuiet ==
  ASSUME OwnInv, UNCHANGED <<gens, active, ports>>,
         \A d \in Threads : \/ calls'[d].pc \notin Numbered /\ calls[d].pc \notin Numbered
                            \/ calls'[d].pc = calls[d].pc /\ calls'[d].gen = calls[d].gen,
         \A t \in TaskIds : Working(t)' => Working(t)
  PROVE  OwnInv'
  <1>1. OwnNumbers' BY DEF OwnInv, OwnNumbers
  <1>2. OwnPorts' BY HoldersAre DEF OwnInv, OwnPorts, Holds
  <1>3. OwnTasks' BY DEF OwnInv, OwnTasks, Numbered
  <1> QED BY <1>1, <1>2, <1>3 DEF OwnInv

LEMMA WorkingSame ==
  ASSUME UNCHANGED tasks
  PROVE  \A t \in TaskIds : Working(t)' => Working(t)
  BY DEF Working, Up

LEMMA OwnMove ==
  ASSUME OwnInv, UNCHANGED <<gens, active, ports, tasks>>, NEW c \in Threads, NEW from, NEW to, Stays(c, from, to),
         from \notin Numbered, to \notin Numbered
  PROVE  OwnInv'
  <1>1. \A d \in Threads : \/ calls'[d].pc \notin Numbered /\ calls[d].pc \notin Numbered
                           \/ calls'[d].pc = calls[d].pc /\ calls'[d].gen = calls[d].gen
    BY DEF Stays, MovedTo
  <1> QED BY <1>1, OwnQuiet, WorkingSame

LEMMA OwnDns ==
  ASSUME CallInv, OwnInv, NEW c \in Threads, BindDns(c)
  PROVE  OwnInv'
  <1>1. /\ MovedTo(c, "alias", gens + 1) /\ gens' = gens + 1 /\ UNCHANGED <<active, ports, tasks>>
        /\ calls[c].pc = "dns"
    BY DnsMoves DEF BindDns, taskVars, At
  <1>2. \A d \in Threads : d # c => calls'[d] = calls[d] BY <1>1 DEF MovedTo
  <1>3. calls'[c].pc = "alias" /\ calls'[c].gen = gens + 1 BY <1>1 DEF MovedTo
  <1>4. OwnNumbers' BY <1>1, <1>2, <1>3 DEF OwnInv, OwnNumbers, Numbered
  <1>5. \A d \in Threads, p \in {"http", "https"} : Holds(d, p)' <=> Holds(d, p)
    BY <1>1, <1>2, <1>3, HoldersAre DEF Holds
  <1>6. \A d \in Threads, p \in {"http", "https"} : Holds(d, p) => calls'[d] = calls[d]
    BY <1>1, <1>2, HoldersAre DEF Holds
  <1>7. OwnPorts' BY <1>1, <1>5, <1>6 DEF OwnInv, OwnPorts
  <1>8. OwnTasks' BY <1>1, <1>2, WorkingSame DEF OwnInv, OwnTasks
  <1> QED BY <1>4, <1>7, <1>8 DEF OwnInv

LEMMA OwnAlias ==
  ASSUME CallInv, OwnInv, NEW c \in Threads, AddAlias(c)
  PROVE  OwnInv'
  <1>1. /\ MovedTo(c, "http", calls[c].gen) /\ UNCHANGED <<gens, active, ports, tasks>> /\ calls[c].pc = "alias"
    BY Moves DEF AddAlias, Stays
  <1>2. \A d \in Threads : d # c => calls'[d] = calls[d] BY <1>1 DEF MovedTo
  <1>3. calls'[c].pc = "http" /\ calls'[c].gen = calls[c].gen BY <1>1 DEF MovedTo
  <1>4. OwnNumbers' BY <1>1, <1>2, <1>3 DEF OwnInv, OwnNumbers, Numbered
  <1>5. \A d \in Threads, p \in {"http", "https"} : Holds(d, p)' <=> Holds(d, p)
    BY <1>1, <1>2, <1>3, HoldersAre DEF Holds
  <1>6. \A d \in Threads, p \in {"http", "https"} : Holds(d, p) => calls'[d] = calls[d]
    BY <1>1, <1>2, HoldersAre DEF Holds
  <1>7. OwnPorts' BY <1>1, <1>5, <1>6 DEF OwnInv, OwnPorts
  <1>8. OwnTasks' BY <1>1, <1>2, WorkingSame DEF OwnInv, OwnTasks
  <1> QED BY <1>4, <1>7, <1>8 DEF OwnInv

LEMMA OwnBind ==
  ASSUME CallInv, OwnInv, NEW c \in Threads, NEW port \in {"http", "https"}, NEW next, Bind(c, port, next),
         <<port, next>> \in {<<"http", "https">>, <<"https", "spawn">>}
  PROVE  OwnInv'
  <1>0. (port = "http" /\ next = "https") \/ (port = "https" /\ next = "spawn") OBVIOUS
  <1>1. /\ MovedTo(c, next, calls[c].gen) /\ UNCHANGED <<gens, active, tasks>> /\ calls[c].pc = port
        /\ ports[port] = 0 /\ ports' = [ports EXCEPT ![port] = calls[c].gen]
    BY <1>0, Moves DEF Bind, Stays, taskVars
  <1>2. \A d \in Threads : d # c => calls'[d] = calls[d] BY <1>1 DEF MovedTo
  <1>3. calls'[c].pc = next /\ calls'[c].gen = calls[c].gen BY <1>1 DEF MovedTo
  <1>4. OwnNumbers' BY <1>0, <1>1, <1>2, <1>3 DEF OwnInv, OwnNumbers, Numbered
  <1>5. active = 0 /\ active' = 0 BY <1>1 DEF OwnInv, OwnPorts, OwnNumbers
  <1>6. calls[c].gen # 0 BY <1>0, <1>1 DEF OwnInv, OwnNumbers, Numbered
  <1>7. \A d \in Threads : ~Holds(d, port)
    <2> SUFFICES ASSUME NEW d \in Threads, Holds(d, port) PROVE FALSE OBVIOUS
    <2>1. calls[d].gen = 0 BY <1>1 DEF OwnInv, OwnPorts
    <2>2. calls[d].pc \in Numbered BY HoldersAre DEF Holds
    <2> QED BY <2>1, <2>2 DEF OwnInv, OwnNumbers
  <1>8. ASSUME NEW p \in {"http", "https"}
        PROVE  /\ \A d \in Threads : Holds(d, p)' => ports'[p] = calls'[d].gen
               /\ ports'[p] # 0 => \E d \in Threads : Holds(d, p)' /\ calls'[d].gen = ports'[p]
    <2>1. CASE p = port
      <3>1. ports'[p] = calls[c].gen BY <1>1, <2>1 DEF OwnInv, OwnPorts
      <3>2. Holds(c, p)' BY <1>0, <1>3, <2>1, HoldersAre DEF Holds
      <3>3. \A d \in Threads : Holds(d, p)' => d = c BY <1>2, <1>7, <2>1 DEF Holds
      <3> QED BY <1>3, <3>1, <3>2, <3>3
    <2>2. CASE p # port
      <3>1. ports'[p] = ports[p] BY <1>1, <2>2 DEF OwnInv, OwnPorts
      <3>2. Holds(c, p)' <=> Holds(c, p) BY <1>0, <1>1, <1>3, <2>2, HoldersAre DEF Holds
      <3>3. \A d \in Threads : Holds(d, p)' <=> Holds(d, p) BY <1>2, <3>2 DEF Holds
      <3>4. \A d \in Threads : calls'[d].gen = calls[d].gen BY <1>2, <1>3
      <3>5. /\ \A d \in Threads : Holds(d, p) => ports[p] = calls[d].gen
            /\ ports[p] # 0 => \E d \in Threads : Holds(d, p) /\ calls[d].gen = ports[p]
        BY <1>5 DEF OwnInv, OwnPorts
      <3> QED BY <3>1, <3>3, <3>4, <3>5
    <2> QED BY <2>1, <2>2
  <1>9. ports' \in [{"http", "https"} -> Nat]
    <2>1. calls[c].gen \in Nat BY <1>0, <1>1 DEF OwnInv, OwnNumbers, Numbered
    <2> QED BY <1>1, <2>1 DEF OwnInv, OwnPorts
  <1>10. OwnPorts' BY <1>5, <1>8, <1>9 DEF OwnPorts
  <1>11. \A d \in Threads : calls[d].pc = "store" => calls'[d] = calls[d] BY <1>0, <1>1, <1>2
  <1>12. OwnTasks' BY <1>1, <1>11, WorkingSame DEF OwnInv, OwnTasks
  <1> QED BY <1>4, <1>10, <1>12 DEF OwnInv

LEMMA OwnSpawn ==
  ASSUME CallInv, WakeInv, OwnInv, NEW c \in Threads, SpawnEffects(c)
  PROVE  OwnInv'
  <1>1. /\ MovedTo(c, "store", calls[c].gen) /\ UNCHANGED <<gens, active, ports>> /\ calls[c].pc = "spawn"
    BY Moves DEF SpawnEffects, Stays
  <1>2. \A d \in Threads : d # c => calls'[d] = calls[d] BY <1>1 DEF MovedTo
  <1>3. calls'[c].pc = "store" /\ calls'[c].gen = calls[c].gen BY <1>1 DEF MovedTo
  <1>4. OwnNumbers' BY <1>1, <1>2, <1>3 DEF OwnInv, OwnNumbers, Numbered
  <1>5. \A d \in Threads, p \in {"http", "https"} : Holds(d, p)' <=> Holds(d, p)
    BY <1>1, <1>2, <1>3, HoldersAre DEF Holds
  <1>6. \A d \in Threads : calls'[d].gen = calls[d].gen BY <1>2, <1>3
  <1>7. OwnPorts' BY <1>1, <1>5, <1>6 DEF OwnInv, OwnPorts
  <1>8. ASSUME NEW t \in TaskIds, Working(t)'
        PROVE  t[1] = active' \/ \E d \in Threads : calls'[d].pc = "store" /\ calls'[d].gen = t[1]
    <2>1. CASE t[1] = calls[c].gen BY <1>3, <2>1
    <2>2. CASE t[1] # calls[c].gen
      <3>1. tasks'[t] = tasks[t] BY <2>2 DEF SpawnEffects, WakeInv
      <3>2. Working(t) BY <1>8, <3>1 DEF Working, Up
      <3> QED BY <1>1, <1>2, <1>3, <3>2 DEF OwnInv, OwnTasks
    <2> QED BY <2>1, <2>2
  <1> QED BY <1>4, <1>7, <1>8 DEF OwnInv, OwnTasks

LEMMA OwnStore ==
  ASSUME CallInv, OwnInv, NEW c \in Threads, StoreActive(c)
  PROVE  OwnInv'
  <1>1. /\ UNCHANGED <<gens, ports, tasks>> /\ active' = calls[c].gen /\ calls[c].pc = "store"
        /\ \E pc \in {"done", "load"} : MovedTo(c, pc, calls[c].gen)
    BY Moves DEF StoreActive, Stays, taskVars
  <1>2. \A d \in Threads : d # c => calls'[d] = calls[d] BY <1>1 DEF MovedTo
  <1>3. calls'[c].pc \in {"done", "load"} BY <1>1 DEF MovedTo
  <1>4. calls[c].gen \in 1 .. gens /\ calls[c].gen # active BY <1>1 DEF OwnInv, OwnNumbers, Numbered
  <1>5. \A p \in {"http", "https"} : Holds(c, p) /\ ports[p] = calls[c].gen BY <1>1, HoldersAre DEF Holds, OwnInv, OwnPorts
  <1>6. active = 0 BY <1>4, <1>5 DEF OwnInv, OwnPorts
  <1>7. OwnNumbers' BY <1>1, <1>2, <1>3, <1>4 DEF OwnInv, OwnNumbers, Numbered
  <1>8. \A d \in Threads, p \in {"http", "https"} : Holds(d, p)' => Holds(d, p) /\ calls'[d] = calls[d]
    BY <1>2, <1>3, HoldersAre DEF Holds
  <1>9. OwnPorts' BY <1>1, <1>5, <1>8 DEF OwnInv, OwnPorts
  <1>10. OwnTasks'
    <2> SUFFICES ASSUME NEW t \in TaskIds, Working(t)'
                 PROVE  t[1] = active' \/ \E d \in Threads : calls'[d].pc = "store" /\ calls'[d].gen = t[1]
      BY DEF OwnTasks
    <2>1. t[1] # 0 BY DEF TaskIds, Gens
    <2>2. Working(t) BY <1>1, WorkingSame
    <2>3. PICK d \in Threads : calls[d].pc = "store" /\ calls[d].gen = t[1] BY <1>6, <2>1, <2>2 DEF OwnInv, OwnTasks
    <2> QED BY <1>1, <1>2, <2>3
  <1> QED BY <1>7, <1>9, <1>10 DEF OwnInv

LEMMA AbortedIdles ==
  ASSUME NEW t \in TaskIds, NEW r, TaskOK(t, r)
  PROVE  Aborted(r).pc = "off" \/ Aborted(r).aborted
  <1>1. CASE r.pc \in {"off", "look", "wait"} BY <1>1, OffIs DEF Aborted
  <1>2. CASE r.pc \notin {"off", "look", "wait"}
    <2>1. DOMAIN r = TaskFields BY <1>2, OffIs DEF TaskOK
    <2> QED BY <1>2, <2>1 DEF TaskFields, Aborted
  <1> QED BY <1>1, <1>2

LEMMA OwnTake ==
  ASSUME CallInv, WakeInv, OwnInv, NEW c \in Threads, TakeActive(c)
  PROVE  OwnInv'
  <1>1. /\ MovedTo(c, "clear", calls[c].gen) /\ calls[c].pc = "take" /\ gens' = gens /\ active' = 0
        /\ tasks' = [t \in DOMAIN tasks |-> IF t[1] = active THEN Aborted(tasks[t]) ELSE tasks[t]]
        /\ ports' = IF active = 0 THEN ports ELSE [p \in DOMAIN ports |-> IF ports[p] = active THEN 0 ELSE ports[p]]
    BY Moves DEF TakeActive, Stays
  <1>2. \A d \in Threads : d # c => calls'[d] = calls[d] BY <1>1 DEF MovedTo
  <1>3. calls'[c].pc = "clear" BY <1>1 DEF MovedTo
  <1>4. \A d \in Threads : calls[d].pc \in Numbered \/ calls'[d].pc \in Numbered => calls'[d] = calls[d]
    BY <1>1, <1>2, <1>3 DEF Numbered
  <1>5. \A d \in Threads : calls[d].pc \in Numbered => calls[d].gen \in 1 .. gens /\ calls[d].gen # active
    BY DEF OwnInv, OwnNumbers
  <1>6. OwnNumbers'
    <2>1. gens' \in Nat /\ active' \in 0 .. gens' BY <1>1 DEF OwnInv, OwnNumbers
    <2>2. \A d \in Threads : calls'[d].pc \in Numbered => calls'[d].gen \in 1 .. gens' /\ calls'[d].gen # active'
      BY <1>1, <1>4, <1>5
    <2>3. \A d, e \in Threads : calls'[d].pc \in Numbered /\ calls'[e].pc \in Numbered /\ calls'[d].gen = calls'[e].gen => d = e
      BY <1>4 DEF OwnInv, OwnNumbers
    <2> QED BY <2>1, <2>2, <2>3 DEF OwnNumbers
  <1>7. ports' \in [{"http", "https"} -> Nat] /\ \A p \in {"http", "https"} : ports'[p] = IF ports[p] = active THEN 0 ELSE ports[p]
    BY <1>1 DEF OwnInv, OwnPorts
  <1>8. \A d \in Threads, p \in {"http", "https"} : Holds(d, p) \/ Holds(d, p)' => calls[d].pc \in Numbered \/ calls'[d].pc \in Numbered
    BY HoldersAre DEF Holds
  <1>9. \A d \in Threads, p \in {"http", "https"} : Holds(d, p) \/ Holds(d, p)' => Holds(d, p) /\ Holds(d, p)' /\ calls'[d] = calls[d]
    BY <1>4, <1>8 DEF Holds
  <1>10. ASSUME NEW p \in {"http", "https"}
         PROVE  /\ \A d \in Threads : Holds(d, p)' => ports'[p] = calls'[d].gen
                /\ ports'[p] # 0 => \E d \in Threads : Holds(d, p)' /\ calls'[d].gen = ports'[p]
    <2>1. \A d \in Threads : Holds(d, p) => ports[p] = calls[d].gen /\ calls[d].gen # active
      BY <1>5, HoldersAre DEF Holds, OwnInv, OwnPorts
    <2>2. \A d \in Threads : Holds(d, p)' => ports'[p] = calls'[d].gen BY <1>7, <1>9, <2>1
    <2>3. ASSUME ports'[p] # 0 PROVE \E d \in Threads : Holds(d, p)' /\ calls'[d].gen = ports'[p]
      <3>1. ports'[p] = ports[p] /\ ports[p] # active BY <1>7, <2>3
      <3>2. PICK d \in Threads : Holds(d, p) /\ calls[d].gen = ports[p] BY <2>3, <3>1 DEF OwnInv, OwnPorts
      <3> QED BY <1>9, <3>1, <3>2
    <2> QED BY <2>2, <2>3
  <1>11. OwnPorts' BY <1>1, <1>7, <1>10 DEF OwnPorts
  <1>12. OwnTasks'
    <2> SUFFICES ASSUME NEW t \in TaskIds, Working(t)'
                 PROVE  \E d \in Threads : calls'[d].pc = "store" /\ calls'[d].gen = t[1]
      BY DEF OwnTasks
    <2>1. TaskOK(t, tasks[t]) BY DEF WakeInv
    <2>2. t[1] # active BY <1>1, <2>1, AbortedIdles DEF Working, Up, WakeInv
    <2>3. tasks'[t] = tasks[t] BY <1>1, <2>2 DEF WakeInv
    <2>4. Working(t) BY <2>3 DEF Working, Up
    <2>5. PICK d \in Threads : calls[d].pc = "store" /\ calls[d].gen = t[1] BY <2>2, <2>4 DEF OwnInv, OwnTasks
    <2> QED BY <1>4, <2>5 DEF Numbered
  <1> QED BY <1>6, <1>11, <1>12 DEF OwnInv

LEMMA OwnEnds ==
  ASSUME CallInv, OwnInv, WakeInv, ProcessEnds \/ Exit
  PROVE  OwnInv'
  <1>1. active' = 0 /\ gens' = gens /\ ports' = [http |-> 0, https |-> 0] /\ tasks' = [t \in DOMAIN tasks |-> Off]
    BY DEF ProcessEnds, Exit
  <1>2. \A c \in Threads : calls'[c].pc \notin Numbered BY AllEnded, IdleIs DEF Numbered
  <1>3. OwnNumbers' BY <1>1, <1>2 DEF OwnInv, OwnNumbers
  <1>4. \A c \in Threads, p \in {"http", "https"} : ~Holds(c, p)' BY <1>2, HoldersAre DEF Holds
  <1>5. ports' \in [{"http", "https"} -> Nat] /\ ports'["http"] = 0 /\ ports'["https"] = 0 BY <1>1
  <1>6. OwnPorts' BY <1>1, <1>4, <1>5 DEF OwnPorts
  <1>7. OwnTasks' BY <1>1, OffIs DEF OwnTasks, Working, Up, WakeInv
  <1> QED BY <1>3, <1>6, <1>7 DEF OwnInv

LEMMA OwnFails ==
  ASSUME CallInv, WakeInv, OwnInv, NEW c \in Threads, ActivateFails(c)
  PROVE  OwnInv'
  <1>1. CASE ProcessEnds BY <1>1, OwnEnds
  <1>2. CASE ~ProcessEnds
    <2>1. /\ MovedTo(c, "done", calls[c].gen) /\ UNCHANGED <<gens, active, tasks>>
          /\ ports' = (IF calls[c].pc = "https" THEN [ports EXCEPT !.http = 0] ELSE ports)
          /\ calls[c].pc \in {"dns", "alias", "http", "https"}
      BY <1>2, Moves DEF ActivateFails, Stays, taskVars, At
    <2>2. \A d \in Threads : d # c => calls'[d] = calls[d] BY <2>1 DEF MovedTo
    <2>3. calls'[c].pc = "done" BY <2>1 DEF MovedTo
    <2>4. OwnNumbers' BY <2>1, <2>2, <2>3 DEF OwnInv, OwnNumbers, Numbered
    <2>5. OwnTasks' BY <2>1, <2>2, WorkingSame DEF OwnInv, OwnTasks
    <2>6. \A p \in {"http", "https"} : ~Holds(c, p)' BY <2>3, HoldersAre DEF Holds
    <2>7. \A d \in Threads, p \in {"http", "https"} : d # c => (Holds(d, p)' <=> Holds(d, p)) BY <2>2 DEF Holds
    <2>8. ~Holds(c, "https") /\ (calls[c].pc # "https" => ~Holds(c, "http")) BY <2>1, HoldersAre DEF Holds
    <2>9. CASE calls[c].pc # "https"
      <3>1. \A d \in Threads, p \in {"http", "https"} : (Holds(d, p)' <=> Holds(d, p)) /\ (Holds(d, p) => calls'[d] = calls[d])
        BY <2>2, <2>6, <2>7, <2>8, <2>9
      <3>2. OwnPorts' BY <2>1, <2>9, <3>1 DEF OwnInv, OwnPorts
      <3> QED BY <2>4, <2>5, <3>2 DEF OwnInv
    <2>10. CASE calls[c].pc = "https"
      <3>1. Holds(c, "http") BY <2>10, HoldersAre DEF Holds
      <3>2. ports["http"] = calls[c].gen BY <3>1 DEF OwnInv, OwnPorts
      <3>3. calls[c].gen # active BY <2>10 DEF OwnInv, OwnNumbers, Numbered
      <3>4. active = 0 BY <3>2, <3>3 DEF OwnInv, OwnPorts
      <3>5. \A d \in Threads : d # c => ~Holds(d, "http")
        <4> SUFFICES ASSUME NEW d \in Threads, d # c, Holds(d, "http") PROVE FALSE OBVIOUS
        <4>1. ports["http"] = calls[d].gen BY DEF OwnInv, OwnPorts
        <4>2. calls[d].pc \in Numbered /\ calls[c].pc \in Numbered BY <3>1, HoldersAre DEF Holds
        <4> QED BY <3>2, <4>1, <4>2 DEF OwnInv, OwnNumbers
      <3>6. ports' \in [{"http", "https"} -> Nat] /\ ports'["http"] = 0 /\ ports'["https"] = ports["https"]
        BY <2>1, <2>10 DEF OwnInv, OwnPorts
      <3>7. \A d \in Threads : ~Holds(d, "http")' BY <2>6, <2>7, <3>5
      <3>8. \A d \in Threads : (Holds(d, "https")' <=> Holds(d, "https")) /\ (Holds(d, "https") => calls'[d] = calls[d])
        BY <2>2, <2>6, <2>7, <2>8
      <3>9. /\ \A d \in Threads : Holds(d, "https") => ports["https"] = calls[d].gen
            /\ ports["https"] # 0 => ports["https"] = active \/ \E d \in Threads : Holds(d, "https") /\ calls[d].gen = ports["https"]
        BY DEF OwnInv, OwnPorts
      <3>10. OwnPorts' BY <2>1, <3>4, <3>6, <3>7, <3>8, <3>9 DEF OwnPorts
      <3> QED BY <2>4, <2>5, <3>10 DEF OwnInv
    <2> QED BY <2>9, <2>10
  <1> QED BY <1>1, <1>2

\* A task's own step puts nothing to work.
LEMMA WorkingSet ==
  ASSUME WakeInv, NEW t \in TaskIds, NEW r, Set(t, r), r.pc = "off" \/ (Up(t) /\ r.aborted = tasks[t].aborted)
  PROVE  \A u \in TaskIds : Working(u)' => Working(u)
  BY DEF Set, WakeInv, Working, Up

LEMMA WorkingTask ==
  ASSUME WakeInv, NEW t \in TaskIds, TaskStep(t)
  PROVE  \A u \in TaskIds : Working(u)' => Working(u)
  <1> DEFINE r == tasks[t]
             Result == \A u \in TaskIds : Working(u)' => Working(u)
  <1>1. ASSUME NEW ok \in BOOLEAN, Converged(t, ok), r.pc = "write" PROVE Result
    <2> DEFINE n == [r EXCEPT !.pc = "wait", !.failed = ~ok, !.snap = {}, !.round = 0,
                              !.last = IF ok THEN <<r.snap>> ELSE @]
               m == IF r.aborted THEN Off ELSE n
    <2>1. Set(t, m) BY <1>1 DEF Converged
    <2>2. DOMAIN r = TaskFields BY <1>1, UpWhole
    <2>3. n.aborted = r.aborted BY <2>2 DEF TaskFields
    <2>4. m.pc = "off" \/ (Up(t) /\ m.aborted = r.aborted) BY <1>1, <2>3, OffIs DEF Up
    <2> HIDE DEF m, Result
    <2> QED BY <2>1, <2>4, WorkingSet DEF Result
  <1>2. CASE Look(t)
    <2>1. Up(t) BY <1>2 DEF Look
    <2>2. DOMAIN r = TaskFields BY <2>1, UpWhole DEF Up
    <2>3. \E n : Set(t, Looked(n, t[2])) /\ DOMAIN n = TaskFields /\ n.aborted = r.aborted
      <3>1. CASE Set(t, Looked(r, t[2])) BY <2>2, <3>1
      <3>2. CASE Set(t, Looked([r EXCEPT !.poked = FALSE], t[2])) BY <2>2, <3>2 DEF TaskFields
      <3>3. CASE Set(t, Looked([r EXCEPT !.mapNew = FALSE], t[2])) BY <2>2, <3>3 DEF TaskFields
      <3> QED BY <1>2, <3>1, <3>2, <3>3 DEF Look
    <2>4. PICK n : Set(t, Looked(n, t[2])) /\ DOMAIN n = TaskFields /\ n.aborted = r.aborted BY <2>3
    <2>5. Looked(n, t[2]).aborted = r.aborted BY <2>4, LookedOK
    <2> QED BY <2>1, <2>4, <2>5, WorkingSet
  <1>3. CASE WriteHosts(t) BY <1>1, <1>3 DEF WriteHosts, Writing
  <1>4. CASE install_os_resolver_config(t) BY <1>1, <1>4 DEF install_os_resolver_config, Writing
  <1>5. CASE WriteFails(t) BY <1>1, <1>5 DEF WriteFails, Writing
  <1>6. ASSUME NEW bad, reconcile(t, bad) PROVE Result
    <2> DEFINE n == [r EXCEPT !.round = @ + 1]
    <2>1. r.pc = "write" BY <1>6 DEF reconcile, Writing
    <2>2. Set(t, n) \/ Converged(t, bad = {}) BY <1>6 DEF reconcile
    <2>3. CASE Set(t, n)
      <3>1. DOMAIN r = TaskFields BY <2>1, UpWhole
      <3>2. n.aborted = r.aborted BY <3>1 DEF TaskFields
      <3> QED BY <2>1, <2>3, <3>2, WorkingSet DEF Up
    <2>4. CASE Converged(t, bad = {}) BY <1>1, <2>1, <2>4
    <2> QED BY <2>2, <2>3, <2>4
  <1> QED BY <1>2, <1>3, <1>4, <1>5, <1>6 DEF TaskStep

LEMMA WorkingEnv ==
  ASSUME WakeInv, Environment
  PROVE  \A u \in TaskIds : Working(u)' => Working(u)
  <1>1. ASSUME NEW c, NEW p, Publish(c, p), NEW u \in TaskIds, Working(u)' PROVE Working(u)
    <2> DEFINE r == tasks[u]
               n == [r EXCEPT !.poked = TRUE]
    <2>1. tasks'[u] = r \/ (Up(u) /\ tasks'[u] = n) BY <1>1 DEF Publish, WakeInv
    <2>2. CASE tasks'[u] = r BY <1>1, <2>2 DEF Working, Up
    <2>3. CASE Up(u) /\ tasks'[u] = n
      <3>1. DOMAIN r = TaskFields BY <2>3, UpWhole DEF Up
      <3>2. n.aborted = r.aborted BY <3>1 DEF TaskFields
      <3> QED BY <1>1, <2>3, <3>2 DEF Working
    <2> QED BY <2>1, <2>2, <2>3
  <1>2. ASSUME MapChanges, NEW u \in TaskIds, Working(u)' PROVE Working(u)
    <2> DEFINE r == tasks[u]
               n == [r EXCEPT !.mapNew = TRUE]
    <2>1. tasks'[u] = r \/ (Up(u) /\ tasks'[u] = n) BY <1>2 DEF MapChanges, WakeInv
    <2>2. CASE tasks'[u] = r BY <1>2, <2>2 DEF Working, Up
    <2>3. CASE Up(u) /\ tasks'[u] = n
      <3>1. DOMAIN r = TaskFields BY <2>3, UpWhole DEF Up
      <3>2. n.aborted = r.aborted BY <3>1 DEF TaskFields
      <3> QED BY <1>2, <2>3, <3>2 DEF Working
    <2> QED BY <2>1, <2>2, <2>3
  <1>3. ASSUME NEW a, OtherListens(a) PROVE UNCHANGED tasks BY <1>3 DEF OtherListens, taskVars
  <1> QED BY <1>1, <1>2, <1>3, WorkingSame DEF Environment, wire_actor, Unwire

LEMMA OwnCall ==
  ASSUME CallInv, WakeInv, OwnInv, NEW c \in Threads, CallStep(c)
  PROVE  OwnInv'
  <1> USE DEF taskVars
  <1>1. CASE CheckActive(c) BY <1>1, Moves, OwnMove DEF CheckActive, Numbered
  <1>2. CASE BindDns(c) BY <1>2, OwnDns
  <1>3. CASE AddAlias(c) BY <1>3, OwnAlias
  <1>4. CASE Bind(c, "http", "https") \/ Bind(c, "https", "spawn") BY <1>4, OwnBind
  <1>5. CASE SpawnEffects(c) BY <1>5, OwnSpawn
  <1>6. CASE StoreActive(c) BY <1>6, OwnStore
  <1>7. CASE ActivateFails(c) BY <1>7, OwnFails
  <1>8. CASE TakeActive(c) BY <1>8, OwnTake
  <1>9. CASE ClearInstalled(c) BY <1>9, Moves, OwnMove DEF ClearInstalled, Numbered
  <1>10. CASE LoadSettings(c)
    <2>1. Stays(c, "load", "save") BY <1>10, LoadMoves DEF LoadSettings, Stays, At
    <2> QED BY <1>10, <2>1, OwnMove DEF LoadSettings, Numbered
  <1>11. CASE SaveSettings(c)
    <2>1. SavedAt(c, AfterPc(c)) /\ calls[c].pc = "save" /\ UNCHANGED <<gens, active, ports, tasks>>
      BY <1>11, SaveMoves DEF SaveSettings, At
    <2>2. \A d \in Threads : \/ calls'[d].pc \notin Numbered /\ calls[d].pc \notin Numbered
                             \/ calls'[d].pc = calls[d].pc /\ calls'[d].gen = calls[d].gen
      BY <2>1 DEF SavedAt, AfterPc, Numbered
    <2> QED BY <2>1, <2>2, OwnQuiet, WorkingSame
  <1>12. CASE SaveFails(c) BY <1>12, Moves, OwnMove DEF SaveFails, Numbered, AfterPc
  <1>13. CASE Sweep(c) BY <1>13, Moves, OwnMove DEF Sweep, Numbered
  <1>14. CASE Untrust(c) BY <1>14, Moves, OwnMove DEF Untrust, Numbered
  <1>15. CASE Erase(c) BY <1>15, Moves, OwnMove DEF Erase, Numbered
  <1> QED
    BY <1>1, <1>2, <1>3, <1>4, <1>5, <1>6, <1>7, <1>8, <1>9, <1>10, <1>11, <1>12, <1>13, <1>14, <1>15 DEF CallStep

LEMMA OwnSame ==
  ASSUME OwnInv, UNCHANGED <<gens, active, ports, calls>>, \A t \in TaskIds : Working(t)' => Working(t)
  PROVE  OwnInv'
  BY OwnQuiet

LEMMA OwnNew ==
  ASSUME OwnInv, UNCHANGED <<gens, active, ports, tasks>>, NEW c \in Threads, NEW kind, NEW pc, NewAt(c, kind, pc),
         pc \notin Numbered
  PROVE  OwnInv'
  <1>1. \A d \in Threads : \/ calls'[d].pc \notin Numbered /\ calls[d].pc \notin Numbered
                           \/ calls'[d].pc = calls[d].pc /\ calls'[d].gen = calls[d].gen
    BY DEF NewAt, Numbered
  <1> QED BY <1>1, OwnQuiet, WorkingSame

LEMMA OwnStep ==
  ASSUME CallInv, WakeInv, OwnInv, [Next]_vars
  PROVE  OwnInv'
  <1> USE DEF taskVars, controlVars
  <1>1. CASE CertStep BY <1>1, OwnSame, WorkingSame DEF CertStep, Elsewhere
  <1>2. CASE Boot BY <1>2, OwnSame, WorkingSame DEF Boot
  <1>3. CASE BootNetwork
    <2>1. UNCHANGED <<gens, active, ports, tasks>> BY <1>3 DEF BootNetwork
    <2>2. CASE UNCHANGED calls BY <2>1, <2>2, OwnSame, WorkingSame
    <2>3. CASE NewAt("fghjd", "boot", "check") BY <2>1, <2>3, OwnNew DEF Numbered, Threads
    <2> QED BY <1>3, <2>2, <2>3, BootIs
  <1>4. CASE Exit BY <1>4, OwnEnds
  <1>5. CASE Crash BY <1>5, OwnEnds DEF Crash
  <1>6. CASE Environment
    <2>1. UNCHANGED <<gens, active, ports, calls>>
      BY <1>6 DEF Environment, Publish, wire_actor, Unwire, OtherListens
    <2> QED BY <1>6, <2>1, OwnSame, WorkingEnv
  <1>7. ASSUME NEW t \in Gens \X Effects, TaskStep(t) PROVE OwnInv'
    <2>1. UNCHANGED <<gens, active, ports, calls>>
      BY <1>7 DEF TaskStep, Look, WriteHosts, install_os_resolver_config, WriteFails, reconcile
    <2> QED BY <1>7, <2>1, OwnSame, WorkingTask DEF TaskIds
  <1>8. ASSUME NEW c \in Threads, CallStep(c) PROVE OwnInv' BY <1>8, OwnCall
  <1>9. ASSUME NEW c \in Threads, NEW kind \in Kinds, NEW socket, Ask(c, kind, socket) PROVE OwnInv'
    <2>1. FirstStep(kind) \notin Numbered BY DEF FirstStep, Numbered, Kinds
    <2> QED BY <1>9, <2>1, AskIs, OwnNew DEF Ask
  <1>10. CASE UNCHANGED vars BY <1>10, OwnSame, WorkingSame DEF vars
  <1> QED BY <1>1, <1>2, <1>3, <1>4, <1>5, <1>6, <1>7, <1>8, <1>9, <1>10 DEF Next, Kinds

LEMMA OwnOneWriter ==
  ASSUME OwnInv
  PROVE  OneWriter
  <1> DEFINE S == {t[1] : t \in {x \in Gens \X Effects : Up(x) /\ ~tasks[x].aborted}}
             h == ports["http"]
  <1>1. ASSUME NEW t \in TaskIds, Working(t) PROVE t[1] = h
    <2>1. CASE t[1] = active
      <3>1. active # 0 BY <2>1 DEF TaskIds, Gens
      <3> QED BY <2>1, <3>1 DEF OwnInv, OwnPorts
    <2>2. CASE \E c \in Threads : calls[c].pc = "store" /\ calls[c].gen = t[1]
      BY <2>2, HoldersAre DEF OwnInv, OwnPorts, Holds
    <2> QED BY <1>1, <2>1, <2>2 DEF OwnInv, OwnTasks
  <1>2. S \subseteq {h} BY <1>1 DEF TaskIds, Working
  <1>3. IsFiniteSet({h}) /\ Cardinality({h}) = 1 BY FS_Singleton
  <1>4. Cardinality(S) <= Cardinality({h}) BY <1>2, <1>3, FS_Subset
  <1> QED BY <1>3, <1>4 DEF OneWriter

----------------------------------------------------------------------------
(* What goes on at once.                                                   *)

Kept(bad) == races \cap bad = {}
Crossless == "crossed" \notin races

\* What has gone on at once is not forgotten.
LEMMA RacesGrow ==
  ASSUME [Next]_vars
  PROVE  races \subseteq races'
  <1>1. CASE CertStep BY <1>1 DEF CertStep, Elsewhere
  <1>2. CASE Boot BY <1>2 DEF Boot
  <1>3. CASE BootNetwork BY <1>3 DEF BootNetwork
  <1>4. CASE Exit BY <1>4 DEF Exit
  <1>5. CASE Crash BY <1>5 DEF Crash
  <1>6. CASE Environment BY <1>6 DEF Environment, Publish, wire_actor, Unwire, OtherListens
  <1>7. ASSUME NEW t \in Gens \X Effects, TaskStep(t) PROVE races \subseteq races'
    BY <1>7 DEF TaskStep, Look, WriteHosts, install_os_resolver_config, WriteFails, reconcile, Late
  <1>8. ASSUME NEW c \in Threads, CallStep(c) PROVE races \subseteq races'
    BY <1>8 DEF CallStep, CheckActive, BindDns, AddAlias, Bind, SpawnEffects, StoreActive, ActivateFails, TakeActive,
                ClearInstalled, LoadSettings, SaveSettings, SaveFails, Sweep, Untrust, Erase
  <1>9. ASSUME NEW c, NEW kind, NEW socket, Ask(c, kind, socket) PROVE races \subseteq races' BY <1>9 DEF Ask
  <1>10. CASE UNCHANGED vars BY <1>10 DEF vars
  <1> QED BY <1>1, <1>2, <1>3, <1>4, <1>5, <1>6, <1>7, <1>8, <1>9, <1>10 DEF Next

\* Unless requests crossed, one at a time switches fghjd, beside fghjd's own shutdown,
\* and an uninstall meets no start of fghjd.
ApartInv ==
  Crossless =>
    /\ \A c, d \in Switching \ {"fghjd"} : c = d
    /\ \A c \in Switching : calls[c].kind = "purge" => stage \in {"up", "down"}

\* A caller that is under way was under way.
Continues(c) == calls'[c].pc # "done" => calls[c].pc # "done" /\ calls'[c].kind = calls[c].kind

LEMMA ApartContinue ==
  ASSUME CallInv, CallInv', ApartInv, races \subseteq races', \A c \in Threads \ {"fghjd"} : Continues(c),
         stage' \in {stage, "up", "down"} \/ \A c \in Switching : calls[c].kind = "purge" => "crossed" \in races'
  PROVE  ApartInv'
  <1> SUFFICES ASSUME Crossless' PROVE (/\ \A c, d \in Switching \ {"fghjd"} : c = d
                                        /\ \A c \in Switching : calls[c].kind = "purge" => stage \in {"up", "down"})'
    BY DEF ApartInv
  <1>1. Crossless BY DEF Crossless
  <1>2. \A c \in Switching' \ {"fghjd"} : c \in Switching /\ calls'[c].kind = calls[c].kind BY DEF Switching, Continues
  <1>3. (\A c, d \in Switching \ {"fghjd"} : c = d)' BY <1>1, <1>2 DEF ApartInv
  <1>4. \A c \in Switching' : calls'[c].kind = "purge" => c # "fghjd" BY DEF CallInv, CallOK, Fits, Switching
  <1>5. \A c \in Switching' : calls'[c].kind = "purge" => stage' \in {"up", "down"}
    BY <1>1, <1>2, <1>4 DEF ApartInv, Crossless
  <1> QED BY <1>3, <1>5

LEMMA EndsContinue ==
  ASSUME CallInv, ProcessEnds \/ Exit
  PROVE  \A c \in Threads : Continues(c)
  BY AllEnded, IdleIs DEF Continues

LEMMA CallContinues ==
  ASSUME CallInv, NEW c \in Threads, CallStep(c)
  PROVE  \A d \in Threads \ {"fghjd"} : Continues(d)
  <1> DEFINE Result == \A d \in Threads \ {"fghjd"} : Continues(d)
  <1>1. ASSUME NEW from, NEW to, Stays(c, from, to), from # "done" \/ to = "done" PROVE Result
    BY <1>1 DEF Stays, MovedTo, Continues
  <1>2. CASE CheckActive(c) BY <1>1, <1>2, Moves
  <1>3. CASE BindDns(c) BY <1>3, DnsMoves DEF BindDns, At, MovedTo, Continues
  <1>4. CASE AddAlias(c) BY <1>1, <1>4, Moves
  <1>5. CASE Bind(c, "http", "https") BY <1>1, <1>5, Moves
  <1>6. CASE Bind(c, "https", "spawn") BY <1>1, <1>6, Moves
  <1>7. CASE SpawnEffects(c) BY <1>1, <1>7, Moves
  <1>8. CASE StoreActive(c) BY <1>1, <1>8, Moves
  <1>9. CASE ActivateFails(c) BY <1>1, <1>9, Moves, EndsContinue
  <1>10. CASE TakeActive(c) BY <1>1, <1>10, Moves
  <1>11. CASE ClearInstalled(c) BY <1>1, <1>11, Moves
  <1>12. CASE LoadSettings(c) BY <1>12, LoadMoves DEF LoadSettings, At, MovedTo, Continues
  <1>13. CASE SaveSettings(c) BY <1>13, SaveMoves DEF SaveSettings, At, SavedAt, Continues
  <1>14. CASE SaveFails(c) BY <1>1, <1>14, Moves
  <1>15. CASE Sweep(c) BY <1>1, <1>15, Moves
  <1>16. CASE Untrust(c) BY <1>1, <1>16, Moves
  <1>17. CASE Erase(c) BY <1>1, <1>17, Moves
  <1> HIDE DEF Result
  <1> QED
    BY <1>2, <1>3, <1>4, <1>5, <1>6, <1>7, <1>8, <1>9, <1>10, <1>11, <1>12, <1>13, <1>14, <1>15, <1>16, <1>17
    DEF CallStep, Result

LEMMA CallStages ==
  ASSUME NEW c \in Threads, CallStep(c)
  PROVE  stage' \in {stage, "up", "down"}
  BY DEF CallStep, CheckActive, BindDns, AddAlias, Bind, SpawnEffects, StoreActive, ActivateFails, TakeActive,
         ClearInstalled, LoadSettings, SaveSettings, SaveFails, Sweep, Untrust, Erase, Untouched, certVars, ProcessEnds, Dead

\* The stages of fghjd's start before its network.
CertStages == {"root", "rootKey", "signing", "sigKey", "sigGen", "copy", "copyKey", "trust"}
LEMMA CertStageIs ==
  ASSUME CertStep
  PROVE  stage \in CertStages /\ UNCHANGED <<actors, pub, controlVars, taskVars, others, races>>
  BY DEF CertStep, SetUp, LoadRoot, generate_ca, WriteRootKey, LoadSigning, generate_signing_ca,
         WriteSigningKey, WriteGeneration, CopyCert, CopyKey, CopySkipped, InstallTrust, Elsewhere, CertStages

LEMMA ApartStep ==
  ASSUME CallInv, CallInv', ApartInv, [Next]_vars
  PROVE  ApartInv'
  <1>0. races \subseteq races' BY RacesGrow
  <1> USE DEF taskVars, controlVars, certVars
  <1>1. CASE CertStep
    <2>1. UNCHANGED calls /\ stage \notin {"up", "down"} BY <1>1, CertStageIs DEF CertStages
    <2>2. \A c \in Switching : calls[c].kind = "purge" => "crossed" \in races' BY <1>0, <2>1 DEF ApartInv, Crossless
    <2>3. \A c \in Threads \ {"fghjd"} : Continues(c) BY <2>1 DEF Continues
    <2> QED BY <1>0, <2>2, <2>3, ApartContinue
  <1>2. CASE Boot
    <2>1. \A c \in Switching : calls[c].kind = "purge" => "crossed" \in races' BY <1>2 DEF Boot, Switching, At
    <2>2. \A c \in Threads \ {"fghjd"} : Continues(c) BY <1>2 DEF Continues, Boot
    <2> QED BY <1>0, <2>1, <2>2, ApartContinue
  <1>3. CASE BootNetwork
    <2>1. \A c \in Threads \ {"fghjd"} : Continues(c) BY <1>3, BootIs DEF Continues, NewAt
    <2>2. stage' \in {stage, "up"} BY <1>3, BootIs
    <2> QED BY <1>0, <2>1, <2>2, ApartContinue
  <1>4. CASE Exit BY <1>0, <1>4, EndsContinue, AllEnded, ApartContinue
  <1>5. CASE Crash BY <1>0, <1>5, EndsContinue, AllEnded, ApartContinue DEF Crash
  <1>6. CASE Environment
    <2>1. UNCHANGED <<calls, stage>> BY <1>6 DEF Environment, Publish, wire_actor, Unwire, OtherListens
    <2> QED BY <1>0, <2>1, ApartContinue DEF Continues
  <1>7. ASSUME NEW t \in Gens \X Effects, TaskStep(t) PROVE ApartInv'
    <2>1. UNCHANGED <<calls, stage>>
      BY <1>7 DEF TaskStep, Look, WriteHosts, install_os_resolver_config, WriteFails, reconcile
    <2> QED BY <1>0, <2>1, ApartContinue DEF Continues
  <1>8. ASSUME NEW c \in Threads, CallStep(c) PROVE ApartInv'
    <2>1. stage' \in {stage, "up", "down"} BY <1>8, CallStages
    <2>2. \A d \in Threads \ {"fghjd"} : Continues(d) BY <1>8, CallContinues
    <2> QED BY <1>0, <2>1, <2>2, ApartContinue
  <1>9. ASSUME NEW c \in Threads, NEW kind \in Kinds, NEW socket, Ask(c, kind, socket) PROVE ApartInv'
    <2>1. NewAt(c, kind, FirstStep(kind)) /\ stage' = stage BY <1>9, AskIs DEF Ask, Untouched
    <2> SUFFICES ASSUME Crossless' PROVE (/\ \A a, b \in Switching \ {"fghjd"} : a = b
                                          /\ \A a \in Switching : calls[a].kind = "purge" => stage \in {"up", "down"})'
      BY DEF ApartInv
    <2>2. Crossless BY <1>0 DEF Crossless
    <2>3. CASE kind = "docker"
      <3>1. Switching' \subseteq Switching /\ \A d \in Switching' : calls'[d] = calls[d] BY <2>1, <2>3 DEF Switching, NewAt
      <3> QED BY <2>1, <2>2, <3>1 DEF ApartInv
    <2>4. CASE kind # "docker"
      <3>1. Switching = {} /\ stage \in {"up", "down"} BY <1>9, <2>4 DEF Ask, Crossless
      <3>2. Switching' \subseteq {c} BY <2>1, <3>1 DEF Switching, NewAt
      <3> QED BY <2>1, <3>1, <3>2
    <2> QED BY <2>3, <2>4
  <1>10. CASE UNCHANGED vars BY <1>0, <1>10, ApartContinue DEF vars, Continues
  <1> QED BY <1>1, <1>2, <1>3, <1>4, <1>5, <1>6, <1>7, <1>8, <1>9, <1>10 DEF Next, Kinds

----------------------------------------------------------------------------
(* What was chosen: StopSurvives.                                          *)

Undone(c, kinds, pcs) == calls[c].kind \in kinds /\ calls[c].pc \in pcs
\* Those who were there are there, and those who are there were there.
Still(kinds, pcs) == \A d \in Threads : Undone(d, kinds, pcs) => Undone(d, kinds, pcs)'
Were(kinds, pcs) == \A d \in Threads : Undone(d, kinds, pcs)' => Undone(d, kinds, pcs)

LEMMA StillMove ==
  ASSUME NEW c \in Threads, NEW to, NEW gen, MovedTo(c, to, gen), NEW kinds, NEW pcs,
         calls[c].kind \notin kinds \/ calls[c].pc \notin pcs \/ to \in pcs
  PROVE  Still(kinds, pcs)
  BY DEF MovedTo, Still, Undone

LEMMA WereMove ==
  ASSUME NEW c \in Threads, NEW to, NEW gen, MovedTo(c, to, gen), NEW kinds, NEW pcs,
         calls[c].kind \notin kinds \/ calls[c].pc \in pcs \/ to \notin pcs
  PROVE  Were(kinds, pcs)
  BY DEF MovedTo, Were, Undone

LEMMA SameCalls ==
  ASSUME UNCHANGED calls, NEW kinds, NEW pcs
  PROVE  Still(kinds, pcs) /\ Were(kinds, pcs)
  BY DEF Still, Were, Undone

\* Nobody starts fghjd while a request, not crossed by another, stops or uninstalls it.
LEMMA Alone ==
  ASSUME CallInv, ApartInv, Crossless, NEW c \in Threads, calls[c].kind \in {"stop", "purge"}, calls[c].pc # "done",
         NEW d \in Threads, calls[d].pc \in Activating
  PROVE  FALSE
  <1>1. CallOK(c, calls[c]) /\ CallOK(d, calls[d]) BY DEF CallInv
  <1>2. c # "fghjd" /\ (calls[c].kind = "stop" => stage = "up") BY <1>1 DEF CallOK, Fits
  <1>3. c \in Switching BY DEF Switching
  <1>4. CASE d = "fghjd"
    <2>1. stage = "network" BY <1>1, <1>4 DEF CallOK, Fits, Activating
    <2> QED BY <1>2, <1>3, <2>1 DEF ApartInv
  <1>5. CASE d # "fghjd"
    <2>1. calls[d].kind = "start" BY <1>1, <1>5 DEF CallOK, Fits, Activating, Deactivating
    <2>2. d \in Switching BY <2>1 DEF Switching, Activating
    <2>3. c = d BY <1>2, <1>3, <1>5, <2>2 DEF ApartInv
    <2> QED BY <2>1, <2>3
  <1> QED BY <1>4, <1>5

\* The steps of a request that stands fghjd down, once it has.
Released == {"clear", "load", "save", "sweep", "untrust", "erase"}
\* The file says what was chosen.
SavedChoice == Kept({"lost", "torn"}) => DOMAIN settings = {"idle", "socket"} /\ settings.idle = (chosen = "off")
\* Active against the file only while a start is about to save.
SavedIdle ==
  Kept({"crossed", "lost", "unsaved", "torn"}) /\ settings.idle /\ active # 0 =>
    \E c \in Threads : Undone(c, {"start"}, {"load", "save"})
\* fghjd does not start itself against the file.
SavedBoot == Crossless => \A c \in Threads : Undone(c, {"boot"}, Activating) => ~settings.idle
\* What was stood down stays down meanwhile.
SavedStop == Crossless => \A c \in Threads : Undone(c, {"stop", "purge"}, Released) => active = 0
SavedInv == SavedChoice /\ SavedIdle /\ SavedBoot /\ SavedStop

LEMMA SavedKeep ==
  ASSUME SavedInv, races \subseteq races', settings' = settings, (chosen' = "off") = (chosen = "off"), active' \in {active, 0},
         Still({"start"}, {"load", "save"}) \/ active' = 0 \/ "unsaved" \in races',
         Were({"boot"}, Activating) \/ ~settings.idle,
         Were({"stop", "purge"}, Released) \/ active' = 0
  PROVE  SavedInv'
  <1>1. SavedChoice' BY DEF SavedInv, SavedChoice, Kept
  <1>2. SavedIdle' BY DEF SavedInv, SavedIdle, Kept, Still
  <1>3. SavedBoot' BY DEF SavedInv, SavedBoot, Crossless, Were
  <1>4. SavedStop' BY DEF SavedInv, SavedStop, Crossless, Were
  <1> QED BY <1>1, <1>2, <1>3, <1>4 DEF SavedInv

LEMMA SavedMove ==
  ASSUME SavedInv, races \subseteq races', UNCHANGED <<settings, chosen>>, active' \in {active, 0},
         NEW c \in Threads, NEW to, NEW gen, MovedTo(c, to, gen),
         calls[c].pc \notin {"load", "save"} \/ to \in {"load", "save"} \/ "unsaved" \in races',
         calls[c].pc \in Activating \/ to \notin Activating,
         calls[c].pc \in Released \/ to \notin Released \/ active' = 0 \/ calls[c].kind \notin {"stop", "purge"}
  PROVE  SavedInv'
  <1>1. Still({"start"}, {"load", "save"}) \/ "unsaved" \in races' BY StillMove
  <1>2. Were({"boot"}, Activating) BY WereMove
  <1>3. Were({"stop", "purge"}, Released) \/ active' = 0 BY WereMove
  <1> QED BY <1>1, <1>2, <1>3, SavedKeep

LEMMA SavedStore ==
  ASSUME CallInv, ApartInv, SavedInv, races \subseteq races', NEW c \in Threads, StoreActive(c)
  PROVE  SavedInv'
  <1>1. /\ UNCHANGED <<settings, chosen>> /\ active' = calls[c].gen /\ calls[c].pc = "store"
        /\ MovedTo(c, IF c = "fghjd" THEN "done" ELSE "load", calls[c].gen)
    BY Moves DEF StoreActive, Stays
  <1>2. SavedChoice' BY <1>1 DEF SavedInv, SavedChoice, Kept
  <1>3. Were({"boot"}, Activating) BY <1>1, WereMove DEF Activating
  <1>4. SavedBoot' BY <1>1, <1>3 DEF SavedInv, SavedBoot, Crossless, Were
  <1>5. Fits(c, calls[c].kind, "store") BY <1>1 DEF CallInv, CallOK
  <1>6. SavedIdle'
    <2>1. CASE c = "fghjd"
      <3>1. Undone(c, {"boot"}, Activating) BY <1>1, <1>5, <2>1 DEF Fits, Undone, Activating
      <3> QED BY <1>1, <3>1 DEF SavedInv, SavedBoot, SavedIdle, Kept, Crossless
    <2>2. CASE c # "fghjd"
      <3>1. Undone(c, {"start"}, {"load", "save"})'
        BY <1>1, <1>5, <2>2 DEF Fits, Undone, MovedTo, Activating, Deactivating
      <3> QED BY <3>1 DEF SavedIdle
    <2> QED BY <2>1, <2>2
  <1>7. SavedStop'
    <2> SUFFICES ASSUME Crossless', NEW d \in Threads, Undone(d, {"stop", "purge"}, Released)' PROVE FALSE BY DEF SavedStop
    <2>1. Crossless BY DEF Crossless
    <2>2. d # c BY <1>1, <1>5 DEF Fits, Undone, MovedTo, Activating, Deactivating
    <2>3. calls[d].kind \in {"stop", "purge"} /\ calls[d].pc # "done" BY <1>1, <2>2 DEF MovedTo, Undone, Released
    <2> QED BY <1>1, <2>1, <2>3, Alone DEF Activating
  <1> QED BY <1>2, <1>4, <1>6, <1>7 DEF SavedInv

LEMMA SavedEnds ==
  ASSUME CallInv, SavedInv, races \subseteq races', ProcessEnds \/ Exit, UNCHANGED chosen,
         settings' = settings \/ (settings' = DefaultSettings /\ "torn" \in races')
  PROVE  SavedInv'
  <1>1. active' = 0 BY AllEnded
  <1>2. SavedChoice' BY DEF SavedInv, SavedChoice, Kept
  <1>3. \A c \in Threads : ~Undone(c, {"boot"}, Activating)' BY AllEnded, IdleIs DEF Undone, Activating
  <1> QED BY <1>1, <1>2, <1>3 DEF SavedInv, SavedIdle, SavedBoot, SavedStop

LEMMA ChangedIs ==
  ASSUME CallInv, SavedInv, races \subseteq races', NEW c \in Threads, SaveSettings(c), Kept({"lost", "torn"})'
  PROVE  /\ DOMAIN settings' = {"idle", "socket"} /\ settings'.idle = (chosen' = "off")
         /\ calls[c].kind = "docker" => settings'.idle = settings.idle
         /\ calls[c].kind # "docker" => settings'.idle = (calls[c].kind # "start")
  <1> DEFINE r == calls[c]
  <1>1. /\ r.pc = "save" /\ settings' = Changed(r) /\ chosen' = Answered(c) /\ (settings = r.copy \/ "lost" \in races')
    BY DEF SaveSettings, At
  <1>2. r.kind \in {"start", "stop", "docker", "purge"}
    BY <1>1 DEF CallInv, CallOK, Fits, Activating, Deactivating
  <1>3. settings = r.copy /\ DOMAIN settings = {"idle", "socket"} /\ settings.idle = (chosen = "off")
    BY <1>1 DEF Kept, SavedInv, SavedChoice
  <1>4. CASE r.kind = "docker"
    <2>1. settings' = [settings EXCEPT !.socket = r.socket] BY <1>1, <1>3, <1>4 DEF Changed
    <2>2. chosen' = chosen BY <1>1, <1>4 DEF Answered
    <2>3. DOMAIN settings' = {"idle", "socket"} /\ settings'.idle = settings.idle BY <1>3, <2>1
    <2> QED BY <1>3, <1>4, <2>2, <2>3
  <1>5. CASE r.kind # "docker"
    <2>1. settings' = [settings EXCEPT !.idle = r.kind # "start"] BY <1>1, <1>3, <1>5 DEF Changed
    <2>2. DOMAIN settings' = {"idle", "socket"} /\ settings'.idle = (r.kind # "start") BY <1>3, <2>1
    <2>3. chosen' = (IF r.kind = "start" THEN "on" ELSE "off") BY <1>1, <1>2, <1>5 DEF Answered
    <2>4. (chosen' = "off") = (r.kind # "start") BY <2>3
    <2> QED BY <1>5, <2>2, <2>4
  <1> QED BY <1>4, <1>5

LEMMA SavedSave ==
  ASSUME CallInv, ApartInv, SavedInv, races \subseteq races', NEW c \in Threads, SaveSettings(c)
  PROVE  SavedInv'
  <1> DEFINE r == calls[c]
  <1>1. /\ SavedAt(c, AfterPc(c)) /\ active' = active /\ r.pc = "save" /\ settings' = Changed(r)
        /\ chosen' = Answered(c) /\ (settings = r.copy \/ "lost" \in races')
    BY SaveMoves DEF SaveSettings, At
  <1>2. Fits(c, r.kind, "save") BY <1>1 DEF CallInv, CallOK
  <1>3. r.kind \in {"start", "stop", "docker", "purge"} /\ stage = "up" BY <1>2 DEF Fits, Activating, Deactivating
  <1>4. ASSUME Kept({"lost", "torn"})'
        PROVE  /\ DOMAIN settings' = {"idle", "socket"} /\ settings'.idle = (chosen' = "off")
               /\ r.kind = "docker" => settings'.idle = settings.idle
               /\ r.kind # "docker" => settings'.idle = (r.kind # "start")
    BY <1>4, ChangedIs
  <1>5. SavedChoice' BY <1>4 DEF SavedChoice
  <1>6. SavedBoot'
    <2>1. \A d \in Threads : ~Undone(d, {"boot"}, Activating)
      BY <1>3 DEF CallInv, CallOK, Fits, Undone, Activating
    <2>2. \A d \in Threads : ~Undone(d, {"boot"}, Activating)'
      BY <1>1, <1>3, <2>1 DEF SavedAt, Undone
    <2> QED BY <2>2 DEF SavedBoot
  <1>7. SavedStop'
    <2> SUFFICES ASSUME Crossless', NEW d \in Threads, Undone(d, {"stop", "purge"}, Released)' PROVE active = 0
      BY <1>1 DEF SavedStop
    <2>1. Undone(d, {"stop", "purge"}, Released) BY <1>1 DEF SavedAt, Undone, Released
    <2> QED BY <2>1 DEF SavedInv, SavedStop, Crossless
  <1>8. SavedIdle'
    <2> SUFFICES ASSUME Kept({"crossed", "lost", "unsaved", "torn"})', settings'.idle, active # 0
                 PROVE  \E d \in Threads : Undone(d, {"start"}, {"load", "save"})'
      BY <1>1 DEF SavedIdle
    <2>1. Kept({"lost", "torn"})' /\ Kept({"crossed", "lost", "unsaved", "torn"}) /\ Crossless BY DEF Kept, Crossless
    <2>2. r.kind # "start" BY <1>4, <2>1
    <2>3. r.kind \notin {"stop", "purge"} BY <1>1, <2>1 DEF SavedInv, SavedStop, Undone, Released
    <2>4. settings.idle BY <1>3, <1>4, <2>1, <2>2, <2>3
    <2>5. PICK d \in Threads : Undone(d, {"start"}, {"load", "save"}) BY <2>1, <2>4 DEF SavedInv, SavedIdle
    <2>6. d # c /\ d # "fghjd" BY <2>2, <2>5 DEF Undone, CallInv, CallOK, Fits
    <2> QED BY <1>1, <2>5, <2>6 DEF SavedAt, Undone
  <1> QED BY <1>5, <1>6, <1>7, <1>8 DEF SavedInv

LEMMA SavedErase ==
  ASSUME CallInv, SavedInv, races \subseteq races', NEW c \in Threads, Erase(c)
  PROVE  SavedInv'
  <1>1. /\ MovedTo(c, "done", calls[c].gen) /\ calls[c].pc = "erase" /\ settings' = DefaultSettings /\ chosen' = "gone"
        /\ active' = active
    BY Moves DEF Erase, Stays
  <1>2. DOMAIN settings' = {"idle", "socket"} /\ settings'.idle = FALSE BY <1>1 DEF DefaultSettings
  <1>3. SavedChoice' BY <1>1, <1>2 DEF SavedChoice
  <1>4. Were({"stop", "purge"}, Released) BY <1>1, WereMove DEF Released
  <1>5. SavedStop' BY <1>1, <1>4 DEF SavedInv, SavedStop, Crossless, Were
  <1> QED BY <1>2, <1>3, <1>5 DEF SavedInv, SavedIdle, SavedBoot

LEMMA SavedCall ==
  ASSUME CallInv, ApartInv, SavedInv, races \subseteq races', NEW c \in Threads, CallStep(c)
  PROVE  SavedInv'
  <1>0. Fits(c, calls[c].kind, calls[c].pc) BY DEF CallInv, CallOK
  <1> USE DEF Stays, Activating, Released
  <1>1. CASE CheckActive(c)
    <2>1. \E to \in {"load", "dns"} : MovedTo(c, to, calls[c].gen) BY <1>1, Moves
    <2>2. calls[c].pc = "check" /\ UNCHANGED <<settings, chosen, active>> BY <1>1 DEF CheckActive, At
    <2>3. calls[c].kind \notin {"stop", "purge"} BY <1>0, <2>2 DEF Fits, Deactivating
    <2> QED BY <2>1, <2>2, <2>3, SavedMove
  <1>2. CASE BindDns(c) BY <1>2, DnsMoves, SavedMove DEF BindDns, At
  <1>3. CASE AddAlias(c) BY <1>3, Moves, SavedMove DEF AddAlias
  <1>4. CASE Bind(c, "http", "https") BY <1>4, Moves, SavedMove DEF Bind
  <1>5. CASE Bind(c, "https", "spawn") BY <1>5, Moves, SavedMove DEF Bind
  <1>6. CASE SpawnEffects(c) BY <1>6, Moves, SavedMove DEF SpawnEffects
  <1>7. CASE StoreActive(c) BY <1>7, SavedStore
  <1>8. CASE ActivateFails(c)
    <2>1. CASE ProcessEnds BY <1>8, <2>1, SavedEnds DEF ActivateFails
    <2>2. CASE ~ProcessEnds
      <3>1. MovedTo(c, "done", calls[c].gen) /\ calls[c].pc \in Activating /\ UNCHANGED <<settings, chosen, active>>
        BY <1>8, <2>2, Moves DEF ActivateFails
      <3> QED BY <3>1, SavedMove
    <2> QED BY <2>1, <2>2
  <1>9. CASE TakeActive(c) BY <1>9, Moves, SavedMove DEF TakeActive
  <1>10. CASE ClearInstalled(c) BY <1>10, Moves, SavedMove DEF ClearInstalled
  <1>11. CASE LoadSettings(c) BY <1>11, LoadMoves, SavedMove DEF LoadSettings, At
  <1>12. CASE SaveSettings(c) BY <1>12, SavedSave
  <1>13. CASE SaveFails(c)
    <2>1. /\ MovedTo(c, AfterPc(c), calls[c].gen) /\ calls[c].pc = "save" /\ "unsaved" \in races'
          /\ UNCHANGED <<settings, chosen, active>>
      BY <1>13, Moves DEF SaveFails
    <2> QED BY <2>1, SavedMove DEF AfterPc
  <1>14. CASE Sweep(c) BY <1>14, Moves, SavedMove DEF Sweep
  <1>15. CASE Untrust(c) BY <1>15, Moves, SavedMove DEF Untrust
  <1>16. CASE Erase(c) BY <1>16, SavedErase
  <1> QED
    BY <1>1, <1>2, <1>3, <1>4, <1>5, <1>6, <1>7, <1>8, <1>9, <1>10, <1>11, <1>12, <1>13, <1>14, <1>15, <1>16
    DEF CallStep

LEMMA SavedStep ==
  ASSUME CallInv, ApartInv, SavedInv, [Next]_vars
  PROVE  SavedInv'
  <1>0. races \subseteq races' BY RacesGrow
  <1> USE DEF taskVars, controlVars, certVars
  <1>1. CASE CertStep BY <1>0, <1>1, CertStageIs, SameCalls, SavedKeep
  <1>2. CASE Boot
    <2>1. (chosen' = "off") = (chosen = "off") BY <1>2 DEF Boot
    <2>2. UNCHANGED <<settings, active, calls>> BY <1>2 DEF Boot
    <2> QED BY <1>0, <2>1, <2>2, SameCalls, SavedKeep
  <1>3. CASE BootNetwork
    <2>1. UNCHANGED <<settings, active, chosen>> BY <1>3 DEF BootNetwork
    <2>2. CASE UNCHANGED calls BY <1>0, <2>1, <2>2, SameCalls, SavedKeep
    <2>3. CASE NewAt("fghjd", "boot", "check") /\ ~settings.idle
      <3>1. Still({"start"}, {"load", "save"}) BY <2>3 DEF NewAt, Still, Undone
      <3>2. Were({"stop", "purge"}, Released) BY <2>3 DEF NewAt, Were, Undone
      <3> QED BY <1>0, <2>1, <2>3, <3>1, <3>2, SavedKeep
    <2> QED BY <1>3, <2>2, <2>3, BootIs
  <1>4. CASE Exit BY <1>0, <1>4, SavedEnds DEF Exit
  <1>5. CASE Crash
    <2>1. settings' = settings \/ (settings' = DefaultSettings /\ "torn" \in races') BY <1>5 DEF Crash
    <2> QED BY <1>0, <1>5, <2>1, SavedEnds DEF Crash
  <1>6. CASE Environment
    <2>1. UNCHANGED <<settings, active, chosen, calls>>
      BY <1>6 DEF Environment, Publish, wire_actor, Unwire, OtherListens
    <2> QED BY <1>0, <2>1, SameCalls, SavedKeep
  <1>7. ASSUME NEW t \in Gens \X Effects, TaskStep(t) PROVE SavedInv'
    <2>1. UNCHANGED <<settings, active, chosen, calls>>
      BY <1>7 DEF TaskStep, Look, WriteHosts, install_os_resolver_config, WriteFails, reconcile
    <2> QED BY <1>0, <2>1, SameCalls, SavedKeep
  <1>8. ASSUME NEW c \in Threads, CallStep(c) PROVE SavedInv' BY <1>0, <1>8, SavedCall
  <1>9. ASSUME NEW c \in Threads, NEW kind \in Kinds, NEW socket, Ask(c, kind, socket) PROVE SavedInv'
    <2>1. NewAt(c, kind, FirstStep(kind)) /\ UNCHANGED <<settings, active>> BY <1>9, AskIs DEF Ask
    <2>2. (chosen' = "off") = (chosen = "off") BY <1>9 DEF Ask
    <2>3. Still({"start"}, {"load", "save"}) BY <2>1 DEF NewAt, Still, Undone
    <2>4. Were({"boot"}, Activating) BY <2>1 DEF NewAt, Were, Undone, Kinds
    <2>5. Were({"stop", "purge"}, Released) \/ active = 0
      BY <2>1 DEF NewAt, Were, Undone, Kinds, FirstStep, Released, CallInv
    <2> QED BY <1>0, <2>1, <2>2, <2>3, <2>4, <2>5, SavedKeep
  <1>10. CASE UNCHANGED vars BY <1>0, <1>10, SameCalls, SavedKeep DEF vars
  <1> QED BY <1>1, <1>2, <1>3, <1>4, <1>5, <1>6, <1>7, <1>8, <1>9, <1>10 DEF Next, Kinds

LEMMA SavedSurvives ==
  ASSUME SavedInv
  PROVE  StopSurvives
  <1> SUFFICES ASSUME Settled, races \cap {"crossed", "lost", "unsaved", "torn"} = {}
               PROVE  (chosen = "off") = settings.idle /\ (settings.idle => active = 0)
    BY DEF StopSurvives
  <1>1. Kept({"crossed", "lost", "unsaved", "torn"}) /\ Kept({"lost", "torn"}) BY DEF Kept
  <1>2. (chosen = "off") = settings.idle BY <1>1 DEF SavedInv, SavedChoice
  <1>3. \A c \in Threads : ~Undone(c, {"start"}, {"load", "save"}) BY DEF Settled, Switching, Undone
  <1>4. settings.idle => active = 0 BY <1>1, <1>3 DEF SavedInv, SavedIdle
  <1> QED BY <1>2, <1>4

----------------------------------------------------------------------------
(* What is left on the machine: StopReleases.                              *)

NothingLeft == hostsFile = {} /\ osDns = <<>>
Silent == NothingLeft /\ raw.listeners = <<>>
Sound == Kept({"crossed", "late", "cut", "lost", "unsaved", "torn"})
\* A start writes from here on, and has installed the proxy's alias from there on.
Writers == {"store", "load", "save"}
Aliased == {"http", "https", "spawn", "store", "load", "save"}

CleanRaw == DOMAIN raw = {"assigned", "listeners", "taken"}
\* With fghjd idle by its file, what there is on the machine is a start's.
CleanIdle == Sound /\ settings.idle /\ ~Silent => \E c \in Threads : Undone(c, {"start"}, Writers)
CleanAlias ==
  Sound /\ settings.idle /\ alias /\ "failed" \notin races => \E c \in Threads : Undone(c, {"start"}, Aliased)
\* A request that has cleared the machine saves with nothing on it.
CleanStop ==
  Kept({"crossed", "late"}) => \A c \in Threads : Undone(c, {"stop", "purge"}, {"load", "save"}) => Silent /\ ~alias
CleanInv == CleanRaw /\ CleanIdle /\ CleanAlias /\ CleanStop

LEMMA CleanKeep ==
  ASSUME CleanInv, races \subseteq races', CleanRaw', Sound' /\ settings'.idle => settings.idle,
         Silent => Silent', alias' => alias,
         Sound' /\ settings'.idle /\ ~Silent' => Still({"start"}, Writers),
         Sound' /\ settings'.idle /\ alias' /\ "failed" \notin races' => Still({"start"}, Aliased),
         Were({"stop", "purge"}, {"load", "save"})
  PROVE  CleanInv'
  <1>1. (Sound' => Sound) /\ (Kept({"crossed", "late"})' => Kept({"crossed", "late"})) BY DEF Sound, Kept
  <1>2. CleanIdle' BY <1>1 DEF CleanInv, CleanIdle, Still
  <1>3. CleanAlias' BY <1>1 DEF CleanInv, CleanAlias, Still
  <1>4. CleanStop' BY <1>1 DEF CleanInv, CleanStop, Were
  <1> QED BY <1>2, <1>3, <1>4 DEF CleanInv

\* The machine stays as it is while a request moves.
LEMMA CleanMove ==
  ASSUME CleanInv, races \subseteq races', UNCHANGED <<settings, hostsFile, osDns, raw, alias>>,
         NEW c \in Threads, NEW to, NEW gen, MovedTo(c, to, gen),
         calls[c].kind # "start" \/ calls[c].pc \notin Writers \/ to \in Writers \/ "unsaved" \in races',
         calls[c].kind # "start" \/ calls[c].pc \notin Aliased \/ to \in Aliased \/ "failed" \in races' \/ "unsaved" \in races',
         calls[c].kind \notin {"stop", "purge"} \/ calls[c].pc \in {"load", "save"} \/ to \notin {"load", "save"}
  PROVE  CleanInv'
  <1>1. Sound' => "unsaved" \notin races' BY DEF Sound, Kept
  <1>2. Sound' => Still({"start"}, Writers) BY <1>1, StillMove
  <1>3. Sound' /\ "failed" \notin races' => Still({"start"}, Aliased) BY <1>1, StillMove
  <1>4. Were({"stop", "purge"}, {"load", "save"}) BY WereMove
  <1>5. CleanRaw' /\ (Silent => Silent') BY DEF CleanInv, CleanRaw, Silent, NothingLeft
  <1> QED BY <1>2, <1>3, <1>4, <1>5, CleanKeep

LEMMA CleanSame ==
  ASSUME CleanInv, races \subseteq races', UNCHANGED <<settings, hostsFile, osDns, raw, alias>>,
         Still({"start"}, Writers), Still({"start"}, Aliased), Were({"stop", "purge"}, {"load", "save"})
  PROVE  CleanInv'
  <1>1. CleanRaw' /\ (Silent => Silent') BY DEF CleanInv, CleanRaw, Silent, NothingLeft
  <1> QED BY <1>1, CleanKeep

LEMMA CleanNew ==
  ASSUME CleanInv, races \subseteq races', UNCHANGED <<settings, hostsFile, osDns, raw, alias>>,
         NEW c \in Threads, NEW kind, NEW pc, NewAt(c, kind, pc), pc \notin {"load", "save"} \/ kind \notin {"stop", "purge"}
  PROVE  CleanInv'
  <1>1. Still({"start"}, Writers) /\ Still({"start"}, Aliased) BY DEF Still, NewAt, Undone, Writers, Aliased
  <1>2. Were({"stop", "purge"}, {"load", "save"}) BY DEF Were, NewAt, Undone
  <1> QED BY <1>1, <1>2, CleanSame

\* Who writes works for fghjd, or fghjd has called it off.
LEMMA WriterWhy ==
  ASSUME OwnInv, NEW t \in TaskIds, tasks[t].pc = "write", ~tasks[t].aborted
  PROVE  active # 0 \/ \E c \in Threads : calls[c].pc = "store"
  <1>1. Working(t) BY DEF Working, Up
  <1>2. t[1] # 0 BY DEF TaskIds, Gens
  <1> QED BY <1>1, <1>2 DEF OwnInv, OwnTasks

\* Nobody writes while a request, not crossed by another, has stood fghjd down.
LEMMA NoWriter ==
  ASSUME CallInv, OwnInv, ApartInv, SavedInv, Crossless, NEW c \in Threads, Undone(c, {"stop", "purge"}, Released),
         NEW t \in TaskIds, tasks[t].pc = "write", ~tasks[t].aborted
  PROVE  FALSE
  <1>1. active = 0 BY DEF SavedInv, SavedStop
  <1>2. PICK d \in Threads : calls[d].pc = "store" BY <1>1, WriterWhy
  <1> QED BY <1>2, Alone DEF Undone, Released, Activating

LEMMA CleanWrite ==
  ASSUME CallInv, OwnInv, ApartInv, SavedInv, CleanInv, races \subseteq races', NEW t \in TaskIds,
         tasks[t].pc = "write", races' = Late(t), CleanRaw', UNCHANGED <<calls, settings, active, alias>>
  PROVE  CleanInv'
  <1>1. CASE tasks[t].aborted
    <2>1. "late" \in races' BY <1>1 DEF Late
    <2> QED BY <2>1 DEF CleanInv, CleanIdle, CleanAlias, CleanStop, Sound, Kept
  <1>2. CASE ~tasks[t].aborted
    <2>1. races' = races BY <1>2 DEF Late
    <2>2. active # 0 \/ \E c \in Threads : calls[c].pc = "store" BY <1>2, WriterWhy
    <2>3. CleanIdle'
      <3> SUFFICES ASSUME Sound, settings.idle PROVE \E c \in Threads : Undone(c, {"start"}, Writers)
        BY <2>1 DEF CleanIdle, Sound, Kept, Undone
      <3>1. Kept({"crossed", "lost", "unsaved", "torn"}) /\ Crossless BY DEF Sound, Kept, Crossless
      <3>2. CASE active # 0
        BY <3>1, <3>2 DEF SavedInv, SavedIdle, Undone, Writers
      <3>3. CASE \E c \in Threads : calls[c].pc = "store"
        <4>1. PICK c \in Threads : calls[c].pc = "store" BY <3>3
        <4>2. CallOK(c, calls[c]) BY DEF CallInv
        <4>3. calls[c].kind \in {"start", "boot"} BY <4>1, <4>2 DEF CallOK, Fits, Activating, Deactivating
        <4>4. calls[c].kind # "boot" BY <3>1, <4>1 DEF SavedInv, SavedBoot, Undone, Activating
        <4> QED BY <4>1, <4>3, <4>4 DEF Undone, Writers
      <3> QED BY <2>2, <3>2, <3>3
    <2>4. CleanAlias' BY <2>1 DEF CleanInv, CleanAlias, Sound, Kept, Undone
    <2>5. CleanStop'
      <3> SUFFICES ASSUME Kept({"crossed", "late"}), NEW c \in Threads, Undone(c, {"stop", "purge"}, {"load", "save"}) PROVE FALSE
        BY <2>1 DEF CleanStop, Kept, Undone
      <3>1. Crossless /\ Undone(c, {"stop", "purge"}, Released) BY DEF Kept, Crossless, Undone, Released
      <3> QED BY <1>2, <3>1, NoWriter
    <2> QED BY <2>3, <2>4, <2>5 DEF CleanInv
  <1> QED BY <1>1, <1>2

LEMMA CleanTask ==
  ASSUME CallInv, OwnInv, ApartInv, SavedInv, CleanInv, races \subseteq races', NEW t \in TaskIds, TaskStep(t)
  PROVE  CleanInv'
  <1> USE DEF taskVars, netVars, controlVars
  <1>1. CASE Look(t) BY <1>1, SameCalls, CleanSame DEF Look
  <1>2. CASE WriteHosts(t)
    <2>1. CleanRaw' BY <1>2 DEF WriteHosts, CleanInv, CleanRaw
    <2> QED BY <1>2, <2>1, CleanWrite DEF WriteHosts, Writing
  <1>3. CASE install_os_resolver_config(t)
    <2>1. CleanRaw' BY <1>3 DEF install_os_resolver_config, CleanInv, CleanRaw
    <2> QED BY <1>3, <2>1, CleanWrite DEF install_os_resolver_config, Writing
  <1>4. CASE WriteFails(t) BY <1>4, SameCalls, CleanSame DEF WriteFails
  <1>5. ASSUME NEW bad, reconcile(t, bad) PROVE CleanInv'
    <2>1. CleanRaw' BY <1>5 DEF reconcile, CleanRaw
    <2> QED BY <1>5, <2>1, CleanWrite DEF reconcile, Writing
  <1> QED BY <1>1, <1>2, <1>3, <1>4, <1>5 DEF TaskStep

LEMMA CleanAdd ==
  ASSUME CallInv, ApartInv, SavedInv, CleanInv, races \subseteq races', NEW c \in Threads, AddAlias(c)
  PROVE  CleanInv'
  <1>1. /\ MovedTo(c, "http", calls[c].gen) /\ calls[c].pc = "alias" /\ UNCHANGED <<settings, hostsFile, osDns, raw, races>>
    BY Moves DEF AddAlias, Stays
  <1>2. Still({"start"}, Writers) BY <1>1, StillMove DEF Writers
  <1>3. CleanRaw' BY <1>1 DEF CleanInv, CleanRaw
  <1>4. CleanIdle' BY <1>1, <1>2 DEF CleanInv, CleanIdle, Silent, NothingLeft, Sound, Kept, Still
  <1>5. CleanAlias'
    <2> SUFFICES ASSUME Sound, settings.idle PROVE Undone(c, {"start"}, Aliased)'
      BY <1>1 DEF CleanAlias, Sound, Kept
    <2>1. Crossless BY DEF Sound, Kept, Crossless
    <2>2. CallOK(c, calls[c]) BY DEF CallInv
    <2>3. calls[c].kind \in {"start", "boot"} BY <1>1, <2>2 DEF CallOK, Fits, Activating, Deactivating
    <2>4. calls[c].kind # "boot" BY <1>1, <2>1 DEF SavedInv, SavedBoot, Undone, Activating
    <2> QED BY <1>1, <2>3, <2>4 DEF Undone, Aliased, MovedTo
  <1>6. CleanStop'
    <2> SUFFICES ASSUME Kept({"crossed", "late"}), NEW d \in Threads, Undone(d, {"stop", "purge"}, {"load", "save"})' PROVE FALSE
      BY <1>1 DEF CleanStop, Kept
    <2>1. Crossless BY DEF Kept, Crossless
    <2>2. calls[d].kind \in {"stop", "purge"} /\ calls[d].pc # "done" BY <1>1 DEF MovedTo, Undone
    <2> QED BY <1>1, <2>1, <2>2, Alone DEF Activating
  <1> QED BY <1>3, <1>4, <1>5, <1>6 DEF CleanInv

LEMMA CleanSave ==
  ASSUME CallInv, SavedInv, CleanInv, races \subseteq races', NEW c \in Threads, SaveSettings(c)
  PROVE  CleanInv'
  <1>1. /\ SavedAt(c, AfterPc(c)) /\ calls[c].pc = "save" /\ UNCHANGED <<hostsFile, osDns, raw, alias>>
    BY SaveMoves DEF SaveSettings, At, taskVars, netVars
  <1>2. CleanRaw' /\ (Silent' <=> Silent) BY <1>1 DEF CleanInv, CleanRaw, Silent, NothingLeft
  <1>3. (Sound' => Sound) /\ (Sound => Kept({"crossed", "late"})) /\ (Sound' => Kept({"lost", "torn"})') BY DEF Sound, Kept
  <1>4. CleanStop'
    <2> SUFFICES ASSUME Kept({"crossed", "late"})', NEW d \in Threads, Undone(d, {"stop", "purge"}, {"load", "save"})'
                 PROVE  Silent /\ ~alias
      BY <1>1, <1>2 DEF CleanStop
    <2>1. Undone(d, {"stop", "purge"}, {"load", "save"}) BY <1>1 DEF SavedAt, Undone, AfterPc
    <2> QED BY <2>1 DEF CleanInv, CleanStop, Kept
  <1>5. ASSUME Sound', settings'.idle, ~Silent \/ alias
        PROVE  settings.idle /\ Still({"start"}, Writers) /\ Still({"start"}, Aliased)
    <2>1. calls[c].kind \in {"start", "stop", "docker", "purge"}
      BY <1>1 DEF CallInv, CallOK, Fits, Activating, Deactivating
    <2>2. calls[c].kind # "start" BY <1>3, <1>5, ChangedIs
    <2>3. calls[c].kind \notin {"stop", "purge"} BY <1>1, <1>3, <1>5 DEF CleanInv, CleanStop, Undone
    <2>4. settings.idle BY <1>3, <1>5, <2>1, <2>2, <2>3, ChangedIs
    <2>5. calls["fghjd"].kind # "start" \/ calls["fghjd"].pc = "done" BY DEF CallInv, CallOK, Fits, Threads
    <2>6. Still({"start"}, Writers) BY <1>1, <2>2, <2>5 DEF Still, Undone, SavedAt, Writers
    <2>7. Still({"start"}, Aliased) BY <1>1, <2>2, <2>5 DEF Still, Undone, SavedAt, Aliased
    <2> QED BY <2>4, <2>6, <2>7
  <1>6. CleanIdle'
    <2> SUFFICES ASSUME Sound', settings'.idle, ~Silent PROVE \E d \in Threads : Undone(d, {"start"}, Writers)'
      BY <1>2 DEF CleanIdle
    <2> QED BY <1>3, <1>5 DEF CleanInv, CleanIdle, Still
  <1>7. CleanAlias'
    <2> SUFFICES ASSUME Sound', settings'.idle, alias, "failed" \notin races'
                 PROVE  \E d \in Threads : Undone(d, {"start"}, Aliased)'
      BY <1>1 DEF CleanAlias
    <2> QED BY <1>3, <1>5 DEF CleanInv, CleanAlias, Still
  <1> QED BY <1>2, <1>4, <1>6, <1>7 DEF CleanInv

\* After fghjd's end the file says it is to be on, or nothing is left.
LEMMA CleanEnds ==
  ASSUME CallInv, CleanInv, ProcessEnds \/ Exit, Sound' /\ settings'.idle => NothingLeft' /\ ~alias'
  PROVE  CleanInv'
  <1>1. raw' = NoRaw BY DEF ProcessEnds, Exit
  <1>2. CleanRaw' /\ raw'.listeners = <<>> BY <1>1 DEF CleanRaw, NoRaw
  <1>3. \A c \in Threads : ~Undone(c, {"stop", "purge"}, {"load", "save"})' BY AllEnded, IdleIs DEF Undone
  <1> QED BY <1>2, <1>3 DEF CleanInv, CleanIdle, CleanAlias, CleanStop, Silent

LEMMA CleanCall ==
  ASSUME CallInv, ApartInv, SavedInv, CleanInv, races \subseteq races', NEW c \in Threads, CallStep(c)
  PROVE  CleanInv'
  <1>0. Fits(c, calls[c].kind, calls[c].pc) BY DEF CallInv, CallOK
  <1> USE DEF Stays, Writers, Aliased, taskVars, netVars
  <1>1. CASE CheckActive(c)
    <2>1. \E to \in {"load", "dns"} : MovedTo(c, to, calls[c].gen) BY <1>1, Moves
    <2>2. calls[c].pc = "check" /\ UNCHANGED <<settings, hostsFile, osDns, raw, alias>> BY <1>1 DEF CheckActive, At
    <2>3. calls[c].kind \notin {"stop", "purge"} BY <1>0, <2>2 DEF Fits, Deactivating
    <2> QED BY <2>1, <2>2, <2>3, CleanMove
  <1>2. CASE BindDns(c) BY <1>2, DnsMoves, CleanMove DEF BindDns, At
  <1>3. CASE AddAlias(c) BY <1>3, CleanAdd
  <1>4. CASE Bind(c, "http", "https") BY <1>4, Moves, CleanMove DEF Bind
  <1>5. CASE Bind(c, "https", "spawn") BY <1>5, Moves, CleanMove DEF Bind
  <1>6. CASE SpawnEffects(c) BY <1>6, Moves, CleanMove DEF SpawnEffects
  <1>7. CASE StoreActive(c)
    <2>1. /\ MovedTo(c, IF c = "fghjd" THEN "done" ELSE "load", calls[c].gen) /\ calls[c].pc = "store"
          /\ UNCHANGED <<settings, hostsFile, osDns, raw, alias>>
      BY <1>7, Moves DEF StoreActive
    <2>2. calls[c].kind \notin {"stop", "purge"} /\ (c = "fghjd" => calls[c].kind # "start")
      BY <1>0, <2>1 DEF Fits, Deactivating
    <2> QED BY <2>1, <2>2, CleanMove
  <1>8. CASE ActivateFails(c)
    <2>1. CASE ProcessEnds
      <3>1. c = "fghjd" /\ settings' = settings /\ UNCHANGED <<hostsFile, osDns, alias>> /\ calls[c].pc \in Activating
        <4>1. c = "fghjd"
          <5> SUFFICES ASSUME c # "fghjd" PROVE FALSE OBVIOUS
          <5>1. UNCHANGED stage BY <1>8 DEF ActivateFails, Untouched, certVars
          <5>2. stage = "up" BY <1>0, <1>8 DEF ActivateFails, Fits, Deactivating, Activating
          <5> QED BY <2>1, <5>1, <5>2, AllEnded
        <4> QED BY <1>8, <2>1, <4>1 DEF ActivateFails, ProcessEnds, Activating
      <3>2. Undone(c, {"boot"}, Activating) BY <1>0, <3>1 DEF Undone, Fits, Activating
      <3>3. Crossless => ~settings.idle BY <3>2 DEF SavedInv, SavedBoot
      <3>4. Sound' => Crossless BY DEF Sound, Kept, Crossless
      <3> QED BY <2>1, <3>1, <3>3, <3>4, CleanEnds
    <2>2. CASE ~ProcessEnds
      <3>1. /\ MovedTo(c, "done", calls[c].gen) /\ calls[c].pc \in {"dns", "alias", "http", "https"} /\ "failed" \in races'
            /\ UNCHANGED <<settings, hostsFile, osDns, raw, alias>>
        BY <1>8, <2>2, Moves DEF ActivateFails
      <3> QED BY <3>1, CleanMove
    <2> QED BY <2>1, <2>2
  <1>9. CASE TakeActive(c) BY <1>9, Moves, CleanMove DEF TakeActive
  <1>10. CASE ClearInstalled(c)
    <2>1. NothingLeft' /\ alias' = FALSE BY <1>10 DEF ClearInstalled, Cleared, NothingLeft
    <2>2. raw' = [raw EXCEPT !.assigned = <<>>, !.listeners = <<>>] BY <1>10 DEF ClearInstalled
    <2>3. CleanRaw' /\ raw'.listeners = <<>> BY <2>2 DEF CleanInv, CleanRaw
    <2> QED BY <2>1, <2>3 DEF CleanInv, CleanIdle, CleanAlias, CleanStop, Silent
  <1>11. CASE LoadSettings(c) BY <1>11, LoadMoves, CleanMove DEF LoadSettings, At
  <1>12. CASE SaveSettings(c) BY <1>12, CleanSave
  <1>13. CASE SaveFails(c)
    <2>1. /\ MovedTo(c, AfterPc(c), calls[c].gen) /\ calls[c].pc = "save" /\ "unsaved" \in races'
          /\ UNCHANGED <<settings, hostsFile, osDns, raw, alias>>
      BY <1>13, Moves DEF SaveFails
    <2> QED BY <2>1, CleanMove
  <1>14. CASE Sweep(c)
    <2>1. MovedTo(c, "untrust", calls[c].gen) /\ calls[c].pc = "sweep" /\ UNCHANGED <<settings, raw>> BY <1>14, Moves DEF Sweep
    <2>2. NothingLeft' /\ alias' = FALSE BY <1>14 DEF Sweep, Cleared, NothingLeft
    <2>3. CleanRaw' /\ (Silent => Silent') BY <2>1, <2>2 DEF CleanInv, CleanRaw, Silent
    <2>4. Still({"start"}, Writers) /\ Were({"stop", "purge"}, {"load", "save"}) BY <2>1, StillMove, WereMove
    <2> QED BY <2>1, <2>2, <2>3, <2>4, CleanKeep
  <1>15. CASE Untrust(c) BY <1>15, Moves, CleanMove DEF Untrust
  <1>16. CASE Erase(c)
    <2>1. /\ MovedTo(c, "done", calls[c].gen) /\ calls[c].pc = "erase" /\ settings' = DefaultSettings
          /\ UNCHANGED <<hostsFile, osDns, raw, alias>>
      BY <1>16, Moves DEF Erase
    <2>2. ~settings'.idle BY <2>1 DEF DefaultSettings
    <2>3. Were({"stop", "purge"}, {"load", "save"}) BY <2>1, WereMove
    <2>4. CleanRaw' /\ (Silent => Silent') BY <2>1 DEF CleanInv, CleanRaw, Silent, NothingLeft
    <2> QED BY <2>1, <2>2, <2>3, <2>4, CleanKeep
  <1> QED
    BY <1>1, <1>2, <1>3, <1>4, <1>5, <1>6, <1>7, <1>8, <1>9, <1>10, <1>11, <1>12, <1>13, <1>14, <1>15, <1>16
    DEF CallStep

LEMMA CleanStep ==
  ASSUME CallInv, OwnInv, ApartInv, SavedInv, CleanInv, [Next]_vars
  PROVE  CleanInv'
  <1>0. races \subseteq races' BY RacesGrow
  <1> USE DEF taskVars, netVars, controlVars
  <1>1. CASE CertStep BY <1>0, <1>1, CertStageIs, SameCalls, CleanSame
  <1>2. CASE Boot BY <1>0, <1>2, SameCalls, CleanSame DEF Boot
  <1>3. CASE BootNetwork
    <2>1. UNCHANGED <<settings, hostsFile, osDns, raw, alias>> BY <1>3 DEF BootNetwork
    <2>2. CASE UNCHANGED calls BY <1>0, <2>1, <2>2, SameCalls, CleanSame
    <2>3. CASE NewAt("fghjd", "boot", "check") BY <1>0, <2>1, <2>3, CleanNew DEF Threads
    <2> QED BY <1>3, <2>2, <2>3, BootIs
  <1>4. CASE Exit
    <2>1. NothingLeft' /\ ~alias' BY <1>4 DEF Exit, Cleared, NothingLeft
    <2> QED BY <1>4, <2>1, CleanEnds
  <1>5. CASE Crash
    <2>1. /\ ProcessEnds /\ UNCHANGED <<hostsFile, osDns, alias>>
          /\ settings' = settings \/ settings' = DefaultSettings
          /\ settings.idle /\ (hostsFile # {} \/ osDns # <<>> \/ alias) => "cut" \in races'
      BY <1>5 DEF Crash, ProcessEnds
    <2>2. Sound' => "cut" \notin races' BY DEF Sound, Kept
    <2>3. ~DefaultSettings.idle BY DEF DefaultSettings
    <2>4. Sound' /\ settings'.idle => NothingLeft' /\ ~alias' BY <2>1, <2>2, <2>3 DEF NothingLeft
    <2> QED BY <2>1, <2>4, CleanEnds
  <1>6. CASE Environment
    <2>1. UNCHANGED <<settings, hostsFile, osDns, raw, alias, calls>>
      BY <1>6 DEF Environment, Publish, wire_actor, Unwire, OtherListens
    <2> QED BY <1>0, <2>1, SameCalls, CleanSame
  <1>7. ASSUME NEW t \in Gens \X Effects, TaskStep(t) PROVE CleanInv' BY <1>0, <1>7, CleanTask DEF TaskIds
  <1>8. ASSUME NEW c \in Threads, CallStep(c) PROVE CleanInv' BY <1>0, <1>8, CleanCall
  <1>9. ASSUME NEW c \in Threads, NEW kind \in Kinds, NEW socket, Ask(c, kind, socket) PROVE CleanInv'
    <2>1. NewAt(c, kind, FirstStep(kind)) /\ UNCHANGED <<settings, hostsFile, osDns, raw, alias>> BY <1>9, AskIs DEF Ask
    <2>2. FirstStep(kind) \notin {"load", "save"} \/ kind \notin {"stop", "purge"} BY DEF FirstStep, Kinds
    <2> QED BY <1>0, <2>1, <2>2, CleanNew
  <1>10. CASE UNCHANGED vars BY <1>0, <1>10, SameCalls, CleanSame DEF vars
  <1> QED BY <1>1, <1>2, <1>3, <1>4, <1>5, <1>6, <1>7, <1>8, <1>9, <1>10 DEF Next, Kinds

LEMMA CleanReleases ==
  ASSUME CallInv, OwnInv, SavedInv, CleanInv
  PROVE  StopReleases
  <1> SUFFICES ASSUME Settled, chosen = "off", races \cap {"crossed", "late", "cut", "lost", "unsaved", "torn"} = {}
               PROVE  /\ hostsFile = {} /\ osDns = <<>> /\ raw.listeners = <<>> /\ ports = [http |-> 0, https |-> 0]
                      /\ alias => "failed" \in races
    BY DEF StopReleases
  <1>1. Sound /\ Kept({"lost", "torn"}) /\ Kept({"crossed", "lost", "unsaved", "torn"}) BY DEF Sound, Kept
  <1>2. settings.idle BY <1>1 DEF SavedInv, SavedChoice
  <1>3. ASSUME NEW c \in Threads PROVE calls[c].pc = "done" \/ calls[c].kind = "docker" BY DEF Settled, Switching
  <1>4. \A c \in Threads : ~Undone(c, {"start"}, Writers) /\ ~Undone(c, {"start"}, Aliased)
    BY <1>3 DEF Undone, Writers, Aliased
  <1>5. Silent BY <1>1, <1>2, <1>4 DEF CleanInv, CleanIdle
  <1>6. alias => "failed" \in races BY <1>1, <1>2, <1>4 DEF CleanInv, CleanAlias
  <1>7. active = 0
    <2>1. \A c \in Threads : ~Undone(c, {"start"}, {"load", "save"}) BY <1>3 DEF Undone
    <2> QED BY <1>1, <1>2, <2>1 DEF SavedInv, SavedIdle
  <1>8. \A c \in Threads, p \in {"http", "https"} : ~Holds(c, p)
    BY <1>3, HoldersAre DEF CallInv, CallOK, Fits, Holds
  <1>9. DOMAIN ports = {"http", "https"} /\ ports["http"] = 0 /\ ports["https"] = 0 BY <1>7, <1>8 DEF OwnInv, OwnPorts
  <1>10. ports = [http |-> 0, https |-> 0] BY <1>9 DEF OwnInv, OwnPorts
  <1> QED BY <1>5, <1>6, <1>10 DEF Silent, NothingLeft

----------------------------------------------------------------------------
(* What an uninstall leaves: Purged.                                       *)

\* It distrusts the roots before it erases them.
GoneTrust == Crossless => \A c \in Threads : Undone(c, {"purge"}, {"erase"}) => trusted = {}
\* Once it is done nothing of fghjd runs, until fghjd is started again.
GoneQuiet ==
  Crossless /\ chosen = "gone" =>
    trusted = {} /\ active = 0 /\ stage \in {"up", "down"} /\ \A c \in Threads : calls[c].pc \notin Activating
GoneInv == GoneTrust /\ GoneQuiet

LEMMA GoneKeep ==
  ASSUME GoneInv, races \subseteq races', chosen' = "gone" => chosen = "gone", trusted' \in {trusted, {}},
         Were({"purge"}, {"erase"}), active' \in {active, 0}, stage' \in {stage, "up", "down"},
         \A c \in Threads : calls'[c].pc \in Activating => calls[c].pc \in Activating
  PROVE  GoneInv'
  <1>1. GoneTrust' BY DEF GoneInv, GoneTrust, Crossless, Were
  <1>2. GoneQuiet' BY DEF GoneInv, GoneQuiet, Crossless
  <1> QED BY <1>1, <1>2 DEF GoneInv

LEMMA GoneMove ==
  ASSUME GoneInv, races \subseteq races', UNCHANGED <<chosen, stage>>, trusted' \in {trusted, {}}, active' \in {active, 0},
         NEW c \in Threads, NEW to, NEW gen, MovedTo(c, to, gen), to # "erase" \/ trusted' = {},
         calls[c].pc \in Activating \/ to \notin Activating
  PROVE  GoneInv'
  <1>1. \A d \in Threads : calls'[d].pc \in Activating => calls[d].pc \in Activating BY DEF MovedTo
  <1>2. GoneTrust' BY DEF GoneInv, GoneTrust, Crossless, MovedTo, Undone
  <1>3. GoneQuiet' BY <1>1 DEF GoneInv, GoneQuiet, Crossless
  <1> QED BY <1>2, <1>3 DEF GoneInv

LEMMA GoneEnds ==
  ASSUME CallInv, GoneInv, races \subseteq races', ProcessEnds \/ Exit, UNCHANGED chosen
  PROVE  GoneInv'
  <1>1. trusted' = trusted BY DEF ProcessEnds, Exit
  <1>2. Were({"purge"}, {"erase"}) BY AllEnded, IdleIs DEF Were, Undone
  <1>3. \A c \in Threads : calls'[c].pc \notin Activating BY AllEnded, IdleIs DEF Activating
  <1> QED BY <1>1, <1>2, <1>3, AllEnded, GoneKeep

LEMMA GoneErase ==
  ASSUME CallInv, ApartInv, SavedInv, GoneInv, races \subseteq races', NEW c \in Threads, Erase(c)
  PROVE  GoneInv'
  <1>1. MovedTo(c, "done", calls[c].gen) /\ calls[c].pc = "erase" /\ UNCHANGED <<trusted, active, stage>>
    BY Moves DEF Erase, Stays
  <1>2. calls[c].kind = "purge" BY <1>1 DEF CallInv, CallOK, Fits, Activating, Deactivating
  <1>3. c \in Switching BY <1>1, <1>2 DEF Switching
  <1>4. Were({"purge"}, {"erase"}) BY <1>1, WereMove
  <1>5. GoneTrust' BY <1>1, <1>4 DEF GoneInv, GoneTrust, Crossless, Were
  <1>6. ASSUME Crossless PROVE /\ trusted = {} /\ active = 0 /\ stage \in {"up", "down"}
                               /\ \A d \in Threads : calls'[d].pc \notin Activating
    <2>1. trusted = {} BY <1>1, <1>2, <1>6 DEF GoneInv, GoneTrust, Undone
    <2>2. active = 0 BY <1>1, <1>2, <1>6 DEF SavedInv, SavedStop, Undone, Released
    <2>3. stage \in {"up", "down"} BY <1>2, <1>3, <1>6 DEF ApartInv
    <2>4. \A d \in Threads : calls[d].pc \notin Activating BY <1>1, <1>2, <1>6, Alone
    <2>5. \A d \in Threads : calls'[d].pc \notin Activating BY <1>1, <2>4 DEF MovedTo, Activating
    <2> QED BY <2>1, <2>2, <2>3, <2>5
  <1>7. GoneQuiet' BY <1>1, <1>6 DEF GoneQuiet, Crossless
  <1> QED BY <1>5, <1>7 DEF GoneInv

LEMMA GoneCall ==
  ASSUME CallInv, ApartInv, SavedInv, GoneInv, races \subseteq races', NEW c \in Threads, CallStep(c)
  PROVE  GoneInv'
  <1> USE DEF Stays, Activating, Untouched, certVars
  <1>1. CASE CheckActive(c)
    <2>1. \E to \in {"load", "dns"} : MovedTo(c, to, calls[c].gen) BY <1>1, Moves
    <2> QED BY <1>1, <2>1, GoneMove DEF CheckActive, At
  <1>2. CASE BindDns(c) BY <1>2, DnsMoves, GoneMove DEF BindDns, At
  <1>3. CASE AddAlias(c) BY <1>3, Moves, GoneMove DEF AddAlias
  <1>4. CASE Bind(c, "http", "https") BY <1>4, Moves, GoneMove DEF Bind
  <1>5. CASE Bind(c, "https", "spawn") BY <1>5, Moves, GoneMove DEF Bind
  <1>6. CASE SpawnEffects(c) BY <1>6, Moves, GoneMove DEF SpawnEffects
  <1>7. CASE StoreActive(c)
    <2>1. \E to \in {"done", "load"} : MovedTo(c, to, calls[c].gen) BY <1>7, Moves
    <2>2. calls[c].pc = "store" /\ UNCHANGED <<chosen, trusted>> BY <1>7 DEF StoreActive, At
    <2>3. Crossless' => chosen # "gone" BY <2>2 DEF GoneInv, GoneQuiet, Crossless
    <2>4. GoneTrust' BY <2>1, <2>2 DEF GoneInv, GoneTrust, Crossless, MovedTo, Undone
    <2> QED BY <2>2, <2>3, <2>4 DEF GoneInv, GoneQuiet
  <1>8. CASE ActivateFails(c)
    <2>1. CASE ProcessEnds BY <1>8, <2>1, GoneEnds DEF ActivateFails
    <2>2. CASE ~ProcessEnds
      <3>1. MovedTo(c, "done", calls[c].gen) /\ UNCHANGED <<chosen, stage, trusted, active>>
        BY <1>8, <2>2, Moves DEF ActivateFails
      <3> QED BY <3>1, GoneMove
    <2> QED BY <2>1, <2>2
  <1>9. CASE TakeActive(c) BY <1>9, Moves, GoneMove DEF TakeActive
  <1>10. CASE ClearInstalled(c) BY <1>10, Moves, GoneMove DEF ClearInstalled
  <1>11. CASE LoadSettings(c) BY <1>11, LoadMoves, GoneMove DEF LoadSettings
  <1>12. CASE SaveSettings(c)
    <2>1. SavedAt(c, AfterPc(c)) /\ UNCHANGED <<trusted, active, stage>> /\ chosen' = Answered(c)
      BY <1>12, SaveMoves DEF SaveSettings
    <2>2. chosen' = "gone" => chosen = "gone" BY <2>1 DEF Answered
    <2>3. Were({"purge"}, {"erase"}) BY <2>1 DEF Were, Undone, SavedAt, AfterPc
    <2>4. \A d \in Threads : calls'[d].pc \in Activating => calls[d].pc \in Activating BY <2>1 DEF SavedAt, AfterPc
    <2> QED BY <2>1, <2>2, <2>3, <2>4, GoneKeep
  <1>13. CASE SaveFails(c)
    <2>1. \E to \in {"done", "sweep"} : MovedTo(c, to, calls[c].gen) BY <1>13, Moves DEF AfterPc
    <2> QED BY <1>13, <2>1, GoneMove DEF SaveFails
  <1>14. CASE Sweep(c) BY <1>14, Moves, GoneMove DEF Sweep
  <1>15. CASE Untrust(c) BY <1>15, Moves, GoneMove DEF Untrust
  <1>16. CASE Erase(c) BY <1>16, GoneErase
  <1> QED
    BY <1>1, <1>2, <1>3, <1>4, <1>5, <1>6, <1>7, <1>8, <1>9, <1>10, <1>11, <1>12, <1>13, <1>14, <1>15, <1>16
    DEF CallStep

LEMMA GoneStep ==
  ASSUME CallInv, ApartInv, SavedInv, GoneInv, [Next]_vars
  PROVE  GoneInv'
  <1>0. races \subseteq races' BY RacesGrow
  <1> USE DEF taskVars, controlVars, certVars
  <1>1. CASE CertStep
    <2>1. stage \notin {"up", "down"} /\ UNCHANGED <<calls, races, chosen>> BY <1>1, CertStageIs DEF CertStages
    <2>2. Crossless => chosen # "gone" BY <2>1 DEF GoneInv, GoneQuiet
    <2>3. Crossless => \A c \in Threads : ~Undone(c, {"purge"}, {"erase"}) BY <2>1 DEF ApartInv, Switching, Undone
    <2> QED BY <2>1, <2>2, <2>3 DEF GoneInv, GoneTrust, GoneQuiet, Crossless, Undone
  <1>2. CASE Boot
    <2>1. chosen' # "gone" /\ UNCHANGED <<calls, trusted>> BY <1>2 DEF Boot
    <2> QED BY <1>0, <2>1 DEF GoneInv, GoneTrust, GoneQuiet, Crossless, Undone
  <1>3. CASE BootNetwork
    <2>1. stage = "network" /\ UNCHANGED <<chosen, trusted>> BY <1>3 DEF BootNetwork
    <2>2. Crossless' => chosen # "gone" BY <1>0, <2>1 DEF GoneInv, GoneQuiet, Crossless
    <2>3. Were({"purge"}, {"erase"}) BY <1>3, BootIs, SameCalls DEF NewAt, Were, Undone
    <2>4. GoneTrust' BY <1>0, <2>1, <2>3 DEF GoneInv, GoneTrust, Crossless, Were
    <2> QED BY <2>1, <2>2, <2>4 DEF GoneInv, GoneQuiet
  <1>4. CASE Exit BY <1>0, <1>4, GoneEnds DEF Exit
  <1>5. CASE Crash BY <1>0, <1>5, GoneEnds DEF Crash
  <1>6. CASE Environment
    <2>1. UNCHANGED <<calls, chosen, trusted, active, stage>>
      BY <1>6 DEF Environment, Publish, wire_actor, Unwire, OtherListens
    <2> QED BY <1>0, <2>1, SameCalls, GoneKeep
  <1>7. ASSUME NEW t \in Gens \X Effects, TaskStep(t) PROVE GoneInv'
    <2>1. UNCHANGED <<calls, chosen, trusted, active, stage>>
      BY <1>7 DEF TaskStep, Look, WriteHosts, install_os_resolver_config, WriteFails, reconcile
    <2> QED BY <1>0, <2>1, SameCalls, GoneKeep
  <1>8. ASSUME NEW c \in Threads, CallStep(c) PROVE GoneInv' BY <1>0, <1>8, GoneCall
  <1>9. ASSUME NEW c \in Threads, NEW kind \in Kinds, NEW socket, Ask(c, kind, socket) PROVE GoneInv'
    <2>1. NewAt(c, kind, FirstStep(kind)) /\ UNCHANGED <<trusted, active, stage>> BY <1>9, AskIs DEF Ask, Untouched
    <2>2. chosen' = "gone" => chosen = "gone" /\ kind # "start" BY <1>9 DEF Ask
    <2>3. Were({"purge"}, {"erase"}) BY <2>1 DEF NewAt, Were, Undone, Kinds, FirstStep
    <2>4. CASE kind = "start"
      <3>1. GoneTrust' BY <1>0, <2>1, <2>3 DEF GoneInv, GoneTrust, Crossless, Were
      <3> QED BY <2>2, <2>4, <3>1 DEF GoneInv, GoneQuiet
    <2>5. CASE kind # "start"
      <3>1. \A d \in Threads : calls'[d].pc \in Activating => calls[d].pc \in Activating
        BY <2>1, <2>5 DEF NewAt, FirstStep, Kinds, Activating
      <3> QED BY <1>0, <2>1, <2>2, <2>3, <3>1, GoneKeep
    <2> QED BY <2>4, <2>5
  <1>10. CASE UNCHANGED vars BY <1>0, <1>10, SameCalls, GoneKeep DEF vars
  <1> QED BY <1>1, <1>2, <1>3, <1>4, <1>5, <1>6, <1>7, <1>8, <1>9, <1>10 DEF Next, Kinds

\* What it has swept from the machine stays swept.
LeftPurge ==
  Kept({"crossed", "late"}) => \A c \in Threads : Undone(c, {"purge"}, {"untrust", "erase"}) => NothingLeft /\ ~alias
LeftGone == Kept({"crossed", "late"}) /\ chosen = "gone" => NothingLeft /\ ~alias
LeftInv == LeftPurge /\ LeftGone

LEMMA LeftKeep ==
  ASSUME LeftInv, races \subseteq races', chosen' = "gone" => chosen = "gone", Were({"purge"}, {"untrust", "erase"}),
         UNCHANGED <<hostsFile, osDns, alias>>
  PROVE  LeftInv'
  BY DEF LeftInv, LeftPurge, LeftGone, Kept, Were, NothingLeft

LEMMA LeftClean ==
  ASSUME NothingLeft', ~alias'
  PROVE  LeftInv'
  BY DEF LeftInv, LeftPurge, LeftGone

LEMMA LeftMove ==
  ASSUME LeftInv, races \subseteq races', UNCHANGED <<chosen, hostsFile, osDns, alias>>,
         NEW c \in Threads, NEW to, NEW gen, MovedTo(c, to, gen),
         calls[c].pc \in {"untrust", "erase"} \/ to \notin {"untrust", "erase"}
  PROVE  LeftInv'
  BY LeftKeep, WereMove

LEMMA LeftWrite ==
  ASSUME CallInv, OwnInv, ApartInv, SavedInv, GoneInv, LeftInv, NEW t \in TaskIds, tasks[t].pc = "write",
         races' = Late(t), UNCHANGED <<calls, chosen>>
  PROVE  LeftInv'
  <1>1. CASE tasks[t].aborted
    <2>1. "late" \in races' BY <1>1 DEF Late
    <2> QED BY <2>1 DEF LeftInv, LeftPurge, LeftGone, Kept
  <1>2. CASE ~tasks[t].aborted
    <2>1. races' = races BY <1>2 DEF Late
    <2>2. LeftPurge'
      <3> SUFFICES ASSUME Kept({"crossed", "late"}), NEW c \in Threads, Undone(c, {"purge"}, {"untrust", "erase"}) PROVE FALSE
        BY <2>1 DEF LeftPurge, Kept, Undone
      <3>1. Crossless /\ Undone(c, {"stop", "purge"}, Released) BY DEF Kept, Crossless, Undone, Released
      <3> QED BY <1>2, <3>1, NoWriter
    <2>3. LeftGone'
      <3> SUFFICES ASSUME Kept({"crossed", "late"}), chosen = "gone" PROVE FALSE BY <2>1 DEF LeftGone, Kept
      <3>1. Crossless BY DEF Kept, Crossless
      <3> QED BY <1>2, <3>1, WriterWhy DEF GoneInv, GoneQuiet, Activating
    <2> QED BY <2>2, <2>3 DEF LeftInv
  <1> QED BY <1>1, <1>2

LEMMA LeftAdd ==
  ASSUME CallInv, ApartInv, GoneInv, LeftInv, races \subseteq races', NEW c \in Threads, AddAlias(c)
  PROVE  LeftInv'
  <1>1. MovedTo(c, "http", calls[c].gen) /\ calls[c].pc = "alias" /\ UNCHANGED <<races, chosen>>
    BY Moves DEF AddAlias, Stays
  <1>2. LeftPurge'
    <2> SUFFICES ASSUME Kept({"crossed", "late"}), NEW d \in Threads, Undone(d, {"purge"}, {"untrust", "erase"})' PROVE FALSE
      BY <1>1 DEF LeftPurge, Kept
    <2>1. Crossless BY DEF Kept, Crossless
    <2>2. calls[d].kind \in {"stop", "purge"} /\ calls[d].pc # "done" BY <1>1 DEF MovedTo, Undone
    <2> QED BY <1>1, <2>1, <2>2, Alone DEF Activating
  <1>3. LeftGone'
    <2> SUFFICES ASSUME Kept({"crossed", "late"}), chosen = "gone" PROVE FALSE BY <1>1 DEF LeftGone, Kept
    <2>1. Crossless BY DEF Kept, Crossless
    <2> QED BY <1>1, <2>1 DEF GoneInv, GoneQuiet, Activating
  <1> QED BY <1>2, <1>3 DEF LeftInv

LEMMA LeftEnds ==
  ASSUME CallInv, LeftInv, races \subseteq races', ProcessEnds, UNCHANGED chosen
  PROVE  LeftInv'
  <1>1. UNCHANGED <<hostsFile, osDns, alias>> BY DEF ProcessEnds
  <1>2. Were({"purge"}, {"untrust", "erase"}) BY AllEnded, IdleIs DEF Were, Undone
  <1> QED BY <1>1, <1>2, LeftKeep

LEMMA LeftErase ==
  ASSUME CallInv, LeftInv, races \subseteq races', NEW c \in Threads, Erase(c)
  PROVE  LeftInv'
  <1>1. /\ MovedTo(c, "done", calls[c].gen) /\ calls[c].pc = "erase" /\ UNCHANGED <<hostsFile, osDns, alias>>
    BY Moves DEF Erase, Stays, taskVars, netVars
  <1>2. calls[c].kind = "purge" BY <1>1 DEF CallInv, CallOK, Fits, Activating, Deactivating
  <1>3. Kept({"crossed", "late"}) => NothingLeft /\ ~alias BY <1>1, <1>2 DEF LeftInv, LeftPurge, Undone
  <1>4. Kept({"crossed", "late"})' => Kept({"crossed", "late"}) BY DEF Kept
  <1> QED BY <1>1, <1>3, <1>4 DEF LeftInv, LeftPurge, LeftGone, NothingLeft

LEMMA LeftCall ==
  ASSUME CallInv, ApartInv, GoneInv, LeftInv, races \subseteq races', NEW c \in Threads, CallStep(c)
  PROVE  LeftInv'
  <1> USE DEF Stays, taskVars, netVars
  <1>1. CASE CheckActive(c)
    <2>1. \E to \in {"load", "dns"} : MovedTo(c, to, calls[c].gen) BY <1>1, Moves
    <2> QED BY <1>1, <2>1, LeftMove DEF CheckActive
  <1>2. CASE BindDns(c) BY <1>2, DnsMoves, LeftMove DEF BindDns
  <1>3. CASE AddAlias(c) BY <1>3, LeftAdd
  <1>4. CASE Bind(c, "http", "https") BY <1>4, Moves, LeftMove DEF Bind
  <1>5. CASE Bind(c, "https", "spawn") BY <1>5, Moves, LeftMove DEF Bind
  <1>6. CASE SpawnEffects(c) BY <1>6, Moves, LeftMove DEF SpawnEffects
  <1>7. CASE StoreActive(c)
    <2>1. \E to \in {"done", "load"} : MovedTo(c, to, calls[c].gen) BY <1>7, Moves
    <2> QED BY <1>7, <2>1, LeftMove DEF StoreActive
  <1>8. CASE ActivateFails(c)
    <2>1. CASE ProcessEnds BY <1>8, <2>1, LeftEnds DEF ActivateFails
    <2>2. CASE ~ProcessEnds
      <3>1. MovedTo(c, "done", calls[c].gen) /\ UNCHANGED <<chosen, hostsFile, osDns, alias>>
        BY <1>8, <2>2, Moves DEF ActivateFails
      <3> QED BY <3>1, LeftMove
    <2> QED BY <2>1, <2>2
  <1>9. CASE TakeActive(c) BY <1>9, Moves, LeftMove DEF TakeActive
  <1>10. CASE ClearInstalled(c) BY <1>10, LeftClean DEF ClearInstalled, Cleared, NothingLeft
  <1>11. CASE LoadSettings(c) BY <1>11, LoadMoves, LeftMove DEF LoadSettings
  <1>12. CASE SaveSettings(c)
    <2>1. SavedAt(c, AfterPc(c)) /\ UNCHANGED <<hostsFile, osDns, alias>> /\ chosen' = Answered(c)
      BY <1>12, SaveMoves DEF SaveSettings
    <2>2. chosen' = "gone" => chosen = "gone" BY <2>1 DEF Answered
    <2>3. Were({"purge"}, {"untrust", "erase"}) BY <2>1 DEF Were, Undone, SavedAt, AfterPc
    <2> QED BY <2>1, <2>2, <2>3, LeftKeep
  <1>13. CASE SaveFails(c)
    <2>1. \E to \in {"done", "sweep"} : MovedTo(c, to, calls[c].gen) BY <1>13, Moves DEF AfterPc
    <2> QED BY <1>13, <2>1, LeftMove DEF SaveFails
  <1>14. CASE Sweep(c) BY <1>14, LeftClean DEF Sweep, Cleared, NothingLeft
  <1>15. CASE Untrust(c) BY <1>15, Moves, LeftMove DEF Untrust
  <1>16. CASE Erase(c) BY <1>16, LeftErase
  <1> QED
    BY <1>1, <1>2, <1>3, <1>4, <1>5, <1>6, <1>7, <1>8, <1>9, <1>10, <1>11, <1>12, <1>13, <1>14, <1>15, <1>16
    DEF CallStep

LEMMA LeftStep ==
  ASSUME CallInv, OwnInv, ApartInv, SavedInv, GoneInv, LeftInv, [Next]_vars
  PROVE  LeftInv'
  <1>0. races \subseteq races' BY RacesGrow
  <1> USE DEF taskVars, netVars, controlVars
  <1>1. CASE CertStep BY <1>0, <1>1, CertStageIs, SameCalls, LeftKeep
  <1>2. CASE Boot
    <2>1. chosen' # "gone" /\ UNCHANGED <<calls, hostsFile, osDns, alias>> BY <1>2 DEF Boot
    <2> QED BY <1>0, <2>1, SameCalls, LeftKeep
  <1>3. CASE BootNetwork
    <2>1. UNCHANGED <<chosen, hostsFile, osDns, alias>> BY <1>3 DEF BootNetwork
    <2>2. Were({"purge"}, {"untrust", "erase"}) BY <1>3, BootIs, SameCalls DEF NewAt, Were, Undone
    <2> QED BY <1>0, <2>1, <2>2, LeftKeep
  <1>4. CASE Exit BY <1>4, LeftClean DEF Exit, Cleared, NothingLeft
  <1>5. CASE Crash BY <1>0, <1>5, LeftEnds DEF Crash
  <1>6. CASE Environment
    <2>1. UNCHANGED <<calls, chosen, hostsFile, osDns, alias>>
      BY <1>6 DEF Environment, Publish, wire_actor, Unwire, OtherListens
    <2> QED BY <1>0, <2>1, SameCalls, LeftKeep
  <1>7. ASSUME NEW t \in Gens \X Effects, TaskStep(t) PROVE LeftInv'
    <2> USE DEF TaskIds
    <2>1. CASE Look(t) BY <1>0, <2>1, SameCalls, LeftKeep DEF Look
    <2>2. CASE WriteHosts(t) BY <2>2, LeftWrite DEF WriteHosts, Writing
    <2>3. CASE install_os_resolver_config(t) BY <2>3, LeftWrite DEF install_os_resolver_config, Writing
    <2>4. CASE WriteFails(t) BY <1>0, <2>4, SameCalls, LeftKeep DEF WriteFails
    <2>5. ASSUME NEW bad, reconcile(t, bad) PROVE LeftInv'
      <3>1. UNCHANGED <<calls, chosen, hostsFile, osDns, alias>> BY <2>5 DEF reconcile
      <3> QED BY <1>0, <3>1, SameCalls, LeftKeep
    <2> QED BY <1>7, <2>1, <2>2, <2>3, <2>4, <2>5 DEF TaskStep
  <1>8. ASSUME NEW c \in Threads, CallStep(c) PROVE LeftInv' BY <1>0, <1>8, LeftCall
  <1>9. ASSUME NEW c \in Threads, NEW kind \in Kinds, NEW socket, Ask(c, kind, socket) PROVE LeftInv'
    <2>1. NewAt(c, kind, FirstStep(kind)) /\ UNCHANGED <<hostsFile, osDns, alias>> BY <1>9, AskIs DEF Ask
    <2>2. chosen' = "gone" => chosen = "gone" BY <1>9 DEF Ask
    <2>3. Were({"purge"}, {"untrust", "erase"}) BY <2>1 DEF NewAt, Were, Undone, Kinds, FirstStep
    <2> QED BY <1>0, <2>1, <2>2, <2>3, LeftKeep
  <1>10. CASE UNCHANGED vars BY <1>0, <1>10, SameCalls, LeftKeep DEF vars
  <1> QED BY <1>1, <1>2, <1>3, <1>4, <1>5, <1>6, <1>7, <1>8, <1>9, <1>10 DEF Next, Kinds

----------------------------------------------------------------------------
(* The certificates: CertsAgree.                                           *)

DiskFields == {"rootCert", "rootKey", "sigCert", "sigKey", "sigGen", "copyCert", "copyKey"}
MemFields == {"root", "cert", "key"}
Real(n) == n \in Nat /\ n # Missing
\* The root's files are a pair; the signing CA's are one that root signed.
RootOK == Real(disk.rootCert) /\ disk.rootKey = disk.rootCert
SigningOK == disk.sigCert.by = disk.rootCert /\ disk.sigCert.id = disk.sigKey /\ Real(disk.sigKey)
\* What fghjd holds is a pair, and the one on disk.
MemPair == mem.cert.by = mem.root /\ mem.cert.id = mem.key
MemOnDisk ==
  /\ RootOK /\ mem.root = disk.rootCert /\ Real(mem.key) /\ disk.sigCert = mem.cert /\ disk.sigKey = mem.key
  /\ disk.sigGen = 2 /\ disk.copyCert = mem.cert /\ disk.copyKey = mem.key

FileTypes == DOMAIN disk = DiskFields /\ DOMAIN mem = MemFields /\ minted \in Nat
\* The files, whatever writes were cut short: a root's key is there after its
\* certificate, and the generation file only with a whole chain.
FileDisk ==
  /\ disk.rootCert \in Nat \cup {Torn} /\ disk.rootKey \in {Missing, Torn, disk.rootCert}
  /\ disk.rootCert \in {Missing, Torn} => disk.rootKey = Missing
  /\ disk.rootCert = Missing => trusted = {}
  /\ disk.sigGen = 2 => RootOK /\ SigningOK
\* What fghjd has loaded, by how far it has started.
FileStage ==
  /\ stage = "rootKey" => mem.root = disk.rootCert /\ Real(mem.root) /\ disk.rootKey = Missing
  /\ stage \in {"signing", "sigKey", "sigGen", "copy", "copyKey", "trust", "network"} => RootOK /\ mem.root = disk.rootCert
  /\ stage \in {"sigKey", "sigGen", "copy", "copyKey", "trust", "network"} =>
       MemPair /\ Real(mem.key) /\ disk.sigCert = mem.cert
  /\ stage = "sigKey" => disk.sigGen # 2
  /\ stage \in {"sigGen", "copy", "copyKey", "trust", "network"} => disk.sigKey = mem.key
  /\ stage \in {"copy", "copyKey", "trust", "network"} => disk.sigGen = 2
  /\ stage \in {"copyKey", "trust", "network"} => disk.copyCert = mem.cert
  /\ stage \in {"trust", "network"} => disk.copyKey = mem.key
  /\ stage = "up" => MemPair /\ (disk # NoFiles => MemOnDisk)
FileInv == FileTypes /\ (Crossless => FileDisk /\ FileStage)

LEMMA NothingLoadedIs ==
  DOMAIN NothingLoaded = MemFields /\ NoFiles.rootCert = Missing /\ NoFiles.rootKey = Missing /\ NoFiles.sigGen = 0
  /\ DOMAIN NoFiles = DiskFields /\ DOMAIN OldFiles = DiskFields
  BY DEF NothingLoaded, MemFields, NoFiles, OldFiles, DiskFields

LEMMA FileDead ==
  ASSUME FileTypes, FileDisk, UNCHANGED <<disk, minted, trusted>>, mem' = NothingLoaded, stage' \in {"down", "root"}
  PROVE  FileTypes' /\ FileDisk' /\ FileStage'
  <1>1. FileTypes' BY NothingLoadedIs DEF FileTypes
  <1>2. FileDisk' BY DEF FileDisk, RootOK, SigningOK
  <1> QED BY <1>1, <1>2 DEF FileStage

LEMMA FileRoot ==
  ASSUME FileTypes, FileDisk, FileStage, LoadRoot \/ generate_ca \/ WriteRootKey
  PROVE  FileTypes' /\ FileDisk' /\ FileStage'
  <1> USE DEF Missing, Torn
  <1>1. CASE LoadRoot
    <2>1. CASE stage' = "down" /\ mem' = NothingLoaded BY <1>1, <2>1, FileDead DEF LoadRoot
    <2>2. CASE ~(stage' = "down" /\ mem' = NothingLoaded)
      <3>1. /\ disk.rootKey # Torn /\ disk.rootCert # Torn /\ disk.rootKey # Missing /\ disk.rootCert # Missing
            /\ stage' = "signing" /\ mem' = [mem EXCEPT !.root = disk.rootCert] /\ UNCHANGED <<disk, minted, trusted>>
        BY <1>1, <2>2 DEF LoadRoot, HasRoot
      <3>2. DOMAIN mem' = MemFields /\ mem'.root = disk.rootCert BY <3>1 DEF FileTypes, MemFields
      <3>3. RootOK BY <3>1 DEF FileDisk, RootOK, Real
      <3>4. FileTypes' BY <3>1, <3>2 DEF FileTypes
      <3>5. FileDisk' BY <3>1 DEF FileDisk, RootOK, SigningOK
      <3>6. FileStage' BY <3>1, <3>2, <3>3 DEF FileStage, RootOK
      <3> QED BY <3>4, <3>5, <3>6
    <2> QED BY <2>1, <2>2
  <1>2. CASE generate_ca
    <2>1. minted' = minted + 1 /\ trusted' = trusted /\ ~HasRoot BY <1>2 DEF generate_ca
    <2>2. disk.rootKey = Missing BY <2>1 DEF HasRoot, FileDisk
    <2>3. disk.sigGen # 2 BY <2>2 DEF FileDisk, RootOK, Real
    <2>4. CASE Wrote("rootCert", minted + 1, "rootKey") /\ mem' = [mem EXCEPT !.root = minted + 1]
      <3>1. disk' = [disk EXCEPT !.rootCert = minted + 1] /\ stage' = "rootKey" BY <2>4 DEF Wrote
      <3>2. DOMAIN mem' = MemFields /\ mem'.root = minted + 1 BY <2>4 DEF FileTypes, MemFields
      <3>3. DOMAIN disk' = DiskFields /\ disk'.rootCert = minted + 1 /\ disk'.rootKey = disk.rootKey /\ disk'.sigGen = disk.sigGen
        BY <3>1 DEF FileTypes, DiskFields
      <3>4. FileTypes' BY <2>1, <3>2, <3>3 DEF FileTypes
      <3>5. minted + 1 \in Nat /\ minted + 1 # 0 /\ minted + 1 # -1 BY DEF FileTypes
      <3>6. FileDisk' BY <2>2, <2>3, <3>3, <3>5 DEF FileDisk
      <3>7. FileStage' BY <2>2, <3>1, <3>2, <3>3, <3>5 DEF FileStage, Real
      <3> QED BY <3>4, <3>6, <3>7
    <2>5. CASE Dies("rootCert", Torn)
      <3>1. disk' = [disk EXCEPT !.rootCert = Torn] /\ stage' = "down" /\ mem' = NothingLoaded BY <2>5 DEF Dies
      <3>2. DOMAIN disk' = DiskFields /\ disk'.rootCert = Torn /\ disk'.rootKey = disk.rootKey /\ disk'.sigGen = disk.sigGen
        BY <3>1 DEF FileTypes, DiskFields
      <3>3. FileTypes' BY <2>1, <3>1, <3>2, NothingLoadedIs DEF FileTypes
      <3>4. FileDisk' BY <2>2, <2>3, <3>2 DEF FileDisk
      <3> QED BY <3>1, <3>3, <3>4 DEF FileStage
    <2> QED BY <1>2, <2>4, <2>5 DEF generate_ca
  <1>3. CASE WriteRootKey
    <2>1. /\ minted' = minted /\ trusted' = trusted /\ mem.root = disk.rootCert /\ Real(mem.root) /\ disk.rootKey = Missing
      BY <1>3 DEF WriteRootKey, FileStage
    <2>2. disk.sigGen # 2 BY <2>1 DEF FileDisk, RootOK, Real
    <2>3. CASE Wrote("rootKey", mem.root, "signing") /\ UNCHANGED mem
      <3>1. disk' = [disk EXCEPT !.rootKey = mem.root] /\ stage' = "signing" BY <2>3 DEF Wrote
      <3>2. DOMAIN disk' = DiskFields /\ disk'.rootCert = disk.rootCert /\ disk'.rootKey = mem.root /\ disk'.sigGen = disk.sigGen
        BY <3>1 DEF FileTypes, DiskFields
      <3>3. FileTypes' BY <2>1, <2>3, <3>2 DEF FileTypes
      <3>4. FileDisk' BY <2>1, <2>2, <3>2 DEF FileDisk, Real
      <3>5. FileStage' BY <2>1, <2>3, <3>1, <3>2 DEF FileStage, RootOK, Real
      <3> QED BY <3>3, <3>4, <3>5
    <2>4. CASE Dies("rootKey", Torn)
      <3>1. disk' = [disk EXCEPT !.rootKey = Torn] /\ stage' = "down" /\ mem' = NothingLoaded BY <2>4 DEF Dies
      <3>2. DOMAIN disk' = DiskFields /\ disk'.rootCert = disk.rootCert /\ disk'.rootKey = Torn /\ disk'.sigGen = disk.sigGen
        BY <3>1 DEF FileTypes, DiskFields
      <3>3. FileTypes' BY <2>1, <3>1, <3>2, NothingLoadedIs DEF FileTypes
      <3>4. FileDisk' BY <2>1, <2>2, <3>2 DEF FileDisk, Real
      <3> QED BY <3>1, <3>3, <3>4 DEF FileStage
    <2> QED BY <1>3, <2>3, <2>4 DEF WriteRootKey
  <1> QED BY <1>1, <1>2, <1>3

LEMMA FileSigning ==
  ASSUME FileTypes, FileDisk, FileStage, LoadSigning \/ generate_signing_ca \/ WriteSigningKey \/ WriteGeneration
  PROVE  FileTypes' /\ FileDisk' /\ FileStage'
  <1> USE DEF Missing, Torn
  <1>1. CASE LoadSigning
    <2>1. stage = "signing" /\ RootOK /\ mem.root = disk.rootCert /\ disk.sigGen = 2 /\ SigningOK
      BY <1>1 DEF LoadSigning, HasSigning, signing_generation, FileStage, FileDisk
    <2>2. Torn \notin {disk.sigCert.id, disk.sigKey} BY <2>1 DEF SigningOK, Real
    <2>3. /\ stage' = "copy" /\ mem' = [mem EXCEPT !.cert = disk.sigCert, !.key = disk.sigKey]
          /\ UNCHANGED <<disk, minted, trusted>>
      BY <1>1, <2>2 DEF LoadSigning
    <2>4. DOMAIN mem' = MemFields /\ mem'.root = mem.root /\ mem'.cert = disk.sigCert /\ mem'.key = disk.sigKey
      BY <2>3 DEF FileTypes, MemFields
    <2>5. FileTypes' BY <2>3, <2>4 DEF FileTypes
    <2>6. FileDisk' BY <2>3 DEF FileDisk, RootOK, SigningOK
    <2>7. FileStage' BY <2>1, <2>3, <2>4 DEF FileStage, RootOK, SigningOK, MemPair
    <2> QED BY <2>5, <2>6, <2>7
  <1>2. CASE generate_signing_ca
    <2> DEFINE cert == [id |-> minted + 1, by |-> mem.root]
    <2>1. /\ stage = "signing" /\ minted' = minted + 1 /\ trusted' = trusted /\ ~HasSigning /\ RootOK
          /\ mem.root = disk.rootCert
      BY <1>2 DEF generate_signing_ca, FileStage
    <2>2. disk.sigGen # 2
      <3> SUFFICES ASSUME disk.sigGen = 2 PROVE FALSE OBVIOUS
      <3>1. SigningOK BY DEF FileDisk
      <3>2. disk.sigCert # NoCert BY <3>1 DEF SigningOK, NoCert, Real
      <3> QED BY <2>1, <3>1, <3>2 DEF HasSigning, signing_generation, SigningOK, Real
    <2>3. minted + 1 \in Nat /\ minted + 1 # 0 BY DEF FileTypes
    <2>4. CASE Wrote("sigCert", cert, "sigKey") /\ mem' = [mem EXCEPT !.cert = cert, !.key = cert.id]
      <3>1. disk' = [disk EXCEPT !.sigCert = cert] /\ stage' = "sigKey" BY <2>4 DEF Wrote
      <3>2. cert.id = minted + 1 /\ cert.by = mem.root OBVIOUS
      <3>3. mem' = [mem EXCEPT !.cert = cert, !.key = minted + 1] BY <2>4
      <3> HIDE DEF cert
      <3>4. DOMAIN mem' = MemFields /\ mem'.root = mem.root /\ mem'.cert = cert /\ mem'.key = minted + 1
        BY <3>3 DEF FileTypes, MemFields
      <3>5. /\ DOMAIN disk' = DiskFields /\ disk'.rootCert = disk.rootCert /\ disk'.rootKey = disk.rootKey
            /\ disk'.sigCert = cert /\ disk'.sigGen = disk.sigGen
        BY <3>1 DEF FileTypes, DiskFields
      <3>6. FileTypes' BY <2>1, <2>3, <3>4, <3>5 DEF FileTypes
      <3>7. FileDisk' BY <2>1, <2>2, <3>5 DEF FileDisk
      <3>8. FileStage' BY <2>1, <2>2, <2>3, <3>1, <3>2, <3>4, <3>5 DEF FileStage, RootOK, MemPair, Real
      <3> QED BY <3>6, <3>7, <3>8
    <2>5. CASE Dies("sigCert", TornCert)
      <3>1. disk' = [disk EXCEPT !.sigCert = TornCert] /\ stage' = "down" /\ mem' = NothingLoaded BY <2>5 DEF Dies
      <3>2. /\ DOMAIN disk' = DiskFields /\ disk'.rootCert = disk.rootCert /\ disk'.rootKey = disk.rootKey
            /\ disk'.sigGen = disk.sigGen
        BY <3>1 DEF FileTypes, DiskFields
      <3>3. FileTypes' BY <2>1, <2>3, <3>1, <3>2, NothingLoadedIs DEF FileTypes
      <3>4. FileDisk' BY <2>1, <2>2, <3>2 DEF FileDisk
      <3> QED BY <3>1, <3>3, <3>4 DEF FileStage
    <2> QED BY <1>2, <2>4, <2>5 DEF generate_signing_ca
  <1>3. CASE WriteSigningKey
    <2>1. /\ stage = "sigKey" /\ UNCHANGED <<minted, trusted>> /\ RootOK /\ mem.root = disk.rootCert
          /\ MemPair /\ Real(mem.key) /\ disk.sigCert = mem.cert /\ disk.sigGen # 2
      BY <1>3 DEF WriteSigningKey, FileStage
    <2>2. CASE Wrote("sigKey", mem.key, "sigGen") /\ UNCHANGED mem
      <3>1. disk' = [disk EXCEPT !.sigKey = mem.key] /\ stage' = "sigGen" BY <2>2 DEF Wrote
      <3>2. /\ DOMAIN disk' = DiskFields /\ disk'.rootCert = disk.rootCert /\ disk'.rootKey = disk.rootKey
            /\ disk'.sigGen = disk.sigGen /\ disk'.sigCert = disk.sigCert /\ disk'.sigKey = mem.key
        BY <3>1 DEF FileTypes, DiskFields
      <3>3. FileTypes' BY <2>1, <2>2, <3>2 DEF FileTypes
      <3>4. FileDisk' BY <2>1, <3>2 DEF FileDisk
      <3>5. FileStage' BY <2>1, <2>2, <3>1, <3>2 DEF FileStage, RootOK, MemPair
      <3> QED BY <3>3, <3>4, <3>5
    <2>3. CASE Dies("sigKey", Torn)
      <3>1. disk' = [disk EXCEPT !.sigKey = Torn] /\ stage' = "down" /\ mem' = NothingLoaded BY <2>3 DEF Dies
      <3>2. /\ DOMAIN disk' = DiskFields /\ disk'.rootCert = disk.rootCert /\ disk'.rootKey = disk.rootKey
            /\ disk'.sigGen = disk.sigGen
        BY <3>1 DEF FileTypes, DiskFields
      <3>3. FileTypes' BY <2>1, <3>1, <3>2, NothingLoadedIs DEF FileTypes
      <3>4. FileDisk' BY <2>1, <3>2 DEF FileDisk
      <3> QED BY <3>1, <3>3, <3>4 DEF FileStage
    <2> QED BY <1>3, <2>2, <2>3 DEF WriteSigningKey
  <1>4. CASE WriteGeneration
    <2>1. /\ stage = "sigGen" /\ UNCHANGED <<mem, minted, trusted>> /\ RootOK /\ mem.root = disk.rootCert
          /\ MemPair /\ Real(mem.key) /\ disk.sigCert = mem.cert /\ disk.sigKey = mem.key
          /\ disk' = [disk EXCEPT !.sigGen = 2] /\ stage' = "copy"
      BY <1>4 DEF WriteGeneration, FileStage, Wrote, signing_generation
    <2>2. /\ DOMAIN disk' = DiskFields /\ disk'.rootCert = disk.rootCert /\ disk'.rootKey = disk.rootKey
          /\ disk'.sigGen = 2 /\ disk'.sigCert = disk.sigCert /\ disk'.sigKey = disk.sigKey
      BY <2>1 DEF FileTypes, DiskFields
    <2>3. FileTypes' BY <2>1, <2>2 DEF FileTypes
    <2>4. RootOK' /\ SigningOK' BY <2>1, <2>2 DEF RootOK, SigningOK, MemPair
    <2>5. FileDisk' BY <2>1, <2>2, <2>4 DEF FileDisk
    <2>6. FileStage' BY <2>1, <2>2, <2>4 DEF FileStage, MemPair
    <2> QED BY <2>3, <2>5, <2>6
  <1> QED BY <1>1, <1>2, <1>3, <1>4

LEMMA FileCopy ==
  ASSUME FileTypes, FileDisk, FileStage, CopyCert \/ CopyKey \/ CopySkipped \/ InstallTrust
  PROVE  FileTypes' /\ FileDisk' /\ FileStage'
  <1> USE DEF Missing, Torn
  <1>1. CASE CopyCert
    <2>1. /\ stage = "copy" /\ UNCHANGED <<minted, trusted>> /\ RootOK /\ mem.root = disk.rootCert
          /\ MemPair /\ Real(mem.key) /\ disk.sigCert = mem.cert /\ disk.sigKey = mem.key /\ disk.sigGen = 2
      BY <1>1 DEF CopyCert, FileStage
    <2>2. ASSUME NEW x, disk' = [disk EXCEPT !.copyCert = x]
          PROVE  /\ DOMAIN disk' = DiskFields /\ disk'.rootCert = disk.rootCert /\ disk'.rootKey = disk.rootKey
                 /\ disk'.sigGen = disk.sigGen /\ disk'.sigCert = disk.sigCert /\ disk'.sigKey = disk.sigKey
                 /\ disk'.copyCert = x
      BY <2>2 DEF FileTypes, DiskFields
    <2>3. CASE Wrote("copyCert", disk.sigCert, "copyKey") /\ UNCHANGED mem
      <3>1. disk' = [disk EXCEPT !.copyCert = disk.sigCert] /\ stage' = "copyKey" BY <2>3 DEF Wrote
      <3>2. FileTypes' BY <2>1, <2>2, <2>3, <3>1 DEF FileTypes
      <3>3. FileDisk' BY <2>1, <2>2, <3>1 DEF FileDisk, RootOK, SigningOK
      <3>4. FileStage' BY <2>1, <2>2, <2>3, <3>1 DEF FileStage, RootOK, MemPair
      <3> QED BY <3>2, <3>3, <3>4
    <2>4. CASE Dies("copyCert", TornCert)
      <3>1. disk' = [disk EXCEPT !.copyCert = TornCert] /\ stage' = "down" /\ mem' = NothingLoaded BY <2>4 DEF Dies
      <3>2. FileTypes' BY <2>1, <2>2, <3>1, NothingLoadedIs DEF FileTypes
      <3>3. FileDisk' BY <2>1, <2>2, <3>1 DEF FileDisk, RootOK, SigningOK
      <3> QED BY <3>1, <3>2, <3>3 DEF FileStage
    <2> QED BY <1>1, <2>3, <2>4 DEF CopyCert
  <1>2. CASE CopyKey
    <2>1. /\ stage = "copyKey" /\ UNCHANGED <<minted, trusted>> /\ RootOK /\ mem.root = disk.rootCert
          /\ MemPair /\ Real(mem.key) /\ disk.sigCert = mem.cert /\ disk.sigKey = mem.key /\ disk.sigGen = 2
          /\ disk.copyCert = mem.cert
      BY <1>2 DEF CopyKey, FileStage
    <2>2. ASSUME NEW x, disk' = [disk EXCEPT !.copyKey = x]
          PROVE  /\ DOMAIN disk' = DiskFields /\ disk'.rootCert = disk.rootCert /\ disk'.rootKey = disk.rootKey
                 /\ disk'.sigGen = disk.sigGen /\ disk'.sigCert = disk.sigCert /\ disk'.sigKey = disk.sigKey
                 /\ disk'.copyCert = disk.copyCert /\ disk'.copyKey = x
      BY <2>2 DEF FileTypes, DiskFields
    <2>3. CASE Wrote("copyKey", disk.sigKey, "trust") /\ UNCHANGED mem
      <3>1. disk' = [disk EXCEPT !.copyKey = disk.sigKey] /\ stage' = "trust" BY <2>3 DEF Wrote
      <3>2. FileTypes' BY <2>1, <2>2, <2>3, <3>1 DEF FileTypes
      <3>3. FileDisk' BY <2>1, <2>2, <3>1 DEF FileDisk, RootOK, SigningOK
      <3>4. FileStage' BY <2>1, <2>2, <2>3, <3>1 DEF FileStage, RootOK, MemPair
      <3> QED BY <3>2, <3>3, <3>4
    <2>4. CASE Dies("copyKey", Torn)
      <3>1. disk' = [disk EXCEPT !.copyKey = Torn] /\ stage' = "down" /\ mem' = NothingLoaded BY <2>4 DEF Dies
      <3>2. FileTypes' BY <2>1, <2>2, <3>1, NothingLoadedIs DEF FileTypes
      <3>3. FileDisk' BY <2>1, <2>2, <3>1 DEF FileDisk, RootOK, SigningOK
      <3> QED BY <3>1, <3>2, <3>3 DEF FileStage
    <2> QED BY <1>2, <2>3, <2>4 DEF CopyKey
  <1>3. CASE CopySkipped
    <2>1. stage \in {"copy", "copyKey"} /\ (disk.sigCert = NoCert \/ disk.sigKey = Missing) BY <1>3 DEF CopySkipped
    <2>2. Real(mem.key) /\ disk.sigCert = mem.cert /\ MemPair /\ disk.sigKey = mem.key BY <2>1 DEF FileStage
    <2>3. FALSE BY <2>1, <2>2 DEF Real, MemPair, NoCert
    <2> QED BY <2>3
  <1>4. CASE InstallTrust
    <2>1. stage = "trust" /\ stage' = "network" /\ UNCHANGED <<disk, minted, mem>> BY <1>4 DEF InstallTrust
    <2>2. disk.rootCert # Missing BY <2>1 DEF FileStage, RootOK, Real
    <2>3. FileTypes' BY <2>1 DEF FileTypes
    <2>4. FileDisk' BY <2>1, <2>2 DEF FileDisk, RootOK, SigningOK
    <2>5. FileStage' BY <2>1 DEF FileStage, RootOK, MemPair
    <2> QED BY <2>3, <2>4, <2>5
  <1> QED BY <1>1, <1>2, <1>3, <1>4

LEMMA FileTypesStep ==
  ASSUME FileTypes, [Next]_vars
  PROVE  FileTypes'
  <1> USE NothingLoadedIs DEF FileTypes
  <1>1. ASSUME UNCHANGED <<disk, minted>>, mem' \in {mem, NothingLoaded} PROVE FileTypes' BY <1>1
  <1>2. ASSUME NEW file, NEW x, disk' = [disk EXCEPT ![file] = x] PROVE DOMAIN disk' = DiskFields BY <1>2
  <1>3. CASE CertStep
    <2>1. minted' \in Nat
      BY <1>3 DEF CertStep, SetUp, LoadRoot, generate_ca, WriteRootKey, LoadSigning, generate_signing_ca,
                  WriteSigningKey, WriteGeneration, CopyCert, CopyKey, CopySkipped, InstallTrust
    <2>2. DOMAIN disk' = DiskFields
      BY <1>2, <1>3 DEF CertStep, SetUp, LoadRoot, generate_ca, WriteRootKey, LoadSigning, generate_signing_ca,
                  WriteSigningKey, WriteGeneration, CopyCert, CopyKey, CopySkipped, InstallTrust, Wrote, Dies
    <2>3. DOMAIN mem' = MemFields
      BY <1>3 DEF CertStep, SetUp, LoadRoot, generate_ca, WriteRootKey, LoadSigning, generate_signing_ca,
                  WriteSigningKey, WriteGeneration, CopyCert, CopyKey, CopySkipped, InstallTrust, Dies
    <2> QED BY <2>1, <2>2, <2>3
  <1> USE DEF certVars
  <1>4. CASE Boot \/ BootNetwork \/ Exit \/ Crash
    BY <1>1, <1>4 DEF Boot, BootNetwork, Exit, Crash, ProcessEnds, Dead, Begin
  <1>5. CASE Environment BY <1>1, <1>5 DEF Environment, Publish, wire_actor, Unwire, OtherListens
  <1>6. ASSUME NEW t \in Gens \X Effects, TaskStep(t) PROVE FileTypes'
    BY <1>1, <1>6 DEF TaskStep, Look, WriteHosts, install_os_resolver_config, WriteFails, reconcile
  <1>7. ASSUME NEW c \in Threads, CallStep(c) PROVE FileTypes'
    <2>1. CASE Erase(c) BY <2>1 DEF Erase
    <2>2. CASE ~Erase(c)
      BY <1>1, <1>7, <2>2 DEF CallStep, CheckActive, BindDns, AddAlias, Bind, SpawnEffects, StoreActive, ActivateFails,
           TakeActive, ClearInstalled, LoadSettings, SaveSettings, SaveFails, Sweep, Untrust, Untouched, ProcessEnds, Dead
    <2> QED BY <2>1, <2>2
  <1>8. ASSUME NEW c, NEW kind, NEW socket, Ask(c, kind, socket) PROVE FileTypes' BY <1>1, <1>8 DEF Ask, Untouched
  <1>9. CASE UNCHANGED vars BY <1>1, <1>9 DEF vars
  <1> QED BY <1>3, <1>4, <1>5, <1>6, <1>7, <1>8, <1>9 DEF Next

LEMMA FileSame ==
  ASSUME FileDisk, FileStage, UNCHANGED <<disk, mem, stage>>, trusted' \in {trusted, {}}
  PROVE  FileDisk' /\ FileStage'
  BY DEF FileDisk, FileStage, RootOK, SigningOK, MemPair, MemOnDisk

LEMMA FileUp ==
  ASSUME FileDisk, FileStage, UNCHANGED <<disk, mem, trusted>>, stage = "network", stage' = "up"
  PROVE  FileDisk' /\ FileStage'
  <1>1. MemPair /\ MemOnDisk BY DEF FileStage, MemOnDisk
  <1>2. FileDisk' BY DEF FileDisk, RootOK, SigningOK
  <1>3. FileStage' BY <1>1 DEF FileStage, MemPair, MemOnDisk, RootOK
  <1> QED BY <1>2, <1>3

LEMMA FileErase ==
  ASSUME CallInv, ApartInv, GoneInv, FileDisk, FileStage, Crossless, NEW c \in Threads, Erase(c)
  PROVE  FileDisk' /\ FileStage'
  <1>1. calls[c].pc = "erase" /\ disk' = NoFiles /\ UNCHANGED <<mem, stage, trusted>> BY DEF Erase, At
  <1>2. calls[c].kind = "purge" BY <1>1 DEF CallInv, CallOK, Fits, Activating, Deactivating
  <1>3. c \in Switching BY <1>1, <1>2 DEF Switching
  <1>4. stage \in {"up", "down"} BY <1>2, <1>3 DEF ApartInv
  <1>5. trusted = {} BY <1>1, <1>2 DEF GoneInv, GoneTrust, Undone
  <1>6. FileDisk' BY <1>1, <1>5, NothingLoadedIs DEF FileDisk, Missing
  <1>7. FileStage' BY <1>1, <1>4 DEF FileStage, MemPair
  <1> QED BY <1>6, <1>7

LEMMA FileStep ==
  ASSUME CallInv, ApartInv, GoneInv, FileInv, [Next]_vars
  PROVE  FileInv'
  <1>0. FileTypes /\ FileTypes' BY FileTypesStep DEF FileInv
  <1> SUFFICES ASSUME Crossless' PROVE FileDisk' /\ FileStage' BY <1>0 DEF FileInv
  <1>00. races \subseteq races' BY RacesGrow
  <1>000. Crossless /\ FileDisk /\ FileStage BY <1>00 DEF Crossless, FileInv
  <1> USE DEF certVars
  <1>1. CASE CertStep BY <1>0, <1>000, <1>1, FileRoot, FileSigning, FileCopy DEF CertStep, SetUp
  <1>2. CASE Boot BY <1>0, <1>000, <1>2, FileDead DEF Boot, Begin, certVars, CertStep
  <1>3. CASE BootNetwork
    BY <1>000, <1>3, FileSame, FileUp DEF BootNetwork
  <1>4. CASE Exit BY <1>0, <1>000, <1>4, FileDead DEF Exit, Dead
  <1>5. CASE Crash BY <1>0, <1>000, <1>5, FileDead DEF Crash, ProcessEnds, Dead
  <1>6. CASE Environment
    BY <1>000, <1>6, FileSame DEF Environment, Publish, wire_actor, Unwire, OtherListens
  <1>7. ASSUME NEW t \in Gens \X Effects, TaskStep(t) PROVE FileDisk' /\ FileStage'
    BY <1>000, <1>7, FileSame DEF TaskStep, Look, WriteHosts, install_os_resolver_config, WriteFails, reconcile
  <1>8. ASSUME NEW c \in Threads, CallStep(c) PROVE FileDisk' /\ FileStage'
    <2>1. CASE Erase(c) BY <1>000, <2>1, FileErase
    <2>2. CASE StoreActive(c)
      <3>1. UNCHANGED <<disk, mem, trusted>> /\ calls[c].pc = "store" BY <2>2 DEF StoreActive, At
      <3>2. CASE c = "fghjd"
        <4>1. stage = "network" BY <3>1, <3>2 DEF CallInv, CallOK, Fits, Activating
        <4> QED BY <1>000, <2>2, <3>1, <3>2, <4>1, FileUp DEF StoreActive
      <3>3. CASE c # "fghjd" BY <1>000, <2>2, <3>1, <3>3, FileSame DEF StoreActive
      <3> QED BY <3>2, <3>3
    <2>3. CASE ProcessEnds BY <1>0, <1>000, <2>3, <1>8, FileDead DEF ProcessEnds, Dead
    <2>4. CASE ~Erase(c) /\ ~StoreActive(c) /\ ~ProcessEnds
      <3>1. UNCHANGED <<disk, mem, stage>> /\ trusted' \in {trusted, {}}
        BY <1>8, <2>4 DEF CallStep, CheckActive, BindDns, AddAlias, Bind, SpawnEffects, ActivateFails,
           TakeActive, ClearInstalled, LoadSettings, SaveSettings, SaveFails, Sweep, Untrust, Untouched
      <3> QED BY <1>000, <3>1, FileSame
    <2> QED BY <2>1, <2>2, <2>3, <2>4
  <1>9. ASSUME NEW c, NEW kind, NEW socket, Ask(c, kind, socket) PROVE FileDisk' /\ FileStage'
    BY <1>000, <1>9, FileSame DEF Ask, Untouched
  <1>10. CASE UNCHANGED vars BY <1>000, <1>10, FileSame DEF vars
  <1> QED BY <1>1, <1>2, <1>3, <1>4, <1>5, <1>6, <1>7, <1>8, <1>9, <1>10 DEF Next

----------------------------------------------------------------------------
DaemonInv ==
  /\ WakeInv /\ CallInv /\ OwnInv /\ ApartInv /\ SavedInv /\ CleanInv /\ GoneInv /\ LeftInv /\ FileInv

LEMMA DaemonStarts ==
  ASSUME Init
  PROVE  DaemonInv
  <1> USE DEF Init
  <1>1. WakeInv BY FreshOK DEF WakeInv, TaskIds
  <1>2. \A c \in Threads : calls[c] = Idle OBVIOUS
  <1>3. CallInv BY <1>2, IdleIs DEF CallInv, CallOK, Fits
  <1>4. \A c \in Threads : calls[c].pc = "done" BY <1>2, IdleIs
  <1>5. \A c \in Threads : \A kinds, pcs : "done" \notin pcs => ~Undone(c, kinds, pcs) BY <1>4 DEF Undone
  <1>6. OwnInv
    <2>1. OwnNumbers BY <1>4 DEF OwnNumbers, Numbered
    <2>2. \A c \in Threads, p \in {"http", "https"} : ~Holds(c, p) BY <1>4, HoldersAre DEF Holds
    <2>3. OwnPorts BY <2>2 DEF OwnPorts
    <2>4. OwnTasks BY OffIs DEF OwnTasks, Working, Up, TaskIds
    <2> QED BY <2>1, <2>3, <2>4 DEF OwnInv
  <1>7. Switching = {} BY <1>4 DEF Switching
  <1>8. ApartInv BY <1>7 DEF ApartInv
  <1>9. SavedInv
    <2>1. PICK i \in BOOLEAN : settings = [DefaultSettings EXCEPT !.idle = i] OBVIOUS
    <2>2. DOMAIN settings = {"idle", "socket"} /\ settings.idle = i BY <2>1 DEF DefaultSettings
    <2>3. settings.idle = (chosen = "off") BY <2>2
    <2> QED BY <1>5, <2>2, <2>3 DEF SavedInv, SavedChoice, SavedIdle, SavedBoot, SavedStop, Activating, Released
  <1>10. NothingLeft /\ ~alias /\ raw.listeners = <<>> /\ CleanRaw BY DEF NothingLeft, NoRaw, CleanRaw
  <1>11. CleanInv BY <1>10 DEF CleanInv, CleanIdle, CleanAlias, CleanStop, Silent
  <1>12. chosen # "gone" OBVIOUS
  <1>13. GoneInv BY <1>5, <1>12 DEF GoneInv, GoneTrust, GoneQuiet
  <1>14. LeftInv BY <1>10 DEF LeftInv, LeftPurge, LeftGone
  <1>15. FileInv
    <2>1. disk = OldFiles /\ stage = "down" /\ mem = NothingLoaded /\ minted = 2 BY DEF CertsInit
    <2>2. disk.rootCert = 1 /\ disk.rootKey = 1 /\ disk.sigGen = 1 BY <2>1 DEF OldFiles
    <2> QED BY <2>1, <2>2, NothingLoadedIs DEF FileInv, FileTypes, FileDisk, FileStage, Missing, Torn
  <1> QED BY <1>1, <1>3, <1>6, <1>8, <1>9, <1>11, <1>13, <1>14, <1>15 DEF DaemonInv

LEMMA DaemonSteps ==
  ASSUME DaemonInv, [Next]_vars
  PROVE  DaemonInv'
  <1> USE DEF DaemonInv
  <1>1. WakeInv' /\ CallInv' BY WakeStep, CallStepOK
  <1>2. OwnInv' BY OwnStep
  <1>3. ApartInv' BY <1>1, ApartStep
  <1>4. SavedInv' BY SavedStep
  <1>5. CleanInv' BY CleanStep
  <1>6. GoneInv' /\ LeftInv' BY GoneStep, LeftStep
  <1>7. FileInv' BY FileStep
  <1> QED BY <1>1, <1>2, <1>3, <1>4, <1>5, <1>6, <1>7

LEMMA DaemonAlways == Spec => []DaemonInv
  <1>1. Init => DaemonInv BY DaemonStarts
  <1>2. DaemonInv /\ [Next]_vars => DaemonInv' BY DaemonSteps
  <1> QED BY <1>1, <1>2, PTL DEF Spec

(* Starting and stopping fghjd (daemon/control.rs): however requests, crashes, failures and *)
(* effects interleave, the tasks that go on writing are one activation's; unless requests   *)
(* to switch it crossed or its file was lost, torn or not saved, fghjd is off when it was   *)
(* last told to stop; and nothing on the machine leads to it then, unless a crash cut the   *)
(* stop short or a write of a task that was called off came late.                           *)
THEOREM StopAlwaysHolds == Spec => []StopHolds
  <1>1. DaemonInv => StopHolds BY OwnOneWriter, SavedSurvives, CleanReleases DEF DaemonInv, StopHolds
  <1> QED BY <1>1, DaemonAlways, PTL

(* The certificates (web/ca.rs, uninstall.rs): whatever writes a crash cut short, what fghjd *)
(* signs with is the pair on disk, under the root on disk; and after an uninstall no root is *)
(* trusted and nothing is left on the machine. Requests that crossed excepted, and, for what *)
(* is left, a step that failed and a late write of a task that was called off.               *)
THEOREM CertsAlwaysHold == Spec => []CertsHold
  <1>1. DaemonInv => CertsAgree
    <2> SUFFICES ASSUME FileInv, stage \in {"trust", "network", "up"}, Crossless
                 PROVE  /\ mem.cert.by = mem.root /\ mem.cert.id = mem.key
                        /\ disk # NoFiles => disk.sigCert = mem.cert /\ disk.sigKey = mem.key /\ disk.rootKey = mem.root
                                             /\ disk.copyCert = mem.cert /\ disk.copyKey = mem.key
      BY DEF CertsAgree, DaemonInv, Crossless
    <2>1. FileStage BY DEF FileInv
    <2>2. CASE stage = "up" BY <2>1, <2>2 DEF FileStage, MemPair, MemOnDisk, RootOK
    <2>3. CASE stage # "up" BY <2>1, <2>3 DEF FileStage, MemPair, RootOK
    <2> QED BY <2>2, <2>3
  <1>2. DaemonInv => Purged
    <2>1. DaemonInv /\ Crossless /\ disk.rootCert = Missing => trusted = {} BY DEF DaemonInv, FileInv, FileDisk
    <2>2. DaemonInv /\ chosen = "gone" /\ races \cap {"crossed", "failed", "late"} = {} =>
            hostsFile = {} /\ osDns = <<>> /\ ~alias /\ trusted = {}
      BY DEF DaemonInv, LeftInv, LeftGone, GoneInv, GoneQuiet, Kept, Crossless, NothingLeft
    <2> QED BY <2>1, <2>2 DEF Purged, Crossless
  <1> QED BY <1>1, <1>2, DaemonAlways, PTL DEF CertsHold
=============================================================================
