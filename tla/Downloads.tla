----------------------------- MODULE Downloads ------------------------------
(***************************************************************************)
(* src/src/downloads.rs: pulls, each a thread of its own, that clone what   *)
(* the graph of a workspace misses and then fetch the images its nodes run. *)
(* Threads of different keys share the disk, the machine's images and the   *)
(* log, and nothing keeps them apart; fghjd may die under all of them.      *)
(***************************************************************************)
EXTENDS Activities

CONSTANTS
  Folder,       \* workspace folders and clones of build sources
  Holds,        \* what a folder has when cloned: its repo and version, what its .fghj.yaml says
  InitialDisks,
  Wanted,       \* a pull's key: the folders it is for
  MaxStarts, MaxCrashes,
  MaxItems,     \* clones are recorded up to this many items
  MaxSwitch     \* a switch reports while the log has had fewer items

\* What git clone makes of a folder, from its first file to the checkout of a commit.
Cloned(f) == [origin : {Holds[f].repo}, at : {None, "default", Holds[f].at}, whole : BOOLEAN]
\* None is no clone; a switch is not a pull; a source that is there at first is at its version.
ASSUME DownloadsAssumption ==
  /\ IsFiniteSet({Holds[f].image : f \in Folder}) /\ <<"switch">> \notin DOMAIN Wanted
  /\ \A f \in Folder : None \notin Cloned(f)
  /\ \A d \in InitialDisks : DOMAIN d = Folder /\ \A f \in Folder : d[f] # None =>
       /\ DOMAIN d[f] = {"origin", "at", "whole"} /\ d[f].whole \in BOOLEAN
       /\ d[f].whole /\ Holds[f].config = "source" => d[f].at = Holds[f].at

VARIABLES
  disk,         \* folder -> None, or [origin, at, whole]
  images,       \* what docker has
  log,
  job,          \* a pull's thread by its activity's id
  cut,          \* folders whose clone a crash of fghjd cut short
  crashes

vars == <<disk, images, log, job, cut, crashes>>

\* What a pull is doing: the folders it has yet to clone in this round, the folder and the
\* activity it is at, and the image steps it has listed.
Resolving(key) == [key |-> key, pc |-> "resolve", todo |-> {}, at |-> None, step |-> None, group |-> None, steps |-> <<>>]
Alive == {i \in DOMAIN job : job[i].pc # "ended"}
KeyOf(i) == job[i].key
\* pull-all and pull-flow:<flow>, or node:<id> of a stub or of a service.
IsNode(key) == key[1] \in {"stub", "service"}

Init == /\ disk \in InitialDisks
        /\ images = {}
        /\ log = EmptyLog
        /\ job = <<>>
        /\ cut = {}
        /\ crashes = 0

---------------------------------------------------------------------------
(* What resolve_universe says of a disk: see Resolver.  A folder is read    *)
(* once its .fghj.yaml is there, a source counts once its .git is.          *)

Is(f) == disk[f] # None /\ disk[f].whole /\ disk[f].origin = Holds[f].repo
Scanned == {f \in Folder : Is(f) /\ Holds[f].config = "ok"}
Stubs == UNION {Holds[f].includes : f \in Scanned} \ Scanned
missing_source == {s \in {Holds[f].source : f \in Scanned} \ {None} : disk[s] = None}
images_run_by(folders) == {Holds[f].image : f \in folders \cap Scanned} \ {None}
\* What a pull of `key` still has to clone: sources first.
Lacking(key) == {f \in Stubs : f \in Wanted[key]}
                \cup {s \in missing_source : \E f \in Scanned \cap Wanted[key] : Holds[f].source = s}
IsSource(f) == Holds[f].config = "source"
NoSuchNode(key) == \/ key[1] = "stub" /\ key[2] \notin Stubs
                   \/ key[1] = "service" /\ key[2] \notin Scanned
\* A stub's id is gone once it is cloned, and nothing it runs is fetched with it.
ImagesFor(key) == IF key[1] = "stub" THEN {} ELSE images_run_by(Wanted[key])

---------------------------------------------------------------------------

\* post_pull_all, post_pull_node: a running pull of that key is joined.
spawn(key) ==
  /\ Cardinality(DOMAIN job) < MaxStarts
  /\ ~joins(log, key)
  /\ log' = start(log, key)
  /\ job' = [i \in DOMAIN job \cup {log.next_id} |-> IF i = log.next_id THEN Resolving(key) ELSE job[i]]
  /\ UNCHANGED <<disk, images, cut, crashes>>

Step(i, j) == job' = [job EXCEPT ![i] = j]
Ended(i) == [Resolving(KeyOf(i)) EXCEPT !.pc = "ended"]

\* The job's thread returns: what it listed and did not get to is called off.
Settle(i, ok) == log' = settle(log, {i}, ok) /\ Step(i, Ended(i))

\* One round of pull_all_logged, or the one clone of a node's pull.
Resolve(i) ==
  /\ job[i].pc = "resolve"
  /\ LET lacking == Lacking(KeyOf(i)) IN
     IF NoSuchNode(KeyOf(i)) THEN Settle(i, FALSE)
     ELSE Step(i, [job[i] EXCEPT !.pc = IF lacking = {} THEN "images" ELSE "clone", !.todo = lacking]) /\ log' = log
  /\ UNCHANGED <<disk, images, cut, crashes>>

\* A bug to look for: a folder is never crossed off.
Clone_again(i, f) ==
  /\ job[i].pc = "clone" /\ f \in job[i].todo
  /\ Step(i, [job[i] EXCEPT !.pc = "at", !.at = f])
  /\ UNCHANGED <<disk, images, log, cut, crashes>>
\* A pull of everything has a child for every clone; a node's pull is the clone.
Clone(i, f) ==
  /\ job[i].pc = "clone" /\ f \in job[i].todo
  /\ \A g \in job[i].todo : IsSource(g) => IsSource(f)
  /\ LET bare == IsNode(KeyOf(i)) \/ log.next_id > MaxItems IN
     /\ log' = IF bare THEN log ELSE child_of_kind(log, i, <<f>>)
     /\ Step(i, [job[i] EXCEPT !.pc = "at", !.todo = @ \ {f}, !.at = f,
                               !.step = IF bare THEN None ELSE child_handle(log, i)])
  /\ UNCHANGED <<disk, images, cut, crashes>>

\* A bug to look for: a pull of everything that does not look again after a layer.
After_once(i) == IF job[i].todo # {} THEN "clone" ELSE "images"
After(i) == IF job[i].todo # {} THEN "clone" ELSE IF IsNode(KeyOf(i)) THEN "images" ELSE "resolve"
\* A clone is over: its step settles, and an error is the whole pull's.
CloneSettles(i, ok) ==
  LET steps == {job[i].step} \ {None}
  IN  IF ok THEN log' = settle(log, steps, TRUE) /\ Step(i, [job[i] EXCEPT !.pc = After(i), !.at = None, !.step = None])
      ELSE log' = settle(log, steps \cup {i}, FALSE) /\ Step(i, Ended(i))

\* run_git_clone_logged, clone_source_logged: what is there already has to be the repo.
ensure_checkout_is(i) ==
  /\ job[i].pc = "at" /\ disk[job[i].at] # None
  /\ CloneSettles(i, disk[job[i].at].origin = Holds[job[i].at].repo)
  /\ UNCHANGED <<disk, images, cut, crashes>>
BeginClone(i) ==
  /\ job[i].pc = "at" /\ disk[job[i].at] = None
  /\ disk' = [disk EXCEPT ![job[i].at] = [origin |-> Holds[job[i].at].repo, at |-> None, whole |-> FALSE]]
  /\ Step(i, [job[i] EXCEPT !.pc = "cloning"])
  /\ UNCHANGED <<images, log, cut, crashes>>

\* git clone takes a branch, a tag or the default branch; a commit is checked out afterwards.
looks_like_commit(f) == Holds[f].at = "commit"
CloneDone(i) ==
  LET f == job[i].at IN
  /\ job[i].pc = "cloning"
  /\ disk' = [disk EXCEPT ![f].whole = TRUE, ![f].at = IF looks_like_commit(f) THEN "default" ELSE Holds[f].at]
  /\ IF looks_like_commit(f) THEN Step(i, [job[i] EXCEPT !.pc = "checkout"]) /\ log' = log
     ELSE CloneSettles(i, TRUE)
  /\ UNCHANGED <<images, cut, crashes>>
\* git removes what it began.
CloneFails(i) ==
  /\ job[i].pc = "cloning"
  /\ disk' = [disk EXCEPT ![job[i].at] = None]
  /\ CloneSettles(i, FALSE)
  /\ UNCHANGED <<images, cut, crashes>>
\* A bug to look for: a clone without the commit is kept.
Checkout_kept(i) ==
  /\ job[i].pc = "checkout"
  /\ \E ok \in BOOLEAN : /\ disk' = IF ok THEN [disk EXCEPT ![job[i].at].at = Holds[job[i].at].at] ELSE disk
                         /\ CloneSettles(i, ok)
  /\ UNCHANGED <<images, cut, crashes>>
\* Left at the default branch it would build the wrong version.
Checkout(i) ==
  /\ job[i].pc = "checkout"
  /\ \E ok \in BOOLEAN : /\ disk' = [disk EXCEPT ![job[i].at] = IF ok THEN [@ EXCEPT !.at = Holds[job[i].at].at] ELSE None]
                         /\ CloneSettles(i, ok)
  /\ UNCHANGED <<images, cut, crashes>>

---------------------------------------------------------------------------
(* pull_images_logged: an "images" child with a queued step for each.       *)

\* A node's pull resolves again, for what the clone brought.
ListImages(i) ==
  LET lacking == ImagesFor(KeyOf(i)) \ images
      group == log.next_id
  IN
  /\ job[i].pc = "images"
  /\ \/ lacking = {} /\ Settle(i, TRUE)
     \/ /\ lacking # {}
        /\ log' = queued_child(child_of_kind(log, i, <<"images">>), group, SetToSeq(lacking))
        /\ Step(i, [job[i] EXCEPT !.pc = "pulling", !.group = group, !.at = None,
                                  !.steps = [k \in DOMAIN SetToSeq(lacking) |-> group + k]])
  /\ UNCHANGED <<disk, images, cut, crashes>>
\* docker does not answer whether an image is there.
ListFails(i) ==
  /\ job[i].pc = "images" /\ ImagesFor(KeyOf(i)) # {}
  /\ Settle(i, FALSE)
  /\ UNCHANGED <<disk, images, cut, crashes>>

BeginImage(i) ==
  /\ job[i].pc = "pulling" /\ job[i].steps # <<>> /\ job[i].at = None
  /\ log' = begin(log, Head(job[i].steps))
  /\ Step(i, [job[i] EXCEPT !.at = Head(job[i].steps)])
  /\ UNCHANGED <<disk, images, cut, crashes>>
\* The first one that fails ends the pull.
pull_image(i) == \E ok \in BOOLEAN :
  LET step == job[i].at
      last == Len(job[i].steps) = 1
  IN
  /\ job[i].pc = "pulling" /\ step # None
  /\ images' = IF ok THEN images \cup {log.items[step].key[1]} ELSE images
  /\ IF ok /\ ~last THEN log' = settle(log, {step}, TRUE) /\ Step(i, [job[i] EXCEPT !.at = None, !.steps = Tail(@)])
     ELSE log' = settle(log, {step, job[i].group, i}, ok) /\ Step(i, Ended(i))
  /\ UNCHANGED <<disk, cut, crashes>>

---------------------------------------------------------------------------

\* fghjd dies: the log and the threads are gone, and a git it ran ends by itself or not at all.
Crash ==
  /\ crashes < MaxCrashes /\ Alive # {}
  /\ crashes' = crashes + 1
  /\ log' = EmptyLog /\ job' = <<>>
  /\ LET going == {job[i].at : i \in {a \in Alive : job[a].pc \in {"cloning", "checkout"}}}
     IN  /\ cut' = cut \cup going
         /\ \E left \in [going -> {"there", "gone"}] :
              disk' = [f \in Folder |-> IF f \notin going THEN disk[f]
                                        ELSE IF left[f] = "gone" /\ ~disk[f].whole THEN None ELSE disk[f]]
  /\ UNCHANGED images

\* A switch reports here too: a newer one supersedes it, and its task may go on for a while.
Switches == find_top(log, <<"switch">>)
Switch ==
  /\ log.next_id <= MaxSwitch
  /\ log' = start_superseding(log, <<"switch">>)
  /\ UNCHANGED <<disk, images, job, cut, crashes>>
SwitchChild(i) ==
  /\ i < log.next_id /\ i \notin DOMAIN job /\ log.next_id <= MaxSwitch
  /\ i \in DOMAIN log.items => i \in Switches /\ is_open(status_of(log, i))
  /\ log' = child_of_kind(log, i, <<"node">>)
  /\ UNCHANGED <<disk, images, job, cut, crashes>>
SwitchEnds(i) ==
  /\ i \in Switches /\ is_open(status_of(log, i))
  /\ log' = cancel(log, {i})
  /\ UNCHANGED <<disk, images, job, cut, crashes>>

Thread(i) ==
  \/ Resolve(i) \/ (\E f \in Folder : Clone(i, f)) \/ ensure_checkout_is(i) \/ BeginClone(i)
  \/ CloneDone(i) \/ CloneFails(i) \/ Checkout(i)
  \/ ListImages(i) \/ ListFails(i) \/ BeginImage(i) \/ pull_image(i)
Next == \/ \E key \in DOMAIN Wanted : spawn(key)
        \/ \E i \in DOMAIN job : Thread(i)
        \/ Crash \/ Switch
        \/ \E i \in 1..MaxSwitch : SwitchChild(i) \/ SwitchEnds(i)
Spec == Init /\ [][Next]_vars
Running(key) == \E i \in Alive : KeyOf(i) = key
Works(key) == \E i \in Alive : KeyOf(i) = key /\ Thread(i)
\* Every thread runs, and git and docker come to an end: WF_vars(Works(key)), written out because
\* Works(key) is enabled exactly while Running(key).
FairSpec == Spec /\ \A key \in DOMAIN Wanted : []<>~Running(key) \/ []<><<Works(key)>>_vars
---------------------------------------------------------------------------

TypeOK ==
  /\ \A f \in Folder : disk[f] = None \/ disk[f].whole \in BOOLEAN
  /\ \A i \in DOMAIN log.items : log.items[i].status \in ActivityStatus /\ i < log.next_id
  /\ \A i \in Alive : status_of(log, i) \in {"running", None} /\ (job[i].step # None => status_of(log, job[i].step) \in {"running", None})

\* activity.rs: a job joins one of its key that runs, so no two threads do one pull.
OnePull == \A i, j \in Alive : KeyOf(i) = KeyOf(j) => i = j

\* activity.rs, Inner::tree and DETACHED: nothing open is left under what is settled, and nothing
\* is recorded under what is gone, whoever still reports.
NothingLeftOpen ==
  \A i \in DOMAIN log.items : log.items[i].parent # None =>
    /\ log.items[i].parent \in DOMAIN log.items
    /\ is_open(log.items[i].status) => is_open(log.items[log.items[i].parent].status)

\* downloads.rs, pull_all_logged: a pull that is done has all it is for: the repos whole, the images
\* fetched and the sources cloned.  Except: a source another pull was cloning counts as there, and
\* is missing after all if that clone fails.
Failed == {j \in DOMAIN job : status_of(log, j) = "error"}
DoneMeansPulled ==
  [][\A i \in DOMAIN job \cap DOMAIN log'.items :
       /\ status_of(log, i) = "running" /\ log'.items[i].status = "done" /\ ~IsNode(KeyOf(i))
       => /\ \A f \in Lacking(KeyOf(i)) : IsSource(f) /\ Failed # {}
          /\ \A f \in Scanned \cap Wanted[KeyOf(i)] : Holds[f].image \in images' \cup {None}]_vars

\* downloads.rs, clone_source_logged: a source is at the version the build asks for, unless a pull is
\* on it; but a crash between the clone and the checkout of a commit is never repaired.
RightVersion ==
  \A f \in Folder : disk[f] # None /\ disk[f].whole /\ IsSource(f) =>
    \/ disk[f].at = Holds[f].at \/ f \in cut
    \/ \E i \in Alive : job[i].pc = "checkout" /\ job[i].at = f

\* Every pull comes to an end, if fghjd lives.  Except: an included repo whose .fghj.yaml is missing
\* or unreadable, or whose clone a crash cut short, stays a stub, and a pull of everything clones it for ever (see the README).
Hopeless == \E f \in Stubs : /\ disk[f] # None /\ disk[f].origin = Holds[f].repo
                            /\ ~\E i \in Alive : job[i].pc = "cloning" /\ job[i].at = f
PullsEnd == \A key \in DOMAIN Wanted :
  Running(key) ~> (Hopeless \/ ~Running(key))

\* What the activity list tells is so: one thread to a running pull, and nothing
\* that reads as running under what has ended.
PullsTell == TypeOK /\ OnePull /\ NothingLeftOpen
=============================================================================
