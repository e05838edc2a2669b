-------------------------- MODULE DownloadsProofs --------------------------
(***************************************************************************)
(* Proofs about Downloads for any folders, keys and numbers of pulls,       *)
(* switches and crashes: PullsTell and RightVersion are invariants.         *)
(***************************************************************************)
EXTENDS Downloads, FiniteSetTheorems, TLAPS

----------------------------------------------------------------------------
(* The activity list: what its operators keep.                             *)

Ids(l) == DOMAIN l.items
Par(l, x) == l.items[x].parent
Open(l, x) == is_open(l.items[x].status)
\* An item is under one that is there, which is open as long as it is, and has at most
\* two generations above it.
ItemOK(l, x) ==
  /\ DOMAIN l.items[x] = {"parent", "key", "status"} /\ l.items[x].status \in ActivityStatus
  /\ Par(l, x) # None =>
       /\ Par(l, x) \in Ids(l) /\ (Open(l, x) => Open(l, Par(l, x)))
       /\ Par(l, Par(l, x)) # None => Par(l, Par(l, x)) \in Ids(l) /\ Par(l, Par(l, Par(l, x))) = None
LogOK(l) ==
  /\ DOMAIN l = {"next_id", "items"} /\ l.next_id \in Nat \ {0} /\ Ids(l) \subseteq 1 .. l.next_id - 1
  /\ \A x \in Ids(l) : ItemOK(l, x)
\* The job an item belongs to.
Root(l, x) == IF Par(l, x) = None THEN x ELSE IF Par(l, Par(l, x)) = None THEN Par(l, x) ELSE Par(l, Par(l, x))
\* What belongs to a job is as it was.
Kept(l, m, i) == \A x \in Ids(l) : Root(l, x) = i => x \in Ids(m) /\ m.items[x] = l.items[x]

\* Ids are numbers below the next one.
LEMMA IdsAre ==
  ASSUME NEW l, LogOK(l), NEW x \in Ids(l)
  PROVE  x \in Nat /\ x # None /\ x < l.next_id /\ ItemOK(l, x)
  BY NoneAssumption DEF LogOK

\* A tree holds its roots, all that is under them and nothing of another job.
LEMMA TreeIs ==
  ASSUME NEW l, LogOK(l), NEW R
  PROVE  /\ tree(l, R) \subseteq Ids(l) /\ R \cap Ids(l) \subseteq tree(l, R)
         /\ \A x \in Ids(l) : Par(l, x) \in tree(l, R) => x \in tree(l, R)
         /\ \A x \in tree(l, R) : x \in R \/ (Par(l, x) # None /\ Par(l, x) \in tree(l, R))
         /\ \A x \in tree(l, R) : \E r \in R \cap Ids(l) : Root(l, x) = Root(l, r)
  <1> DEFINE A == R \cap Ids(l)
             B == A \cup {c \in Ids(l) : Par(l, c) \in A}
             C == B \cup {c \in Ids(l) : Par(l, c) \in B}
  <1>1. tree(l, R) = C BY DEF tree, Ids, Par
  <1>2. A \subseteq Ids(l) /\ B \subseteq Ids(l) /\ C \subseteq Ids(l) /\ A \subseteq C OBVIOUS
  <1>3. None \notin Ids(l) BY IdsAre
  <1>4. ASSUME NEW x \in Ids(l), Par(l, x) \in C PROVE x \in C
    <2> DEFINE p == Par(l, x)
               q == Par(l, p)
    <2>1. p # None /\ p \in Ids(l) BY <1>2, <1>3, <1>4
    <2>2. ItemOK(l, x) /\ ItemOK(l, p) BY <2>1, IdsAre
    <2>3. CASE p \in A BY <2>3
    <2>4. CASE p \notin A
      <3>1. q \in B BY <1>4, <2>4
      <3>2. q # None /\ q \in Ids(l) BY <1>2, <1>3, <3>1
      <3>3. Par(l, q) = None BY <2>1, <2>2, <3>2 DEF ItemOK
      <3>4. q \in A BY <1>2, <1>3, <3>1, <3>3
      <3>5. p \in B BY <2>1, <3>4
      <3> QED BY <3>5
    <2> QED BY <2>3, <2>4
  <1>5. \A x \in C : x \in R \/ (Par(l, x) # None /\ Par(l, x) \in C) BY <1>2, <1>3
  <1>6. ASSUME NEW x \in Ids(l), Par(l, x) # None PROVE Root(l, x) = Root(l, Par(l, x))
    <2>1. ItemOK(l, x) BY IdsAre
    <2>2. Par(l, Par(l, x)) = None \/ Par(l, Par(l, Par(l, x))) = None BY <1>6, <2>1 DEF ItemOK
    <2> QED BY <1>6, <2>2 DEF Root
  <1>7. \A x \in B : \E r \in A : Root(l, x) = Root(l, r) BY <1>2, <1>3, <1>6
  <1>8. \A x \in C : \E r \in A : Root(l, x) = Root(l, r) BY <1>2, <1>3, <1>6, <1>7
  <1> HIDE DEF C
  <1> QED BY <1>1, <1>2, <1>4, <1>5, <1>8

\* Parents and keys stay, the status of whom is not in the tree does, and whoever is a root
\* gets the status asked for.
LEMMA FinishIs ==
  ASSUME NEW l, LogOK(l), NEW R, NEW st \in {"done", "error", "cancelled"}
  PROVE  LET m == finish(l, R, st) IN
         /\ LogOK(m) /\ Ids(m) = Ids(l) /\ m.next_id = l.next_id
         /\ \A x \in Ids(l) : /\ Par(m, x) = Par(l, x) /\ m.items[x].key = l.items[x].key
                              /\ m.items[x].status \in {l.items[x].status, st, "cancelled"}
                              /\ x \in tree(l, R) => ~Open(m, x)
                              /\ x \notin tree(l, R) => m.items[x] = l.items[x]
  <1> DEFINE m == finish(l, R, st)
             T == tree(l, R)
  <1>1. DOMAIN m = DOMAIN l /\ m.next_id = l.next_id
        /\ m.items = [i \in Ids(l) |-> IF i \in T /\ is_open(l.items[i].status)
                                        THEN [l.items[i] EXCEPT !.status = IF i \in R THEN st ELSE "cancelled"] ELSE l.items[i]]
    BY DEF finish, LogOK, Ids
  <1> HIDE DEF m
  <1>2. Ids(m) = Ids(l) BY <1>1 DEF Ids
  <1>3. ASSUME NEW x \in Ids(l)
        PROVE  /\ Par(m, x) = Par(l, x) /\ m.items[x].key = l.items[x].key
               /\ m.items[x].status \in {l.items[x].status, st, "cancelled"} /\ DOMAIN m.items[x] = DOMAIN l.items[x]
               /\ x \in T => ~Open(m, x)
               /\ x \notin T => m.items[x] = l.items[x]
    <2>1. DOMAIN l.items[x] = {"parent", "key", "status"} BY IdsAre DEF ItemOK
    <2> QED BY <1>1, <2>1 DEF Par, Open, is_open
  <1>4. ASSUME NEW x \in Ids(m) PROVE ItemOK(m, x)
    <2>1. ItemOK(l, x) /\ x \in Ids(l) BY <1>2, <1>4, IdsAre
    <2>2. DOMAIN m.items[x] = {"parent", "key", "status"} /\ m.items[x].status \in ActivityStatus
      BY <1>3, <2>1 DEF ItemOK, ActivityStatus
    <2>3. ASSUME Par(m, x) # None
          PROVE  /\ Par(m, x) \in Ids(m) /\ (Open(m, x) => Open(m, Par(m, x)))
                 /\ Par(m, Par(m, x)) # None => Par(m, Par(m, x)) \in Ids(m) /\ Par(m, Par(m, Par(m, x))) = None
      <3> DEFINE p == Par(l, x)
      <3>1. Par(m, x) = p /\ p \in Ids(l) /\ (Open(l, x) => Open(l, p)) BY <1>3, <2>1, <2>3 DEF ItemOK
      <3>2. Par(m, p) = Par(l, p) BY <1>3, <3>1
      <3>3. Par(l, p) # None => Par(l, p) \in Ids(l) /\ Par(l, Par(l, p)) = None BY <2>1, <2>3, <3>1 DEF ItemOK
      <3>4. Par(l, p) # None => Par(m, Par(l, p)) = None BY <1>3, <3>3
      <3>5. ASSUME Open(m, x) PROVE Open(m, p)
        <4>1. x \notin T BY <1>3, <2>1, <3>5
        <4>2. p \notin T BY <2>1, <4>1, TreeIs
        <4> QED BY <1>3, <2>1, <3>1, <3>5, <4>1, <4>2 DEF Open
      <3> QED BY <1>2, <3>1, <3>2, <3>3, <3>4, <3>5
    <2> QED BY <2>2, <2>3 DEF ItemOK
  <1>5. LogOK(m) BY <1>1, <1>2, <1>4 DEF LogOK
  <1> QED BY <1>1, <1>2, <1>3, <1>5 DEF m

\* What belongs to a job none of the roots belongs to is as it was.
LEMMA FinishKeeps ==
  ASSUME NEW l, LogOK(l), NEW R, NEW st \in {"done", "error", "cancelled"}, NEW i, \A r \in R \cap Ids(l) : Root(l, r) # i
  PROVE  Kept(l, finish(l, R, st), i)
  <1>1. \A x \in Ids(l) : Root(l, x) = i => x \notin tree(l, R) BY TreeIs
  <1> QED BY <1>1, FinishIs DEF Kept

\* A removed tree is gone and what is of another job is as it was.
LEMMA RemoveIs ==
  ASSUME NEW l, LogOK(l), NEW R
  PROVE  LET m == remove_tree(l, R) IN
         /\ LogOK(m) /\ m.next_id = l.next_id /\ Ids(m) = Ids(l) \ tree(l, R) /\ \A x \in Ids(m) : m.items[x] = l.items[x]
         /\ \A i : (\A r \in R \cap Ids(l) : Root(l, r) # i) => Kept(l, m, i)
  <1> DEFINE m == remove_tree(l, R)
             T == tree(l, R)
  <1>1. DOMAIN m = DOMAIN l /\ m.next_id = l.next_id /\ m.items = [x \in Ids(l) \ T |-> l.items[x]]
    BY DEF remove_tree, LogOK, Ids
  <1> HIDE DEF m
  <1>2. Ids(m) = Ids(l) \ T /\ \A x \in Ids(m) : m.items[x] = l.items[x] BY <1>1 DEF Ids
  <1>3. ASSUME NEW x \in Ids(m) PROVE ItemOK(m, x)
    <2>1. ItemOK(l, x) /\ x \in Ids(l) /\ m.items[x] = l.items[x] /\ x \notin T BY <1>2, <1>3, IdsAre
    <2>2. ASSUME Par(l, x) # None PROVE Par(l, x) \in Ids(m)
      <3>1. Par(l, x) \in Ids(l) BY <2>1, <2>2 DEF ItemOK
      <3>2. Par(l, x) \notin T BY <2>1, TreeIs
      <3> QED BY <1>2, <3>1, <3>2
    <2>3. ASSUME Par(l, x) # None, Par(l, Par(l, x)) # None PROVE Par(l, Par(l, x)) \in Ids(m)
      <3>1. Par(l, Par(l, x)) \in Ids(l) /\ Par(l, x) \in Ids(l) BY <2>1, <2>3 DEF ItemOK
      <3>2. Par(l, x) \notin T BY <2>1, TreeIs
      <3>3. Par(l, Par(l, x)) \notin T BY <3>1, <3>2, TreeIs
      <3> QED BY <1>2, <3>1, <3>3
    <2> QED BY <1>2, <2>1, <2>2, <2>3 DEF ItemOK, Par, Open
  <1>4. LogOK(m) BY <1>1, <1>2, <1>3 DEF LogOK
  <1>5. ASSUME NEW i, \A r \in R \cap Ids(l) : Root(l, r) # i PROVE Kept(l, m, i)
    <2>1. \A x \in Ids(l) : Root(l, x) = i => x \notin T BY <1>5, TreeIs
    <2> QED BY <1>2, <2>1 DEF Kept
  <1> QED BY <1>1, <1>2, <1>4, <1>5 DEF m

\* A new item, on top or under one that is open and has at most one generation above it.
LEMMA PushIs ==
  ASSUME NEW l, LogOK(l), NEW p, NEW key,
         p = None \/ (p \in Ids(l) /\ Open(l, p) /\ (Par(l, p) # None => Par(l, Par(l, p)) = None))
  PROVE  LET m == push(l, p, key) IN
         /\ LogOK(m) /\ m.next_id = l.next_id + 1 /\ Ids(m) = Ids(l) \cup {l.next_id}
         /\ \A x \in Ids(l) : m.items[x] = l.items[x]
         /\ m.items[l.next_id] = [parent |-> p, key |-> key, status |-> "running"]
  <1> DEFINE m == push(l, p, key)
             n == l.next_id
  <1>1. n \in Nat \ {0} /\ n \notin Ids(l) BY DEF LogOK
  <1>2. DOMAIN m = {"next_id", "items"} /\ m.next_id = n + 1 /\ m.items = [i \in Ids(l) \cup {n} |-> IF i = n THEN Activity(p, key) ELSE l.items[i]]
    BY DEF push, Ids
  <1> HIDE DEF m
  <1>3. Ids(m) = Ids(l) \cup {n} /\ (\A x \in Ids(l) : m.items[x] = l.items[x]) /\ m.items[n] = Activity(p, key)
    BY <1>1, <1>2 DEF Ids
  <1>4. ASSUME NEW x \in Ids(l) PROVE ItemOK(m, x)
    <2>1. ItemOK(l, x) BY IdsAre
    <2> QED BY <1>3, <2>1 DEF ItemOK, Par, Open
  <1>5. ItemOK(m, n)
    <2>1. /\ DOMAIN m.items[n] = {"parent", "key", "status"} /\ m.items[n].status = "running" /\ Par(m, n) = p
      BY <1>3 DEF Activity, Par
    <2>2. ASSUME p # None
          PROVE  /\ p \in Ids(l) /\ Open(m, p) /\ Par(m, p) = Par(l, p)
                 /\ Par(l, p) # None => Par(l, p) \in Ids(l) /\ Par(m, Par(l, p)) = None
      <3>1. p \in Ids(l) /\ Open(l, p) /\ ItemOK(l, p) BY <2>2, IdsAre
      <3> QED BY <1>3, <2>2, <3>1 DEF ItemOK, Par, Open
    <2>3. m.items[n].status \in ActivityStatus BY <2>1 DEF ActivityStatus
    <2>4. p # None => p \in Ids(m) /\ (Par(l, p) # None => Par(l, p) \in Ids(m)) BY <1>3, <2>2
    <2> QED BY <2>1, <2>2, <2>3, <2>4 DEF ItemOK
  <1>6. Ids(m) \subseteq 1 .. m.next_id - 1 BY <1>1, <1>2, <1>3 DEF LogOK
  <1>7. LogOK(m) BY <1>1, <1>2, <1>3, <1>4, <1>5, <1>6 DEF LogOK
  <1> QED BY <1>2, <1>3, <1>7 DEF m, Activity

\* Queued items, under one that is open and has at most one generation above it.
LEMMA QueuedIs ==
  ASSUME NEW l, LogOK(l), NEW g \in Ids(l), Open(l, g), Par(l, g) # None => Par(l, Par(l, g)) = None,
         NEW keys, Len(keys) \in Nat
  PROVE  LET m == queued_child(l, g, keys)
             new == l.next_id .. l.next_id + Len(keys) - 1 IN
         /\ LogOK(m) /\ m.next_id = l.next_id + Len(keys) /\ Ids(m) = Ids(l) \cup new
         /\ \A x \in Ids(l) : m.items[x] = l.items[x]
         /\ \A x \in new : Par(m, x) = g
  <1> DEFINE m == queued_child(l, g, keys)
             n == l.next_id
             new == n .. n + Len(keys) - 1
             queued(c) == [Activity(g, <<keys[c - n + 1]>>) EXCEPT !.status = "queued"]
  <1>1. n \in Nat \ {0} /\ \A x \in new : x \notin Ids(l) BY DEF LogOK
  <1>2. DOMAIN m = {"next_id", "items"} /\ m.next_id = n + Len(keys)
        /\ m.items = [c \in Ids(l) \cup new |-> IF c \in new THEN queued(c) ELSE l.items[c]]
    BY DEF queued_child, Ids
  <1>3. \A c : DOMAIN queued(c) = {"parent", "key", "status"} /\ queued(c).parent = g /\ queued(c).status = "queued"
    BY DEF Activity
  <1> HIDE DEF m, queued
  <1>4. Ids(m) = Ids(l) \cup new /\ (\A x \in Ids(l) : m.items[x] = l.items[x]) /\ \A x \in new : m.items[x] = queued(x)
    BY <1>1, <1>2 DEF Ids
  <1> HIDE DEF new
  <1>5. ASSUME NEW x \in Ids(l) PROVE ItemOK(m, x)
    <2>1. ItemOK(l, x) BY IdsAre
    <2> QED BY <1>4, <2>1 DEF ItemOK, Par, Open
  <1>6. ASSUME NEW x \in new PROVE ItemOK(m, x)
    <2>1. /\ DOMAIN m.items[x] = {"parent", "key", "status"} /\ m.items[x].status = "queued" /\ Par(m, x) = g
      BY <1>3, <1>4 DEF Par
    <2>2. g # None /\ ItemOK(l, g) BY IdsAre
    <2>3. /\ Open(m, g) /\ Par(m, g) = Par(l, g)
          /\ Par(l, g) # None => Par(l, g) \in Ids(l) /\ Par(m, Par(l, g)) = None
      BY <1>4, <2>2 DEF ItemOK, Par, Open
    <2>4. m.items[x].status \in ActivityStatus BY <2>1 DEF ActivityStatus
    <2>5. g \in Ids(m) /\ (Par(l, g) # None => Par(l, g) \in Ids(m)) BY <1>4, <2>3
    <2> QED BY <2>1, <2>3, <2>4, <2>5 DEF ItemOK
  <1>7. Ids(m) \subseteq 1 .. m.next_id - 1
    <2>1. new \subseteq 1 .. n + Len(keys) - 1 BY <1>1 DEF new
    <2>2. Ids(l) \subseteq 1 .. n + Len(keys) - 1 BY <1>1 DEF LogOK
    <2>3. m.next_id = n + Len(keys) /\ n \in Nat BY <1>1, <1>2
    <2>4. Ids(m) = Ids(l) \cup new BY <1>4
    <2>5. m.next_id - 1 = n + Len(keys) - 1 BY <1>1, <2>3
    <2> QED BY <2>1, <2>2, <2>4, <2>5, Zenon
  <1>8. LogOK(m) BY <1>1, <1>2, <1>4, <1>5, <1>6, <1>7 DEF LogOK
  <1>9. \A x \in new : Par(m, x) = g BY <1>3, <1>4 DEF Par
  <1> QED BY <1>2, <1>4, <1>8, <1>9 DEF m, new

\* A queued step that begins stays where it is.
LEMMA BeginIs ==
  ASSUME NEW l, LogOK(l), NEW x \in Ids(l)
  PROVE  LET m == begin(l, x) IN
         /\ LogOK(m) /\ m.next_id = l.next_id /\ Ids(m) = Ids(l)
         /\ \A y \in Ids(l) : Par(m, y) = Par(l, y) /\ (y # x => m.items[y] = l.items[y])
  <1>1. CASE l.items[x].status # "queued" BY <1>1 DEF begin, status_of, Ids
  <1>2. CASE l.items[x].status = "queued"
    <2> DEFINE m == begin(l, x)
               a == [l.items[x] EXCEPT !.status = "running"]
    <2>1. DOMAIN l.items[x] = {"parent", "key", "status"} BY IdsAre DEF ItemOK
    <2>2. DOMAIN a = {"parent", "key", "status"} /\ a.status = "running" /\ a.parent = Par(l, x) BY <2>1 DEF Par
    <2>3. DOMAIN m = DOMAIN l /\ m.next_id = l.next_id /\ m.items = [l.items EXCEPT ![x] = a]
      BY <1>2 DEF begin, status_of, Ids, LogOK
    <2> HIDE DEF m, a
    <2>4. Ids(m) = Ids(l) /\ m.items[x] = a /\ \A y \in Ids(l) : y # x => m.items[y] = l.items[y] BY <2>3 DEF Ids
    <2>5. \A y \in Ids(l) : Par(m, y) = Par(l, y) /\ (Open(m, y) <=> Open(l, y)) BY <1>2, <2>2, <2>4 DEF Par, Open, is_open
    <2>6. ASSUME NEW y \in Ids(m) PROVE ItemOK(m, y)
      <3>1. ItemOK(l, y) /\ y \in Ids(l) BY <2>4, IdsAre
      <3>2. DOMAIN m.items[y] = {"parent", "key", "status"} /\ m.items[y].status \in ActivityStatus
        BY <2>2, <2>4, <3>1 DEF ItemOK, ActivityStatus
      <3> QED BY <2>4, <2>5, <3>1, <3>2 DEF ItemOK
    <2>7. LogOK(m) BY <2>3, <2>4, <2>6 DEF LogOK
    <2> QED BY <2>3, <2>4, <2>5, <2>7 DEF m
  <1> QED BY <1>1, <1>2

\* A job starts: only what was there of its key is gone.
LEMMA StartIs ==
  ASSUME NEW l, LogOK(l), NEW key
  PROVE  LET m == start(l, key) IN
         /\ LogOK(m) /\ m.next_id = l.next_id + 1 /\ l.next_id \in Ids(m)
         /\ m.items[l.next_id] = [parent |-> None, key |-> key, status |-> "running"]
         /\ \A i : i \notin find_top(l, key) => Kept(l, m, i)
  <1> DEFINE R == find_top(l, key)
             a == remove_tree(l, R)
             m == push(a, None, key)
  <1>1. start(l, key) = m BY DEF start
  <1>2. \A r \in R \cap Ids(l) : Root(l, r) = r BY DEF find_top, Root, Par
  <1>3. /\ LogOK(a) /\ a.next_id = l.next_id
        /\ \A i : (\A r \in R \cap Ids(l) : Root(l, r) # i) => Kept(l, a, i)
    BY RemoveIs
  <1> HIDE DEF a
  <1>4. /\ LogOK(m) /\ m.next_id = a.next_id + 1 /\ Ids(m) = Ids(a) \cup {a.next_id} /\ \A x \in Ids(a) : m.items[x] = a.items[x]
        /\ m.items[a.next_id] = [parent |-> None, key |-> key, status |-> "running"]
    BY <1>3, PushIs
  <1> HIDE DEF m
  <1>5. ASSUME NEW i, i \notin R PROVE Kept(l, m, i)
    <2>1. Kept(l, a, i) BY <1>2, <1>3, <1>5
    <2> QED BY <1>4, <2>1 DEF Kept
  <1> QED BY <1>1, <1>3, <1>4, <1>5

----------------------------------------------------------------------------
(* Pulls and their items: PullsTell.                                       *)

JobFields == {"key", "pc", "todo", "at", "step", "group", "steps"}
\* A pull that is not over has an item of its own that runs; the clone it is at, and the
\* images it has listed, are recorded under it.
Listed(l, i, j) ==
  /\ j.group \in Ids(l) /\ Par(l, j.group) = i
  /\ j.steps \in Seq(Ids(l)) /\ \A k \in DOMAIN j.steps : Par(l, j.steps[k]) = j.group
  /\ j.at # None => j.steps # <<>> /\ j.at = Head(j.steps)
JobOK(l, i, j) ==
  j.pc # "ended" =>
    /\ i \in Ids(l) /\ l.items[i].status = "running" /\ Par(l, i) = None
    /\ l.items[i].key = j.key /\ j.key \in DOMAIN Wanted
    /\ j.step # None => j.step \in Ids(l) /\ Par(l, j.step) = i /\ l.items[j.step].status = "running"
    /\ j.pc \notin {"at", "cloning", "checkout"} => j.step = None
    /\ j.pc = "pulling" => Listed(l, i, j)
PullInv ==
  /\ LogOK(log) /\ DOMAIN job \subseteq 1 .. log.next_id - 1
  /\ \A i \in DOMAIN job : DOMAIN job[i] = JobFields /\ JobOK(log, i, job[i])
  /\ OnePull

\* A pull whose items are as they were is as it was.
LEMMA KeptJob ==
  ASSUME NEW l, LogOK(l), NEW m, NEW i, NEW j, JobOK(l, i, j), Kept(l, m, i)
  PROVE  JobOK(m, i, j)
  <1> SUFFICES ASSUME j.pc # "ended" PROVE JobOK(m, i, j) BY DEF JobOK
  <1>1. i \in Ids(l) /\ Par(l, i) = None /\ i # None BY IdsAre DEF JobOK
  <1>2. i \in Ids(m) /\ m.items[i] = l.items[i] BY <1>1 DEF Kept, Root
  <1>3. \A x \in Ids(l) : Par(l, x) = i => x \in Ids(m) /\ m.items[x] = l.items[x] BY <1>1 DEF Kept, Root
  <1>4. ASSUME j.pc = "pulling" PROVE Listed(m, i, j)
    <2>1. Listed(l, i, j) BY <1>4 DEF JobOK
    <2>2. j.group \in Ids(m) /\ m.items[j.group] = l.items[j.group] BY <1>3, <2>1 DEF Listed
    <2>3. \A k \in DOMAIN j.steps : j.steps[k] \in Ids(l) BY <2>1 DEF Listed
    <2>4. j.group \in Ids(l) /\ j.group # None /\ Par(l, j.group) = i BY <2>1, IdsAre DEF Listed
    <2>5. ASSUME NEW k \in DOMAIN j.steps PROVE j.steps[k] \in Ids(m) /\ m.items[j.steps[k]] = l.items[j.steps[k]]
      <3>1. Par(l, j.steps[k]) = j.group BY <2>1 DEF Listed
      <3>2. Root(l, j.steps[k]) = i BY <1>1, <2>4, <3>1 DEF Root
      <3> QED BY <2>3, <3>2 DEF Kept
    <2>6. j.steps \in Seq(Ids(m)) BY <2>1, <2>5 DEF Listed
    <2> QED BY <2>1, <2>2, <2>5, <2>6 DEF Listed, Par
  <1>5. JobOK(l, i, j) OBVIOUS
  <1> QED BY <1>2, <1>3, <1>4, <1>5 DEF JobOK, Par

\* A thread's step: the items of the others stay as they are.
LEMMA PullStep ==
  ASSUME PullInv, NEW i \in Alive, LogOK(log'), log'.next_id \in Nat, log.next_id <= log'.next_id,
         \A d \in Alive \ {i} : Kept(log, log', d),
         NEW j, Step(i, j), DOMAIN j = JobFields, j.key = KeyOf(i), JobOK(log', i, j)
  PROVE  PullInv'
  <1>1. i \in DOMAIN job /\ job[i].pc # "ended" BY DEF Alive
  <1>2. DOMAIN job' = DOMAIN job /\ job'[i] = j /\ \A d \in DOMAIN job : d # i => job'[d] = job[d] BY <1>1 DEF Step
  <1>3. DOMAIN job' \subseteq 1 .. log'.next_id - 1 BY <1>2 DEF PullInv, LogOK
  <1>4. ASSUME NEW d \in DOMAIN job' PROVE DOMAIN job'[d] = JobFields /\ JobOK(log', d, job'[d])
    <2>1. CASE d = i BY <1>2, <2>1
    <2>2. CASE d # i
      <3>1. d \in DOMAIN job /\ job'[d] = job[d] /\ DOMAIN job[d] = JobFields /\ JobOK(log, d, job[d]) BY <1>2, <2>2 DEF PullInv
      <3>2. CASE job[d].pc = "ended" BY <3>1, <3>2 DEF JobOK
      <3>3. CASE job[d].pc # "ended"
        <4>1. Kept(log, log', d) BY <2>2, <3>1, <3>3 DEF Alive
        <4> QED BY <3>1, <4>1, KeptJob DEF PullInv
      <3> QED BY <3>2, <3>3
    <2> QED BY <2>1, <2>2
  <1>5. \A d \in DOMAIN job : job'[d].key = job[d].key BY <1>2 DEF KeyOf
  <1>6. Alive' \subseteq Alive BY <1>1, <1>2 DEF Alive
  <1>7. OnePull' BY <1>5, <1>6 DEF PullInv, OnePull, KeyOf, Alive
  <1> QED BY <1>3, <1>4, <1>7 DEF PullInv

\* What is under a pull belongs to it.
LEMMA OwnRoots ==
  ASSUME PullInv, NEW i \in Alive
  PROVE  /\ i \in Ids(log) /\ i # None /\ Par(log, i) = None /\ Root(log, i) = i
         /\ job[i].step # None => job[i].step \in Ids(log) /\ Root(log, job[i].step) = i /\ Par(log, job[i].step) = i
         /\ job[i].pc = "pulling" => \A k \in DOMAIN job[i].steps :
              /\ job[i].steps[k] \in Ids(log) /\ Root(log, job[i].steps[k]) = i /\ Par(log, job[i].steps[k]) = job[i].group
         /\ job[i].pc = "pulling" => job[i].group \in Ids(log) /\ job[i].group # None /\ Root(log, job[i].group) = i
  <1>1. LogOK(log) /\ JobOK(log, i, job[i]) /\ job[i].pc # "ended" BY DEF PullInv, Alive
  <1>2. i \in Ids(log) /\ i # None /\ Par(log, i) = None BY <1>1, IdsAre DEF JobOK
  <1>3. job[i].step # None => job[i].step \in Ids(log) /\ Par(log, job[i].step) = i BY <1>1 DEF JobOK
  <1>4. ASSUME job[i].pc = "pulling"
        PROVE  /\ job[i].group \in Ids(log) /\ job[i].group # None /\ Par(log, job[i].group) = i
               /\ \A k \in DOMAIN job[i].steps : job[i].steps[k] \in Ids(log) /\ Par(log, job[i].steps[k]) = job[i].group
    <2>1. Listed(log, i, job[i]) BY <1>1, <1>4 DEF JobOK
    <2> QED BY <1>1, <2>1, IdsAre DEF Listed
  <1> QED BY <1>2, <1>3, <1>4 DEF Root

\* The items of the others are not touched when what is settled belongs to one pull.
LEMMA OthersKept ==
  ASSUME PullInv, NEW i \in Alive, NEW R, \A r \in R : r \in Ids(log) /\ Root(log, r) = i,
         NEW st \in {"done", "error", "cancelled"}
  PROVE  \A d \in Alive \ {i} : Kept(log, finish(log, R, st), d)
  BY FinishKeeps DEF PullInv

\* Nothing is asked of a pull that is over.
LEMMA EndedJob ==
  ASSUME PullInv, NEW i \in Alive
  PROVE  DOMAIN Ended(i) = JobFields /\ Ended(i).key = KeyOf(i) /\ \A l : JobOK(l, i, Ended(i))
  BY DEF Ended, Resolving, JobFields, JobOK

\* A pull ends with whatever it settles.
LEMMA EndsPull ==
  ASSUME PullInv, NEW i \in Alive, NEW R, \A r \in R : r \in Ids(log) /\ Root(log, r) = i,
         NEW ok \in BOOLEAN, log' = settle(log, R, ok), Step(i, Ended(i))
  PROVE  PullInv'
  <1> DEFINE st == IF ok THEN "done" ELSE "error"
  <1>1. log' = finish(log, R, st) /\ st \in {"done", "error", "cancelled"} BY DEF settle
  <1> HIDE DEF st
  <1>2. LogOK(log) BY DEF PullInv
  <1>3. LogOK(log') /\ log'.next_id = log.next_id BY <1>1, <1>2, FinishIs
  <1>4. \A d \in Alive \ {i} : Kept(log, log', d) BY <1>1, OthersKept
  <1>5. log'.next_id \in Nat /\ log.next_id <= log'.next_id BY <1>2, <1>3 DEF LogOK
  <1> QED BY <1>3, <1>4, <1>5, EndedJob, PullStep

\* A pull goes on and the list stays as it is.
LEMMA GoesOn ==
  ASSUME PullInv, NEW i \in Alive, log' = log, NEW j, Step(i, j), DOMAIN j = JobFields, j.key = KeyOf(i), JobOK(log, i, j)
  PROVE  PullInv'
  <1>1. LogOK(log) BY DEF PullInv
  <1>2. LogOK(log') /\ JobOK(log', i, j) BY <1>1
  <1>3. log'.next_id \in Nat /\ log.next_id <= log'.next_id BY <1>1 DEF LogOK
  <1>4. \A d \in Alive \ {i} : Kept(log, log', d) BY DEF Kept
  <1> QED BY <1>2, <1>3, <1>4, PullStep

\* The clone a pull is at is over.
LEMMA CloneSettlesPull ==
  ASSUME PullInv, NEW i \in Alive, NEW ok \in BOOLEAN, CloneSettles(i, ok)
  PROVE  PullInv'
  <1> DEFINE R == {job[i].step} \ {None}
             j == [job[i] EXCEPT !.pc = After(i), !.at = None, !.step = None]
  <1>1. \A r \in R : r \in Ids(log) /\ Root(log, r) = i BY OwnRoots
  <1>2. i \in Ids(log) /\ Root(log, i) = i /\ Par(log, i) = None /\ i # None BY OwnRoots
  <1>3. CASE ~ok
    <2>1. log' = settle(log, R \cup {i}, FALSE) /\ Step(i, Ended(i)) BY <1>3 DEF CloneSettles
    <2>2. \A r \in R \cup {i} : r \in Ids(log) /\ Root(log, r) = i BY <1>1, <1>2
    <2> HIDE DEF R
    <2> QED BY <2>1, <2>2, EndsPull
  <1>4. CASE ok
    <2>1. log' = settle(log, R, TRUE) /\ Step(i, j) BY <1>4 DEF CloneSettles
    <2>2. log' = finish(log, R, "done") BY <2>1 DEF settle
    <2>3. i \notin R BY <1>2, OwnRoots
    <2> HIDE DEF R
    <2>4. LogOK(log) /\ JobOK(log, i, job[i]) /\ job[i].pc # "ended" /\ DOMAIN job[i] = JobFields BY DEF PullInv, Alive
    <2>5. i \notin tree(log, R) BY <1>2, <2>3, <2>4, TreeIs
    <2>6. LogOK(log') /\ log'.next_id = log.next_id /\ i \in Ids(log') /\ log'.items[i] = log.items[i] BY <1>2, <2>2, <2>4, <2>5, FinishIs
    <2>7. \A d \in Alive \ {i} : Kept(log, log', d) BY <1>1, <2>2, OthersKept
    <2>8. log'.next_id \in Nat /\ log.next_id <= log'.next_id BY <2>4, <2>6 DEF LogOK
    <2>9. DOMAIN j = JobFields /\ j.key = KeyOf(i) /\ j.pc = After(i) /\ j.step = None BY <2>4 DEF JobFields, KeyOf
    <2> HIDE DEF j
    <2>10. After(i) \in {"clone", "images", "resolve"} BY DEF After
    <2>11. JobOK(log', i, j) BY <2>4, <2>6, <2>9, <2>10 DEF JobOK, Par, KeyOf
    <2> QED BY <2>1, <2>6, <2>7, <2>8, <2>9, <2>11, PullStep
  <1> QED BY <1>3, <1>4

\* A finite set as a sequence.
LEMMA SequenceOf ==
  ASSUME NEW S, IsFiniteSet(S)
  PROVE  LET s == SetToSeq(S) IN Len(s) \in Nat /\ DOMAIN s = 1 .. Len(s) /\ (S # {} => Len(s) # 0)
  <1>1. Cardinality(S) \in Nat /\ ExistsBijection(1..Cardinality(S), S) BY FS_CardinalityType
  <1>2. PICK f \in [1..Cardinality(S) -> S] : IsInjective(f) BY <1>1 DEF ExistsBijection, Bijection, Injection, IsInjective
  <1>3. SetToSeq(S) \in [1..Cardinality(S) -> S] BY <1>2 DEF SetToSeq
  <1>4. SetToSeq(S) \in Seq(S) /\ Len(SetToSeq(S)) = Cardinality(S) BY <1>1, <1>3
  <1>5. S # {} => Cardinality(S) # 0 BY FS_EmptySet
  <1> QED BY <1>1, <1>3, <1>4, <1>5

\* What a pull does to the list changes nobody else's items, whether it records or begins.
LEMMA ResolvePull ==
  ASSUME PullInv, NEW i \in Alive, Resolve(i)
  PROVE  PullInv'
  <1> DEFINE lacking == Lacking(KeyOf(i))
             j == [job[i] EXCEPT !.pc = IF lacking = {} THEN "images" ELSE "clone", !.todo = lacking]
  <1>1. JobOK(log, i, job[i]) /\ job[i].pc = "resolve" /\ DOMAIN job[i] = JobFields BY DEF PullInv, Alive, Resolve
  <1>2. CASE NoSuchNode(KeyOf(i))
    <2>1. log' = settle(log, {i}, FALSE) /\ Step(i, Ended(i)) BY <1>2 DEF Resolve, Settle
    <2>2. \A r \in {i} : r \in Ids(log) /\ Root(log, r) = i BY OwnRoots
    <2> QED BY <2>1, <2>2, EndsPull
  <1>3. CASE ~NoSuchNode(KeyOf(i))
    <2>1. log' = log /\ Step(i, j) BY <1>3 DEF Resolve
    <2> HIDE DEF lacking
    <2>2. DOMAIN j = JobFields /\ j.key = job[i].key /\ j.pc \in {"images", "clone"} /\ j.step = job[i].step BY <1>1 DEF JobFields
    <2> HIDE DEF j
    <2>3. JobOK(log, i, j) BY <1>1, <2>2 DEF JobOK
    <2> QED BY <2>1, <2>2, <2>3, GoesOn DEF KeyOf
  <1> QED BY <1>2, <1>3

\* Clone: the step it records is under the pull.
LEMMA ClonePull ==
  ASSUME PullInv, NEW i \in Alive, NEW f, Clone(i, f)
  PROVE  PullInv'
  <1> DEFINE bare == IsNode(KeyOf(i)) \/ log.next_id > MaxItems
             n == log.next_id
             h == IF bare THEN None ELSE child_handle(log, i)
             j == [job[i] EXCEPT !.pc = "at", !.todo = @ \ {f}, !.at = f, !.step = h]
  <1>1. /\ JobOK(log, i, job[i]) /\ job[i].pc = "clone" /\ DOMAIN job[i] = JobFields /\ LogOK(log)
    BY DEF PullInv, Alive, Clone
  <1>2. i \in Ids(log) /\ Par(log, i) = None /\ log.items[i].status = "running" BY <1>1 DEF JobOK
  <1>3. Step(i, j) /\ log' = IF bare THEN log ELSE child_of_kind(log, i, <<f>>) BY DEF Clone
  <1>4. DOMAIN j = JobFields /\ j.key = job[i].key /\ j.pc = "at" /\ j.step = h BY <1>1 DEF JobFields
  <1> HIDE DEF j
  <1>5. CASE bare
    <2>1. log' = log /\ h = None BY <1>3, <1>5
    <2>2. JobOK(log, i, j) BY <1>1, <1>4, <2>1 DEF JobOK
    <2> QED BY <1>3, <1>4, <2>1, <2>2, GoesOn DEF KeyOf
  <1>6. CASE ~bare
    <2>1. log' = push(log, i, <<f>>) /\ h = n BY <1>2, <1>3, <1>6 DEF child_of_kind, child_handle, Ids
    <2>2. Open(log, i) BY <1>2 DEF Open, is_open
    <2>3. /\ LogOK(log') /\ log'.next_id = n + 1 /\ Ids(log') = Ids(log) \cup {n}
          /\ \A x \in Ids(log) : log'.items[x] = log.items[x]
          /\ log'.items[n] = [parent |-> i, key |-> <<f>>, status |-> "running"]
      BY <1>1, <1>2, <2>1, <2>2, PushIs
    <2>4. \A d : Kept(log, log', d) BY <2>3 DEF Kept
    <2>5. n \in Nat /\ log'.next_id \in Nat /\ n <= log'.next_id BY <1>1, <2>3 DEF LogOK
    <2>6. Par(log', n) = i /\ log'.items[n].status = "running" BY <2>3 DEF Par
    <2>7. i \in Ids(log') /\ log'.items[i] = log.items[i] /\ n \in Ids(log') BY <1>2, <2>3
    <2>8. JobOK(log', i, j) BY <1>1, <1>4, <2>1, <2>6, <2>7 DEF JobOK, Par
    <2> QED BY <1>3, <1>4, <2>3, <2>4, <2>5, <2>8, PullStep DEF KeyOf
  <1> QED BY <1>5, <1>6

\* What git does changes the list only by what a clone settles.
LEMMA GitPull ==
  ASSUME PullInv, NEW i \in Alive,
         ensure_checkout_is(i) \/ BeginClone(i) \/ CloneDone(i) \/ CloneFails(i) \/ Checkout(i)
  PROVE  PullInv'
  <1>1. JobOK(log, i, job[i]) /\ DOMAIN job[i] = JobFields BY DEF PullInv, Alive
  <1>2. ASSUME NEW pc \in {"cloning", "checkout"}, Step(i, [job[i] EXCEPT !.pc = pc]), log' = log, job[i].pc # "ended"
        PROVE  PullInv'
    <2> DEFINE j == [job[i] EXCEPT !.pc = pc]
    <2>1. DOMAIN j = JobFields /\ j.key = job[i].key /\ j.pc = pc /\ j.step = job[i].step BY <1>1 DEF JobFields
    <2>2. Step(i, j) BY <1>2
    <2> HIDE DEF j
    <2>3. JobOK(log, i, j) BY <1>1, <1>2, <2>1 DEF JobOK
    <2> QED BY <1>2, <2>1, <2>2, <2>3, GoesOn DEF KeyOf
  <1>3. \A ok \in BOOLEAN : CloneSettles(i, ok) => PullInv' BY CloneSettlesPull
  <1>4. CASE ensure_checkout_is(i)
    <2> DEFINE ok == disk[job[i].at].origin = Holds[job[i].at].repo
    <2>1. CloneSettles(i, ok) /\ ok \in BOOLEAN BY <1>4 DEF ensure_checkout_is
    <2> HIDE DEF ok
    <2> QED BY <1>3, <2>1
  <1>5. CASE BeginClone(i) BY <1>2, <1>5 DEF BeginClone
  <1>6. CASE CloneDone(i)
    <2>1. job[i].pc = "cloning" BY <1>6 DEF CloneDone
    <2>2. \/ Step(i, [job[i] EXCEPT !.pc = "checkout"]) /\ log' = log
          \/ CloneSettles(i, TRUE)
      BY <1>6 DEF CloneDone
    <2> QED BY <1>2, <1>3, <2>1, <2>2
  <1>7. CASE CloneFails(i) BY <1>3, <1>7 DEF CloneFails
  <1>8. CASE Checkout(i)
    <2>1. \E ok \in BOOLEAN : CloneSettles(i, ok) BY <1>8 DEF Checkout
    <2> QED BY <1>3, <2>1
  <1> QED BY <1>4, <1>5, <1>6, <1>7, <1>8

\* The images are listed under an item of their own.
LEMMA ListPull ==
  ASSUME PullInv, NEW i \in Alive, ListImages(i)
  PROVE  PullInv'
  <1> DEFINE lacking == ImagesFor(KeyOf(i)) \ images
             g == log.next_id
             refs == SetToSeq(lacking)
             l == child_of_kind(log, i, <<"images">>)
             steps == [k \in DOMAIN refs |-> g + k]
             j == [job[i] EXCEPT !.pc = "pulling", !.group = g, !.at = None, !.steps = steps]
  <1>1. /\ JobOK(log, i, job[i]) /\ job[i].pc = "images" /\ DOMAIN job[i] = JobFields /\ LogOK(log) /\ g \in Nat \ {0}
    BY DEF PullInv, Alive, ListImages, LogOK
  <1>2. i \in Ids(log) /\ Par(log, i) = None /\ log.items[i].status = "running" BY <1>1 DEF JobOK
  <1>3. CASE lacking = {}
    <2>1. log' = settle(log, {i}, TRUE) /\ Step(i, Ended(i)) BY <1>3 DEF ListImages, Settle
    <2>2. \A r \in {i} : r \in Ids(log) /\ Root(log, r) = i BY OwnRoots
    <2> QED BY <2>1, <2>2, EndsPull
  <1>4. CASE lacking # {}
    <2>1. log' = queued_child(l, g, refs) /\ Step(i, j) BY <1>4 DEF ListImages
    <2>2. IsFiniteSet(lacking)
      <3>1. lacking \subseteq {Holds[f].image : f \in Folder} BY DEF ImagesFor, images_run_by, Scanned
      <3> HIDE DEF lacking
      <3> QED BY <3>1, DownloadsAssumption, FS_Subset
    <2>3. Len(refs) \in Nat /\ DOMAIN refs = 1 .. Len(refs) BY <2>2, SequenceOf
    <2> HIDE DEF lacking, refs
    <2>4. DOMAIN j = JobFields /\ j.key = job[i].key /\ j.pc = "pulling" /\ j.step = job[i].step /\ j.group = g /\ j.at = None /\ j.steps = steps
      BY <1>1 DEF JobFields
    <2> HIDE DEF j
    <2>5. l = push(log, i, <<"images">>) /\ Open(log, i) BY <1>2 DEF child_of_kind, Ids, Open, is_open
    <2>6. /\ LogOK(l) /\ l.next_id = g + 1 /\ Ids(l) = Ids(log) \cup {g}
          /\ \A x \in Ids(log) : l.items[x] = log.items[x]
          /\ l.items[g] = [parent |-> i, key |-> <<"images">>, status |-> "running"]
      BY <1>1, <1>2, <2>5, PushIs
    <2> HIDE DEF l
    <2>7. Par(l, g) = i /\ Open(l, g) /\ Par(l, i) = None /\ g \in Ids(l) BY <1>2, <2>6 DEF Par, Open, is_open
    <2> DEFINE new == l.next_id .. l.next_id + Len(refs) - 1
    <2>8. /\ LogOK(log') /\ log'.next_id = l.next_id + Len(refs) /\ Ids(log') = Ids(l) \cup new
          /\ \A x \in Ids(l) : log'.items[x] = l.items[x]
          /\ \A x \in new : Par(log', x) = g
      BY <2>1, <2>3, <2>6, <2>7, QueuedIs
    <2>9. \A d : Kept(log, log', d) BY <2>6, <2>8 DEF Kept
    <2>10. log'.next_id \in Nat /\ g <= log'.next_id BY <1>1, <2>3, <2>6, <2>8
    <2>11. \A k \in 1 .. Len(refs) : g + k \in new BY <1>1, <2>3, <2>6
    <2>12. \A k \in 1 .. Len(refs) : g + k \in Ids(log') /\ Par(log', g + k) = g BY <2>8, <2>11
    <2> HIDE DEF new
    <2>13. steps \in Seq(Ids(log')) /\ DOMAIN steps = 1 .. Len(refs) /\ \A k \in 1 .. Len(refs) : steps[k] = g + k BY <2>3, <2>12
    <2> HIDE DEF steps
    <2>14. i \in Ids(log') /\ log'.items[i] = log.items[i] /\ g \in Ids(log') /\ Par(log', g) = i BY <1>2, <2>6, <2>7, <2>8 DEF Par
    <2>15. Listed(log', i, j) BY <2>4, <2>12, <2>13, <2>14 DEF Listed
    <2>16. JobOK(log', i, j) BY <1>1, <2>4, <2>14, <2>15 DEF JobOK, Par
    <2> QED BY <2>1, <2>4, <2>8, <2>9, <2>10, <2>16, PullStep DEF KeyOf
  <1> QED BY <1>3, <1>4

\* BeginImage: the first listed step runs.
LEMMA BeginPull ==
  ASSUME PullInv, NEW i \in Alive, BeginImage(i)
  PROVE  PullInv'
  <1> DEFINE x == Head(job[i].steps)
             j == [job[i] EXCEPT !.at = x]
  <1>1. /\ JobOK(log, i, job[i]) /\ job[i].pc = "pulling" /\ job[i].steps # <<>> /\ DOMAIN job[i] = JobFields /\ LogOK(log)
    BY DEF PullInv, Alive, BeginImage
  <1>2. Listed(log, i, job[i]) BY <1>1 DEF JobOK
  <1>3. 1 \in DOMAIN job[i].steps /\ x = job[i].steps[1] BY <1>1, <1>2 DEF Listed
  <1>4. /\ x \in Ids(log) /\ Root(log, x) = i /\ Par(log, x) = job[i].group /\ job[i].group # None /\ i \in Ids(log)
        /\ Par(log, i) = None /\ Root(log, i) = i
    BY <1>1, <1>3, OwnRoots
  <1>5. x # i BY <1>4
  <1>6. log' = begin(log, x) /\ Step(i, j) BY DEF BeginImage
  <1>7. DOMAIN j = JobFields /\ j.key = job[i].key /\ j.pc = "pulling" /\ j.step = job[i].step /\ j.at = x
        /\ j.group = job[i].group /\ j.steps = job[i].steps
    BY <1>1 DEF JobFields
  <1> HIDE DEF j, x
  <1>8. /\ LogOK(log') /\ log'.next_id = log.next_id /\ Ids(log') = Ids(log)
        /\ \A y \in Ids(log) : Par(log', y) = Par(log, y) /\ (y # x => log'.items[y] = log.items[y])
    BY <1>1, <1>4, <1>6, BeginIs
  <1>9. \A d \in Alive \ {i} : Kept(log, log', d) BY <1>4, <1>8 DEF Kept
  <1>10. log'.next_id \in Nat /\ log.next_id <= log'.next_id BY <1>1, <1>8 DEF LogOK
  <1>11. Listed(log', i, j)
    <2>1. \A k \in DOMAIN j.steps : j.steps[k] \in Ids(log) BY <1>2, <1>7 DEF Listed
    <2> QED BY <1>1, <1>2, <1>7, <1>8, <2>1 DEF Listed, x
  <1>12. JobOK(log', i, j) BY <1>1, <1>4, <1>5, <1>7, <1>8, <1>11 DEF JobOK
  <1> QED BY <1>6, <1>7, <1>8, <1>9, <1>10, <1>12, PullStep DEF KeyOf

\* pull_image: the next step, or all that is left settled and the pull over.
LEMMA ImagePull ==
  ASSUME PullInv, NEW i \in Alive, pull_image(i)
  PROVE  PullInv'
  <1> DEFINE x == job[i].at
             g == job[i].group
             j == [job[i] EXCEPT !.at = None, !.steps = Tail(@)]
  <1>1. /\ JobOK(log, i, job[i]) /\ job[i].pc = "pulling" /\ x # None /\ DOMAIN job[i] = JobFields /\ LogOK(log)
    BY DEF PullInv, Alive, pull_image
  <1>2. Listed(log, i, job[i]) BY <1>1 DEF JobOK
  <1>3. job[i].steps # <<>> /\ 1 \in DOMAIN job[i].steps /\ x = job[i].steps[1] BY <1>1, <1>2 DEF Listed
  <1>4. /\ x \in Ids(log) /\ Root(log, x) = i /\ Par(log, x) = g /\ g # None /\ g \in Ids(log) /\ Root(log, g) = i
        /\ i \in Ids(log) /\ Par(log, i) = None /\ Root(log, i) = i
    BY <1>1, <1>3, OwnRoots
  <1>5. PICK ok \in BOOLEAN :
          \/ log' = settle(log, {x}, TRUE) /\ Step(i, j)
          \/ log' = settle(log, {x, g, i}, ok) /\ Step(i, Ended(i))
    BY DEF pull_image
  <1>6. CASE log' = settle(log, {x, g, i}, ok) /\ Step(i, Ended(i))
    <2>1. \A r \in {x, g, i} : r \in Ids(log) /\ Root(log, r) = i BY <1>4
    <2> QED BY <1>6, <2>1, EndsPull
  <1>7. CASE log' = settle(log, {x}, TRUE) /\ Step(i, j)
    <2>1. log' = finish(log, {x}, "done") BY <1>7 DEF settle
    <2>2. i \notin tree(log, {x}) BY <1>1, <1>4, TreeIs
    <2>3. /\ LogOK(log') /\ log'.next_id = log.next_id /\ Ids(log') = Ids(log) /\ log'.items[i] = log.items[i]
          /\ \A y \in Ids(log) : Par(log', y) = Par(log, y)
      BY <1>1, <1>4, <2>1, <2>2, FinishIs
    <2>4. \A r \in {x} : r \in Ids(log) /\ Root(log, r) = i BY <1>4
    <2>5. \A d \in Alive \ {i} : Kept(log, log', d) BY <2>1, <2>4, OthersKept
    <2>6. log'.next_id \in Nat /\ log.next_id <= log'.next_id BY <1>1, <2>3 DEF LogOK
    <2>7. DOMAIN j = JobFields /\ j.key = job[i].key /\ j.pc = "pulling" /\ j.step = job[i].step /\ j.at = None
          /\ j.group = g /\ j.steps = Tail(job[i].steps)
      BY <1>1 DEF JobFields
    <2> HIDE DEF j
    <2>8. job[i].steps \in Seq(Ids(log)) /\ \A k \in DOMAIN job[i].steps : job[i].steps[k] \in Ids(log) /\ Par(log, job[i].steps[k]) = g
      BY <1>2 DEF Listed
    <2>9. /\ j.steps \in Seq(Ids(log))
          /\ \A k \in DOMAIN j.steps : k + 1 \in DOMAIN job[i].steps /\ j.steps[k] = job[i].steps[k + 1]
      BY <1>3, <2>7, <2>8
    <2>10. \A k \in DOMAIN j.steps : j.steps[k] \in Ids(log) /\ Par(log, j.steps[k]) = g BY <2>8, <2>9
    <2>11. Listed(log', i, j) BY <1>2, <1>4, <2>3, <2>7, <2>9, <2>10 DEF Listed
    <2>12. JobOK(log', i, j) BY <1>1, <1>4, <2>3, <2>7, <2>11 DEF JobOK
    <2> QED BY <1>7, <2>3, <2>5, <2>6, <2>7, <2>12, PullStep DEF KeyOf
  <1> QED BY <1>5, <1>6, <1>7

\* A pull that does not join one starts with an item of its own.
LEMMA SpawnPull ==
  ASSUME PullInv, NEW key \in DOMAIN Wanted, spawn(key)
  PROVE  PullInv'
  <1> DEFINE n == log.next_id
             j == Resolving(key)
  <1>1. LogOK(log) /\ n \in Nat \ {0} /\ n \notin DOMAIN job BY DEF PullInv, LogOK
  <1>2. log' = start(log, key) /\ job' = [i \in DOMAIN job \cup {n} |-> IF i = n THEN j ELSE job[i]] BY DEF spawn
  <1>3. DOMAIN j = JobFields /\ j.key = key /\ j.pc = "resolve" /\ j.step = None BY DEF Resolving, JobFields
  <1> HIDE DEF j
  <1>4. DOMAIN job' = DOMAIN job \cup {n} /\ job'[n] = j /\ \A i \in DOMAIN job : job'[i] = job[i] BY <1>1, <1>2
  <1>5. /\ LogOK(log') /\ log'.next_id = n + 1 /\ n \in Ids(log')
        /\ log'.items[n] = [parent |-> None, key |-> key, status |-> "running"]
        /\ \A i : i \notin find_top(log, key) => Kept(log, log', i)
    BY <1>1, <1>2, StartIs
  <1>6. ASSUME NEW i \in Alive PROVE i \notin find_top(log, key) /\ KeyOf(i) # key /\ i \in DOMAIN job
    <2>1. i \in Ids(log) /\ log.items[i].status = "running" /\ Par(log, i) = None /\ log.items[i].key = job[i].key /\ i \in DOMAIN job
      BY DEF PullInv, Alive, JobOK
    <2>2. ~joins(log, key) BY DEF spawn
    <2> QED BY <2>1, <2>2 DEF joins, find_top, Ids, Par, KeyOf
  <1>7. ASSUME NEW i \in DOMAIN job' PROVE DOMAIN job'[i] = JobFields /\ JobOK(log', i, job'[i])
    <2>1. CASE i = n BY <1>3, <1>4, <1>5, <2>1 DEF JobOK, Par
    <2>2. CASE i # n
      <3>1. i \in DOMAIN job /\ job'[i] = job[i] /\ DOMAIN job[i] = JobFields /\ JobOK(log, i, job[i]) BY <1>4, <2>2 DEF PullInv
      <3>2. CASE job[i].pc = "ended" BY <3>1, <3>2 DEF JobOK
      <3>3. CASE job[i].pc # "ended" BY <1>1, <1>5, <1>6, <3>1, <3>3, KeptJob DEF Alive
      <3> QED BY <3>2, <3>3
    <2> QED BY <2>1, <2>2
  <1>8. DOMAIN job' \subseteq 1 .. log'.next_id - 1
    <2>1. DOMAIN job \subseteq 1 .. n - 1 BY DEF PullInv
    <2>2. DOMAIN job \cup {n} \subseteq 1 .. n BY <1>1, <2>1
    <2>3. log'.next_id - 1 = n BY <1>1, <1>5
    <2> QED BY <1>4, <2>2, <2>3
  <1>9. OnePull'
    <2>1. \A i \in Alive' : i = n \/ (i \in Alive /\ job'[i] = job[i]) BY <1>4 DEF Alive
    <2>2. \A i \in Alive' : i = n => job'[i].key = key BY <1>3, <1>4
    <2> QED BY <1>6, <2>1, <2>2 DEF OnePull, KeyOf, PullInv
  <1> QED BY <1>5, <1>7, <1>8, <1>9 DEF PullInv

\* Somebody else writes to the list.
LEMMA OthersPull ==
  ASSUME PullInv, job' = job, LogOK(log'), log.next_id <= log'.next_id, \A d \in Alive : Kept(log, log', d)
  PROVE  PullInv'
  <1>1. ASSUME NEW d \in DOMAIN job' PROVE DOMAIN job'[d] = JobFields /\ JobOK(log', d, job'[d])
    <2>1. DOMAIN job[d] = JobFields /\ JobOK(log, d, job[d]) /\ LogOK(log) BY DEF PullInv
    <2>2. CASE job[d].pc = "ended" BY <2>1, <2>2 DEF JobOK
    <2>3. CASE job[d].pc # "ended" BY <2>1, <2>3, KeptJob DEF Alive
    <2> QED BY <2>2, <2>3
  <1>2. DOMAIN job' \subseteq 1 .. log'.next_id - 1 BY DEF PullInv, LogOK
  <1>3. OnePull' BY DEF PullInv, OnePull, Alive, KeyOf
  <1> QED BY <1>1, <1>2, <1>3 DEF PullInv

\* A switch is no pull, and what it settles or drops is its own.
LEMMA SwitchPull ==
  ASSUME PullInv, Switch \/ \E i : SwitchChild(i) \/ SwitchEnds(i)
  PROVE  PullInv'
  <1> DEFINE sw == <<"switch">>
             R == find_top(log, sw)
  <1>1. LogOK(log) /\ log.next_id \in Nat BY DEF PullInv, LogOK
  <1>2. \A r \in R : r \in Ids(log) /\ Par(log, r) = None /\ Root(log, r) = r /\ r # None BY <1>1, IdsAre DEF find_top, Root, Par, Ids
  <1>3. ASSUME NEW d \in Alive PROVE d \notin R /\ d \in Ids(log) /\ Par(log, d) = None
    <2>1. d \in Ids(log) /\ log.items[d].key \in DOMAIN Wanted /\ Par(log, d) = None BY DEF PullInv, Alive, JobOK
    <2> QED BY <2>1, DownloadsAssumption DEF find_top
  <1>4. CASE Switch
    <2> DEFINE l == finish(log, R, "cancelled")
    <2>1. log' = start(l, sw) /\ job' = job BY <1>4 DEF Switch, start_superseding, cancel
    <2>2. LogOK(l) /\ l.next_id = log.next_id /\ Ids(l) = Ids(log) /\ \A x \in Ids(log) : Par(l, x) = Par(log, x) /\ l.items[x].key = log.items[x].key
      BY <1>1, FinishIs
    <2>3. \A d \in Alive : Kept(log, l, d) BY <1>1, <1>2, <1>3, FinishKeeps
    <2>4. find_top(l, sw) = R BY <2>2 DEF find_top, Ids, Par
    <2> HIDE DEF l, R
    <2>5. LogOK(log') /\ log'.next_id = l.next_id + 1 /\ \A d : d \notin R => Kept(l, log', d) BY <2>1, <2>2, <2>4, StartIs
    <2>6. \A x \in Ids(log) : Root(l, x) = Root(log, x)
      <3>1. ASSUME NEW x \in Ids(log) PROVE Root(l, x) = Root(log, x)
        <4>1. ItemOK(log, x) BY <1>1, IdsAre
        <4> QED BY <2>2, <4>1 DEF ItemOK, Root
      <3> QED BY <3>1
    <2>7. \A d \in Alive : Kept(log, log', d) BY <1>3, <2>2, <2>3, <2>5, <2>6 DEF Kept
    <2>8. log.next_id <= log'.next_id BY <1>1, <2>2, <2>5
    <2> QED BY <2>1, <2>5, <2>7, <2>8, OthersPull
  <1>5. ASSUME NEW i, SwitchChild(i) PROVE PullInv'
    <2>1. job' = job /\ log' = child_of_kind(log, i, <<"node">>) BY <1>5 DEF SwitchChild
    <2>2. CASE i \notin Ids(log)
      <3>1. log' = log BY <2>1, <2>2 DEF child_of_kind, Ids
      <3>2. \A d \in Alive : Kept(log, log', d) BY <3>1 DEF Kept
      <3>3. LogOK(log') /\ log.next_id <= log'.next_id BY <1>1, <3>1
      <3> QED BY <2>1, <3>2, <3>3, OthersPull
    <2>3. CASE i \in Ids(log)
      <3>1. log' = push(log, i, <<"node">>) BY <2>1, <2>3 DEF child_of_kind, Ids
      <3>2. i \in R /\ Open(log, i) BY <1>5, <2>3 DEF SwitchChild, Switches, Ids, Open, status_of
      <3>3. Par(log, i) = None BY <1>2, <3>2
      <3>4. /\ LogOK(log') /\ log'.next_id = log.next_id + 1 /\ Ids(log') = Ids(log) \cup {log.next_id}
            /\ \A x \in Ids(log) : log'.items[x] = log.items[x]
        <4> DEFINE m == push(log, i, <<"node">>)
        <4>1. LogOK(log) /\ i \in Ids(log) /\ Open(log, i) /\ Par(log, i) = None BY <1>1, <2>3, <3>2, <3>3
        <4>2. /\ LogOK(m) /\ m.next_id = log.next_id + 1 /\ Ids(m) = Ids(log) \cup {log.next_id}
              /\ \A x \in Ids(log) : m.items[x] = log.items[x]
              /\ m.items[log.next_id] = [parent |-> i, key |-> <<"node">>, status |-> "running"]
          BY <4>1, PushIs
        <4> QED BY <3>1, <4>2
      <3>5. \A d \in Alive : Kept(log, log', d) BY <3>4 DEF Kept
      <3>6. LogOK(log') /\ log.next_id <= log'.next_id BY <1>1, <3>4
      <3> QED BY <2>1, <3>5, <3>6, OthersPull
    <2> QED BY <2>2, <2>3
  <1>6. ASSUME NEW i, SwitchEnds(i) PROVE PullInv'
    <2>1. job' = job /\ log' = finish(log, {i}, "cancelled") /\ i \in R BY <1>6 DEF SwitchEnds, Switches, cancel
    <2>2. LogOK(log') /\ log'.next_id = log.next_id BY <1>1, <2>1, FinishIs
    <2>3. \A d \in Alive : Kept(log, log', d) BY <1>1, <1>2, <1>3, <2>1, FinishKeeps
    <2>4. log.next_id <= log'.next_id BY <1>1, <2>2
    <2> QED BY <2>1, <2>2, <2>3, <2>4, OthersPull
  <1> QED BY <1>4, <1>5, <1>6

\* An empty list with no pulls.
LEMMA EmptyPull ==
  ASSUME log = EmptyLog, job = <<>>
  PROVE  PullInv
  <1>1. DOMAIN log = {"next_id", "items"} /\ log.next_id = 1 /\ Ids(log) = {} BY DEF EmptyLog, Ids
  <1>2. LogOK(log) BY <1>1 DEF LogOK
  <1>3. DOMAIN job = {} OBVIOUS
  <1> QED BY <1>2, <1>3 DEF PullInv, OnePull, Alive

\* A crash leaves no list and no pulls.
LEMMA CrashPull ==
  ASSUME Crash
  PROVE  PullInv'
  <1>1. log' = EmptyLog /\ job' = <<>> BY DEF Crash
  <1>2. DOMAIN log' = {"next_id", "items"} /\ log'.next_id = 1 /\ Ids(log') = {} BY <1>1 DEF EmptyLog, Ids
  <1>3. LogOK(log') BY <1>2 DEF LogOK
  <1>4. DOMAIN job' = {} BY <1>1
  <1> QED BY <1>3, <1>4 DEF PullInv, OnePull, Alive

\* Every step keeps PullInv.
LEMMA PullNext ==
  ASSUME PullInv, [Next]_vars
  PROVE  PullInv'
  <1>1. ASSUME NEW i \in DOMAIN job, Thread(i) PROVE PullInv'
    <2>1. i \in Alive
      BY <1>1 DEF Thread, Alive, Resolve, Clone, ensure_checkout_is, BeginClone, CloneDone, CloneFails, Checkout,
                  ListImages, ListFails, BeginImage, pull_image
    <2>2. ListFails(i) => PullInv'
      <3>1. \A r \in {i} : r \in Ids(log) /\ Root(log, r) = i BY <2>1, OwnRoots
      <3> QED BY <2>1, <3>1, EndsPull DEF ListFails, Settle
    <2> QED BY <1>1, <2>1, <2>2, ResolvePull, ClonePull, GitPull, ListPull, BeginPull, ImagePull DEF Thread
  <1>2. CASE UNCHANGED vars
    <2>1. log' = log /\ job' = job BY <1>2 DEF vars
    <2>2. LogOK(log') /\ log.next_id <= log'.next_id BY <2>1 DEF PullInv, LogOK
    <2>3. \A d \in Alive : Kept(log, log', d) BY <2>1 DEF Kept
    <2> QED BY <2>1, <2>2, <2>3, OthersPull
  <1> QED BY <1>1, <1>2, SpawnPull, CrashPull, SwitchPull DEF Next

----------------------------------------------------------------------------
(* What the pulls make of the disk: RightVersion.                          *)

Cloning == {"cloning", "checkout"}
Begun(f) == [origin |-> Holds[f].repo, at |-> None, whole |-> FALSE]
Unpinned(f) == [origin |-> Holds[f].repo, at |-> "default", whole |-> TRUE]
TreeOK(f, d) ==
  d # None => /\ DOMAIN d = {"origin", "at", "whole"} /\ d.whole \in BOOLEAN
\* A clone under way is as git has left it so far, and one that waits for its commit has one.
GitOK(j, d) ==
  /\ j.pc \in {"at", "cloning", "checkout"} => j.at \in Folder
  /\ j.pc = "cloning" => d[j.at] = Begun(j.at)
  /\ j.pc = "checkout" => looks_like_commit(j.at) /\ d[j.at] = Unpinned(j.at)
\* No two pulls clone to one folder.
OneClone == \A i, j \in DOMAIN job : job[i].pc \in Cloning /\ job[j].pc \in Cloning /\ job[i].at = job[j].at => i = j
GitInv ==
  /\ DOMAIN disk = Folder /\ \A f \in Folder : TreeOK(f, disk[f])
  /\ \A i \in DOMAIN job : GitOK(job[i], disk)
  /\ OneClone /\ RightVersion

\* What git begins and what it leaves without its commit are there.
LEMMA ClonesAre ==
  ASSUME NEW f \in Folder
  PROVE  /\ Begun(f) # None /\ Unpinned(f) # None /\ TreeOK(f, Begun(f)) /\ TreeOK(f, Unpinned(f))
         /\ ~Begun(f).whole /\ Unpinned(f).whole
  <1>1. Begun(f) \in Cloned(f) /\ Unpinned(f) \in Cloned(f) BY DEF Begun, Unpinned, Cloned
  <1> QED BY <1>1, DownloadsAssumption DEF TreeOK, Begun, Unpinned

\* A thread that clones nothing, before or after its step.
LEMMA GitStays ==
  ASSUME GitInv, UNCHANGED <<disk, cut>>, NEW i \in DOMAIN job, NEW j, Step(i, j),
         job[i].pc \notin Cloning, j.pc \notin Cloning, j.pc = "at" => j.at \in Folder
  PROVE  GitInv'
  <1>1. DOMAIN job' = DOMAIN job /\ job'[i] = j /\ \A d \in DOMAIN job : d # i => job'[d] = job[d] BY DEF Step
  <1>2. \A d \in DOMAIN job' : GitOK(job'[d], disk') BY <1>1 DEF GitInv, GitOK, Cloning
  <1>3. OneClone' BY <1>1 DEF GitInv, OneClone
  <1>4. RightVersion'
    <2>1. \A d \in Alive : job[d].pc = "checkout" => d \in Alive' /\ job'[d] = job[d] BY <1>1 DEF Alive, Cloning
    <2> QED BY <2>1 DEF GitInv, RightVersion
  <1> QED BY <1>2, <1>3, <1>4 DEF GitInv

\* After a clone no clone is under way.
LEMMA SettledPc ==
  ASSUME NEW i, NEW ok, CloneSettles(i, ok), DOMAIN job[i] = JobFields
  PROVE  \E j : Step(i, j) /\ j.pc \in {"clone", "images", "resolve", "ended"}
  <1> DEFINE j == [job[i] EXCEPT !.pc = After(i), !.at = None, !.step = None]
  <1>1. Step(i, j) \/ Step(i, Ended(i)) BY DEF CloneSettles
  <1>2. j.pc = After(i) BY DEF JobFields
  <1>3. After(i) \in {"clone", "images", "resolve"} BY DEF After
  <1>4. Ended(i).pc = "ended" BY DEF Ended, Resolving
  <1> HIDE DEF j
  <1> QED BY <1>1, <1>2, <1>3, <1>4

\* A clone is over: what is left is at its version, or nothing is.
LEMMA GitEnds ==
  ASSUME GitInv, NEW i \in DOMAIN job, job[i].pc \in Cloning, NEW j, Step(i, j), j.pc \in {"clone", "images", "resolve", "ended"},
         NEW v, disk' = [disk EXCEPT ![job[i].at] = v], cut' = cut,
         TreeOK(job[i].at, v), v # None => v.at = Holds[job[i].at].at
  PROVE  GitInv'
  <1> DEFINE f == job[i].at
  <1>1. DOMAIN job' = DOMAIN job /\ job'[i] = j /\ \A d \in DOMAIN job : d # i => job'[d] = job[d] BY DEF Step
  <1>2. f \in Folder BY DEF GitInv, GitOK, Cloning
  <1>3. DOMAIN disk' = Folder /\ disk'[f] = v /\ \A g \in Folder : g # f => disk'[g] = disk[g] BY <1>2 DEF GitInv
  <1>4. \A d \in DOMAIN job : d # i /\ job[d].pc \in Cloning => job[d].at # f BY DEF GitInv, OneClone
  <1>5. \A d \in DOMAIN job' : GitOK(job'[d], disk')
    <2>1. ASSUME NEW d \in DOMAIN job, d # i PROVE GitOK(job[d], disk') BY <1>3, <1>4, <2>1 DEF GitInv, GitOK, Cloning
    <2>2. GitOK(j, disk') BY DEF GitOK
    <2> QED BY <1>1, <2>1, <2>2
  <1>6. OneClone' BY <1>1 DEF GitInv, OneClone, Cloning
  <1>7. RightVersion'
    <2>1. ASSUME NEW d \in Alive, job[d].pc = "checkout", d # i PROVE d \in Alive' /\ job'[d] = job[d] BY <1>1, <2>1 DEF Alive
    <2>2. ASSUME NEW g \in Folder, g # f, disk'[g] # None, disk'[g].whole, IsSource(g)
          PROVE  disk'[g].at = Holds[g].at \/ g \in cut' \/ \E d \in Alive' : job'[d].pc = "checkout" /\ job'[d].at = g
      <3>1. disk[g].at = Holds[g].at \/ g \in cut \/ \E d \in Alive : job[d].pc = "checkout" /\ job[d].at = g
        BY <1>3, <2>2 DEF GitInv, RightVersion
      <3> QED BY <1>3, <2>1, <2>2, <3>1
    <2> QED BY <1>3, <2>2 DEF RightVersion
  <1> QED BY <1>3, <1>5, <1>6, <1>7 DEF GitInv

\* A thread goes on with the folder it is at, which nobody else clones to.
LEMMA GitGoesOn ==
  ASSUME GitInv, NEW i \in DOMAIN job, job[i].pc \in {"at", "cloning"}, DOMAIN job[i] = JobFields, NEW pc \in Cloning,
         Step(i, [job[i] EXCEPT !.pc = pc]), cut' = cut,
         \A d \in DOMAIN job : d # i /\ job[d].pc \in Cloning => job[d].at # job[i].at,
         NEW v, disk' = [disk EXCEPT ![job[i].at] = v],
         \/ pc = "cloning" /\ v = Begun(job[i].at)
         \/ pc = "checkout" /\ v = Unpinned(job[i].at) /\ looks_like_commit(job[i].at)
  PROVE  GitInv'
  <1> DEFINE f == job[i].at
             j == [job[i] EXCEPT !.pc = pc]
  <1>1. DOMAIN job' = DOMAIN job /\ job'[i] = j /\ (\A d \in DOMAIN job : d # i => job'[d] = job[d]) /\ j.pc = pc /\ j.at = f
    BY DEF Step, JobFields
  <1> HIDE DEF j
  <1>2. f \in Folder BY DEF GitInv, GitOK
  <1>3. DOMAIN disk' = Folder /\ disk'[f] = v /\ \A g \in Folder : g # f => disk'[g] = disk[g] BY <1>2 DEF GitInv
  <1>4. TreeOK(f, v) /\ (v.whole => pc = "checkout") BY <1>2, ClonesAre
  <1>5. \A d \in DOMAIN job' : GitOK(job'[d], disk')
    <2>1. ASSUME NEW d \in DOMAIN job, d # i PROVE GitOK(job[d], disk') BY <1>3, <2>1 DEF GitInv, GitOK, Cloning
    <2>2. GitOK(j, disk') BY <1>1, <1>2, <1>3 DEF GitOK, Cloning
    <2> QED BY <1>1, <2>1, <2>2
  <1>6. OneClone' BY <1>1 DEF GitInv, OneClone
  <1>7. RightVersion'
    <2>1. ASSUME NEW d \in Alive, job[d].pc = "checkout" PROVE d \in Alive' /\ job'[d] = job[d] BY <1>1, <2>1 DEF Alive
    <2>2. ASSUME NEW g \in Folder, g # f, disk'[g] # None, disk'[g].whole, IsSource(g)
          PROVE  disk'[g].at = Holds[g].at \/ g \in cut' \/ \E d \in Alive' : job'[d].pc = "checkout" /\ job'[d].at = g
      <3>1. disk[g].at = Holds[g].at \/ g \in cut \/ \E d \in Alive : job[d].pc = "checkout" /\ job[d].at = g
        BY <1>3, <2>2 DEF GitInv, RightVersion
      <3> QED BY <1>3, <2>1, <2>2, <3>1
    <2>3. v.whole => i \in Alive' /\ job'[i].pc = "checkout" /\ job'[i].at = f BY <1>1, <1>4 DEF Alive
    <2> QED BY <1>3, <2>2, <2>3 DEF RightVersion
  <1> QED BY <1>3, <1>4, <1>5, <1>6, <1>7 DEF GitInv

\* A step of a pull keeps GitInv.
LEMMA GitThread ==
  ASSUME PullInv, GitInv, NEW i \in DOMAIN job, Thread(i)
  PROVE  GitInv'
  <1>1. DOMAIN job[i] = JobFields BY DEF PullInv
  <1>2. ASSUME UNCHANGED <<disk, cut>>, job[i].pc \notin Cloning, \E j : Step(i, j) /\ j.pc \notin Cloning /\ (j.pc = "at" => j.at \in Folder)
        PROVE  GitInv'
    BY <1>2, GitStays
  <1>3. Ended(i).pc = "ended" BY DEF Ended, Resolving
  <1>4. "ended" \notin Cloning /\ "clone" \notin Cloning /\ "images" \notin Cloning /\ "resolve" \notin Cloning /\ "pulling" \notin Cloning
        /\ "at" \notin Cloning
    BY DEF Cloning
  <1>5. CASE Resolve(i)
    <2> DEFINE lacking == Lacking(KeyOf(i))
               j == [job[i] EXCEPT !.pc = IF lacking = {} THEN "images" ELSE "clone", !.todo = lacking]
    <2>1. UNCHANGED <<disk, cut>> /\ job[i].pc = "resolve" /\ (Step(i, Ended(i)) \/ Step(i, j)) BY <1>5 DEF Resolve, Settle
    <2> HIDE DEF lacking
    <2>2. j.pc \in {"images", "clone"} BY <1>1 DEF JobFields
    <2> HIDE DEF j
    <2> QED BY <1>2, <1>3, <1>4, <2>1, <2>2
  <1>6. ASSUME NEW f \in Folder, Clone(i, f) PROVE GitInv'
    <2>1. PICK h : Step(i, [job[i] EXCEPT !.pc = "at", !.todo = @ \ {f}, !.at = f, !.step = h]) BY <1>6 DEF Clone
    <2> DEFINE j == [job[i] EXCEPT !.pc = "at", !.todo = @ \ {f}, !.at = f, !.step = h]
    <2>2. j.pc = "at" /\ j.at = f BY <1>1 DEF JobFields
    <2>3. UNCHANGED <<disk, cut>> /\ job[i].pc = "clone" /\ Step(i, j) BY <1>6, <2>1 DEF Clone
    <2> HIDE DEF j
    <2> QED BY <1>2, <1>4, <2>2, <2>3
  <1>7. CASE ensure_checkout_is(i)
    <2>1. UNCHANGED <<disk, cut>> /\ job[i].pc = "at" /\ \E j : Step(i, j) /\ j.pc \in {"clone", "images", "resolve", "ended"}
      BY <1>1, <1>7, SettledPc DEF ensure_checkout_is
    <2> QED BY <1>2, <1>4, <2>1
  <1>8. CASE BeginClone(i)
    <2>1. /\ job[i].pc = "at" /\ disk[job[i].at] = None /\ disk' = [disk EXCEPT ![job[i].at] = Begun(job[i].at)]
          /\ Step(i, [job[i] EXCEPT !.pc = "cloning"]) /\ cut' = cut
      BY <1>8 DEF BeginClone, Begun
    <2>2. ASSUME NEW d \in DOMAIN job, job[d].pc \in Cloning PROVE job[d].at # job[i].at
      <3>1. job[d].at \in Folder /\ disk[job[d].at] \in {Begun(job[d].at), Unpinned(job[d].at)} BY <2>2 DEF GitInv, GitOK, Cloning
      <3>2. disk[job[d].at] # None BY <3>1, ClonesAre
      <3> QED BY <2>1, <3>2
    <2> QED BY <1>1, <2>1, <2>2, GitGoesOn DEF Cloning
  <1>9. CASE CloneDone(i)
    <2> DEFINE f == job[i].at
               v == [disk[f] EXCEPT !.whole = TRUE, !.at = IF looks_like_commit(f) THEN "default" ELSE Holds[f].at]
    <2>1. job[i].pc = "cloning" /\ cut' = cut BY <1>9 DEF CloneDone
    <2>2. f \in Folder /\ disk[f] = Begun(f) BY <2>1 DEF GitInv, GitOK
    <2>3. disk' = [disk EXCEPT ![f] = v]
      <3>1. disk' = [disk EXCEPT ![f].whole = TRUE, ![f].at = IF looks_like_commit(f) THEN "default" ELSE Holds[f].at] BY <1>9 DEF CloneDone
      <3>2. DOMAIN disk = Folder BY DEF GitInv
      <3> QED BY <2>2, <3>1, <3>2
    <2>4. \A d \in DOMAIN job : d # i /\ job[d].pc \in Cloning => job[d].at # f BY <2>1 DEF GitInv, OneClone, Cloning
    <2>5. CASE looks_like_commit(f)
      <3>1. v = Unpinned(f)
        <4>1. Holds[f].at = "commit" BY <2>5 DEF looks_like_commit
        <4>2. v = [Begun(f) EXCEPT !.whole = TRUE, !.at = "default"] BY <2>2, <2>5
        <4> HIDE DEF v, f
        <4> QED BY <4>2 DEF Begun, Unpinned
      <3>2. Step(i, [job[i] EXCEPT !.pc = "checkout"]) BY <1>9, <2>5 DEF CloneDone
      <3> HIDE DEF v
      <3> QED BY <1>1, <2>1, <2>3, <2>4, <2>5, <3>1, <3>2, GitGoesOn DEF Cloning
    <2>6. CASE ~looks_like_commit(f)
      <3>1. TreeOK(f, v) /\ v.at = Holds[f].at BY <2>2, <2>6 DEF Begun, TreeOK
      <3>2. \E j : Step(i, j) /\ j.pc \in {"clone", "images", "resolve", "ended"} BY <1>1, <1>9, <2>6, SettledPc DEF CloneDone
      <3> HIDE DEF v
      <3> QED BY <2>1, <2>3, <3>1, <3>2, GitEnds DEF Cloning
    <2> QED BY <2>5, <2>6
  <1>10. CASE CloneFails(i)
    <2>1. job[i].pc \in Cloning /\ disk' = [disk EXCEPT ![job[i].at] = None] /\ cut' = cut BY <1>10 DEF CloneFails, Cloning
    <2>2. \E j : Step(i, j) /\ j.pc \in {"clone", "images", "resolve", "ended"} BY <1>1, <1>10, SettledPc DEF CloneFails
    <2>3. TreeOK(job[i].at, None) BY DEF TreeOK
    <2> QED BY <2>1, <2>2, <2>3, GitEnds
  <1>11. CASE Checkout(i)
    <2> DEFINE f == job[i].at
    <2>1. PICK ok \in BOOLEAN : /\ disk' = [disk EXCEPT ![f] = IF ok THEN [disk[f] EXCEPT !.at = Holds[f].at] ELSE None]
                                /\ CloneSettles(i, ok) /\ cut' = cut /\ job[i].pc = "checkout"
      BY <1>11 DEF Checkout
    <2> DEFINE v == IF ok THEN [disk[f] EXCEPT !.at = Holds[f].at] ELSE None
    <2>2. f \in Folder /\ disk[f] = Unpinned(f) BY <2>1 DEF GitInv, GitOK
    <2>3. TreeOK(f, v) /\ (v # None => v.at = Holds[f].at) BY <2>2 DEF Unpinned, TreeOK
    <2>4. \E j : Step(i, j) /\ j.pc \in {"clone", "images", "resolve", "ended"} BY <1>1, <2>1, SettledPc
    <2>5. disk' = [disk EXCEPT ![f] = v] /\ cut' = cut /\ job[i].pc \in Cloning BY <2>1 DEF Cloning
    <2> HIDE DEF v
    <2> QED BY <2>3, <2>4, <2>5, GitEnds
  <1>12. CASE ListImages(i) \/ ListFails(i) \/ BeginImage(i) \/ pull_image(i)
    <2>1. UNCHANGED <<disk, cut>> /\ job[i].pc \in {"images", "pulling"} BY <1>12 DEF ListImages, ListFails, BeginImage, pull_image
    <2>2. \E j : Step(i, j) /\ j.pc \in {"pulling", "ended"}
      <3>1. \A g, s : [job[i] EXCEPT !.pc = "pulling", !.group = g, !.at = None, !.steps = s].pc = "pulling" BY <1>1 DEF JobFields
      <3>2. CASE ListImages(i) BY <1>3, <3>1, <3>2 DEF ListImages, Settle
      <3>3. CASE ListFails(i) BY <1>3, <3>3 DEF ListFails, Settle
      <3>4. CASE BeginImage(i)
        <4>1. Step(i, [job[i] EXCEPT !.at = Head(job[i].steps)]) /\ job[i].pc = "pulling" BY <3>4 DEF BeginImage
        <4>2. [job[i] EXCEPT !.at = Head(job[i].steps)].pc = job[i].pc BY <1>1 DEF JobFields
        <4> QED BY <4>1, <4>2
      <3>5. CASE pull_image(i)
        <4>1. job[i].pc = "pulling" /\ (Step(i, [job[i] EXCEPT !.at = None, !.steps = Tail(@)]) \/ Step(i, Ended(i))) BY <3>5 DEF pull_image
        <4>2. [job[i] EXCEPT !.at = None, !.steps = Tail(@)].pc = job[i].pc BY <1>1 DEF JobFields
        <4> QED BY <1>3, <4>1, <4>2
      <3> QED BY <1>12, <3>2, <3>3, <3>4, <3>5
    <2> QED BY <1>2, <1>4, <2>1, <2>2
  <1> QED BY <1>5, <1>6, <1>7, <1>8, <1>9, <1>10, <1>11, <1>12 DEF Thread

\* fghjd dies: what was being cloned is known to be cut short.
LEMMA GitCrash ==
  ASSUME GitInv, Crash
  PROVE  GitInv'
  <1> DEFINE going == {job[i].at : i \in {a \in Alive : job[a].pc \in {"cloning", "checkout"}}}
  <1>1. PICK left \in [going -> {"there", "gone"}] :
          disk' = [f \in Folder |-> IF f \notin going THEN disk[f]
                                    ELSE IF left[f] = "gone" /\ ~disk[f].whole THEN None ELSE disk[f]]
    BY DEF Crash
  <1>2. job' = <<>> /\ cut' = cut \cup going BY DEF Crash
  <1>3. DOMAIN job' = {} /\ Alive' = {} BY <1>2 DEF Alive
  <1>4. DOMAIN disk' = Folder /\ \A f \in Folder : disk'[f] \in {disk[f], None} BY <1>1
  <1>5. \A f \in Folder : TreeOK(f, disk'[f]) BY <1>4 DEF GitInv, TreeOK
  <1>6. RightVersion'
    <2>1. ASSUME NEW f \in Folder, disk'[f] # None, disk'[f].whole, IsSource(f) PROVE disk'[f].at = Holds[f].at \/ f \in cut'
      <3>1. disk'[f] = disk[f] BY <1>4, <2>1
      <3>2. disk[f].at = Holds[f].at \/ f \in cut \/ \E i \in Alive : job[i].pc = "checkout" /\ job[i].at = f
        BY <2>1, <3>1 DEF GitInv, RightVersion
      <3> QED BY <1>2, <3>1, <3>2
    <2> QED BY <2>1 DEF RightVersion, IsSource
  <1> QED BY <1>3, <1>4, <1>5, <1>6 DEF GitInv, OneClone

\* Every step keeps GitInv.
LEMMA GitNext ==
  ASSUME PullInv, GitInv, [Next]_vars
  PROVE  GitInv'
  <1>1. ASSUME UNCHANGED <<disk, job, cut>> PROVE GitInv'
    BY <1>1 DEF GitInv, OneClone, RightVersion, Alive
  <1>2. ASSUME NEW key, spawn(key) PROVE GitInv'
    <2> DEFINE n == log.next_id
    <2>1. UNCHANGED <<disk, cut>> /\ job' = [i \in DOMAIN job \cup {n} |-> IF i = n THEN Resolving(key) ELSE job[i]] BY <1>2 DEF spawn
    <2>2. n \notin DOMAIN job BY DEF PullInv, LogOK
    <2>3. Resolving(key).pc = "resolve" BY DEF Resolving
    <2>4. DOMAIN job' = DOMAIN job \cup {n} /\ job'[n].pc = "resolve" /\ \A i \in DOMAIN job : job'[i] = job[i] BY <2>1, <2>2, <2>3
    <2>5. \A i \in DOMAIN job' : GitOK(job'[i], disk') BY <2>1, <2>4 DEF GitInv, GitOK
    <2>6. OneClone' BY <2>4 DEF GitInv, OneClone, Cloning
    <2>7. \A i \in Alive : i \in Alive' /\ job'[i] = job[i] BY <2>4 DEF Alive
    <2>8. ASSUME NEW f \in Folder, disk[f] # None, disk[f].whole, IsSource(f)
          PROVE  disk[f].at = Holds[f].at \/ f \in cut \/ \E i \in Alive' : job'[i].pc = "checkout" /\ job'[i].at = f
      <3>1. disk[f].at = Holds[f].at \/ f \in cut \/ \E i \in Alive : job[i].pc = "checkout" /\ job[i].at = f
        BY <2>8 DEF GitInv, RightVersion
      <3> QED BY <2>7, <3>1
    <2>9. RightVersion' BY <2>1, <2>8 DEF RightVersion, IsSource
    <2> QED BY <2>1, <2>5, <2>6, <2>9 DEF GitInv
  <1>3. CASE Switch \/ \E i \in 1..MaxSwitch : SwitchChild(i) \/ SwitchEnds(i) BY <1>1, <1>3 DEF Switch, SwitchChild, SwitchEnds
  <1>4. CASE UNCHANGED vars BY <1>1, <1>4 DEF vars
  <1> QED BY <1>2, <1>3, <1>4, GitThread, GitCrash DEF Next

\* Both hold at first.
LEMMA PullsStart ==
  ASSUME Init
  PROVE  PullInv /\ GitInv
  <1>1. PullInv BY EmptyPull DEF Init
  <1>2. DOMAIN job = {} BY DEF Init
  <1>3. DOMAIN disk = Folder /\ \A f \in Folder : TreeOK(f, disk[f]) /\ (disk[f] # None /\ disk[f].whole /\ IsSource(f) => disk[f].at = Holds[f].at)
    BY DownloadsAssumption DEF Init, TreeOK, IsSource
  <1> QED BY <1>1, <1>2, <1>3 DEF GitInv, OneClone, RightVersion

\* The activity list (activity.rs): whatever pulls, switches and crashes there are, a pull that
\* runs reads as running and is the only one of its key; nothing open is left under what has
\* ended, and nothing is recorded under what is gone.
THEOREM PullsAlwaysTell == Spec => []PullsTell
  <1>1. Init => PullInv /\ GitInv BY PullsStart
  <1>2. PullInv /\ GitInv /\ [Next]_vars => (PullInv /\ GitInv)' BY PullNext, GitNext
  <1>3. PullInv /\ GitInv => PullsTell
    <2> SUFFICES ASSUME PullInv, GitInv PROVE PullsTell OBVIOUS
    <2>1. \A f \in Folder : disk[f] = None \/ disk[f].whole \in BOOLEAN BY DEF GitInv, TreeOK
    <2>2. \A i \in DOMAIN log.items : log.items[i].status \in ActivityStatus /\ i < log.next_id BY IdsAre DEF PullInv, ItemOK, Ids
    <2>3. \A i \in Alive : status_of(log, i) \in {"running", None} /\ (job[i].step # None => status_of(log, job[i].step) \in {"running", None})
      BY DEF PullInv, JobOK, Alive, status_of, Ids
    <2>4. NothingLeftOpen BY IdsAre DEF PullInv, ItemOK, NothingLeftOpen, Ids, Par, Open
    <2>5. OnePull BY DEF PullInv
    <2> QED BY <2>1, <2>2, <2>3, <2>4, <2>5 DEF PullsTell, TypeOK
  <1> QED BY <1>1, <1>2, <1>3, PTL DEF Spec

\* Sources (downloads.rs, clone_source_logged): however pulls, failures and crashes interleave, a
\* source that is there is at the version its build asks for, unless a pull is about to check
\* that out or a crash of fghjd cut a clone of it short.
THEOREM AlwaysRightVersion == Spec => []RightVersion
  <1>1. Init => PullInv /\ GitInv BY PullsStart
  <1>2. PullInv /\ GitInv /\ [Next]_vars => (PullInv /\ GitInv)' BY PullNext, GitNext
  <1>3. GitInv => RightVersion BY DEF GitInv
  <1> QED BY <1>1, <1>2, <1>3, PTL DEF Spec
=============================================================================
