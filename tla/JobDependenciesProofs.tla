------------------------ MODULE JobDependenciesProofs ------------------------
(***************************************************************************)
(* Proofs about JobDependencies, for every set of graphs, jobs and users   *)
(* and every value of the bound.                                           *)
(***************************************************************************)
EXTENDS JobDependencies, FiniteSetTheorems, TLAPS

-----------------------------------------------------------------------------
(* Induction, with a set in the place of a predicate *)

\* A set of numbers that is not empty has a least one.
LEMMA NatLeast ==
  ASSUME NEW T \in SUBSET Nat, T # {}
  PROVE  \E n \in T : \A m \in T : n <= m
<1>1. \A x, y \in Nat : y < x => <<y, x>> \in OpToRel(<, Nat)
  BY DEF OpToRel
<1>2. PICK n \in T : \A m \in T : ~(<<m, n>> \in OpToRel(<, Nat))
  BY NatLessThanWellFounded, WFMin
<1>3. \A m \in T : m \in Nat /\ n \in Nat
  OBVIOUS
<1>4. \A m \in T : ~(m < n)
  BY <1>1, <1>2, <1>3, Zenon
<1> QED
  BY <1>3, <1>4

\* A set that has 0 and, with each number, the next one has them all.
LEMMA NatInduct ==
  ASSUME NEW T, 0 \in T, \A n \in Nat : n \in T => n + 1 \in T
  PROVE  \A n \in Nat : n \in T
<1> SUFFICES ASSUME \E n \in Nat : n \notin T PROVE FALSE
  OBVIOUS
<1> DEFINE U == {n \in Nat : n \notin T}
<1>1. PICK n \in U : \A m \in U : n <= m
  BY NatLeast
<1>2. n # 0 /\ n - 1 \in Nat /\ n - 1 \notin U
  BY <1>1
<1> QED
  BY <1>1, <1>2

\* The first k values of a function that starts from x and goes on by F.
IsIteration(g, k, x, F) ==
  /\ g[0] = x
  /\ \A n \in 1..k : g[n] = F[g[n - 1]]

\* What is defined by iteration exists.
LEMMA Iterated ==
  ASSUME NEW S, NEW x \in S, NEW F \in [S -> S], NEW k \in Nat
  PROVE  \E g \in [0..k -> S] : IsIteration(g, k, x, F)
<1> DEFINE T == {m \in Nat : \E g \in [0..m -> S] : IsIteration(g, m, x, F)}
<1>1. 0 \in T
  <2> DEFINE g == [n \in 0..0 |-> x]
  <2>1. g \in [0..0 -> S] /\ IsIteration(g, 0, x, F)
    BY DEF IsIteration
  <2> QED
    BY <2>1
<1>2. ASSUME NEW m \in Nat, m \in T PROVE m + 1 \in T
  <2>1. PICK g \in [0..m -> S] : IsIteration(g, m, x, F)
    BY <1>2
  <2> DEFINE h == [n \in 0..(m + 1) |-> IF n = 0 THEN x ELSE F[g[n - 1]]]
  <2>2. h \in [0..(m + 1) -> S]
    <3> SUFFICES ASSUME NEW n \in 0..(m + 1), n # 0 PROVE F[g[n - 1]] \in S
      OBVIOUS
    <3>1. n - 1 \in 0..m
      OBVIOUS
    <3> QED
      BY <3>1
  <2>3. \A n \in 0..m : h[n] = g[n]
    BY <2>1 DEF IsIteration
  <2>4. IsIteration(h, m + 1, x, F)
    BY <2>1, <2>3 DEF IsIteration
  <2>5. m + 1 \in Nat
    OBVIOUS
  <2> HIDE DEF h
  <2> QED
    BY <2>2, <2>4, <2>5
<1> HIDE DEF T
<1>3. k \in T
  BY <1>1, <1>2, NatInduct
<1> QED
  BY <1>3 DEF T

-----------------------------------------------------------------------------

(***************************************************************************)
(* The inductive invariant.  A job is released by a transaction that looks *)
(* at the dependencies in its snapshot and is not checked for what it has  *)
(* only read.  It is right all the same, since "done" lasts: the conjuncts *)
(* say what remains of it in the table of now.                             *)
(***************************************************************************)

Ops == {"none", "release"} \cup UserOps

DepsTypes ==
  /\ parents \in [Jobs -> SUBSET Jobs]
  /\ state \in [Jobs -> States]
  /\ sawOpen \in [Jobs -> BOOLEAN]
  /\ seen \subseteq Jobs /\ finished \subseteq Jobs
  /\ op \in [Actors -> Ops]
  /\ DOMAIN target = Actors
  /\ snap \in [Actors -> [Jobs -> States]]
  /\ missed \in [Actors -> SUBSET Jobs]
  /\ everDone \subseteq Jobs /\ reopened \subseteq Jobs

\* p was done at some time, or is deleted: what is once true stays true.
WasDone(p) == p \in everDone \/ state[p] = "gone"

\* A job that was done stays done, unless a user asks for it again or the runner, which has
\* not read that it is done, hands it out.
DoneLasts ==
  \A p \in Jobs : p \in everDone \ reopened => state[p] \in {"done", "gone"}

\* A snapshot differs from the table in rows that were written since.
SnapshotInv ==
  \A a \in Actors : op[a] # "none" =>
    \A j \in Jobs : j \notin missed[a] => snap[a][j] = state[j]

\* What is done is in the history, in the table and in every snapshot.
HistoryInv ==
  /\ \A j \in Jobs : state[j] = "done" => j \in everDone
  /\ \A a \in Actors : op[a] # "none" =>
       \A j \in Jobs : snap[a][j] \in {"done", "gone"} => WasDone(j)

\* A job is past the wait in the table, or still is for the runner.
PastWait(j) == state[j] \in {"pending", "enqueued", "running"} \/ j \in seen

\* A job that is past the wait has had its dependencies done.
StartedInv == \A j \in Jobs : PastWait(j) => \A p \in parents[j] : WasDone(p)

\* A transaction is one its actor may open, on a job that is in the state for it.
ActorInv ==
  /\ \A j \in Jobs : op[j] \in {"none", "release"}
  /\ \A u \in Users : op[u] # "none" =>
       op[u] \in UserOps /\ target[u] \in Jobs /\ snap[u][target[u]] \in From(op[u])

GraphInv == DoneLasts /\ SnapshotInv /\ HistoryInv /\ StartedInv /\ ActorInv
IInv == DepsTypes /\ GraphInv

\* The invariant holds of new jobs, whose graph was just stored (delay.py).
LEMMA InitIInv == Init => IInv
<1> SUFFICES ASSUME Init PROVE IInv
  OBVIOUS
<1>1. state \in [Jobs -> States]
  BY DEF Init, States
<1>2. DepsTypes
  BY <1>1, DependenciesAssumption DEF Init, DepsTypes, Ops
<1> QED
  BY <1>2 DEF Init, IInv, GraphInv, DoneLasts, SnapshotInv, HistoryInv, StartedInv,
              PastWait, ActorInv, Actors

-----------------------------------------------------------------------------

\* Rows are written one at a time ...
LEMMA WriteStep ==
  ASSUME IInv, NEW j \in Jobs, NEW value \in States, Write(j, value),
         parents' = parents, seen' \subseteq seen, finished' \subseteq Jobs,
         sawOpen' \in [Jobs -> BOOLEAN],
         reopened \subseteq reopened', reopened' \subseteq Jobs,
         everDone' = IF value = "done" THEN everDone \cup {j} ELSE everDone,
         j \in everDone \ reopened' => value \in {"done", "gone"},
         state[j] # "gone",
         value \in {"pending", "enqueued", "running"} => \A p \in parents[j] : WasDone(p)
  PROVE  IInv'
<1> USE DEF IInv, GraphInv
<1>1. DepsTypes'
  BY DEF DepsTypes, Write, Missed
<1>2. /\ state' = [state EXCEPT ![j] = value]
      /\ \A a \in Actors : op[a] # "none" => missed'[a] = missed[a] \cup {j}
      /\ op' = op /\ target' = target /\ snap' = snap
  BY DEF Write, Missed
<1>3. \A p \in Jobs : WasDone(p) => WasDone(p)'
  BY <1>2 DEF WasDone, DepsTypes
<1>4. DoneLasts'
  BY <1>2 DEF DoneLasts, DepsTypes
<1>5. SnapshotInv'
  BY <1>2 DEF SnapshotInv, DepsTypes
<1>6. HistoryInv'
  BY <1>2, <1>3 DEF HistoryInv, DepsTypes
<1>7. StartedInv'
  BY <1>2, <1>3 DEF StartedInv, PastWait, DepsTypes
<1>8. ActorInv'
  BY <1>2 DEF ActorInv
<1> QED
  BY <1>1, <1>4, <1>5, <1>6, <1>7, <1>8

\* ... or several by a transaction that ends.  Rows it writes are as in its snapshot.
LEMMA EndStep ==
  ASSUME IInv, NEW a \in Actors, NEW js \in SUBSET Jobs, NEW s \in [Jobs -> States],
         End(a, js, s),
         UNCHANGED <<parents, sawOpen, seen>>, finished' \subseteq Jobs,
         \A j \in Jobs \ js : s[j] = state[j],
         everDone' \subseteq Jobs, reopened' \subseteq Jobs,
         everDone \subseteq everDone', reopened \subseteq reopened',
         everDone' \subseteq everDone \cup js,
         \A j \in js : /\ state[j] # "gone"
                       /\ j \in everDone' \ reopened' => s[j] = "done"
                       /\ s[j] = "done" => j \in everDone'
                       /\ s[j] \in {"pending", "enqueued", "running"} =>
                            \A p \in parents[j] : WasDone(p) \/ p \in everDone'
  PROVE  IInv'
<1> USE DEF IInv, GraphInv
<1>1. /\ state' = s
      /\ \A b \in Actors : op'[b] # "none" =>
           /\ op[b] = op'[b]
           /\ snap'[b] = snap[b] /\ missed'[b] = missed[b] \cup js
           /\ target'[b] = target[b]
  BY DEF End, DepsTypes
<1>2. DepsTypes'
  <2>1. op' \in [Actors -> Ops]
    BY DEF End, DepsTypes, Ops
  <2>2. snap' \in [Actors -> [Jobs -> States]]
    <3>1. [j \in Jobs |-> "gone"] \in [Jobs -> States]
      BY DEF States
    <3> QED
      BY <3>1 DEF End, DepsTypes
  <2>3. missed' \in [Actors -> SUBSET Jobs]
    BY DEF End, DepsTypes
  <2>4. DOMAIN target' = Actors
    BY DEF End, DepsTypes
  <2> QED
    BY <1>1, <2>1, <2>2, <2>3, <2>4 DEF DepsTypes
<1>3. \A p \in Jobs : WasDone(p) => WasDone(p)'
  BY <1>1 DEF WasDone, DepsTypes
<1>4. DoneLasts'
  BY <1>1 DEF DoneLasts, DepsTypes
<1>5. SnapshotInv'
  BY <1>1 DEF SnapshotInv, DepsTypes
<1>6. HistoryInv'
  BY <1>1, <1>3 DEF HistoryInv, DepsTypes
<1>7. StartedInv'
  <2> SUFFICES ASSUME NEW j \in Jobs, PastWait(j)', NEW p \in parents[j]
               PROVE  WasDone(p)'
    BY DEF StartedInv
  <2>1. p \in Jobs
    BY DEF DepsTypes
  <2>2. CASE j \in js
    BY <1>1, <1>3, <2>1, <2>2 DEF WasDone, StartedInv, PastWait
  <2>3. CASE j \notin js
    BY <1>1, <1>3, <2>1, <2>3 DEF StartedInv, PastWait, DepsTypes
  <2> QED
    BY <2>2, <2>3
<1>8. ActorInv'
  <2>1. \A j \in Jobs : op'[j] \in {"none", "release"}
    BY DEF End, ActorInv, DepsTypes, Actors
  <2> QED
    BY <1>1, <2>1 DEF ActorInv, Actors
<1> QED
  BY <1>2, <1>4, <1>5, <1>6, <1>7, <1>8

\* It may also write nothing.
LEMMA EndIdleStep ==
  ASSUME IInv, NEW a \in Actors, End(a, {}, state),
         UNCHANGED <<parents, sawOpen, seen, everDone, reopened>>, finished' \subseteq Jobs
  PROVE  IInv'
<1>1. state \in [Jobs -> States] /\ everDone \subseteq Jobs /\ reopened \subseteq Jobs
  BY DEF IInv, DepsTypes
<1> QED
  BY <1>1, EndStep

\* A transaction begins with a snapshot that misses nothing.
LEMMA BeginStep ==
  ASSUME IInv, NEW a \in Actors, NEW what \in Ops \ {"none"}, NEW j \in Jobs,
         Begin(a, what, j),
         UNCHANGED <<parents, state, sawOpen, seen, everDone, reopened>>, finished' \subseteq Jobs,
         a \in Jobs => what = "release",
         a \in Users => what \in UserOps /\ state[j] \in From(what)
  PROVE  IInv'
<1> USE DEF IInv, GraphInv
<1>1. DepsTypes'
  BY DEF Begin, DepsTypes
<1>2. DoneLasts' /\ StartedInv'
  BY DEF DoneLasts, StartedInv, PastWait, WasDone
<1>3. SnapshotInv'
  BY DEF SnapshotInv, Begin, DepsTypes
<1>4. HistoryInv'
  BY DEF HistoryInv, Begin, DepsTypes, WasDone
<1>5. ActorInv'
  BY DependenciesAssumption DEF ActorInv, Begin, DepsTypes, Actors, From
<1> QED
  BY <1>1, <1>2, <1>3, <1>4, <1>5
-----------------------------------------------------------------------------

\* Releasing and cancelling write rows that wait; these were not done, or are asked
\* for again.
LEMMA Waiting ==
  ASSUME DepsTypes, NEW s \in [Jobs -> States], NEW j \in Jobs
  PROVE  /\ Released(s, j) \in SUBSET Jobs
         /\ Cascade(s, j) \in SUBSET {c \in Jobs : s[c] = "wait"}
<1>1. Released(s, j) \in SUBSET Jobs
  BY DEF Released, Children
<1>2. \A js : WaitingOn(s, js) \subseteq {c \in Jobs : s[c] = "wait"}
  BY DEF WaitingOn, Children
<1>3. Cascade(s, j) \subseteq {c \in Jobs : s[c] = "wait"}
  <2> DEFINE N == Cardinality(Jobs)
             W == {c \in Jobs : s[c] = "wait"}
             F == [js \in SUBSET W |-> WaitingOn(s, js)]
             first == WaitingOn(s, {j})
  <2>1. N \in Nat
    BY FS_CardinalityType, DependenciesAssumption
  <2>2. first \in SUBSET W /\ F \in [SUBSET W -> SUBSET W]
    BY <1>2
  <2>3. \A js \in SUBSET W : F[js] = WaitingOn(s, js)
    OBVIOUS
  <2>4. \A js : WaitingOn(s, js) \subseteq W
    BY <1>2
  <2>5. Cascade(s, j) =
          LET level == CHOOSE f : f = [n \in 0..N |-> IF n = 0 THEN first
                                                     ELSE WaitingOn(s, f[n - 1])]
          IN  UNION {level[n] : n \in 0..N}
    BY DEF Cascade
  <2> HIDE DEF N, F, W, first
  <2>6. PICK g \in [0..N -> SUBSET W] : IsIteration(g, N, first, F)
    BY <2>1, <2>2, Iterated
  <2>7. \A n \in 1..N : F[g[n - 1]] = WaitingOn(s, g[n - 1])
    <3> SUFFICES ASSUME NEW n \in 1..N PROVE g[n - 1] \in SUBSET W
      BY <2>3
    <3>1. n - 1 \in 0..N
      BY <2>1
    <3> QED
      BY <2>6, <3>1
  <2>8. g = [n \in 0..N |-> IF n = 0 THEN first ELSE WaitingOn(s, g[n - 1])]
    BY <2>1, <2>6, <2>7 DEF IsIteration
  <2> DEFINE level == CHOOSE f : f = [n \in 0..N |-> IF n = 0 THEN first
                                                     ELSE WaitingOn(s, f[n - 1])]
  <2>9. level = [n \in 0..N |-> IF n = 0 THEN first ELSE WaitingOn(s, level[n - 1])]
    BY <2>8
  <2> HIDE DEF level
  <2>10. \A n \in 0..N : level[n] \subseteq W
    BY <2>2, <2>4, <2>9
  <2> QED
    BY <2>5, <2>10 DEF level, W
<1> QED
  BY <1>1, <1>3

\* The transaction that releases what waited for a finished job keeps the invariant: a
\* job it releases is as in its snapshot, for it has not been written since.
LEMMA ReleaseStep ==
  ASSUME IInv, NEW j \in Jobs, Release(j), UNCHANGED parents
  PROVE  IInv'
<1> USE DEF IInv
<1>1. CASE BeginRelease(j)
  BY <1>1, BeginStep, DependenciesAssumption
  DEF BeginRelease, historyVars, Ops, Actors, DepsTypes
<1>2. CASE CommitRelease(j)
  <2> DEFINE js == Released(snap[j], j)
             s == Overwrite(state, js, "pending")
  <2>1. /\ j \in Actors /\ op[j] # "none" /\ End(j, js, s) /\ js \cap missed[j] = {}
        /\ UNCHANGED <<parents, sawOpen, seen, finished, everDone, reopened>>
    BY <1>2 DEF CommitRelease, Actors, historyVars
  <2>2. js \in SUBSET Jobs /\ s \in [Jobs -> States]
    BY <2>1, Waiting DEF Overwrite, DepsTypes, States
  <2>3. \A c \in js :
          /\ state[c] = "wait" /\ s[c] = "pending"
          /\ \A p \in parents[c] : WasDone(p)
    <3> SUFFICES ASSUME NEW c \in js
                 PROVE  /\ state[c] = "wait" /\ s[c] = "pending"
                        /\ \A p \in parents[c] : WasDone(p)
      OBVIOUS
    <3>1. state[c] = "wait"
      BY <2>1, <2>2 DEF Released, GraphInv, SnapshotInv
    <3>2. \A p \in parents[c] : p \in Jobs /\ snap[j][p] \in {"done", "gone"}
      BY <2>2 DEF Released, ParentsDone, DepsTypes
    <3>3. s[c] = "pending"
      BY <2>2 DEF Overwrite
    <3> QED
      BY <2>1, <3>1, <3>2, <3>3 DEF GraphInv, HistoryInv
  <2>4. \A c \in js : c \notin everDone \ reopened
    BY <2>2, <2>3 DEF GraphInv, DoneLasts
  <2>5. \A c \in Jobs \ js : s[c] = state[c]
    BY DEF Overwrite
  <2> HIDE DEF js, s
  <2> QED
    BY <2>1, <2>2, <2>3, <2>4, <2>5, EndStep DEF DepsTypes
<1>3. CASE FailRelease(j)
  BY <1>3, EndIdleStep DEF FailRelease, historyVars, Actors, DepsTypes
<1> QED
  BY <1>1, <1>2, <1>3 DEF Release

\* So does what the runner reads and hands out.
LEMMA RunnerStep ==
  ASSUME IInv, NEW j \in Jobs, UNCHANGED parents, Read(j) \/ Enqueue(j)
  PROVE  IInv'
<1> USE DEF IInv, historyVars
<1>1. \A p \in parents[j] : p \in Jobs
  BY DEF DepsTypes
<1>2. CASE Read(j)
  <2>1. DepsTypes'
    BY <1>2 DEF Read, txVars, DepsTypes
  <2>2. StartedInv'
    BY <1>2 DEF Read, txVars, GraphInv, StartedInv, PastWait, WasDone
  <2> QED
    BY <1>2, <2>1, <2>2
    DEF Read, txVars, GraphInv, DoneLasts, SnapshotInv, HistoryInv, WasDone, ActorInv
<1>3. CASE Enqueue(j)
  <2>1. \A p \in parents[j] : WasDone(p)
    BY <1>3 DEF Enqueue, GraphInv, StartedInv, PastWait
  <2>2. /\ reopened \subseteq reopened' /\ reopened' \subseteq Jobs /\ state[j] # "gone"
        /\ j \notin everDone \ reopened'
    BY <1>3 DEF Enqueue, GraphInv, DoneLasts, DepsTypes
  <2> QED
    BY <1>3, <2>1, <2>2, WriteStep DEF Enqueue, DepsTypes, States
<1> QED
  BY <1>2, <1>3

\* So does each step of a worker and of the cron that deletes old jobs.
LEMMA WorkerStep ==
  ASSUME IInv, NEW j \in Jobs, UNCHANGED parents,
         \/ Start(j) \/ Finish(j) \/ Postpone(j) \/ Fail(j)
         \/ DieRunning(j) \/ DieFinished(j) \/ Delete(j)
  PROVE  IInv'
<1> USE DEF IInv, historyVars
<1>1. \A p \in parents[j] : p \in Jobs
  BY DEF DepsTypes
<1>2. CASE Start(j)
  BY <1>1, <1>2, WriteStep
  DEF Start, DepsTypes, States, GraphInv, StartedInv, PastWait, DoneLasts
<1>3. CASE Finish(j)
  BY <1>1, <1>3, WriteStep DEF Finish, DepsTypes, States
<1>4. CASE Postpone(j)
  BY <1>1, <1>4, WriteStep
  DEF Postpone, AskedAgain, DepsTypes, States, GraphInv, StartedInv, PastWait, DoneLasts
<1>5. CASE Fail(j)
  BY <1>1, <1>5, WriteStep DEF Fail, DepsTypes, States, GraphInv, DoneLasts
<1>6. CASE DieRunning(j)
  <2>1. PICK value \in {"pending", "failed"} : Write(j, value)
    BY <1>6 DEF DieRunning
  <2>2. /\ \A p \in parents[j] : WasDone(p)
        /\ j \notin everDone \ reopened /\ state[j] # "gone"
    BY <1>1, <1>6 DEF DieRunning, GraphInv, StartedInv, PastWait, DoneLasts
  <2> QED
    BY <1>6, <2>1, <2>2, WriteStep DEF DieRunning, DepsTypes, States
<1>7. CASE DieFinished(j)
  BY <1>7, EndIdleStep DEF DieFinished, Actors, DepsTypes
<1>8. CASE Delete(j)
  BY <1>1, <1>8, WriteStep DEF Delete, DepsTypes, States
<1> QED
  BY <1>2, <1>3, <1>4, <1>5, <1>6, <1>7, <1>8

\* What a button writes, in the table as its transaction finds it.
LEMMA ClickWrites ==
  ASSUME IInv, NEW u \in Users, op[u] # "none", 
         DOMAIN Written(op[u], snap[u], target[u]) \cap missed[u] = {},
         NEW c \in DOMAIN Written(op[u], snap[u], target[u])
  PROVE  LET j == target[u]
             w == Written(op[u], snap[u], j)
         IN
         /\ c \in Jobs /\ j \in DOMAIN w
         /\ IF c = j THEN state[c] \in From(op[u]) ELSE state[c] = "wait"
         /\ w[c] \in States \ {"gone", "enqueued", "running"}
         /\ w[c] = "done" <=> op[u] = "done" /\ c = j
         /\ op[u] = "pending" => c = j
         /\ w[c] = "pending" => \A p \in parents[c] : WasDone(p) \/ (op[u] = "done" /\ p = j)
<1> DEFINE j == target[u]
           s == snap[u]
           w == Written(op[u], s, j)
<1> USE DEF IInv
<1>1. /\ u \in Actors /\ j \in Jobs /\ s \in [Jobs -> States]
      /\ op[u] \in {"done", "cancelled", "pending"} /\ s[j] \in From(op[u])
  BY DependenciesAssumption DEF GraphInv, ActorInv, DepsTypes, Actors
<1>2. \A p \in Jobs : /\ p \notin missed[u] => s[p] = state[p]
                      /\ s[p] \in {"done", "gone"} => WasDone(p)
  BY <1>1 DEF GraphInv, SnapshotInv, HistoryInv
<1>3. \A p \in parents[c] : c \in Jobs => p \in Jobs
  BY DEF DepsTypes
<1>4. CASE op[u] = "done"
  <2> DEFINE done == [s EXCEPT ![j] = "done"]
  <2>1. w = [x \in {j} \cup Released(done, j) |-> IF x = j THEN "done" ELSE "pending"]
    BY <1>4 DEF Written
  <2>2. c = j \/ (c \in Jobs /\ s[c] = "wait" /\ c # j
                   /\ \A p \in parents[c] : p = j \/ s[p] \in {"done", "gone"})
    BY <1>1, <1>3, <2>1 DEF Released, ParentsDone, Children
  <2> QED
    BY <1>1, <1>2, <1>3, <1>4, <2>1, <2>2 DEF States
<1>5. CASE op[u] = "cancelled"
  <2>1. w = [x \in {j} \cup Cascade(s, j) |-> "cancelled"]
    BY <1>5 DEF Written
  <2>2. c = j \/ (c \in Jobs /\ s[c] = "wait")
    BY <1>1, <2>1, Waiting
  <2> QED
    BY <1>1, <1>2, <1>5, <2>1, <2>2 DEF States, From
<1>6. CASE op[u] = "pending"
  <2>1. w = [x \in {j} |-> AskedAgain(~ParentsDone(s, j))]
    BY <1>6 DEF Written
  <2>2. c = j
    BY <2>1
  <2> QED
    BY <1>1, <1>2, <1>3, <1>6, <2>1, <2>2 DEF States, AskedAgain, ParentsDone
<1> QED
  BY <1>1, <1>4, <1>5, <1>6

\* So does a user's button, from the click to the commit.
LEMMA UserStep ==
  ASSUME IInv, NEW u \in Users, UNCHANGED parents,
         \/ \E what \in UserOps, j \in Jobs : Click(u, what, j)
         \/ CommitClick(u) \/ RetryClick(u)
  PROVE  IInv'
<1> USE DEF IInv
<1>1. u \in Actors /\ u \notin Jobs
  BY DependenciesAssumption DEF Actors
<1>2. ASSUME NEW what \in UserOps, NEW j \in Jobs, Click(u, what, j) PROVE IInv'
  BY <1>1, <1>2, BeginStep, DependenciesAssumption
  DEF Click, historyVars, Ops, DepsTypes
<1>3. CASE CommitClick(u)
  <2> DEFINE j == target[u]
             w == Written(op[u], snap[u], j)
             js == DOMAIN w
             s == [c \in Jobs |-> IF c \in js THEN w[c] ELSE state[c]]
  <2>1. /\ op[u] # "none" /\ End(u, js, s) /\ js \cap missed[u] = {}
        /\ UNCHANGED <<parents, sawOpen, seen, finished>>
        /\ everDone' = IF op[u] = "done" THEN everDone \cup {j} ELSE everDone
        /\ reopened' = IF op[u] = "pending" THEN reopened \cup {j} ELSE reopened
    BY <1>3 DEF CommitClick
  <2>2. \A c \in js :
          /\ c \in Jobs /\ j \in js
          /\ IF c = j THEN state[c] \in From(op[u]) ELSE state[c] = "wait"
          /\ w[c] \in States \ {"gone", "enqueued", "running"}
          /\ w[c] = "done" <=> op[u] = "done" /\ c = j
          /\ op[u] = "pending" => c = j
          /\ w[c] = "pending" => \A p \in parents[c] : WasDone(p) \/ (op[u] = "done" /\ p = j)
    BY <2>1, ClickWrites
  <2>3. op[u] \in {"done", "cancelled", "pending"} /\ j \in Jobs /\ j \in js
    BY <2>1, DependenciesAssumption DEF GraphInv, ActorInv, Written
  <2>4. s \in [Jobs -> States] /\ js \in SUBSET Jobs
    BY <2>2 DEF DepsTypes
  <2>5. \A c \in js : c \in everDone \ reopened => state[c] \in {"done", "gone"}
    BY <2>2 DEF GraphInv, DoneLasts
  <2>6. \A c \in js :
          /\ state[c] # "gone"
          /\ c \in everDone' \ reopened' => s[c] = "done"
          /\ s[c] = "done" => c \in everDone'
          /\ s[c] \in {"pending", "enqueued", "running"} =>
               \A p \in parents[c] : WasDone(p) \/ p \in everDone'
    <3> SUFFICES ASSUME NEW c \in js
                 PROVE /\ state[c] # "gone"
                       /\ c \in everDone' \ reopened' => s[c] = "done"
                       /\ s[c] = "done" => c \in everDone'
                       /\ s[c] \in {"pending", "enqueued", "running"} =>
                            \A p \in parents[c] : WasDone(p) \/ p \in everDone'
      OBVIOUS
    <3>1. s[c] = w[c] /\ c \in Jobs
      BY <2>2
    <3>2. state[c] # "gone"
      BY <2>2, <2>3 DEF From
    <3>3. c \in everDone' \ reopened' => s[c] = "done"
      BY <2>1, <2>2, <2>3, <2>5, <3>1 DEF From
    <3> QED
      BY <2>1, <2>2, <2>3, <3>1, <3>2, <3>3
  <2>7. /\ everDone' \subseteq Jobs /\ reopened' \subseteq Jobs
        /\ everDone \subseteq everDone' /\ reopened \subseteq reopened'
        /\ everDone' \subseteq everDone \cup js /\ finished' \subseteq Jobs
    BY <2>1, <2>3 DEF DepsTypes
  <2>8. \A c \in Jobs \ js : s[c] = state[c]
    OBVIOUS
  <2> HIDE DEF js, s
  <2> QED
    BY <1>1, <2>1, <2>4, <2>6, <2>7, <2>8, EndStep
<1>4. CASE RetryClick(u)
  <2>1. op[u] \in Ops \ {"none"} /\ op[u] \in UserOps /\ target[u] \in Jobs
    BY <1>1, <1>4 DEF RetryClick, GraphInv, ActorInv, DepsTypes
  <2>2. CASE state[target[u]] \in From(op[u])
    BY <1>1, <1>4, <2>1, <2>2, BeginStep DEF RetryClick, historyVars, DepsTypes
  <2>3. CASE state[target[u]] \notin From(op[u])
    BY <1>1, <1>4, <2>1, <2>3, EndIdleStep DEF RetryClick, historyVars, DepsTypes
  <2> QED
    BY <2>2, <2>3
<1> QED
  BY <1>2, <1>3, <1>4

\* Every step keeps the invariant.
LEMMA NextIInv == IInv /\ [Next]_vars => IInv'
<1> SUFFICES ASSUME IInv, [Next]_vars PROVE IInv'
  OBVIOUS
<1>1. CASE Next
  BY <1>1, ReleaseStep, RunnerStep, WorkerStep, UserStep DEF Next
<1>2. CASE UNCHANGED vars
  BY <1>2 DEF vars, txVars, historyVars, IInv, GraphInv, DepsTypes, DoneLasts, SnapshotInv,
              HistoryInv, StartedInv, PastWait, ActorInv, WasDone
<1> QED
  BY <1>1, <1>2

\* The invariant holds always, for any graph of jobs and any number of users.
THEOREM Invariance == Spec => []IInv
<1>1. Init => IInv
  BY InitIInv
<1>2. IInv /\ [Next]_vars => IInv'
  BY NextIInv
<1> QED
  BY <1>1, <1>2, PTL DEF Spec

\* A job is performed only after each of its dependencies was done, or is deleted, for
\* any graph and however workers and users race (job.py, enqueue_waiting, set_pending;
\* models/queue_job.py, _change_job_state).
THEOREM ParentsFirst == Spec => []RunsAfterParents
<1>1. IInv => RunsAfterParents
  BY DEF IInv, GraphInv, StartedInv, PastWait, RunsAfterParents, WasDone
<1> QED
  BY <1>1, Invariance, PTL

\* No job runs, or is about to run, under a cancelled one unless one of the two was opened
\* again, by a user or by the runner that had not read that it was closed (job.py,
\* cancel_dependent_jobs; jobrunner/runner.py, set_job_enqueued).
THEOREM CancelledHoldsBack == Spec => []NothingRunsUnderCancelled
<1>1. IInv => NothingRunsUnderCancelled
  BY DEF IInv, GraphInv, StartedInv, PastWait, DoneLasts, DepsTypes,
         NothingRunsUnderCancelled, WasDone
<1> QED
  BY <1>1, Invariance, PTL

\* What is opened again does not wait; so a step that releases a job, or hands one out that
\* waits, opens none.
LEMMA ReleaseOpensNone ==
  ASSUME IInv, Next, NEW j \in Jobs, state[j] = "wait", state'[j] \in {"pending", "enqueued"}
  PROVE  reopened' = reopened
<1>1. ASSUME NEW u \in Users, CommitClick(u), op[u] = "pending" PROVE FALSE
  <2>1. j \in DOMAIN Written(op[u], snap[u], target[u])
    BY <1>1 DEF CommitClick, End
  <2>2. state[j] \in From("pending")
    BY <1>1, <2>1, ClickWrites DEF CommitClick
  <2> QED
    BY <2>2 DEF From
<1>2. ASSUME NEW k \in Jobs, Enqueue(k) PROVE reopened' = reopened
  <2>1. j = k
    BY <1>2 DEF Enqueue, Write, IInv, DepsTypes
  <2> QED
    BY <1>2, <2>1 DEF Enqueue
<1> QED
  BY <1>1, <1>2
  DEF Next, Read, Release, Start, Finish, Postpone, Fail, BeginRelease, CommitRelease,
      FailRelease, DieRunning, DieFinished, Delete, Click, CommitClick, RetryClick,
      historyVars

\* A waiting job is released, or handed out, when its dependencies are done, those excepted
\* that were opened again (job.py, enqueue_waiting; jobrunner/runner.py, set_job_enqueued).
THEOREM ReleasedInTime == Spec => ReleasedWhenDone
<1> DEFINE InTime ==
      \A j \in Jobs : state[j] = "wait" /\ state'[j] \in {"pending", "enqueued"} =>
        \A p \in parents[j] \ reopened : state'[p] \in {"done", "gone"}
<1>1. IInv /\ IInv' /\ [Next]_vars => [InTime]_vars
  <2> SUFFICES ASSUME IInv, IInv', Next, NEW j \in Jobs, state[j] = "wait",
                      state'[j] \in {"pending", "enqueued"},
                      NEW p \in parents[j] \ reopened
               PROVE  state'[p] \in {"done", "gone"}
    OBVIOUS
  <2>1. reopened' = reopened /\ parents' = parents
    BY ReleaseOpensNone DEF Next
  <2>2. p \in Jobs /\ p \in parents'[j]
    BY <2>1 DEF IInv, DepsTypes
  <2>3. WasDone(p)'
    BY <2>2 DEF IInv, GraphInv, StartedInv, PastWait
  <2> QED
    BY <2>1, <2>2, <2>3 DEF IInv, GraphInv, DoneLasts, WasDone
<1>2. Spec => [][InTime]_vars
  BY <1>1, Invariance, PTL DEF Spec
<1> QED
  BY <1>2 DEF ReleasedWhenDone
-----------------------------------------------------------------------------
(***************************************************************************)
(* What workers do as long as nobody else interferes.  A waiting job whose *)
(* dependencies are done has a carrier: a dependency whose worker is going *)
(* to look at the dependents, or has seen that it may be released.         *)
(***************************************************************************)

Carries(p, j) == p \in finished \/ (op[p] = "release" /\ j \in Released(snap[p], p))

\* No job is deleted or asked for again; what is past the wait stays so.
QuietInv ==
  /\ \A u \in Users : op[u] = "none"
  /\ reopened = {}
  /\ \A j \in Jobs : state[j] # "gone" /\ ~sawOpen[j]
  /\ \A j \in seen : state[j] = "pending"
  /\ \A j \in Jobs : state[j] \in {"pending", "enqueued", "running"} => ParentsDone(state, j)
  /\ \A a \in Jobs : op[a] # "none" => \A j \in missed[a] : state[j] # "wait"

\* A job with one dependency is released by the worker of that one.
OnlyChildInv ==
  \A p, c \in Jobs :
    op[p] = "release" /\ parents[c] = {p} /\ snap[p][c] = "wait" => state[c] = "wait"

CarrierInv ==
  \A j \in Jobs : Ready(j) /\ ~Overlaps(j) => \E p \in parents[j] : Carries(p, j)

WorkersInv == events = 0 => QuietInv /\ OnlyChildInv /\ CarrierInv
EventsInv == events \in Nat

\* Rows written while a release is open are missed by it.
LEMMA QuietWrite ==
  ASSUME IInv, QuietInv, OnlyChildInv, CarrierInv, NEW j \in Jobs,
         NEW value \in {"pending", "enqueued", "running", "failed", "done"},
         Write(j, value), UNCHANGED <<parents, reopened>>,
         state[j] \in {"pending", "enqueued", "running"},
         seen' \subseteq seen, j \notin seen',
         sawOpen' \in [Jobs -> BOOLEAN], \A c \in Jobs : ~sawOpen'[c],
         finished' = IF value = "done" /\ Children(j) # {} THEN finished \cup {j} ELSE finished
  PROVE  QuietInv' /\ OnlyChildInv' /\ CarrierInv'
<1> USE DEF IInv
<1>1. /\ state' = [state EXCEPT ![j] = value]
      /\ \A a \in Actors : op[a] # "none" => missed'[a] = missed[a] \cup {j}
      /\ op' = op /\ snap' = snap
  BY DEF Write, Missed
<1>2. \A c \in Jobs : parents[c] \subseteq Jobs /\ state[c] \in States
  BY DEF DepsTypes
<1>3. \A c \in Jobs : c # j => state'[c] = state[c]
  BY <1>1, <1>2 DEF DepsTypes
<1>4. state'[j] = value
  BY <1>1 DEF DepsTypes
<1>5. \A c \in Jobs : ParentsDone(state, c) => ParentsDone(state', c)
  BY <1>2, <1>3, <1>4 DEF ParentsDone
<1>6. QuietInv'
  <2>1. \A c \in Jobs : (state[c] \in {"pending", "enqueued", "running"} => ParentsDone(state, c))'
    BY <1>3, <1>5 DEF QuietInv, ParentsDone
  <2>2. \A a \in Jobs : op'[a] # "none" => \A c \in missed'[a] : state'[c] # "wait"
    BY <1>1, <1>3, <1>4 DEF QuietInv, Actors, DepsTypes
  <2>3. \A c \in seen' : c \in Jobs /\ state'[c] = "pending"
    BY <1>3 DEF QuietInv, DepsTypes
  <2> QED
    BY <1>1, <1>3, <1>4, <2>1, <2>2, <2>3 DEF QuietInv
<1>7. OnlyChildInv'
  BY <1>1, <1>3 DEF OnlyChildInv
<1>8. CarrierInv'
  <2> SUFFICES ASSUME NEW c \in Jobs, Ready(c)', ~Overlaps(c)'
               PROVE  \E p \in parents[c] : Carries(p, c)'
    BY DEF CarrierInv
  <2>1. c # j /\ state[c] = "wait" /\ ~Overlaps(c)
    BY <1>3, <1>4 DEF Ready, Overlaps, Children
  <2>2. CASE Ready(c)
    <3>1. PICK p \in parents[c] : Carries(p, c)
      BY <2>1, <2>2 DEF CarrierInv
    <3> QED
      BY <1>1, <3>1 DEF Carries, Released, Children, ParentsDone
  <2>3. CASE ~Ready(c)
    <3>1. PICK p \in parents[c] : state[p] \notin {"done", "gone"}
      BY <2>1, <2>3 DEF Ready
    <3>2. p = j /\ value = "done" /\ c \in Children(j)
      BY <1>2, <1>3, <1>4, <3>1 DEF Ready, Children
    <3> QED
      BY <3>1, <3>2 DEF Carries
  <2> QED
    BY <2>2, <2>3
<1> QED
  BY <1>6, <1>7, <1>8

\* The worker of a finished job begins to look at the dependents.
LEMMA QuietBegin ==
  ASSUME IInv, QuietInv, OnlyChildInv, CarrierInv, NEW p \in Jobs, BeginRelease(p),
         parents' = parents
  PROVE  QuietInv' /\ OnlyChildInv' /\ CarrierInv'
<1> USE DEF IInv
<1>1. /\ op' = [op EXCEPT ![p] = "release"] /\ snap' = [snap EXCEPT ![p] = state]
      /\ missed' = [missed EXCEPT ![p] = {}] /\ finished' = finished \ {p}
      /\ UNCHANGED <<state, sawOpen, seen, reopened>> /\ p \in Actors /\ p \notin Users
  BY DependenciesAssumption DEF BeginRelease, Begin, historyVars, Actors
<1>2. /\ op'[p] = "release" /\ snap'[p] = state /\ missed'[p] = {}
      /\ \A a \in Actors : a # p => op'[a] = op[a] /\ snap'[a] = snap[a] /\ missed'[a] = missed[a]
  BY <1>1 DEF DepsTypes
<1>3. QuietInv'
  BY <1>1, <1>2 DEF QuietInv, ParentsDone, Actors
<1>4. OnlyChildInv'
  BY <1>1, <1>2 DEF OnlyChildInv, Actors
<1>5. CarrierInv'
  <2> SUFFICES ASSUME NEW j \in Jobs, Ready(j), ~Overlaps(j)
               PROVE  \E q \in parents[j] : Carries(q, j)'
    BY <1>1 DEF CarrierInv, Ready, Overlaps, Children
  <2>1. PICK q \in parents[j] : Carries(q, j)
    BY DEF CarrierInv
  <2>2. q \in Jobs
    BY DEF DepsTypes
  <2>3. CASE q = p
    <3>1. j \in Released(state, p)
      BY <2>1, <2>3 DEF Released, Ready, ParentsDone, Children
    <3>2. j \in Released(snap[p], p)'
      BY <1>2, <3>1 DEF Released, ParentsDone, Children
    <3> QED
      BY <1>2, <2>1, <2>3, <3>2 DEF Carries
  <2>4. CASE q # p
    BY <1>1, <1>2, <2>1, <2>2, <2>4 DEF Carries, Released, Children, ParentsDone, Actors
  <2> QED
    BY <2>3, <2>4
<1> QED
  BY <1>3, <1>4, <1>5

\* It releases what it has seen waiting without open dependencies, ...
LEMMA QuietCommit ==
  ASSUME IInv, QuietInv, OnlyChildInv, CarrierInv, NEW p \in Jobs, CommitRelease(p),
         parents' = parents
  PROVE  QuietInv' /\ OnlyChildInv' /\ CarrierInv'
<1> USE DEF IInv
<1> DEFINE js == Released(snap[p], p)
<1>1. /\ op[p] = "release" /\ js \cap missed[p] = {}
      /\ UNCHANGED <<sawOpen, seen, finished, reopened>> /\ p \in Actors /\ p \notin Users
      /\ js \subseteq Jobs
  BY DependenciesAssumption DEF CommitRelease, historyVars, Actors, Released, Children
<1>2. /\ \A c \in js : state'[c] = "pending"
      /\ \A c \in Jobs \ js : state'[c] = state[c]
      /\ op'[p] = "none"
      /\ \A a \in Actors : a # p => op'[a] = op[a] /\ snap'[a] = snap[a]
      /\ \A a \in Actors : a # p /\ op[a] # "none" => missed'[a] = missed[a] \cup js
  BY <1>1 DEF CommitRelease, End, Overwrite, DepsTypes
<1>3. \A c \in js : state[c] = "wait"
  BY <1>1 DEF GraphInv, SnapshotInv, Released, Children
<1>4. \A c \in Jobs : parents[c] \subseteq Jobs
  BY DEF DepsTypes
<1>5. \A c \in js : ParentsDone(state, c)
  BY <1>1, <1>4
  DEF Released, ParentsDone, GraphInv, HistoryInv, DoneLasts, WasDone, QuietInv
<1>6. \A c \in Jobs : ParentsDone(state, c) => ParentsDone(state', c)
  BY <1>2, <1>3, <1>4 DEF ParentsDone
<1>7. QuietInv'
  <2>1. \A c \in Jobs : (state[c] \in {"pending", "enqueued", "running"} => ParentsDone(state, c))'
    BY <1>2, <1>5, <1>6 DEF QuietInv, ParentsDone
  <2>2. \A a \in Jobs : op'[a] # "none" => \A c \in missed'[a] : state'[c] # "wait"
    BY <1>1, <1>2 DEF QuietInv, Actors, DepsTypes
  <2>3. \A c \in Jobs : state'[c] # "gone"
    BY <1>2 DEF QuietInv
  <2>4. \A c \in seen' : state'[c] = "pending"
    BY <1>1, <1>2, <1>3 DEF QuietInv, DepsTypes
  <2> QED
    BY <1>1, <1>2, <2>1, <2>2, <2>3, <2>4 DEF QuietInv, Actors
<1>8. OnlyChildInv'
  <2> SUFFICES ASSUME NEW q \in Jobs, NEW c \in Jobs, op'[q] = "release", parents[c] = {q},
                      snap'[q][c] = "wait"
               PROVE  state'[c] = "wait"
    BY DEF OnlyChildInv
  <2>1. q # p /\ q \in Actors
    BY <1>2 DEF Actors
  <2>2. c \notin js
    BY <2>1 DEF Released, Children
  <2> QED
    BY <1>2, <2>1, <2>2 DEF OnlyChildInv
<1>9. CarrierInv'
  <2> SUFFICES ASSUME NEW c \in Jobs, Ready(c)', ~Overlaps(c)'
               PROVE  \E q \in parents[c] : Carries(q, c)'
    BY DEF CarrierInv
  <2>1. c \notin js /\ state[c] = "wait" /\ ~Overlaps(c)
    BY <1>2 DEF Ready, Overlaps, Children
  <2>2. Ready(c)
    BY <1>2, <1>4, <2>1 DEF Ready
  <2>3. PICK q \in parents[c] : Carries(q, c)
    BY <2>1, <2>2 DEF CarrierInv
  <2>4. q \in Actors
    BY DEF DepsTypes, Actors
  <2>5. CASE q \in finished
    BY <1>1, <2>5 DEF Carries
  <2>6. CASE q \notin finished
    BY <1>2, <2>1, <2>3, <2>4, <2>6 DEF Carries, Released, Children, ParentsDone
  <2> QED
    BY <2>5, <2>6
<1> QED
  BY <1>7, <1>8, <1>9

\* ... or fails, because another has released one of these: then the two overlap.
LEMMA QuietFail ==
  ASSUME IInv, QuietInv, OnlyChildInv, CarrierInv, NEW p \in Jobs, FailRelease(p),
         parents' = parents
  PROVE  QuietInv' /\ OnlyChildInv' /\ CarrierInv'
<1> USE DEF IInv
<1>1. /\ op[p] = "release" /\ UNCHANGED <<state, sawOpen, seen, finished, reopened>>
      /\ p \in Actors /\ p \notin Users
  BY DependenciesAssumption DEF FailRelease, End, historyVars, Actors
<1>2. /\ op'[p] = "none"
      /\ \A a \in Actors : a # p => op'[a] = op[a] /\ snap'[a] = snap[a]
      /\ \A a \in Actors : a # p /\ op[a] # "none" => missed'[a] = missed[a]
  BY <1>1 DEF FailRelease, End, DepsTypes
<1>3. PICK c \in Released(snap[p], p) : c \in missed[p]
  BY DEF FailRelease
<1>4. c \in Jobs /\ p \in parents[c] /\ state[c] # "wait"
  BY <1>1, <1>3 DEF Released, Children, QuietInv
<1>5. parents[c] # {p}
  BY <1>1, <1>3, <1>4 DEF OnlyChildInv, Released
<1>6. QuietInv'
  BY <1>1, <1>2 DEF QuietInv, ParentsDone, Actors
<1>7. OnlyChildInv'
  BY <1>1, <1>2 DEF OnlyChildInv, Actors
<1>8. CarrierInv'
  <2> SUFFICES ASSUME NEW j \in Jobs, Ready(j), ~Overlaps(j)
               PROVE  \E q \in parents[j] : Carries(q, j)'
    BY <1>1 DEF CarrierInv, Ready, Overlaps, Children
  <2>1. PICK q \in parents[j] : Carries(q, j)
    BY DEF CarrierInv
  <2>2. q \in Actors
    BY DEF DepsTypes, Actors
  <2>3. CASE q \in finished
    BY <1>1, <2>3 DEF Carries
  <2>4. CASE q \notin finished /\ q # p
    BY <1>2, <2>1, <2>2, <2>4 DEF Carries, Released, Children, ParentsDone
  <2>5. CASE q \notin finished /\ q = p
    <3>1. j \in Released(snap[p], p)
      BY <2>1, <2>5 DEF Carries
    <3>2. c # j /\ c \in Children(p)
      BY <1>3, <1>4 DEF Ready, Released
    <3>3. c \notin parents[j] /\ j \notin parents[c]
      BY <1>3, <3>1 DEF Released, ParentsDone
    <3>4. Overlaps(j)
      BY <1>5, <2>5, <3>2, <3>3 DEF Overlaps
    <3> QED
      BY <3>4
  <2> QED
    BY <2>3, <2>4, <2>5
<1> QED
  BY <1>6, <1>7, <1>8

\* The runner reads a row: nothing else changes.
LEMMA QuietRead ==
  ASSUME QuietInv, OnlyChildInv, CarrierInv, NEW j \in Jobs, Read(j), parents' = parents
  PROVE  QuietInv' /\ OnlyChildInv' /\ CarrierInv'
<1>1. QuietInv'
  BY DEF Read, QuietInv, ParentsDone, txVars, historyVars
<1> QED
  BY <1>1 DEF Read, OnlyChildInv, CarrierInv, Ready, Overlaps, Carries, Released, Children,
              ParentsDone, txVars, historyVars

\* Events are only counted up.
LEMMA EventsAdded == Next => events' = events \/ events' = events + 1
BY DEF Next, Read, Enqueue, Start, Finish, Postpone, Fail, Release, BeginRelease,
       CommitRelease, FailRelease, DieRunning, DieFinished, Delete, Click, CommitClick, RetryClick, Event

\* As long as nobody interferes the workers are the only ones to take steps.
LEMMA QuietStep ==
  ASSUME IInv, EventsInv, WorkersInv, Next, events' = 0
  PROVE  QuietInv' /\ OnlyChildInv' /\ CarrierInv'
<1> USE DEF IInv
<1>1. events = 0 /\ ~Event /\ parents' = parents
  <2>1. events \in Nat /\ events' = events
    BY EventsAdded DEF EventsInv
  <2> QED
    BY <2>1 DEF Event, Next
<1>2. QuietInv /\ OnlyChildInv /\ CarrierInv
  BY <1>1 DEF WorkersInv
<1>3. PICK j \in Jobs : \/ Read(j) \/ Enqueue(j) \/ Start(j) \/ Finish(j) \/ Postpone(j)
                        \/ Fail(j) \/ Release(j)
  BY <1>1, <1>2 DEF Next, DieRunning, DieFinished, Delete, Click, CommitClick, RetryClick,
                    QuietInv
<1>4. sawOpen \in [Jobs -> BOOLEAN] /\ \A c \in Jobs : ~sawOpen[c]
  BY <1>2 DEF DepsTypes, QuietInv
<1>5. CASE Start(j)
  <2>1. ~sawOpen'[j] /\ sawOpen' \in [Jobs -> BOOLEAN]
    BY <1>2, <1>4, <1>5 DEF Start, QuietInv
  <2>2. \A c \in Jobs : c # j => ~sawOpen'[c]
    BY <1>4, <1>5 DEF Start
  <2> QED
    BY <1>1, <1>2, <1>5, <2>1, <2>2, QuietWrite DEF Start, QuietInv, historyVars
<1>6. CASE Finish(j)
  BY <1>1, <1>2, <1>4, <1>6, QuietWrite DEF Finish, QuietInv
<1>7. CASE Postpone(j)
  <2>1. Write(j, "pending")
    BY <1>4, <1>7 DEF Postpone, AskedAgain
  <2> QED
    BY <1>1, <1>2, <1>4, <1>7, <2>1, QuietWrite DEF Postpone, QuietInv, historyVars
<1>8. CASE Fail(j)
  BY <1>1, <1>2, <1>4, <1>8, QuietWrite DEF Fail, QuietInv, historyVars
<1>9. CASE Release(j)
  BY <1>1, <1>2, <1>9, QuietBegin, QuietCommit, QuietFail DEF Release
<1>10. CASE Read(j)
  BY <1>1, <1>2, <1>10, QuietRead
<1>11. CASE Enqueue(j)
  <2>1. state[j] = "pending" /\ UNCHANGED <<reopened, sawOpen, finished>> /\ seen' = seen \ {j}
    BY <1>2, <1>11 DEF Enqueue, QuietInv
  <2> QED
    BY <1>1, <1>2, <1>4, <1>11, <2>1, QuietWrite DEF Enqueue
<1> QED
  BY <1>3, <1>5, <1>6, <1>7, <1>8, <1>9, <1>10, <1>11

\* The number of events stays a number.
LEMMA EventsGrow == EventsInv /\ [Next]_vars => EventsInv'
BY EventsAdded DEF EventsInv, vars

\* Only jobs without dependencies are ready when a graph is stored.
LEMMA InitCarried == Init => WorkersInv /\ EventsInv
<1> SUFFICES ASSUME Init
             PROVE  WorkersInv /\ EventsInv
  OBVIOUS
<1>1. /\ \A j \in Jobs : parents[j] \subseteq Jobs
      /\ \A j \in Jobs : state[j] \in {"pending", "wait"} /\ ~sawOpen[j]
      /\ \A j \in Jobs : state[j] = "pending" <=> parents[j] = {}
      /\ \A a \in Actors : op[a] = "none"
  BY DependenciesAssumption DEF Init
<1>2. QuietInv
  BY <1>1 DEF QuietInv, ParentsDone, Actors, Init
<1>3. OnlyChildInv
  BY <1>1 DEF OnlyChildInv, Actors
<1>4. CarrierInv
  BY <1>1 DEF CarrierInv, Ready
<1> QED
  BY <1>2, <1>3, <1>4 DEF WorkersInv, EventsInv, Init

\* However the workers of a graph race, they leave no waiting job behind as long as
\* nobody else interferes and no other job can be released along with it
\* (job.py, enqueue_waiting; controllers/main.py, _enqueue_dependent_jobs).
THEOREM WorkersStrandNone == Spec => []NoneStrandedByWorkers
<1>1. Init => WorkersInv /\ EventsInv
  BY InitCarried
<1>2. IInv /\ WorkersInv /\ EventsInv /\ [Next]_vars => (WorkersInv /\ EventsInv)'
  <2> SUFFICES ASSUME IInv, WorkersInv, EventsInv, [Next]_vars
               PROVE  WorkersInv'
    BY EventsGrow
  <2>1. CASE Next
    BY <2>1, QuietStep DEF WorkersInv
  <2>2. CASE UNCHANGED vars
    BY <2>2 DEF vars, txVars, historyVars, WorkersInv, QuietInv, OnlyChildInv, CarrierInv,
                Ready, Overlaps, Carries, Released, Children, ParentsDone
  <2> QED
    BY <2>1, <2>2
<1>3. IInv /\ WorkersInv => NoneStrandedByWorkers
  <2> SUFFICES ASSUME IInv, WorkersInv, events = 0,
                      NEW j \in Jobs, Ready(j), ~Overlaps(j)
               PROVE  Attended(j)
    BY DEF NoneStrandedByWorkers
  <2>1. PICK p \in parents[j] : Carries(p, j)
    BY DEF WorkersInv, CarrierInv
  <2> QED
    BY <2>1 DEF Carries, Attended
<1> QED
  BY <1>1, <1>2, <1>3, Invariance, PTL DEF Spec

=============================================================================
