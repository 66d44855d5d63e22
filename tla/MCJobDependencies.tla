-------------------------- MODULE MCJobDependencies -------------------------
(* Graphs of jobs for the runs of JobDependencies.                         *)
EXTENDS JobDependencies, TLC

CONSTANTS a, b, c, d

\* group(a, b).on_done(c)
Join == [j \in {a, b, c} |-> IF j = c THEN {a, b} ELSE {}]

\* b depends on a, c on both
Triangle == [j \in {a, b, c} |-> CASE j = a -> {} [] j = b -> {a} [] j = c -> {a, b}]

\* ... and the other way round, so that a and b do not differ in what follows
TriangleOfB == [j \in {a, b, c} |-> CASE j = b -> {} [] j = a -> {b} [] j = c -> {a, b}]

ThreeJobs == {Join, Triangle, TriangleOfB}

\* a and b are independent; c depends on a and b, d on b only
Overlap == [j \in {a, b, c, d} |->
  CASE j \in {a, b} -> {} [] j = c -> {a, b} [] j = d -> {b}]

OnlyOverlap == {Overlap}

\* Neither the users differ nor the first two jobs (only safety is checked with it).
Alike == Permutations(Users) \cup Permutations({a, b})
=============================================================================
