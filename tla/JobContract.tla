---------------------------- MODULE JobContract -----------------------------
(***************************************************************************)
(* What queue_job promises to the caller of with_delay() about one job     *)
(* whose function does not commit by itself: at any time at most one       *)
(* worker performs it, an attempt either commits all its work or nothing,  *)
(* and work that was committed is not attempted again until a user asks    *)
(* for the job once more.  It says nothing of how: no states, no runner,   *)
(* no requests.                                                            *)
(***************************************************************************)
CONSTANTS Jobs, Workers, Nobody

VARIABLES performer,  \* the worker that performs the job, or Nobody
          committed   \* the jobs whose work is in the database

contractVars == <<performer, committed>>

Init == /\ performer = [j \in Jobs |-> Nobody]
        /\ committed = {}

\* An attempt: only of work that was not committed, only one at a time.
Start(j, w) ==
  /\ performer[j] = Nobody /\ j \notin committed
  /\ performer' = [performer EXCEPT ![j] = w]
  /\ UNCHANGED committed

\* The attempt succeeds.
Commit(j, w) ==
  /\ performer[j] = w
  /\ performer' = [performer EXCEPT ![j] = Nobody]
  /\ committed' = committed \cup {j}

\* The attempt leaves nothing behind.
GiveUp(j, w) ==
  /\ performer[j] = w
  /\ performer' = [performer EXCEPT ![j] = Nobody]
  /\ UNCHANGED committed

\* A user asks for the job again.
AskAgain(j) ==
  /\ j \in committed
  /\ committed' = committed \ {j}
  /\ UNCHANGED performer

Next ==
  \E j \in Jobs : \/ AskAgain(j)
                  \/ \E w \in Workers : Start(j, w) \/ Commit(j, w) \/ GiveUp(j, w)

Spec == Init /\ [][Next]_contractVars
=============================================================================
