------------------------------ MODULE JobProofs ------------------------------
(***************************************************************************)
(* Proofs about JobExecution, JobRouting and DelayGraph, for any jobs,     *)
(* workers, channels, functions, configurations, compositions and bounds.  *)
(***************************************************************************)
EXTENDS JobExecution, JobRouting, DelayGraph, FiniteSetTheorems, SequenceTheorems, TLAPS

(***************************************************************************)
(* The inductive invariant.  OneExecution and WorkIsDoneOnce say nothing   *)
(* of the locks and snapshots that make them true; these conjuncts do.     *)
(***************************************************************************)

\* The workers past LockJob are the workers that hold a lock, each the lock
\* of its job.
LockInv ==
  /\ \A w \in Workers :
       pc[w] \in Holding => on[w] \in Jobs /\ lockedBy[on[w]] = w
  /\ \A j \in Jobs :
       lockedBy[j] \in Workers =>
         pc[lockedBy[j]] \in Holding /\ on[lockedBy[j]] = j

\* A worker between its SELECT ... FOR UPDATE and its commit has the row of
\* the job, which nobody else can have changed meanwhile.
RowInv ==
  \A w \in Workers :
    pc[w] = "acquiring" =>
      on[w] \in Jobs /\ rowLock[on[w]] = w /\ state[on[w]] = "enqueued"

StartedInv == \A w \in Workers : pc[w] = "started" => on[w] \in Jobs

\* A snapshot that is not stale shows the job as it was when it was locked.
FreshInv ==
  \A w \in Workers :
    pc[w] \in {"performing", "ran"} =>
      attempt[w] >= 1 /\ (~stale[w] => state[on[w]] = "started")

\* Work that is in the database belongs to a job that is done, that nobody is
\* performing and that the runner does not hold for pending.
EffectsInv ==
  /\ \A j \in Jobs \ AllowCommit :
       effects[j] > 0 =>
         effects[j] = 1 /\ state[j] = "done" /\ seen[j] # "pending"
  /\ \A w \in Workers :
       pc[w] \in Holding /\ on[w] \notin AllowCommit => effects[on[w]] = 0

SafeLocks   == LockInv /\ RowInv /\ StartedInv /\ FreshInv
SafeEffects == NoSecondHandout /\ EffectsInv

IInv == TypeOK /\ SafeLocks /\ SafeEffects

\* The holder of a lock is a worker, the runner or nobody.
LEMMA Holders ==
  Nobody \notin Workers /\ Runner \notin Workers /\ Nobody # Runner
  BY ConstantsAssumption DEF Nobody, Runner

\* The invariant holds when the jobs are delayed.
LEMMA InitIInv == Init => IInv
  BY Holders
  DEF Init, IInv, SafeLocks, SafeEffects, TypeOK, LockInv, RowInv,
      StartedInv, FreshInv, NoSecondHandout, EffectsInv, States, Phases, Holding

\* Every step keeps the types; that a worker past the SELECT is on a job, and
\* that an attempt was counted, comes from the other conjuncts.
LEMMA TypeStep ==
  ASSUME IInv, [Next]_vars
  PROVE  TypeOK'
<1> USE Holders DEF IInv, SafeLocks, TypeOK, LockInv, RowInv, FreshInv,
                    Holding, States, Phases,
                    rowVars, lockVars, runnerVars, workerVars, boundVars
<1>1. CASE RequeueScan
  BY <1>1 DEF RequeueScan, DeadJobs
<1>2. CASE RequeueApply
  BY <1>2 DEF RequeueApply, Write, Release, RequeuedState, RequeuedRetry
<1>3. CASE RunnerRestart
  BY <1>3 DEF RunnerRestart, Fault, Release, ViewOf
<1>4. ASSUME NEW j \in Jobs, Enqueue(j) PROVE TypeOK'
  BY <1>4 DEF Enqueue, Write
<1>5. ASSUME NEW j \in Jobs, ProcessNotification(j) PROVE TypeOK'
  BY <1>5 DEF ProcessNotification, ViewOf
<1>6. ASSUME NEW j \in Jobs, LoseRequest(j) PROVE TypeOK'
  BY <1>6 DEF LoseRequest, Fault
<1>7. ASSUME NEW j \in Jobs, Age(j) PROVE TypeOK'
  BY <1>7 DEF Age
<1>8. ASSUME NEW j \in Jobs, RefuseRequest(j) PROVE TypeOK'
  BY <1>8 DEF RefuseRequest
<1>9. ASSUME NEW j \in Jobs, ButtonDone(j) PROVE TypeOK'
  BY <1>9 DEF ButtonDone, ChangeState, Write
<1>10. ASSUME NEW j \in Jobs, ButtonCancelled(j) PROVE TypeOK'
  BY <1>10 DEF ButtonCancelled, ChangeState, Write
<1>11. ASSUME NEW j \in Jobs, Requeue(j) PROVE TypeOK'
  BY <1>11 DEF Requeue, ChangeState, Write
<1>12. ASSUME NEW w \in Workers, NEW j \in Jobs, AcquireRow(w, j)
      PROVE  TypeOK'
  BY <1>12 DEF AcquireRow, Acquirable
<1>13. ASSUME NEW w \in Workers, CommitStarted(w) PROVE TypeOK'
  BY <1>13 DEF CommitStarted, Write
<1>14. ASSUME NEW w \in Workers, LockJob(w) PROVE TypeOK'
  BY <1>14 DEF LockJob, Lockable
<1>15. ASSUME NEW w \in Workers, AbandonJob(w) PROVE TypeOK'
  BY <1>15 DEF AbandonJob, Leave
<1>16. ASSUME NEW w \in Workers, RunBody(w) PROVE TypeOK'
  BY <1>16 DEF RunBody
<1>17. ASSUME NEW w \in Workers, MarkDone(w) PROVE TypeOK'
  BY <1>17 DEF MarkDone, Leave, Write
<1>18. ASSUME NEW w \in Workers, RetryLater(w) PROVE TypeOK'
  BY <1>18 DEF RetryLater, WriteOutcome, Write
<1>19. ASSUME NEW w \in Workers, RetryIgnored(w) PROVE TypeOK'
  BY <1>19 DEF RetryIgnored, WriteOutcome, Write, Fault
<1>20. ASSUME NEW w \in Workers, SerializationFailure(w) PROVE TypeOK'
  BY <1>20 DEF SerializationFailure, WriteOutcome, Write, Fault
<1>21. ASSUME NEW w \in Workers, FailJob(w) PROVE TypeOK'
  BY <1>21 DEF FailJob, WriteOutcome, Write
<1>22. ASSUME NEW w \in Workers, Rollback(w) PROVE TypeOK'
  BY <1>22 DEF Rollback, Leave
<1>23. ASSUME NEW w \in Workers, WorkerDies(w) PROVE TypeOK'
  BY <1>23 DEF WorkerDies, Leave, Fault
<1>24. CASE UNCHANGED vars
  BY <1>24 DEF vars
<1> QED
  BY <1>1, <1>2, <1>3, <1>4, <1>5, <1>6, <1>7, <1>8, <1>9, <1>10, <1>11,
     <1>12, <1>13, <1>14, <1>15, <1>16, <1>17, <1>18, <1>19, <1>20, <1>21,
     <1>22, <1>23, <1>24
  DEF Next, WorkerStep, ServeRequest, UserStep

\* Every step keeps the conjuncts about locks and snapshots.
LEMMA LockStep ==
  ASSUME IInv, [Next]_vars
  PROVE  SafeLocks'
<1> USE Holders DEF IInv, SafeLocks, TypeOK, LockInv, RowInv,
                    StartedInv, FreshInv, Holding,
                    rowVars, lockVars, runnerVars, workerVars, boundVars
<1>1. CASE RequeueScan
  BY <1>1 DEF RequeueScan, DeadJobs
<1>2. CASE RequeueApply
  BY <1>2 DEF RequeueApply, Write, Release, RequeuedState, RequeuedRetry
<1>3. CASE RunnerRestart
  BY <1>3 DEF RunnerRestart, Fault, Release, ViewOf
<1>4. ASSUME NEW j \in Jobs, Enqueue(j) PROVE SafeLocks'
  BY <1>4 DEF Enqueue, Write
<1>5. ASSUME NEW j \in Jobs, ProcessNotification(j) PROVE SafeLocks'
  BY <1>5 DEF ProcessNotification, ViewOf
<1>6. ASSUME NEW j \in Jobs, LoseRequest(j) PROVE SafeLocks'
  BY <1>6 DEF LoseRequest, Fault
<1>7. ASSUME NEW j \in Jobs, Age(j) PROVE SafeLocks'
  BY <1>7 DEF Age
<1>8. ASSUME NEW j \in Jobs, RefuseRequest(j) PROVE SafeLocks'
  BY <1>8 DEF RefuseRequest
<1>9. ASSUME NEW j \in Jobs, ButtonDone(j) PROVE SafeLocks'
  BY <1>9 DEF ButtonDone, ChangeState, Write
<1>10. ASSUME NEW j \in Jobs, ButtonCancelled(j) PROVE SafeLocks'
  BY <1>10 DEF ButtonCancelled, ChangeState, Write
<1>11. ASSUME NEW j \in Jobs, Requeue(j) PROVE SafeLocks'
  BY <1>11 DEF Requeue, ChangeState, Write
<1>12. ASSUME NEW w \in Workers, NEW j \in Jobs, AcquireRow(w, j)
      PROVE  SafeLocks'
  BY <1>12 DEF AcquireRow, Acquirable
<1>13. ASSUME NEW w \in Workers, CommitStarted(w) PROVE SafeLocks'
  BY <1>13 DEF CommitStarted, Write
<1>14. ASSUME NEW w \in Workers, LockJob(w) PROVE SafeLocks'
  BY <1>14 DEF LockJob, Lockable
<1>15. ASSUME NEW w \in Workers, AbandonJob(w) PROVE SafeLocks'
  BY <1>15 DEF AbandonJob, Leave
<1>16. ASSUME NEW w \in Workers, RunBody(w) PROVE SafeLocks'
  BY <1>16 DEF RunBody
<1>17. ASSUME NEW w \in Workers, MarkDone(w) PROVE SafeLocks'
  BY <1>17 DEF MarkDone, Leave, Write
<1>18. ASSUME NEW w \in Workers, RetryLater(w) PROVE SafeLocks'
  BY <1>18 DEF RetryLater, WriteOutcome, Write
<1>19. ASSUME NEW w \in Workers, RetryIgnored(w) PROVE SafeLocks'
  BY <1>19 DEF RetryIgnored, WriteOutcome, Write, Fault
<1>20. ASSUME NEW w \in Workers, SerializationFailure(w) PROVE SafeLocks'
  BY <1>20 DEF SerializationFailure, WriteOutcome, Write, Fault
<1>21. ASSUME NEW w \in Workers, FailJob(w) PROVE SafeLocks'
  BY <1>21 DEF FailJob, WriteOutcome, Write
<1>22. ASSUME NEW w \in Workers, Rollback(w) PROVE SafeLocks'
  BY <1>22 DEF Rollback, Leave
<1>23. ASSUME NEW w \in Workers, WorkerDies(w) PROVE SafeLocks'
  BY <1>23 DEF WorkerDies, Leave, Fault
<1>24. CASE UNCHANGED vars
  BY <1>24 DEF vars
<1> QED
  BY <1>1, <1>2, <1>3, <1>4, <1>5, <1>6, <1>7, <1>8, <1>9, <1>10, <1>11,
     <1>12, <1>13, <1>14, <1>15, <1>16, <1>17, <1>18, <1>19, <1>20, <1>21,
     <1>22, <1>23, <1>24
  DEF Next, WorkerStep, ServeRequest, UserStep

\* Every step keeps the work done once and out of the runner's hands.
LEMMA EffectsStep ==
  ASSUME IInv, [Next]_vars
  PROVE  SafeEffects'
<1> USE Holders DEF IInv, SafeLocks, SafeEffects, TypeOK, LockInv, RowInv,
                    FreshInv, NoSecondHandout, EffectsInv, Holding,
                    rowVars, lockVars, runnerVars, workerVars, boundVars
<1>1. CASE RequeueScan
  BY <1>1 DEF RequeueScan, DeadJobs
<1>2. CASE RequeueApply
  BY <1>2 DEF RequeueApply, Write, Release, RequeuedState, RequeuedRetry
<1>3. CASE RunnerRestart
  BY <1>3 DEF RunnerRestart, Fault, Release, ViewOf
<1>4. ASSUME NEW j \in Jobs, Enqueue(j) PROVE SafeEffects'
  BY <1>4 DEF Enqueue, Write
<1>5. ASSUME NEW j \in Jobs, ProcessNotification(j) PROVE SafeEffects'
  BY <1>5 DEF ProcessNotification, ViewOf
<1>6. ASSUME NEW j \in Jobs, LoseRequest(j) PROVE SafeEffects'
  BY <1>6 DEF LoseRequest, Fault
<1>7. ASSUME NEW j \in Jobs, Age(j) PROVE SafeEffects'
  BY <1>7 DEF Age
<1>8. ASSUME NEW j \in Jobs, RefuseRequest(j) PROVE SafeEffects'
  BY <1>8 DEF RefuseRequest
<1>9. ASSUME NEW j \in Jobs, ButtonDone(j) PROVE SafeEffects'
  BY <1>9 DEF ButtonDone, ChangeState, Write
<1>10. ASSUME NEW j \in Jobs, ButtonCancelled(j) PROVE SafeEffects'
  BY <1>10 DEF ButtonCancelled, ChangeState, Write
<1>11. ASSUME NEW j \in Jobs, Requeue(j) PROVE SafeEffects'
  BY <1>11 DEF Requeue, ChangeState, Write
<1>12. ASSUME NEW w \in Workers, NEW j \in Jobs, AcquireRow(w, j)
      PROVE  SafeEffects'
  BY <1>12 DEF AcquireRow, Acquirable
<1>13. ASSUME NEW w \in Workers, CommitStarted(w) PROVE SafeEffects'
  BY <1>13 DEF CommitStarted, Write
<1>14. ASSUME NEW w \in Workers, LockJob(w) PROVE SafeEffects'
  BY <1>14 DEF LockJob, Lockable
<1>15. ASSUME NEW w \in Workers, AbandonJob(w) PROVE SafeEffects'
  BY <1>15 DEF AbandonJob, Leave
<1>16. ASSUME NEW w \in Workers, RunBody(w) PROVE SafeEffects'
  BY <1>16 DEF RunBody
<1>17. ASSUME NEW w \in Workers, MarkDone(w) PROVE SafeEffects'
  BY <1>17 DEF MarkDone, Leave, Write
<1>18. ASSUME NEW w \in Workers, RetryLater(w) PROVE SafeEffects'
  BY <1>18 DEF RetryLater, WriteOutcome, Write
<1>19. ASSUME NEW w \in Workers, RetryIgnored(w) PROVE SafeEffects'
  BY <1>19 DEF RetryIgnored, WriteOutcome, Write, Fault
<1>20. ASSUME NEW w \in Workers, SerializationFailure(w) PROVE SafeEffects'
  BY <1>20 DEF SerializationFailure, WriteOutcome, Write, Fault
<1>21. ASSUME NEW w \in Workers, FailJob(w) PROVE SafeEffects'
  BY <1>21 DEF FailJob, WriteOutcome, Write
<1>22. ASSUME NEW w \in Workers, Rollback(w) PROVE SafeEffects'
  BY <1>22 DEF Rollback, Leave
<1>23. ASSUME NEW w \in Workers, WorkerDies(w) PROVE SafeEffects'
  BY <1>23 DEF WorkerDies, Leave, Fault
<1>24. CASE UNCHANGED vars
  BY <1>24 DEF vars
<1> QED
  BY <1>1, <1>2, <1>3, <1>4, <1>5, <1>6, <1>7, <1>8, <1>9, <1>10, <1>11,
     <1>12, <1>13, <1>14, <1>15, <1>16, <1>17, <1>18, <1>19, <1>20, <1>21,
     <1>22, <1>23, <1>24
  DEF Next, WorkerStep, ServeRequest, UserStep

\* The inductive invariant is one.
THEOREM Invariance == Spec => []IInv
<1>1. IInv /\ [Next]_vars => IInv'
  BY TypeStep, LockStep, EffectsStep DEF IInv
<1> QED
  BY InitIInv, <1>1, PTL DEF Spec

\* Type correctness of the rows, the locks, the runner and the workers.
THEOREM TypeCorrect == Spec => []TypeOK
  BY Invariance, PTL DEF IInv

\* However many workers there are and however often a job is requeued, no two
\* of them perform it at the same time (table queue_job_lock).
THEOREM MutualExclusion == Spec => []OneExecution
<1>1. IInv => OneExecution
  BY DEF IInv, SafeLocks, LockInv, OneExecution
<1> QED
  BY Invariance, <1>1, PTL

\* Work that was committed is not committed again, and its job stays done until
\* a user requeues it.
THEOREM ExactlyOnce == Spec => []WorkIsDoneOnce
<1>1. IInv => WorkIsDoneOnce
  BY DEF IInv, SafeEffects, EffectsInv, WorkIsDoneOnce
<1> QED
  BY Invariance, <1>1, PTL

\* The runner never hands out a job that is already in a worker's hands.
THEOREM HandedOutOnce == Spec => []NoSecondHandout
<1>1. IInv => NoSecondHandout
  BY DEF IInv, SafeEffects
<1> QED
  BY Invariance, <1>1, PTL

-----------------------------------------------------------------------------
(***************************************************************************)
(* JobExecution implements JobContract.  LockJob starts an attempt,        *)
(* MarkDone commits it, Rollback and WorkerDies give it up, Requeue asks   *)
(* again; no other step touches the holder of a lock that is a worker or   *)
(* the work that was committed.                                            *)
(***************************************************************************)

Promised == Jobs \ AllowCommit

\* The initial states map to initial states.
LEMMA ContractInit == Init => Contract!Init
  BY Holders DEF Init, Contract!Init, Performer

\* A step that leaves alone which workers hold locks, and which work was
\* committed, is a stutter of the contract.
LEMMA Stutter ==
  ASSUME TypeOK, effects' = effects,
         \A j \in Jobs :
           \/ lockedBy'[j] = lockedBy[j]
           \/ lockedBy[j] \notin Workers /\ lockedBy'[j] \notin Workers
  PROVE  UNCHANGED Contract!contractVars
  BY DEF TypeOK, Contract!contractVars, Performer

\* Locking a promised job is the start of an attempt of the contract.
LEMMA ContractLockJob ==
  ASSUME IInv, NEW w \in Workers, LockJob(w)
  PROVE  [Contract!Next]_(Contract!contractVars)
<1> DEFINE j == on[w]
<1>1. j \in Jobs /\ lockedBy[j] = Nobody /\ state[j] = "started"
  BY DEF IInv, SafeLocks, StartedInv, LockJob, Lockable
<1>2. lockedBy' = [lockedBy EXCEPT ![j] = w] /\ effects' = effects
  BY DEF LockJob
<1>3. CASE j \in Promised
  <2>1. effects[j] = 0
    BY <1>1, <1>3 DEF IInv, SafeEffects, EffectsInv, TypeOK, Promised
  <2>2. \A k \in Promised :
          Performer(k)' = IF k = j THEN w ELSE Performer(k)
    BY <1>1, <1>2 DEF Performer, IInv, TypeOK, Promised
  <2>3. Performer(j) = Nobody
    BY <1>1, Holders DEF Performer
  <2>4. Contract!Start(j, w)
    BY <1>2, <1>3, <2>1, <2>2, <2>3 DEF Contract!Start, Promised
  <2> QED
    BY <2>4, <1>3 DEF Contract!Next, Promised
<1>4. CASE j \notin Promised
  BY <1>1, <1>2, <1>4, Holders
  DEF Contract!contractVars, Performer, IInv, TypeOK, Promised
<1> QED
  BY <1>3, <1>4

\* Marking it done commits the attempt.
LEMMA ContractMarkDone ==
  ASSUME IInv, NEW w \in Workers, MarkDone(w)
  PROVE  [Contract!Next]_(Contract!contractVars)
<1> DEFINE j == on[w]
<1>1. j \in Jobs /\ lockedBy[j] = w
  BY DEF IInv, SafeLocks, LockInv, MarkDone, Holding
<1>2. lockedBy' = [lockedBy EXCEPT ![j] = Nobody]
  BY DEF MarkDone
<1>3. CASE j \in Promised
  <2>1. effects' = [effects EXCEPT ![j] = @ + 1]
    BY <1>3 DEF MarkDone, Promised
  <2>2. \A k \in Promised :
          Performer(k)' = IF k = j THEN Nobody ELSE Performer(k)
    BY <1>1, <1>2, Holders DEF Performer, IInv, TypeOK, Promised
  <2>3. \A k \in Promised : effects'[k] > 0 <=> k = j \/ effects[k] > 0
    BY <1>1, <2>1 DEF IInv, TypeOK, Promised
  <2>4. Performer(j) = w
    BY <1>1 DEF Performer
  <2>5. Contract!Commit(j, w)
    BY <1>3, <2>2, <2>3, <2>4 DEF Contract!Commit, Promised
  <2> QED
    BY <2>5, <1>3 DEF Contract!Next, Promised
<1>4. CASE j \notin Promised
  <2>1. effects' = effects
    BY <1>1, <1>4 DEF MarkDone, Promised
  <2> QED
    BY <1>1, <1>2, <1>4, <2>1
    DEF Contract!contractVars, Performer, IInv, TypeOK, Promised
<1> QED
  BY <1>3, <1>4

\* A worker that loses its lock without a commit gives up its attempt.
LEMMA ContractRelease ==
  ASSUME IInv, NEW w \in Workers, NEW j \in Jobs, lockedBy[j] = w,
         lockedBy' = [lockedBy EXCEPT ![j] = Nobody], effects' = effects
  PROVE  [Contract!Next]_(Contract!contractVars)
<1>1. CASE j \in Promised
  <2>1. Contract!GiveUp(j, w)
    BY <1>1, Holders DEF Contract!GiveUp, Performer, IInv, TypeOK, Promised
  <2> QED
    BY <2>1, <1>1 DEF Contract!Next, Promised
<1>2. CASE j \notin Promised
  BY <1>2 DEF Contract!contractVars, Performer, IInv, TypeOK, Promised
<1> QED
  BY <1>1, <1>2

\* A worker that dies gives its attempt up.
LEMMA ContractWorkerDies ==
  ASSUME IInv, NEW w \in Workers, WorkerDies(w)
  PROVE  [Contract!Next]_(Contract!contractVars)
<1>1. effects' = effects
  BY DEF WorkerDies
<1>2. CASE pc[w] \in Holding
  <2>1. on[w] \in Jobs /\ lockedBy[on[w]] = w
        /\ \A j \in Jobs : lockedBy[j] = w => j = on[w]
    BY <1>2 DEF IInv, SafeLocks, LockInv
  <2>2. lockedBy' = [lockedBy EXCEPT ![on[w]] = Nobody]
    BY <2>1 DEF WorkerDies, IInv, TypeOK
  <2> QED
    BY <1>1, <2>1, <2>2, ContractRelease
<1>3. CASE pc[w] \notin Holding
  <2>1. lockedBy' = lockedBy
    BY <1>3 DEF WorkerDies, IInv, TypeOK, SafeLocks, LockInv
  <2>2. UNCHANGED Contract!contractVars
    BY <1>1, <2>1, Stutter DEF IInv
  <2> QED
    BY <2>2
<1> QED
  BY <1>2, <1>3

\* To requeue a committed job is to ask for it again.
LEMMA ContractRequeue ==
  ASSUME IInv, NEW j \in Jobs, Requeue(j)
  PROVE  [Contract!Next]_(Contract!contractVars)
<1>1. lockedBy' = lockedBy /\ effects' = [effects EXCEPT ![j] = 0]
  BY DEF Requeue, ChangeState, lockVars
<1>2. CASE j \in Promised /\ effects[j] > 0
  <2>1. Contract!AskAgain(j)
    BY <1>1, <1>2 DEF Contract!AskAgain, Performer, IInv, TypeOK, Promised
  <2> QED
    BY <2>1, <1>2 DEF Contract!Next, Promised
<1>3. CASE ~(j \in Promised /\ effects[j] > 0)
  BY <1>1, <1>3 DEF Contract!contractVars, Performer, IInv, TypeOK, Promised
<1> QED
  BY <1>2, <1>3

\* Every step maps to a step or to a stutter.
LEMMA ContractStep ==
  ASSUME IInv, [Next]_vars
  PROVE  [Contract!Next]_(Contract!contractVars)
<1> USE DEF IInv, rowVars, lockVars, runnerVars, workerVars, boundVars
<1>1. CASE RequeueScan
  BY <1>1, Stutter, Holders DEF RequeueScan, DeadJobs, TypeOK
<1>2. CASE RequeueApply
  BY <1>2, Stutter, Holders DEF RequeueApply, Release, TypeOK
<1>3. CASE RunnerRestart
  BY <1>3, Stutter, Holders DEF RunnerRestart, Release, TypeOK
<1>4. ASSUME NEW j \in Jobs,
             \/ Enqueue(j) \/ ProcessNotification(j) \/ LoseRequest(j) \/ Age(j)
             \/ RefuseRequest(j) \/ ButtonDone(j) \/ ButtonCancelled(j)
             \/ \E w \in Workers : AcquireRow(w, j)
      PROVE  [Contract!Next]_(Contract!contractVars)
  BY <1>4, Stutter
  DEF Enqueue, ProcessNotification, LoseRequest, Age, RefuseRequest, ButtonDone,
      ButtonCancelled, ChangeState, AcquireRow
<1>5. ASSUME NEW w \in Workers,
             \/ CommitStarted(w) \/ AbandonJob(w) \/ RetryLater(w)
             \/ RetryIgnored(w) \/ SerializationFailure(w) \/ FailJob(w)
      PROVE  [Contract!Next]_(Contract!contractVars)
  BY <1>5, Stutter
  DEF CommitStarted, AbandonJob, RetryLater, RetryIgnored, SerializationFailure,
      FailJob, WriteOutcome
<1>6. ASSUME NEW w \in Workers, RunBody(w)
      PROVE  [Contract!Next]_(Contract!contractVars)
  <2>1. UNCHANGED Contract!contractVars
    BY <1>6 DEF RunBody, TypeOK, Contract!contractVars, Performer
  <2> QED
    BY <2>1
<1>7. ASSUME NEW w \in Workers, Rollback(w)
      PROVE  [Contract!Next]_(Contract!contractVars)
  BY <1>7, ContractRelease DEF Rollback, SafeLocks, LockInv, Holding
<1>8. CASE UNCHANGED vars
  BY <1>8, Stutter DEF vars
<1> QED
  BY <1>1, <1>2, <1>3, <1>4, <1>5, <1>6, <1>7, <1>8, ContractLockJob,
     ContractMarkDone, ContractWorkerDies, ContractRequeue
  DEF Next, WorkerStep, ServeRequest, UserStep

\* queue_job keeps its promise: one worker at a time, all or nothing, and
\* nothing that was committed is attempted again unasked.
THEOREM Refinement == Spec => ImplementsContract
  BY ContractInit, ContractStep, Invariance, PTL
  DEF Spec, ImplementsContract, Contract!Spec

-----------------------------------------------------------------------------
(***************************************************************************)
(* JobRouting, in three invariants: RoutingInv is about what the autovacuum *)
(* reads, NamingInv about the channel that a job is given, ManagerInv about *)
(* the channels the runner has.                                             *)
(***************************************************************************)

(* Induction, with a set in the place of a predicate *)

\* A set of numbers that is not empty has a least one.
LEMMA NatLeast ==
  ASSUME NEW T \in SUBSET Nat, T # {}
  PROVE  \E n \in T : \A m \in T : n <= m
<1>1. \A x, y \in Nat : y < x => <<y, x>> \in OpToRel(<, Nat)
  BY DEF OpToRel
<1>2. PICK n \in T : \A m \in T : ~(<<m, n>> \in OpToRel(<, Nat))
  BY NatLessThanWellFounded, WFMin
<1>3. \A m \in T : m \in Nat /\ n \in Nat
  OBVIOUS
<1>4. \A m \in T : ~(m < n)
  BY <1>1, <1>2, <1>3, Zenon
<1> QED
  BY <1>3, <1>4

\* A set that has 0 and, with each number, the next one has them all.
LEMMA NatInduct ==
  ASSUME NEW T, 0 \in T, \A n \in Nat : n \in T => n + 1 \in T
  PROVE  \A n \in Nat : n \in T
<1> SUFFICES ASSUME \E n \in Nat : n \notin T PROVE FALSE
  OBVIOUS
<1> DEFINE U == {n \in Nat : n \notin T}
<1>1. PICK n \in U : \A m \in U : n <= m
  BY NatLeast
<1>2. n # 0 /\ n - 1 \in Nat /\ n - 1 \notin U
  BY <1>1
<1> QED
  BY <1>1, <1>2

\* The first value of the function is x and the others follow, each by its own
\* step, from the one before.
IsRecursive(g, k, x, F) ==
  g = [n \in 0..k |-> IF n = 0 THEN x ELSE F[<<n, g[n - 1]>>]]

\* What is defined by such a recursion exists.
LEMMA RecursionExists ==
  ASSUME NEW S, NEW x \in S, NEW k \in Nat, NEW F \in [(1..k) \X S -> S]
  PROVE  \E g \in [0..k -> S] : IsRecursive(g, k, x, F)
<1> DEFINE Steps(g, m) == [n \in 0..m |-> IF n = 0 THEN x ELSE F[<<n, g[n - 1]>>]]
           T == {m \in Nat : m <= k => \E g \in [0..m -> S] : g = Steps(g, m)}
<1>1. 0 \in T
  <2> DEFINE g == [n \in 0..0 |-> x]
  <2>1. g \in [0..0 -> S] /\ g = Steps(g, 0)
    OBVIOUS
  <2> QED
    BY <2>1
<1>2. ASSUME NEW m \in Nat, m \in T PROVE m + 1 \in T
  <2> SUFFICES ASSUME m + 1 <= k PROVE \E h \in [0..(m + 1) -> S] : h = Steps(h, m + 1)
    OBVIOUS
  <2>1. PICK g \in [0..m -> S] : g = Steps(g, m)
    BY <1>2
  <2> DEFINE h == Steps(g, m + 1)
  <2>2. ASSUME NEW n \in 0..(m + 1), n # 0 PROVE n - 1 \in 0..m /\ F[<<n, g[n - 1]>>] \in S
    <3>1. n - 1 \in 0..m /\ n \in 1..k
      BY <2>2
    <3>2. <<n, g[n - 1]>> \in (1..k) \X S
      BY <3>1
    <3> QED
      BY <3>1, <3>2
  <2>3. h \in [0..(m + 1) -> S]
    BY <2>2
  <2>4. \A n \in 0..m : h[n] = g[n]
    BY <2>1
  <2>5. h = Steps(h, m + 1)
    BY <2>2, <2>4
  <2> HIDE DEF h
  <2> QED
    BY <2>3, <2>5
<1>3. k \in T
  <2> HIDE DEF T
  <2> QED
    BY <1>1, <1>2, NatInduct
<1> QED
  BY <1>3 DEF IsRecursive

-----------------------------------------------------------------------------
(* The wait before a retry                                                  *)

\* What a pattern is, in the database or by default.
IsPattern(pattern) ==
  /\ DOMAIN pattern \subseteq Nat
  /\ \A n \in DOMAIN pattern : pattern[n] \in Nat \X Nat /\ pattern[n][1] <= pattern[n][2]

\* Users and the default give patterns.
LEMMA PatternsAre ==
  /\ IsPattern(<<>>)
  /\ \A pattern \in Patterns : IsPattern(pattern)
BY RoutingAssumption DEF IsPattern

\* The wait after the counts up to n were looked at.
IsWait(g, pattern, tries) ==
  g = [n \in 0..tries |->
         IF n \in DOMAIN pattern THEN pattern[n]
         ELSE IF n = 0 THEN <<RETRY_INTERVAL, RETRY_INTERVAL>> ELSE g[n - 1]]

\* The wait is a value of some function that looks at the counts in order ...
LEMMA RetrySecondsIs ==
  \A pattern, tries :
    RetrySeconds(pattern, tries, 0) = (CHOOSE g : IsWait(g, pattern, tries))[tries]
BY DEF RetrySeconds, IsWait

\* ... and there is one.
LEMMA WaitExists ==
  ASSUME NEW pattern, NEW tries \in Nat
  PROVE  \E g : IsWait(g, pattern, tries)
<1> DEFINE x == IF 0 \in DOMAIN pattern THEN pattern[0] ELSE <<RETRY_INTERVAL, RETRY_INTERVAL>>
           S == {x} \cup {pattern[n] : n \in DOMAIN pattern}
           F == [u \in (1..tries) \X S |-> IF u[1] \in DOMAIN pattern THEN pattern[u[1]] ELSE u[2]]
<1>1. F \in [(1..tries) \X S -> S]
  OBVIOUS
<1>2. \A n \in 1..tries, s \in S : F[<<n, s>>] = IF n \in DOMAIN pattern THEN pattern[n] ELSE s
  OBVIOUS
<1>3. x \in S
  OBVIOUS
<1> HIDE DEF F, S
<1>4. PICK g \in [0..tries -> S] : IsRecursive(g, tries, x, F)
  BY <1>1, <1>3, RecursionExists
<1>5. ASSUME NEW n \in 0..tries
      PROVE  g[n] = IF n \in DOMAIN pattern THEN pattern[n]
                    ELSE IF n = 0 THEN <<RETRY_INTERVAL, RETRY_INTERVAL>> ELSE g[n - 1]
  <2>1. n # 0 => n \in 1..tries /\ g[n - 1] \in S
    OBVIOUS
  <2>2. g[n] = IF n = 0 THEN x ELSE F[<<n, g[n - 1]>>]
    BY <1>4 DEF IsRecursive
  <2> QED
    BY <1>2, <2>1, <2>2
<1>6. IsWait(g, pattern, tries)
  BY <1>5 DEF IsWait
<1> QED
  BY <1>6

\* The wait is that of the greatest count that is reached, and ten minutes without one.
LEMMA RetrySecondsReach ==
  ASSUME NEW pattern, IsPattern(pattern), NEW tries \in Nat
  PROVE  LET reached == {n \in DOMAIN pattern : n <= tries}
             wait == RetrySeconds(pattern, tries, 0)
         IN  /\ reached = {} => wait = <<RETRY_INTERVAL, RETRY_INTERVAL>>
             /\ \A n \in reached : (\A m \in reached : m <= n) => wait = pattern[n]
             /\ wait[1] <= wait[2]
<1> DEFINE g == CHOOSE h : IsWait(h, pattern, tries)
           Reached(k) == {n \in DOMAIN pattern : n <= k}
           Right(k) == /\ Reached(k) = {} => g[k] = <<RETRY_INTERVAL, RETRY_INTERVAL>>
                       /\ \A n \in Reached(k) : (\A m \in Reached(k) : m <= n) => g[k] = pattern[n]
                       /\ g[k][1] <= g[k][2]
           T == {k \in Nat : k <= tries => Right(k)}
<1>1. IsWait(g, pattern, tries)
  BY WaitExists
<1> HIDE DEF g
<1>2. \A n \in 0..tries :
        g[n] = IF n \in DOMAIN pattern THEN pattern[n]
               ELSE IF n = 0 THEN <<RETRY_INTERVAL, RETRY_INTERVAL>> ELSE g[n - 1]
  BY <1>1 DEF IsWait
<1>3. DOMAIN pattern \subseteq Nat /\ \A n \in DOMAIN pattern : pattern[n][1] <= pattern[n][2]
  BY DEF IsPattern
<1>4. 0 \in T
  BY <1>2, <1>3 DEF RETRY_INTERVAL
<1>5. ASSUME NEW k \in Nat, k \in T PROVE k + 1 \in T
  <2> SUFFICES ASSUME k + 1 <= tries PROVE Right(k + 1)
    OBVIOUS
  <2>1. Right(k) /\ k + 1 \in 0..tries
    BY <1>5
  <2>2. CASE k + 1 \in DOMAIN pattern
    BY <1>2, <1>3, <2>1, <2>2
  <2>3. CASE k + 1 \notin DOMAIN pattern
    <3>1. g[k + 1] = g[k] /\ Reached(k + 1) = Reached(k)
      BY <1>2, <1>3, <2>1, <2>3
    <3> QED
      BY <2>1, <3>1
  <2> QED
    BY <2>2, <2>3
<1>6. tries \in T
  <2> HIDE DEF T
  <2> QED
    BY <1>4, <1>5, NatInduct
<1> QED
  BY <1>6, RetrySecondsIs DEF g

-----------------------------------------------------------------------------
(* Dates and intervals, for the autovacuum                                  *)

\* There is a root channel, and every channel says how long jobs are kept.
IntervalsInv ==
  /\ "root" \in DOMAIN channels
  /\ \A c \in DOMAIN channels : channels[c].interval \in 1..2

\* A job has a date only if it was done or cancelled since it was last asked for, and then
\* no date is before the first time; one that has a date and is open was reopened.
DatesOf(job) ==
  /\ DOMAIN job = {"state", "channel", "done", "cancelled", "asked", "since", "reopened"}
  /\ job.since \in {None} \cup 1..today
  /\ \A date \in {job.done, job.cancelled} \ {None} :
       date \in 1..today /\ job.since # None /\ job.since <= date
  /\ job.since = None \/ job.state \in Finished \/ job.reopened

DatesInv == today \in Nat \ {0} /\ \A j \in DOMAIN jobs : DatesOf(jobs[j])

RoutingInv == IntervalsInv /\ DatesInv

\* The invariant holds when the server is started.
LEMMA RoutingInit == InitRouting => RoutingInv
  BY DEF InitRouting, RoutingInv, IntervalsInv, DatesInv

\* Users keep a root channel, which no record stands for that they delete.
LEMMA IntervalsStep ==
  ASSUME RoutingInv, [NextRouting]_routingVars
  PROVE  IntervalsInv'
<1> USE DEF RoutingInv, IntervalsInv
<1>1. ASSUME NEW c \in Channels, SaveChannel(c) PROVE IntervalsInv'
  BY <1>1 DEF SaveChannel
<1>2. ASSUME NEW c \in Channels, DeleteChannel(c) PROVE IntervalsInv'
  BY <1>2, RoutingAssumption DEF DeleteChannel
<1>3. CASE UNCHANGED channels
  BY <1>3
<1> QED
  BY <1>1, <1>2, <1>3
  DEF NextRouting, routingVars, SaveFunction, DeleteFunction, Delay, ReadRow, HandOut, End,
      FailOrDie, RequeueJob, GcOldJobs, Restart, NextDay

\* A step on job j changes no other.
LEMMA DatesWrite ==
  ASSUME DatesInv, NEW j \in DOMAIN jobs, NEW job, DatesOf(job),
         jobs' = [jobs EXCEPT ![j] = job], today' = today
  PROVE  DatesInv'
<1>1. \A i \in DOMAIN jobs' : DatesOf(jobs'[i])
  BY DEF DatesInv
<1> QED
  BY <1>1 DEF DatesInv, DatesOf

\* Every step leaves a job with dates as they should be.
LEMMA DatesStep ==
  ASSUME RoutingInv, [NextRouting]_routingVars
  PROVE  DatesInv'
<1> USE DEF RoutingInv
<1>0. /\ DatesInv /\ today \in Nat \ {0}
      /\ \A j \in DOMAIN jobs : DatesOf(jobs[j])
  BY DEF DatesInv
<1>1. ASSUME NEW j \in Uuids, NEW f \in Functions, Delay(j, f) PROVE DatesInv'
  BY <1>1 DEF Delay, Stored, DatesInv, DatesOf, None
<1>2. ASSUME NEW j \in Uuids, HandOut(j) PROVE DatesInv'
  <2> DEFINE job == [jobs[j] EXCEPT !.state = "running",
                                    !.reopened = @ \/ jobs[j].state \in Finished]
  <2>1. j \in DOMAIN jobs /\ jobs' = [jobs EXCEPT ![j] = job] /\ today' = today
    BY <1>2 DEF HandOut
  <2>2. DatesOf(job)
    BY <1>0, <2>1 DEF DatesOf
  <2> QED
    BY <1>0, <2>1, <2>2, DatesWrite
<1>3. ASSUME NEW j \in Uuids, End(j) PROVE DatesInv'
  <2> DEFINE first == IF jobs[j].since = None THEN today ELSE jobs[j].since
             done == [jobs[j] EXCEPT !.since = first, !.state = "done", !.done = today]
             cancelled == [jobs[j] EXCEPT !.since = first, !.state = "cancelled",
                                          !.cancelled = today]
  <2>1. /\ j \in DOMAIN jobs /\ today' = today
        /\ jobs' = [jobs EXCEPT ![j] = done] \/ jobs' = [jobs EXCEPT ![j] = cancelled]
    BY <1>3 DEF End
  <2>2. first \in 1..today
    BY <1>0, <2>1 DEF DatesOf
  <2>3. first # None /\ \A date \in {jobs[j].done, jobs[j].cancelled} \ {None} :
                          date \in 1..today /\ first <= date
    BY <1>0, <2>1, <2>2 DEF DatesOf, None
  <2>4. DatesOf(done) /\ DatesOf(cancelled)
    BY <1>0, <2>1, <2>2, <2>3 DEF DatesOf, Finished
  <2> QED
    BY <1>0, <2>1, <2>4, DatesWrite
<1>4. ASSUME NEW j \in Uuids, FailOrDie(j) PROVE DatesInv'
  <2>1. PICK new \in {"failed", "pending"} : jobs' = [jobs EXCEPT ![j].state = new]
    BY <1>4 DEF FailOrDie
  <2> DEFINE job == [jobs[j] EXCEPT !.state = new]
  <2>2. j \in DOMAIN jobs /\ jobs' = [jobs EXCEPT ![j] = job] /\ today' = today
        /\ jobs[j].state \notin Finished
    BY <1>4, <2>1 DEF FailOrDie, Finished
  <2>3. DatesOf(job)
    BY <1>0, <2>2 DEF DatesOf
  <2> QED
    BY <1>0, <2>2, <2>3, DatesWrite
<1>5. ASSUME NEW j \in Uuids, RequeueJob(j) PROVE DatesInv'
  <2> DEFINE job == [jobs[j] EXCEPT !.state = "pending", !.done = None, !.cancelled = None,
                                    !.since = None, !.reopened = FALSE]
  <2>1. j \in DOMAIN jobs /\ jobs' = [jobs EXCEPT ![j] = job] /\ today' = today
    BY <1>5 DEF RequeueJob
  <2>2. DatesOf(job)
    BY <1>0, <2>1 DEF DatesOf
  <2> QED
    BY <1>0, <2>1, <2>2, DatesWrite
<1>6. CASE GcOldJobs
  BY <1>0, <1>6 DEF GcOldJobs, DatesInv, DatesOf
<1>7. CASE NextDay
  BY <1>0, <1>7 DEF NextDay, DatesInv, DatesOf
<1>8. CASE UNCHANGED <<jobs, today>>
  BY <1>0, <1>8 DEF DatesInv, DatesOf
<1> QED
  BY <1>1, <1>2, <1>3, <1>4, <1>5, <1>6, <1>7, <1>8
  DEF NextRouting, routingVars, SaveChannel, DeleteChannel, SaveFunction,
      DeleteFunction, ReadRow, Restart

\* The autovacuum always has a number of days to go by.
LEMMA IntervalType ==
  ASSUME IntervalsInv, NEW name
  PROVE  Interval(name) \in Int
  BY DEF IntervalsInv, Interval

\* Jobs go in one step only, and no date it can find is before their first end.
LEMMA OldJobsGo ==
  ASSUME RoutingInv, [NextRouting]_routingVars,
         NEW j \in DOMAIN jobs \ DOMAIN jobs'
  PROVE  /\ jobs[j].since # None /\ today - jobs[j].since >= Interval(jobs[j].channel)
         /\ jobs[j].state \in Finished \/ jobs[j].reopened
<1>1. GcOldJobs
  BY DEF NextRouting, routingVars, SaveChannel, DeleteChannel, SaveFunction,
         DeleteFunction, Delay, ReadRow, HandOut, End, FailOrDie, RequeueJob, Restart, NextDay
<1>2. Old(jobs[j])
  BY <1>1 DEF GcOldJobs
<1>3. Interval(jobs[j].channel) \in Int
  BY IntervalType DEF RoutingInv
<1> QED
  BY <1>2, <1>3 DEF Old, RoutingInv, DatesInv, DatesOf, None

-----------------------------------------------------------------------------
(* Names and the cache                                                      *)

\* Full names of channels
FullNames == {name \in Seq(Names) : name # <<>> /\ name[1] = "root"}

\* Channels have full names, functions have channels that exist, and jobs the channel
\* that was meant for them.
NamesInv ==
  /\ \A c \in DOMAIN channels : channels[c].name \in FullNames
  /\ \A f \in DOMAIN functions :
       functions[f].channel \in DOMAIN channels /\ functions[f].pattern \in Patterns
  /\ IsFiniteSet(DOMAIN jobs)
  /\ \A j \in DOMAIN jobs : jobs[j].channel \in FullNames

\* The cache says of a function what its record says, its channel unless one is renamed.
CacheInv ==
  /\ \A f \in DOMAIN cached :
       /\ cached[f].pattern = ConfigOf(f).pattern
       /\ ~StaleRenames => cached[f].channel = ConfigOf(f).channel
       /\ cached[f].channel \in FullNames
  /\ ~StaleRenames => \A j \in DOMAIN jobs : jobs[j].asked = jobs[j].channel

NamingInv == NamesInv /\ CacheInv

\* A full name has labels, the first is that of the root.
LEMMA FullNameIs ==
  /\ \A name \in FullNames :
       name \in Seq(Names) /\ Len(name) \in Nat \ {0} /\ name[1] = "root"
  /\ \A name \in Seq(Names) : Len(name) > 0 /\ name[1] = "root" => name \in FullNames
BY EmptySeq DEF FullNames

\* A name with labels in place of others, and one with a label more, is a full name.
LEMMA FullNamesAre ==
  /\ <<"root">> \in FullNames
  /\ \A name \in FullNames, label \in Names : Append(name, label) \in FullNames
  /\ \A name, other \in FullNames : \A n \in Nat \ {0} :
       n <= Len(other) + 1 => name \o SubSeq(other, n, Len(other)) \in FullNames
  /\ \A label \in Labels : FullName(<<label>>) \in FullNames
<1>1. <<"root">> \in FullNames
  BY DEF FullNames, Names
<1>2. ASSUME NEW name \in FullNames, NEW label \in Names
      PROVE  Append(name, label) \in FullNames
  <2> DEFINE new == Append(name, label)
  <2>1. name \in Seq(Names) /\ Len(name) \in Nat \ {0} /\ name[1] = "root"
    BY FullNameIs
  <2>2. new \in Seq(Names) /\ Len(new) = Len(name) + 1 /\ new[1] = name[1]
    BY <2>1, AppendProperties
  <2> HIDE DEF new
  <2>3. Len(new) > 0 /\ new[1] = "root"
    BY <2>1, <2>2
  <2>4. new \in FullNames
    BY <2>2, <2>3, FullNameIs
  <2> QED
    BY <2>4 DEF new
<1>3. ASSUME NEW name \in FullNames, NEW other \in FullNames, NEW n \in Nat \ {0},
             n <= Len(other) + 1
      PROVE  name \o SubSeq(other, n, Len(other)) \in FullNames
  <2> DEFINE rest == SubSeq(other, n, Len(other))
  <2>1. name \in Seq(Names) /\ other \in Seq(Names) /\ Len(name) \in Nat \ {0}
        /\ Len(other) \in Nat /\ name[1] = "root"
    BY FullNameIs
  <2>2. rest \in Seq(Names)
    <3>1. \A i \in n..Len(other) : other[i] \in Names
      BY <2>1, ElementOfSeq
    <3> QED
      BY <2>1, <3>1, SubSeqProperties
  <2> HIDE DEF rest
  <2> DEFINE new == name \o rest
  <2>3. /\ new \in Seq(Names) /\ Len(new) = Len(name) + Len(rest) /\ Len(rest) \in Nat
        /\ new[1] = name[1]
    BY <2>1, <2>2, ConcatProperties, LenProperties
  <2> HIDE DEF new
  <2>4. Len(new) > 0 /\ new[1] = "root"
    BY <2>1, <2>3
  <2>5. new \in FullNames
    BY <2>3, <2>4, FullNameIs
  <2> QED
    BY <2>5 DEF new, rest
<1>4. ASSUME NEW label \in Labels PROVE FullName(<<label>>) \in FullNames
  <2>1. <<label>> \in Seq(Names) /\ <<"root">> \in Seq(Names) /\ label \in Names
        /\ Len(<<label>>) = 1 /\ Len(<<"root">>) = 1 /\ <<"root">>[1] = "root"
        /\ <<label>>[1] = label /\ <<label>> # <<>>
    BY DEF Names
  <2> DEFINE new == <<"root">> \o <<label>>
  <2>2. new \in Seq(Names) /\ Len(new) = 2 /\ new[1] = "root"
    BY <2>1, ConcatProperties
  <2> HIDE DEF new
  <2>3. new \in FullNames
    BY <2>2, FullNameIs
  <2>4. label = "root" => <<label>> \in FullNames
    BY <2>1 DEF FullNames
  <2> QED
    BY <2>1, <2>3, <2>4 DEF FullName, new
<1> QED
  BY <1>1, <1>2, <1>3, <1>4

\* The invariant holds when the server is started.
LEMMA NamingInit == InitRouting => NamingInv
  BY FullNamesAre, FS_EmptySet DEF InitRouting, NamingInv, NamesInv, CacheInv

\* What a function is asked for is a full name.
LEMMA ConfigOfIs ==
  ASSUME NamingInv, NEW f
  PROVE  /\ ConfigOf(f).channel \in FullNames /\ ConfigOf(f).pattern \in Patterns \cup {<<>>}
         /\ JobConfig(f).channel \in FullNames /\ JobConfig(f).pattern = ConfigOf(f).pattern
         /\ ~StaleRenames => JobConfig(f).channel = ConfigOf(f).channel
  BY FullNamesAre DEF NamingInv, NamesInv, CacheInv, ConfigOf, JobConfig, DefaultConfig

\* A channel that is saved takes those below it along, and a function in the cache is not
\* one of theirs.
LEMMA NamingSaveChannel ==
  ASSUME NamingInv, NEW c \in Channels, SaveChannel(c)
  PROVE  NamingInv'
<1>1. PICK label \in Labels, parent \in DOMAIN channels, days \in 1..2 :
        LET new == Append(channels[parent].name, label)
        IN  channels' = [d \in DOMAIN channels \cup {c} |->
                           [name |-> NameAfter(c, new, d),
                            interval |-> IF d = c THEN days ELSE channels[d].interval]]
  BY DEF SaveChannel
<1> DEFINE new == Append(channels[parent].name, label)
<1>2. new \in FullNames
  BY FullNamesAre DEF NamingInv, NamesInv, Names
<1> HIDE DEF new
<1>3. UNCHANGED <<functions, cached, jobs>>
  BY DEF SaveChannel
<1>4. ASSUME NEW d \in DOMAIN channels \cup {c} PROVE NameAfter(c, new, d) \in FullNames
  <2>1. CASE d = c
    BY <2>1, <1>2 DEF NameAfter
  <2>2. CASE d # c /\ c \in DOMAIN channels /\ IsPrefix(channels[c].name, channels[d].name)
    <3>1. channels[c].name \in FullNames /\ channels[d].name \in FullNames
      BY <2>2 DEF NamingInv, NamesInv
    <3>2. /\ Len(channels[c].name) + 1 \in Nat \ {0}
          /\ Len(channels[c].name) + 1 <= Len(channels[d].name) + 1
      BY <2>2, <3>1 DEF IsPrefix, FullNames
    <3> QED
      BY <1>2, <2>2, <3>1, <3>2, FullNamesAre DEF NameAfter
  <2>3. CASE d # c /\ ~(c \in DOMAIN channels /\ IsPrefix(channels[c].name, channels[d].name))
    BY <2>3 DEF NameAfter, NamingInv, NamesInv
  <2> QED
    BY <2>1, <2>2, <2>3
<1>5. /\ DOMAIN channels' = DOMAIN channels \cup {c}
      /\ \A d \in DOMAIN channels' : channels'[d].name = NameAfter(c, new, d)
  BY <1>1 DEF new
<1>6. NamesInv'
  BY <1>3, <1>4, <1>5 DEF NamingInv, NamesInv
<1>7. ASSUME NEW f \in DOMAIN cached, ~StaleRenames
      PROVE  ConfigOf(f)'.channel = ConfigOf(f).channel
  <2> SUFFICES ASSUME f \in DOMAIN functions
               PROVE  NameAfter(c, new, functions[f].channel) = channels[functions[f].channel].name
    BY <1>3, <1>5 DEF ConfigOf, NamingInv, NamesInv
  <2>1. functions[f].channel \in DOMAIN channels
    BY DEF NamingInv, NamesInv
  <2>2. c \in DOMAIN channels => ~IsPrefix(channels[c].name, channels[functions[f].channel].name)
    BY <1>7 DEF SaveChannel, InUse
  <2>3. functions[f].channel # c
    BY <2>1, <2>2 DEF IsPrefix, NamingInv, NamesInv, FullNames
  <2> QED
    BY <2>1, <2>2, <2>3 DEF NameAfter
<1>8. \A f : ConfigOf(f)'.pattern = ConfigOf(f).pattern
  BY <1>3 DEF ConfigOf
<1> QED
  BY <1>3, <1>6, <1>7, <1>8 DEF NamingInv, CacheInv

\* The other steps of users: the cache forgets what they change.
LEMMA NamingUsers ==
  ASSUME NamingInv,
         \/ \E c \in Channels : DeleteChannel(c)
         \/ \E f \in Functions : SaveFunction(f) \/ DeleteFunction(f)
         \/ Restart
  PROVE  NamingInv'
<1> USE DEF NamingInv, NamesInv, CacheInv
<1>1. ASSUME NEW c \in Channels, DeleteChannel(c) PROVE NamingInv'
  BY <1>1 DEF DeleteChannel, ConfigOf
<1>2. ASSUME NEW f \in Functions, SaveFunction(f) PROVE NamingInv'
  BY <1>2 DEF SaveFunction
<1>3. ASSUME NEW f \in Functions, DeleteFunction(f) PROVE NamingInv'
  BY <1>3 DEF DeleteFunction
<1>4. CASE Restart
  BY <1>4 DEF Restart
<1> QED
  BY <1>1, <1>2, <1>3, <1>4

\* A job that is delayed gets the channel that is meant, and the cache an answer.
LEMMA NamingDelay ==
  ASSUME NamingInv, NEW j \in Uuids, NEW f \in Functions, Delay(j, f)
  PROVE  NamingInv'
<1>1. UNCHANGED <<channels, functions>>
  BY DEF Delay
<1>2. \A g : ConfigOf(g)' = ConfigOf(g)
  BY <1>1 DEF ConfigOf
<1>3. cached' = [g \in DOMAIN cached \cup {f} |-> JobConfig(g)]
  BY DEF Delay, Remembered
<1>4. PICK given \in {<<>>} \cup {FullName(<<l>>) : l \in Labels} :
        jobs' = [i \in DOMAIN jobs \cup {j} |-> IF i = j THEN Stored(given, f) ELSE jobs[i]]
  BY DEF Delay
<1>5. given = <<>> \/ given \in FullNames
  BY FullNamesAre
<1>6. /\ Stored(given, f).channel \in FullNames
      /\ ~StaleRenames => Stored(given, f).asked = Stored(given, f).channel
  BY <1>5, ConfigOfIs DEF Stored, ChannelFor
<1>7. IsFiniteSet(DOMAIN jobs')
  <2>1. DOMAIN jobs' = DOMAIN jobs \cup {j}
    BY <1>4
  <2> QED
    BY <2>1, FS_AddElement DEF NamingInv, NamesInv
<1>8. NamesInv'
  BY <1>1, <1>4, <1>6, <1>7 DEF NamingInv, NamesInv
<1>9. CacheInv'
  BY <1>2, <1>3, <1>4, <1>6, ConfigOfIs DEF NamingInv, CacheInv
<1> QED
  BY <1>8, <1>9 DEF NamingInv

\* Every step keeps names and the cache.
LEMMA NamingStep ==
  ASSUME RoutingInv, NamingInv, [NextRouting]_routingVars
  PROVE  NamingInv'
<1>1. ASSUME NEW j \in Uuids, HandOut(j) \/ End(j) \/ FailOrDie(j) \/ RequeueJob(j)
      PROVE  NamingInv'
  <2>1. /\ UNCHANGED <<channels, functions, cached>> /\ DOMAIN jobs' = DOMAIN jobs
    BY <1>1 DEF HandOut, End, FailOrDie, RequeueJob
  <2>2. \A i \in DOMAIN jobs : jobs'[i].channel = jobs[i].channel /\ jobs'[i].asked = jobs[i].asked
    BY <1>1 DEF HandOut, End, FailOrDie, RequeueJob, RoutingInv, DatesInv, DatesOf
  <2>3. \A f : ConfigOf(f)' = ConfigOf(f)
    BY <2>1 DEF ConfigOf
  <2> QED
    BY <2>1, <2>2, <2>3 DEF NamingInv, NamesInv, CacheInv
<1>2. CASE GcOldJobs
  <2>1. UNCHANGED <<channels, functions, cached>> /\ DOMAIN jobs' \subseteq DOMAIN jobs
        /\ \A i \in DOMAIN jobs' : jobs'[i] = jobs[i]
    BY <1>2 DEF GcOldJobs
  <2>2. \A f : ConfigOf(f)' = ConfigOf(f)
    BY <2>1 DEF ConfigOf
  <2>3. IsFiniteSet(DOMAIN jobs')
    BY <2>1, FS_Subset DEF NamingInv, NamesInv
  <2> QED
    BY <2>1, <2>2, <2>3 DEF NamingInv, NamesInv, CacheInv
<1>3. CASE UNCHANGED <<channels, functions, cached, jobs>>
  BY <1>3 DEF NamingInv, NamesInv, CacheInv, ConfigOf
<1> QED
  BY <1>1, <1>2, <1>3, NamingSaveChannel, NamingUsers, NamingDelay
  DEF NextRouting, routingVars, ReadRow, NextDay

-----------------------------------------------------------------------------
(* Channels of the runner                                                   *)

\* The options a channel has.
Limits == [capacity : Nat, options : SUBSET STRING]

\* Channels with options, the root among them
Known ==
  {known \in UNION {[D -> Limits] : D \in SUBSET Seq(Names)} : <<"root">> \in DOMAIN known}

\* Entries for a full name, and the options of the last one.
EntriesOf(entries, full) == {n \in DOMAIN entries : FullName(entries[n].name) = full}
OptionsIn(entries, full) ==
  Parsed(entries[CHOOSE n \in EntriesOf(entries, full) :
                   \A m \in EntriesOf(entries, full) : m <= n])

\* Each name that is configured has its channel, with its options.
Serves(known, entries) ==
  \A full : EntriesOf(entries, full) # {} =>
    full \in DOMAIN known /\ known[full] = OptionsIn(entries, full)

\* Numbers up to a bound have a greatest one.
LEMMA NatGreatest ==
  ASSUME NEW U \in SUBSET Nat, U # {}, NEW b \in Nat, \A n \in U : n <= b
  PROVE  \E n \in U : \A m \in U : m <= n
<1> DEFINE V == {b - n : n \in U}
<1>1. V \in SUBSET Nat /\ V # {}
  <2>1. \A n \in U : b - n \in Nat
    OBVIOUS
  <2>2. PICK n \in U : TRUE
    OBVIOUS
  <2>3. b - n \in V
    OBVIOUS
  <2> QED
    BY <2>1, <2>3
<1>2. PICK v \in V : \A w \in V : v <= w
  <2> HIDE DEF V
  <2> QED
    BY <1>1, NatLeast
<1>3. PICK n \in U : v = b - n
  BY <1>2
<1>4. \A m \in U : b - n <= b - m
  BY <1>2, <1>3
<1> QED
  BY <1>3, <1>4

\* Names above a name, and itself, are what it begins with.
LEMMA AncestorsAre ==
  ASSUME NEW name \in Seq(Names), NEW p
  PROVE  p \in Ancestors(name) <=>
           /\ p \in Seq(Names) /\ Len(p) \in 1..Len(name)
           /\ \A i \in 1..Len(p) : p[i] = name[i]
<1>1. Len(name) \in Nat /\ \A i \in 1..Len(name) : name[i] \in Names
  BY LenProperties, ElementOfSeq
<1>2. ASSUME NEW l \in 1..Len(name)
      PROVE  /\ SubSeq(name, 1, l) \in Seq(Names) /\ Len(SubSeq(name, 1, l)) = l
             /\ \A i \in 1..l : SubSeq(name, 1, l)[i] = name[i]
  <2>1. \A i \in 1..l : name[i] \in Names
    BY <1>1
  <2> QED
    BY <1>1, <2>1, SubSeqProperties
<1>3. ASSUME p \in Ancestors(name)
      PROVE  /\ p \in Seq(Names) /\ Len(p) \in 1..Len(name)
             /\ \A i \in 1..Len(p) : p[i] = name[i]
  <2>1. PICK l \in 0..Len(name) : p = SubSeq(name, 1, l)
    BY <1>3 DEF Ancestors, Prefixes
  <2>2. l # 0
    BY <1>3, <1>1, <2>1, SubSeqEmpty DEF Ancestors
  <2> QED
    BY <1>2, <2>1, <2>2
<1>4. ASSUME p \in Seq(Names), Len(p) \in 1..Len(name),
             \A i \in 1..Len(p) : p[i] = name[i]
      PROVE  p \in Ancestors(name)
  <2> DEFINE s == SubSeq(name, 1, Len(p))
  <2>1. s \in Seq(Names) /\ Len(s) = Len(p) /\ \A i \in 1..Len(p) : s[i] = p[i]
    BY <1>2, <1>4
  <2> HIDE DEF s
  <2>3. p = s
    BY <1>4, <2>1, SeqEqual
  <2>2. p # <<>>
    BY <1>4, EmptySeq
  <2>4. s \in Prefixes(name)
    <3>1. Len(p) \in 0..Len(name)
      BY <1>1, <1>4
    <3> QED
      BY <3>1, Zenon DEF Prefixes, s
  <2> QED
    BY <2>2, <2>3, <2>4 DEF Ancestors
<1> QED
  BY <1>3, <1>4

\* Any name has a full one.
LEMMA FullNameType ==
  ASSUME NEW name \in Seq(Names)
  PROVE  FullName(name) \in FullNames /\ (name \in FullNames => FullName(name) = name)
<1> DEFINE new == <<"root">> \o name
<1>1. <<"root">> \in Seq(Names) /\ Len(<<"root">>) = 1 /\ <<"root">>[1] = "root"
  BY DEF Names
<1>2. new \in Seq(Names) /\ Len(new) = 1 + Len(name) /\ new[1] = "root" /\ Len(name) \in Nat
  BY <1>1, ConcatProperties, LenProperties
<1> HIDE DEF new
<1>3. new \in FullNames
  BY <1>2, FullNameIs
<1>4. name # <<>> /\ name[1] = "root" => name \in FullNames
  BY DEF FullNames
<1> QED
  BY <1>3, <1>4 DEF FullName, FullNames, new

\* Names above a full name are full names.
LEMMA AncestorsFull ==
  ASSUME NEW name \in FullNames
  PROVE  /\ Ancestors(name) \subseteq FullNames
         /\ name \in Ancestors(name) /\ <<"root">> \in Ancestors(name)
<1>1. name \in Seq(Names) /\ Len(name) \in Nat \ {0} /\ name[1] = "root"
  BY FullNameIs
<1>2. ASSUME NEW p \in Ancestors(name) PROVE p \in FullNames
  <2>1. p \in Seq(Names) /\ Len(p) \in 1..Len(name) /\ \A i \in 1..Len(p) : p[i] = name[i]
    BY <1>1, AncestorsAre
  <2>2. Len(p) > 0 /\ p[1] = "root"
    BY <1>1, <2>1
  <2> QED
    BY <2>1, <2>2, FullNameIs
<1>3. name \in Ancestors(name)
  BY <1>1, AncestorsAre
<1>4. <<"root">> \in Ancestors(name)
  <2>1. <<"root">> \in Seq(Names) /\ Len(<<"root">>) = 1 /\ <<"root">>[1] = "root"
    BY DEF Names
  <2> DEFINE root == <<"root">>
  <2>2. root \in Seq(Names) /\ Len(root) = 1 /\ root[1] = "root"
    BY <2>1
  <2> HIDE DEF root
  <2>3. root \in Ancestors(name)
    BY <1>1, <2>2, AncestorsAre
  <2> QED
    BY <2>3 DEF root
<1> QED
  BY <1>2, <1>3, <1>4

\* Channels that are created leave the others as they are.
LEMMA CreatedIs ==
  ASSUME NEW known \in Known, NEW place \in FullNames
  PROVE  /\ Created(known, place) \in Known
         /\ DOMAIN Created(known, place) = DOMAIN known \cup Ancestors(place)
         /\ \A p \in DOMAIN known : Created(known, place)[p] = known[p]
<1>1. PICK D \in SUBSET Seq(Names) : known \in [D -> Limits] /\ <<"root">> \in D
  BY DEF Known
<1>2. Ancestors(place) \subseteq Seq(Names)
  BY AncestorsFull, FullNameIs
<1>3. Unlimited \in Limits
  BY DEF Unlimited, Limits, None
<1>4. Created(known, place) \in [D \cup Ancestors(place) -> Limits]
  BY <1>1, <1>3 DEF Created
<1> QED
  BY <1>1, <1>2, <1>4 DEF Created, Known

\* A job goes through the channel of its name, or one below the longest beginning of its
\* name that is known, where all labels come again.
LEMMA PlaceIs ==
  ASSUME NEW known \in Known, NEW full \in FullNames
  PROVE  LET place == Place(known, full, TRUE)
         IN  /\ place \in FullNames
             /\ \/ place = full
                \/ \E base \in Ancestors(full) \cap DOMAIN known :
                     /\ Len(base) >= 2 /\ place = base \o Tail(full)
                     /\ \A q \in Ancestors(full) \cap DOMAIN known : Len(q) <= Len(base)
<1> DEFINE bases == {p \in Ancestors(full) : p \in DOMAIN known}
           base == CHOOSE p \in bases : \A q \in bases : Len(q) <= Len(p)
           place == Place(known, full, TRUE)
<1>1. full \in Seq(Names) /\ Len(full) \in Nat \ {0} /\ full[1] = "root" /\ FullName(full) = full
  BY FullNameIs, FullNameType
<1>2. <<"root">> \in bases
  BY AncestorsFull DEF Known
<1>3. base \in bases /\ \A q \in bases : Len(q) <= Len(base)
  <2> DEFINE U == {Len(q) : q \in bases}
  <2>1. \A q \in bases : Len(q) \in Nat /\ Len(q) <= Len(full)
    BY <1>1, AncestorsAre
  <2>3. Len(<<"root">>) \in U
    BY <1>2
  <2>2. PICK n \in U : \A m \in U : m <= n
    <3>1. U \in SUBSET Nat /\ \A n \in U : n <= Len(full)
      BY <2>1
    <3> HIDE DEF U
    <3> QED
      BY <1>1, <2>3, <3>1, NatGreatest
  <2> QED
    BY <2>2
<1>4. place = IF full \in DOMAIN known \/ base = <<"root">> THEN full ELSE base \o Tail(full)
  BY <1>1 DEF Place
<1> HIDE DEF base, place
<1>5. CASE place = full
  BY <1>5 DEF place
<1>6. CASE place # full
  <2>1. base # <<"root">> /\ place = base \o Tail(full)
    BY <1>4, <1>6
  <2>2. base \in FullNames /\ base \in Seq(Names) /\ Len(base) \in Nat \ {0} /\ base[1] = "root"
    BY <1>3, AncestorsFull, FullNameIs
  <2>3. Len(base) >= 2
    <3> DEFINE root == <<"root">>
    <3>1. root \in Seq(Names) /\ Len(root) = 1 /\ root[1] = "root"
      BY DEF Names
    <3>2. base # root
      BY <2>1
    <3> HIDE DEF root
    <3>3. CASE Len(base) = 1
      <4>1. \A i \in 1..Len(base) : base[i] = root[i]
        BY <2>2, <3>1, <3>3
      <4>2. base = root
        BY <2>2, <3>1, <3>3, <4>1, SeqEqual
      <4> QED
        BY <3>2, <4>2
    <3>4. CASE Len(base) # 1
      <4>1. \A n \in Nat \ {0} : n # 1 => n >= 2
        OBVIOUS
      <4>2. Len(base) \in Nat \ {0}
        BY <2>2
      <4> QED
        BY <3>4, <4>1, <4>2
    <3> QED
      BY <3>3, <3>4
  <2>4. place \in FullNames
    <3>1. full # <<>>
      BY <1>1, EmptySeq
    <3> DEFINE rest == Tail(full)
    <3>2. rest \in Seq(Names)
      BY <1>1, <3>1, HeadTailProperties
    <3> HIDE DEF rest
    <3>3. place = base \o rest
      BY <2>1 DEF rest
    <3>4. place \in Seq(Names) /\ Len(place) = Len(base) + Len(rest) /\ Len(rest) \in Nat
          /\ place[1] = base[1]
      BY <2>2, <3>2, <3>3, ConcatProperties, LenProperties
    <3>5. Len(place) > 0 /\ place[1] = "root"
      BY <2>2, <3>4
    <3> QED
      BY <3>4, <3>5, FullNameIs
  <2> QED
    BY <1>3, <2>1, <2>3, <2>4 DEF place
<1> QED
  BY <1>5, <1>6

\* No name of the configuration has a label twice below the root.
LabelsDiffer(entries) ==
  \A m \in DOMAIN entries :
    LET full == FullName(entries[m].name)
    IN  \A i, k \in 2..Len(full) : full[i] = full[k] => i = k

\* Where a job is, it passes through the configured channels that its name says and through
\* no other: those it has more have the label after the root twice.
LEMMA PassesWhatIsMeant ==
  ASSUME NEW known \in Known, NEW entries, Serves(known, entries), LabelsDiffer(entries),
         NEW full \in FullNames, NEW p, EntriesOf(entries, p) # {},
         p \in Ancestors(Place(known, full, TRUE)) \cup Ancestors(full)
  PROVE  p \in Ancestors(Place(known, full, TRUE)) \cap Ancestors(full)
<1> DEFINE place == Place(known, full, TRUE)
<1>1. CASE place = full
  BY <1>1
<1>2. ASSUME NEW base \in Ancestors(full) \cap DOMAIN known,
             Len(base) >= 2, place = base \o Tail(full),
             \A q \in Ancestors(full) \cap DOMAIN known : Len(q) <= Len(base)
      PROVE  p \in Ancestors(place) \cap Ancestors(full)
  <2> DEFINE rest == Tail(full)
             b == Len(base)
  <2>1. /\ full \in Seq(Names) /\ Len(full) \in Nat \ {0}
        /\ base \in Seq(Names) /\ b \in 1..Len(full) /\ \A i \in 1..b : base[i] = full[i]
    BY <1>2, FullNameIs, AncestorsAre
  <2>2. rest \in Seq(Names) /\ Len(rest) = Len(full) - 1 /\ rest[1] = full[2]
    <3>1. full # <<>>
      BY <2>1, EmptySeq
    <3>2. b >= 2
      BY <1>2
    <3>3. 1 \in 1..(Len(full) - 1)
      BY <2>1, <3>2
    <3> QED
      BY <2>1, <3>1, <3>3, HeadTailProperties
  <2>9. p \in Ancestors(place) \/ p \in Ancestors(full)
    OBVIOUS
  <2> HIDE DEF rest, place
  <2>3. place = base \o rest
    BY <1>2 DEF rest
  <2>4. /\ place \in Seq(Names) /\ Len(place) = b + Len(full) - 1
        /\ \A i \in 1..b : place[i] = base[i]
        /\ place[b + 1] = full[2]
    <3>1. \A i \in 1..(b + Len(rest)) : place[i] = IF i <= b THEN base[i] ELSE rest[i - b]
      BY <2>1, <2>2, <2>3, ConcatProperties
    <3>2. place \in Seq(Names) /\ Len(place) = b + Len(rest)
      BY <2>1, <2>2, <2>3, ConcatProperties
    <3> HIDE DEF b
    <3>3. b \in Nat \ {0} /\ Len(rest) \in Nat \ {0}
      <4>1. \A l \in Nat \ {0} : \A n \in 1..l :
              n >= 2 => n \in Nat \ {0} /\ l - 1 \in Nat \ {0}
        OBVIOUS
      <4>2. Len(full) \in Nat \ {0} /\ b \in 1..Len(full) /\ b >= 2 /\ Len(rest) = Len(full) - 1
        BY <2>1, <2>2, <1>2 DEF b
      <4> HIDE DEF rest
      <4> QED
        BY <4>1, <4>2
    <3>4. place[b + 1] = rest[1]
      BY <3>1, <3>3
    <3>5. \A i \in 1..b : place[i] = base[i]
      BY <3>1, <3>3
    <3> QED
      BY <2>1, <2>2, <3>2, <3>4, <3>5
  <2>5. p \in Seq(Names) /\ Len(p) \in Nat \ {0}
    <3> DEFINE Begins(name) == p \in Seq(Names) /\ Len(p) \in 1..Len(name)
    <3>1. p \in Ancestors(place) => Begins(place)
      BY <2>4, AncestorsAre
    <3>2. p \in Ancestors(full) => Begins(full)
      BY <2>1, AncestorsAre
    <3>3. \A name \in Seq(Names) : Begins(name) => Len(p) \in Nat \ {0}
      BY LenProperties
    <3> HIDE DEF Begins
    <3>4. p \in Seq(Names)
      BY <2>9, <3>1, <3>2 DEF Begins
    <3> QED
      BY <2>1, <2>4, <2>9, <3>1, <3>2, <3>3, <3>4
  <2>6. b \in Nat /\ b >= 2
    BY <1>2, <2>1
  <2>7. CASE Len(p) <= b
    <3>1. \A i \in 1..Len(p) : place[i] = full[i]
      <4> SUFFICES ASSUME NEW i \in 1..Len(p) PROVE place[i] = full[i]
        OBVIOUS
      <4>1. i \in 1..b
        BY <2>5, <2>6, <2>7
      <4> QED
        BY <4>1, <2>1, <2>4
    <3>2. Len(p) \in 1..Len(full) /\ Len(p) \in 1..Len(place)
      <4> HIDE DEF b
      <4> QED
        BY <2>1, <2>4, <2>5, <2>6, <2>7
    <3>3. \A i \in 1..Len(p) : p[i] = full[i] /\ p[i] = place[i]
      <4>1. CASE p \in Ancestors(full)
        <5>1. \A i \in 1..Len(p) : p[i] = full[i]
          BY <2>1, <4>1, AncestorsAre
        <5> QED
          BY <3>1, <5>1
      <4>2. CASE p \in Ancestors(place)
        <5>1. \A i \in 1..Len(p) : p[i] = place[i]
          BY <2>4, <4>2, AncestorsAre
        <5> QED
          BY <3>1, <5>1
      <4> QED
        BY <2>9, <4>1, <4>2
    <3>4. p \in Ancestors(full)
      BY <2>1, <2>5, <3>2, <3>3, AncestorsAre
    <3>5. p \in Ancestors(place)
      BY <2>4, <2>5, <3>2, <3>3, AncestorsAre
    <3> QED
      BY <3>4, <3>5
  <2>8. CASE Len(p) > b
    <3>1. p \notin Ancestors(full)
      <4>1. p \in DOMAIN known
        BY DEF Serves
      <4>2. p \in Ancestors(full) => Len(p) <= b
        BY <1>2, <4>1
      <4> QED
        BY <2>5, <2>6, <2>8, <4>2
    <3>2. p \in Ancestors(place)
      BY <3>1 DEF place
    <3>3. \A i \in 1..Len(p) : p[i] = place[i]
      BY <2>4, <3>2, AncestorsAre
    <3>4. 2 \in 1..Len(p) /\ b + 1 \in 1..Len(p) /\ 2 \in 1..b
      BY <2>5, <2>6, <2>8
    <3>5. p[2] = full[2] /\ p[b + 1] = full[2]
      BY <2>1, <2>4, <3>3, <3>4
    <3>6. PICK m \in DOMAIN entries : FullName(entries[m].name) = p
      BY DEF EntriesOf
    <3>7. \A i, k \in 2..Len(p) : p[i] = p[k] => i = k
      BY <3>6 DEF LabelsDiffer
    <3>8. 2 \in 2..Len(p) /\ b + 1 \in 2..Len(p) /\ b + 1 # 2
      BY <2>5, <2>6, <2>8
    <3> QED
      BY <3>5, <3>7, <3>8
  <2> QED
    BY <2>5, <2>6, <2>7, <2>8
<1> QED
  BY <1>1, <1>2, PlaceIs

-----------------------------------------------------------------------------
(* What the configuration makes                                             *)

\* Configurations that the server may have
AreEntries(entries) == entries \in Seq([name : Seq(Names), capacity : Nat, options : SUBSET STRING])

\* The channels after n entries, and after those of n jobs.
IsConfigured(g, entries) ==
  g = [n \in 0..Len(entries) |->
         IF n = 0 THEN [p \in {<<"root">>} |-> [capacity |-> 1, options |-> {}]]
         ELSE LET place == Place(g[n - 1], entries[n].name, FALSE)
              IN  [Created(g[n - 1], place) EXCEPT ![place] = Parsed(entries[n])]]

IsNotified(g, manages, names) ==
  g = [n \in 0..Len(names) |->
         IF n = 0 THEN manages
         ELSE Created(g[n - 1], Place(g[n - 1], names[n], TRUE))]

\* Both are values of some function that goes from step to step.
LEMMA ConfiguredIs ==
  \A entries : Configured(entries) = (CHOOSE g : IsConfigured(g, entries))[Len(entries)]
BY DEF Configured, IsConfigured

\* The same for notifications.
LEMMA NotifiedIs ==
  \A manages, names :
    Notified(manages, names) = (CHOOSE g : IsNotified(g, manages, names))[Len(names)]
BY DEF Notified, IsNotified

\* What one entry makes.
LEMMA EntryStep ==
  ASSUME NEW known \in Known, NEW entries, AreEntries(entries), NEW n \in 1..Len(entries)
  PROVE  LET full == FullName(entries[n].name)
             after == [Created(known, Place(known, entries[n].name, FALSE))
                         EXCEPT ![Place(known, entries[n].name, FALSE)] = Parsed(entries[n])]
         IN  /\ after \in Known
             /\ DOMAIN after = DOMAIN known \cup Ancestors(full)
             /\ full \in DOMAIN after /\ after[full] = Parsed(entries[n])
             /\ \A p \in DOMAIN known \ {full} : after[p] = known[p]
<1> DEFINE full == FullName(entries[n].name)
           after == [Created(known, full) EXCEPT ![full] = Parsed(entries[n])]
<1>1. entries[n] \in [name : Seq(Names), capacity : Nat, options : SUBSET STRING]
  BY ElementOfSeq DEF AreEntries
<1>2. full \in FullNames
  BY <1>1, FullNameType
<1>3. Place(known, entries[n].name, FALSE) = full
  BY DEF Place
<1>4. Parsed(entries[n]) \in Limits
  BY <1>1 DEF Parsed, Limits, None
<1> HIDE DEF full
<1>5. /\ Created(known, full) \in Known
      /\ DOMAIN Created(known, full) = DOMAIN known \cup Ancestors(full)
      /\ \A p \in DOMAIN known : Created(known, full)[p] = known[p]
  BY <1>2, CreatedIs
<1>6. full \in Ancestors(full)
  BY <1>2, AncestorsFull
<1>7. after \in Known
  <2>1. PICK D \in SUBSET Seq(Names) : Created(known, full) \in [D -> Limits]
    BY <1>5 DEF Known
  <2>2. after \in [D -> Limits]
    BY <1>4, <2>1
  <2>3. DOMAIN after = DOMAIN Created(known, full)
    OBVIOUS
  <2>4. <<"root">> \in DOMAIN after
    BY <1>5, <2>3 DEF Known
  <2> QED
    BY <2>2, <2>4 DEF Known
<1> QED
  BY <1>3, <1>5, <1>6, <1>7 DEF full

\* The channels before the first entry
RootOnly == [p \in {<<"root">>} |-> [capacity |-> 1, options |-> {}]]

\* They are known channels.
LEMMA RootOnlyIs == RootOnly \in Known
<1>1. RootOnly \in [{<<"root">>} -> Limits]
  BY DEF RootOnly, Limits
<1>2. <<"root">> \in Seq(Names)
  BY DEF Names
<1>3. {<<"root">>} \in SUBSET Seq(Names)
  BY <1>2
<1> QED
  BY <1>1, <1>3 DEF Known, RootOnly

\* What one entry makes, by itself.
AfterEntry(entries, n, known) ==
  [Created(known, Place(known, entries[n].name, FALSE))
     EXCEPT ![Place(known, entries[n].name, FALSE)] = Parsed(entries[n])]

\* The channels exist after each entry.
LEMMA ConfiguredExists ==
  ASSUME NEW entries, AreEntries(entries)
  PROVE  \E g \in [0..Len(entries) -> Known] :
           /\ Configured(entries) = g[Len(entries)]
           /\ g[0] = RootOnly
           /\ \A n \in 1..Len(entries) : g[n] = AfterEntry(entries, n, g[n - 1])
<1> DEFINE k == Len(entries)
           F == [u \in (1..k) \X Known |-> AfterEntry(entries, u[1], u[2])]
<1>1. k \in Nat
  BY LenProperties DEF AreEntries
<1>2. \A n \in 1..k, known \in Known : AfterEntry(entries, n, known) \in Known
  BY EntryStep DEF AfterEntry
<1>3. F \in [(1..k) \X Known -> Known]
  BY <1>2
<1>4. \A n \in 1..k, known \in Known : F[<<n, known>>] = AfterEntry(entries, n, known)
  OBVIOUS
<1> HIDE DEF F
<1>5. PICK h \in [0..k -> Known] : IsRecursive(h, k, RootOnly, F)
  BY <1>1, <1>3, RootOnlyIs, RecursionExists
<1>6. ASSUME NEW n \in 0..k
      PROVE  h[n] = IF n = 0 THEN RootOnly ELSE AfterEntry(entries, n, h[n - 1])
  <2>1. n # 0 => n \in 1..k /\ h[n - 1] \in Known
    BY <1>1
  <2>2. h[n] = IF n = 0 THEN RootOnly ELSE F[<<n, h[n - 1]>>]
    BY <1>5 DEF IsRecursive
  <2> QED
    BY <1>4, <2>1, <2>2
<1>7. IsConfigured(h, entries)
  <2>1. h = [n \in 0..k |-> IF n = 0 THEN RootOnly ELSE AfterEntry(entries, n, h[n - 1])]
    BY <1>6
  <2> QED
    BY <2>1 DEF IsConfigured, RootOnly, AfterEntry
<1> DEFINE g == CHOOSE c : IsConfigured(c, entries)
<1>8. IsConfigured(g, entries)
  BY <1>7
<1> HIDE DEF g
<1>9. /\ g = [n \in 0..k |-> g[n]]
      /\ \A n \in 0..k : g[n] = IF n = 0 THEN RootOnly ELSE AfterEntry(entries, n, g[n - 1])
  BY <1>8 DEF IsConfigured, RootOnly, AfterEntry
<1>10. \A n \in 0..k : g[n] \in Known
  <2> DEFINE T == {n \in Nat : n \in 0..k => g[n] \in Known}
  <2>1. 0 \in T
    BY <1>1, <1>9, RootOnlyIs
  <2>2. ASSUME NEW n \in Nat, n \in T PROVE n + 1 \in T
    <3> SUFFICES ASSUME n + 1 \in 0..k PROVE g[n + 1] \in Known
      OBVIOUS
    <3>1. n + 1 \in 1..k /\ n \in 0..k /\ (n + 1) - 1 = n /\ n + 1 # 0
      BY <1>1
    <3>2. g[n] \in Known
      BY <2>2, <3>1
    <3>3. g[n + 1] = AfterEntry(entries, n + 1, g[n])
      BY <1>9, <3>1
    <3> QED
      BY <1>2, <3>1, <3>2, <3>3
  <2> HIDE DEF T
  <2>3. \A n \in Nat : n \in T
    BY <2>1, <2>2, NatInduct
  <2> QED
    BY <1>1, <2>3 DEF T
<1>11. Configured(entries) = g[k]
  BY ConfiguredIs DEF g
<1>12. g \in [0..k -> Known] /\ g[0] = RootOnly
  BY <1>1, <1>9, <1>10
<1>13. ASSUME NEW n \in 1..k PROVE g[n] = AfterEntry(entries, n, g[n - 1])
  <2>1. n \in 0..k /\ n # 0
    BY <1>1
  <2> QED
    BY <1>9, <2>1
<1> QED
  BY <1>11, <1>12, <1>13

\* The channels are those of the configuration, each with the options of its last entry.
LEMMA ConfiguredServes ==
  ASSUME NEW entries, AreEntries(entries)
  PROVE  Configured(entries) \in Known /\ Serves(Configured(entries), entries)
<1> DEFINE k == Len(entries)
           Full(m) == FullName(entries[m].name)
<1>1. k \in Nat /\ DOMAIN entries = 1..k
  BY LenProperties DEF AreEntries
<1>2. PICK g \in [0..k -> Known] :
        /\ Configured(entries) = g[k]
        /\ g[0] = RootOnly
        /\ \A n \in 1..k : g[n] = AfterEntry(entries, n, g[n - 1])
  BY ConfiguredExists
<1> DEFINE Latest(n, m) == \A l \in 1..n : Full(l) = Full(m) => l <= m
           Served(n) == \A m \in 1..n :
                          Latest(n, m) => Full(m) \in DOMAIN g[n] /\ g[n][Full(m)] = Parsed(entries[m])
           T == {n \in Nat : n \in 0..k => Served(n)}
<1>3. 0 \in T
  OBVIOUS
<1>4. ASSUME NEW n \in Nat, n \in T PROVE n + 1 \in T
  <2> SUFFICES ASSUME n + 1 \in 0..k, NEW m \in 1..(n + 1), Latest(n + 1, m)
               PROVE  Full(m) \in DOMAIN g[n + 1] /\ g[n + 1][Full(m)] = Parsed(entries[m])
    OBVIOUS
  <2>1. n \in 0..k /\ n + 1 \in 1..k /\ (n + 1) - 1 = n
    BY <1>1
  <2>2. Served(n)
    BY <1>4, <2>1
  <2>3. g[n] \in Known /\ g[n + 1] = AfterEntry(entries, n + 1, g[n])
    BY <1>2, <2>1
  <2>4. /\ Full(n + 1) \in DOMAIN g[n + 1] /\ g[n + 1][Full(n + 1)] = Parsed(entries[n + 1])
        /\ DOMAIN g[n] \subseteq DOMAIN g[n + 1]
        /\ \A p \in DOMAIN g[n] \ {Full(n + 1)} : g[n + 1][p] = g[n][p]
    BY <2>1, <2>3, EntryStep DEF AfterEntry
  <2> HIDE DEF Full
  <2>5. CASE m = n + 1
    BY <2>4, <2>5
  <2>6. CASE m # n + 1
    <3>1. m \in 1..n /\ ~(n + 1 <= m)
      BY <2>6
    <3>2. Full(n + 1) # Full(m)
      BY <3>1
    <3>3. Latest(n, m)
      BY <3>1
    <3>4. Full(m) \in DOMAIN g[n] /\ g[n][Full(m)] = Parsed(entries[m])
      BY <2>2, <3>1, <3>3
    <3> QED
      BY <2>4, <3>2, <3>4
  <2> QED
    BY <2>5, <2>6
<1>5. Served(k)
  <2> HIDE DEF T
  <2>1. k \in T
    BY <1>1, <1>3, <1>4, NatInduct
  <2> QED
    BY <1>1, <2>1 DEF T
<1>6. ASSUME NEW full, EntriesOf(entries, full) # {}
      PROVE  full \in DOMAIN g[k] /\ g[k][full] = OptionsIn(entries, full)
  <2> DEFINE U == EntriesOf(entries, full)
             last == CHOOSE n \in U : \A m \in U : m <= n
  <2>1. U \subseteq 1..k /\ U # {}
    BY <1>1, <1>6 DEF EntriesOf
  <2>2. last \in U /\ \A m \in U : m <= last
    <3> HIDE DEF U
    <3>1. U \in SUBSET Nat /\ \A n \in U : n <= k
      BY <1>1, <2>1
    <3>2. \E n \in U : \A m \in U : m <= n
      BY <1>1, <2>1, <3>1, NatGreatest
    <3> QED
      BY <3>2
  <2>3. OptionsIn(entries, full) = Parsed(entries[last])
    BY DEF OptionsIn
  <2> HIDE DEF last
  <2>4. last \in 1..k /\ Full(last) = full
    BY <2>1, <2>2 DEF EntriesOf
  <2>5. Latest(k, last)
    BY <1>1, <2>2, <2>4 DEF EntriesOf
  <2> QED
    BY <1>5, <2>3, <2>4, <2>5
<1>7. g[k] \in Known
  BY <1>1, <1>2
<1> QED
  BY <1>2, <1>6, <1>7 DEF Serves

\* Channels that are created for a job change nothing of this.
LEMMA CreatedServes ==
  ASSUME NEW known \in Known, NEW entries, Serves(known, entries), NEW place \in FullNames
  PROVE  Created(known, place) \in Known /\ Serves(Created(known, place), entries)
<1>1. /\ Created(known, place) \in Known
      /\ DOMAIN known \subseteq DOMAIN Created(known, place)
      /\ \A p \in DOMAIN known : Created(known, place)[p] = known[p]
  BY CreatedIs
<1> QED
  BY <1>1 DEF Serves

\* Nor do the jobs that the runner is told of, one after the other.
LEMMA NotifiedServes ==
  ASSUME NEW known \in Known, NEW entries, Serves(known, entries), NEW names \in Seq(FullNames)
  PROVE  Notified(known, names) \in Known /\ Serves(Notified(known, names), entries)
<1> DEFINE k == Len(names)
           S == {c \in Known : Serves(c, entries)}
           Step(n, c) == Created(c, Place(c, names[n], TRUE))
           F == [u \in (1..k) \X S |-> Step(u[1], u[2])]
<1>1. k \in Nat
  BY LenProperties
<1>2. ASSUME NEW n \in 1..k, NEW c \in S PROVE Step(n, c) \in S
  <2>1. names[n] \in FullNames
    BY ElementOfSeq
  <2>2. Place(c, names[n], TRUE) \in FullNames
    BY <2>1, PlaceIs
  <2> QED
    BY <2>2, CreatedServes
<1>3. known \in S
  OBVIOUS
<1> HIDE DEF S, Step
<1>4. F \in [(1..k) \X S -> S]
  BY <1>2
<1>5. \A n \in 1..k, c \in S : F[<<n, c>>] = Step(n, c)
  OBVIOUS
<1> HIDE DEF F
<1>6. PICK h \in [0..k -> S] : IsRecursive(h, k, known, F)
  BY <1>1, <1>3, <1>4, RecursionExists
<1>7. ASSUME NEW n \in 0..k
      PROVE  h[n] = IF n = 0 THEN known ELSE Step(n, h[n - 1])
  <2>1. n # 0 => n \in 1..k /\ h[n - 1] \in S
    BY <1>1
  <2>2. h[n] = IF n = 0 THEN known ELSE F[<<n, h[n - 1]>>]
    BY <1>6 DEF IsRecursive
  <2> QED
    BY <1>5, <2>1, <2>2
<1>8. IsNotified(h, known, names)
  <2>1. h = [n \in 0..k |-> IF n = 0 THEN known ELSE Step(n, h[n - 1])]
    BY <1>7
  <2> QED
    BY <2>1 DEF IsNotified, Step
<1> DEFINE g == CHOOSE c : IsNotified(c, known, names)
<1>9. IsNotified(g, known, names)
  BY <1>8
<1>10. Notified(known, names) = g[k]
  BY NotifiedIs
<1> HIDE DEF g
<1>11. \A n \in 0..k : g[n] = IF n = 0 THEN known ELSE Step(n, g[n - 1])
  BY <1>9 DEF IsNotified, Step
<1> DEFINE T == {n \in Nat : n \in 0..k => g[n] \in S}
<1>12. 0 \in T
  BY <1>1, <1>3, <1>11
<1>13. ASSUME NEW n \in Nat, n \in T PROVE n + 1 \in T
  <2> SUFFICES ASSUME n + 1 \in 0..k PROVE g[n + 1] \in S
    OBVIOUS
  <2>1. n + 1 \in 1..k /\ n \in 0..k /\ (n + 1) - 1 = n /\ n + 1 # 0
    BY <1>1
  <2>2. g[n] \in S
    BY <1>13, <2>1
  <2>3. g[n + 1] = Step(n + 1, g[n])
    BY <1>11, <2>1
  <2> QED
    BY <1>2, <2>1, <2>2, <2>3
<1> HIDE DEF T
<1>14. k \in T
  BY <1>1, <1>12, <1>13, NatInduct
<1>15. g[k] \in S
  BY <1>1, <1>14 DEF T
<1> QED
  BY <1>10, <1>15 DEF S

\* The runner has the channels of the configuration in use.
ManagerInv == config \in Configs /\ manager \in Known /\ Serves(manager, config)

\* The invariant holds when the server is started.
LEMMA ManagerInit == InitRouting => ManagerInv
  BY ConfiguredServes, RoutingAssumption DEF InitRouting, ManagerInv, AreEntries

\* When it is started again the open jobs come after the configuration.
LEMMA ManagerRestart ==
  ASSUME NamingInv, Restart
  PROVE  ManagerInv'
<1> DEFINE open == {j \in DOMAIN jobs : jobs[j].state \notin Finished}
<1>1. config' \in Configs
  BY DEF Restart
<1>2. PICK order \in SetToSeqs(open) :
        manager' = Notified(Configured(config'), [n \in DOMAIN order |-> jobs[order[n]].channel])
  BY DEF Restart
<1>3. IsFiniteSet(open)
  BY FS_Subset DEF NamingInv, NamesInv
<1>4. Cardinality(open) \in Nat /\ order \in [1..Cardinality(open) -> open]
  <2> HIDE DEF open
  <2> QED
    BY <1>3, FS_CardinalityType DEF SetToSeqs
<1> DEFINE names == [n \in DOMAIN order |-> jobs[order[n]].channel]
<1>5. names \in Seq(FullNames)
  <2>1. \A j \in open : jobs[j].channel \in FullNames
    BY DEF NamingInv, NamesInv
  <2> HIDE DEF open
  <2>2. names \in [1..Cardinality(open) -> FullNames]
    BY <1>4, <2>1
  <2> HIDE DEF names
  <2> QED
    BY <1>4, <2>2
<1> HIDE DEF names
<1>6. manager' = Notified(Configured(config'), names)
  BY <1>2 DEF names
<1>7. AreEntries(config')
  BY <1>1, RoutingAssumption DEF AreEntries
<1>8. Configured(config') \in Known /\ Serves(Configured(config'), config')
  BY <1>7, ConfiguredServes
<1> QED
  BY <1>1, <1>5, <1>6, <1>8, NotifiedServes DEF ManagerInv

\* The row of a job that is read adds at most channels without limits.
LEMMA ManagerRead ==
  ASSUME ManagerInv, NamingInv, NEW j \in Uuids, ReadRow(j)
  PROVE  ManagerInv'
<1>1. /\ manager' = Created(manager, Place(manager, jobs[j].channel, TRUE))
      /\ jobs[j].channel \in FullNames
  BY DEF ReadRow, NamingInv, NamesInv
<1>2. Place(manager, jobs[j].channel, TRUE) \in FullNames
  BY <1>1, PlaceIs DEF ManagerInv
<1>3. config' = config
  BY DEF ReadRow
<1> QED
  BY <1>1, <1>2, <1>3, CreatedServes DEF ManagerInv

\* Every step keeps the channels of the configuration.
LEMMA ManagerStep ==
  ASSUME ManagerInv, NamingInv, [NextRouting]_routingVars
  PROVE  ManagerInv'
<1>1. CASE UNCHANGED <<config, manager>>
  BY <1>1 DEF ManagerInv
<1> QED
  BY <1>1, ManagerRestart, ManagerRead
  DEF NextRouting, routingVars, SaveChannel, DeleteChannel, SaveFunction, DeleteFunction,
      Delay, HandOut, End, FailOrDie, RequeueJob, GcOldJobs, NextDay

-----------------------------------------------------------------------------

(* The theorems                                                            *)

\* The inductive invariant of JobRouting
RoutedInv == RoutingInv /\ NamingInv /\ ManagerInv

\* The invariant holds of every state.
LEMMA RoutedInvariance == SpecRouting => []RoutedInv
<1>1. InitRouting => RoutedInv
  BY RoutingInit, NamingInit, ManagerInit DEF RoutedInv
<1>2. RoutedInv /\ [NextRouting]_routingVars => RoutedInv'
  BY IntervalsStep, DatesStep, NamingStep, ManagerStep DEF RoutedInv, RoutingInv
<1> QED
  BY <1>1, <1>2, PTL DEF SpecRouting

\* RetriesWaitAsSaid: the interval that _get_retry_seconds chooses from is the one saved for
\* the greatest count that is reached, although the pattern is read from a cache.
THEOREM RetriesWaitAsPatternsSay == SpecRouting => []RetriesWaitAsSaid
<1>1. RoutedInv => RetriesWaitAsSaid
  <2> SUFFICES ASSUME RoutedInv, NEW f \in Functions, NEW tries \in 1..4, NEW seconds \in {0, 5}
               PROVE  LET saved == ConfigOf(f).pattern
                          reached == {n \in DOMAIN saved : n <= tries}
                          wait == RetrySeconds(JobConfig(f).pattern, tries, seconds)
                      IN  /\ wait[1] <= wait[2]
                          /\ seconds # 0 => wait = <<seconds, seconds>>
                          /\ seconds = 0 /\ reached = {} =>
                               wait = <<RETRY_INTERVAL, RETRY_INTERVAL>>
                          /\ seconds = 0 =>
                               \A n \in reached : (\A m \in reached : m <= n) => wait = saved[n]
    BY DEF RetriesWaitAsSaid
  <2> DEFINE saved == ConfigOf(f).pattern
  <2>1. JobConfig(f).pattern = saved /\ IsPattern(saved)
    BY ConfigOfIs, PatternsAre DEF RoutedInv
  <2> HIDE DEF saved
  <2>2. CASE seconds = 0
    BY <2>1, <2>2, RetrySecondsReach DEF saved
  <2>3. CASE seconds = 5
    BY <2>1, <2>3 DEF RetrySeconds, saved
  <2> QED
    BY <2>2, <2>3
<1> QED
  BY <1>1, RoutedInvariance, PTL

\* LimitsApply: jobs pass through the configured channels their function says, with the
\* options of the configuration (get_channel_by_name), if no channel of a cached function is
\* renamed and no configured name has a label twice.
THEOREM LimitsBindJobs ==
  ASSUME ~StaleRenames, \A entries \in Configs : LabelsDiffer(entries)
  PROVE  SpecRouting => []LimitsApply
<1>1. RoutedInv => LimitsApply
  <2> SUFFICES ASSUME RoutedInv, NEW j \in DOMAIN jobs,
                      NEW p \in Ancestors(Place(manager, jobs[j].channel, TRUE))
                                  \cup Ancestors(FullName(jobs[j].asked)),
                      Entries(p) # {}
               PROVE  /\ p \in Ancestors(Place(manager, jobs[j].channel, TRUE))
                                 \cap Ancestors(FullName(jobs[j].asked))
                      /\ manager[p] = OptionsOf(p)
    BY DEF LimitsApply
  <2>1. /\ jobs[j].channel \in FullNames /\ jobs[j].asked = jobs[j].channel
        /\ FullName(jobs[j].asked) = jobs[j].channel
    BY FullNameIs, FullNameType DEF RoutedInv, NamingInv, NamesInv, CacheInv
  <2>2. Entries(p) = EntriesOf(config, p)
    BY DEF Entries, EntriesOf
  <2>3. OptionsOf(p) = OptionsIn(config, p)
    BY <2>2 DEF OptionsOf, OptionsIn, Entries, EntriesOf
  <2>4. manager \in Known /\ Serves(manager, config) /\ LabelsDiffer(config)
    BY DEF RoutedInv, ManagerInv
  <2>5. manager[p] = OptionsOf(p)
    BY <2>2, <2>3, <2>4 DEF Serves
  <2> QED
    BY <2>1, <2>2, <2>4, <2>5, PassesWhatIsMeant
<1> QED
  BY <1>1, RoutedInvariance, PTL

\* OnlyOldJobsGo: whatever users rename, delete, end and ask for again, the autovacuum
\* deletes a job only if it was done or cancelled as many days ago as its channel says, and
\* not asked for since; only the runner may have opened it again.
THEOREM VacuumTakesOldJobs == SpecRouting => OnlyOldJobsGo
<1>1. RoutedInv /\ [NextRouting]_routingVars =>
        [\A j \in DOMAIN jobs \ DOMAIN jobs' :
           /\ jobs[j].since # None /\ today - jobs[j].since >= Interval(jobs[j].channel)
           /\ jobs[j].state \in Finished \/ jobs[j].reopened]_routingVars
  BY OldJobsGo DEF RoutedInv
<1> QED
  BY <1>1, RoutedInvariance, PTL DEF SpecRouting, OnlyOldJobsGo

-----------------------------------------------------------------------------
(* What callers compose *)

CompositeType == [kind : {"chain", "group"}, items : Seq(AllObjects)]

\* Composites are made of what there was before.
GraphTypes ==
  /\ made \in Seq(CompositeType) /\ Len(made) <= MaxComposites
  /\ \A c \in Composites :
       /\ Len(made[c].items) > 0
       /\ \A i \in 1..Len(made[c].items) : made[c].items[i] \in Delayables \cup 1..(c - 1)
  /\ onDone \in [AllObjects -> SUBSET Objects]
  /\ \A x \in AllObjects \ Objects : onDone[x] = {}

Children(x) == Members(x) \cup onDone[x]
Closed(S) == \A x \in S : Children(x) \subseteq S

\* Numbers are no Delayables, and there are finitely many objects.
LEMMA ObjectsAre ==
  ASSUME GraphTypes
  PROVE  /\ Len(made) \in Nat /\ Composites = 1..Len(made) /\ Composites \cap Delayables = {}
         /\ Objects \subseteq AllObjects /\ Composites \subseteq Nat
         /\ IsFiniteSet(Objects) /\ Cardinality(Objects) \in Nat
         /\ Nothing \notin Objects
<1>1. Len(made) \in Nat /\ Composites = 1..Len(made)
  BY LenProperties DEF GraphTypes, Composites
<1>2. Composites \cap Delayables = {} /\ Nothing \notin Objects
  BY <1>1, DelayGraphAssumption DEF Objects, Nothing
<1>3. Objects \subseteq AllObjects
  BY <1>1, DelayGraphAssumption DEF Objects, AllObjects, GraphTypes
<1>4. IsFiniteSet(Composites)
  <2> DEFINE n == Len(made)
  <2>1. 1 \in Int /\ n \in Int
    BY <1>1
  <2> HIDE DEF n
  <2>2. IsFiniteSet(1..n)
    BY <2>1, FS_Interval
  <2> QED
    BY <1>1, <2>2 DEF n
<1>5. IsFiniteSet(Objects)
  BY <1>4, DelayGraphAssumption, FS_Union DEF Objects
<1>6. Cardinality(Objects) \in Nat
  BY <1>5, FS_CardinalityType
<1> QED
  BY <1>1, <1>2, <1>3, <1>5, <1>6

\* The items of a composite
LEMMA ItemsAre ==
  ASSUME GraphTypes, NEW c \in Composites
  PROVE  /\ made[c] \in CompositeType
         /\ Len(made[c].items) \in Nat \ {0}
         /\ DOMAIN made[c].items = 1..Len(made[c].items)
         /\ Members(c) = {made[c].items[i] : i \in 1..Len(made[c].items)}
         /\ Members(c) \subseteq Delayables \cup 1..(c - 1)
         /\ Members(c) \subseteq Objects
<1>1. made[c] \in CompositeType
  BY ObjectsAre, ElementOfSeq DEF GraphTypes
<1>2. made[c].items \in Seq(AllObjects)
  BY <1>1 DEF CompositeType
<1>3. /\ Len(made[c].items) \in Nat \ {0}
      /\ DOMAIN made[c].items = 1..Len(made[c].items)
  BY <1>2, LenProperties DEF GraphTypes
<1>4. c \notin Delayables
  BY ObjectsAre
<1>5. Members(c) = {made[c].items[i] : i \in 1..Len(made[c].items)}
  BY <1>3, <1>4 DEF Members, Range
<1>6. Members(c) \subseteq Delayables \cup 1..(c - 1)
  BY <1>5 DEF GraphTypes
<1>7. 1..(c - 1) \subseteq 1..Len(made)
  BY ObjectsAre
<1> QED
  BY <1>1, <1>3, <1>5, <1>6, <1>7, ObjectsAre DEF Objects

\* What an object has is an object.
LEMMA ChildrenAre ==
  ASSUME GraphTypes
  PROVE  \A x \in Objects : Children(x) \subseteq Objects
<1> SUFFICES ASSUME NEW x \in Objects PROVE Members(x) \subseteq Objects /\ onDone[x] \subseteq Objects
  BY DEF Children
<1>1. onDone[x] \subseteq Objects
  BY ObjectsAre DEF GraphTypes
<1>2. Members(x) \subseteq Objects
  <2>1. CASE x \in Delayables
    BY <2>1 DEF Members
  <2>2. CASE x \in Composites
    BY <2>2, ItemsAre
  <2> QED
    BY <2>1, <2>2 DEF Objects
<1> QED
  BY <1>1, <1>2

-----------------------------------------------------------------------------
(* What is visited *)

Grown(V) == V \cup UNION {Members(x) \cup onDone[x] : x \in V}

IsVisit(g, o) ==
  g = [n \in 0..Cardinality(Objects) |->
         IF n = 0 THEN {o}
         ELSE g[n - 1] \cup UNION {Members(x) \cup onDone[x] : x \in g[n - 1]}]

LEMMA VisitedChoose == \A o : Visited(o) = (CHOOSE g : IsVisit(g, o))[Cardinality(Objects)]
BY DEF Visited, IsVisit

\* The visit goes on, step by step.
LEMMA VisitExists ==
  ASSUME GraphTypes, NEW o \in Objects
  PROVE  \E g : /\ Visited(o) = g[Cardinality(Objects)]
                /\ g[0] = {o}
                /\ \A n \in 1..Cardinality(Objects) : g[n] = Grown(g[n - 1])
<1> DEFINE k == Cardinality(Objects)
           F == [u \in (1..k) \X SUBSET Objects |-> Grown(u[2])]
<1>1. k \in Nat
  BY ObjectsAre
<1>2. \A V \in SUBSET Objects : Grown(V) \in SUBSET Objects
  BY ChildrenAre DEF Grown, Children
<1> HIDE DEF k
<1>3. F \in [(1..k) \X SUBSET Objects -> SUBSET Objects]
  BY <1>2
<1>4. \A n \in 1..k, V \in SUBSET Objects : F[<<n, V>>] = Grown(V)
  OBVIOUS
<1> HIDE DEF F
<1>5. {o} \in SUBSET Objects
  OBVIOUS
<1>6. PICK h \in [0..k -> SUBSET Objects] : IsRecursive(h, k, {o}, F)
  BY <1>1, <1>3, <1>5, RecursionExists
<1>7. ASSUME NEW n \in 0..k
      PROVE  h[n] = IF n = 0 THEN {o} ELSE Grown(h[n - 1])
  <2>1. n # 0 => n \in 1..k /\ h[n - 1] \in SUBSET Objects
    BY <1>1
  <2>2. h[n] = IF n = 0 THEN {o} ELSE F[<<n, h[n - 1]>>]
    BY <1>6 DEF IsRecursive
  <2> QED
    BY <2>1, <2>2, <1>4
<1>8. IsVisit(h, o)
  <2>1. h = [n \in 0..k |-> h[n]]
    OBVIOUS
  <2> QED
    BY <1>7, <2>1 DEF IsVisit, Grown, k
<1> DEFINE g == CHOOSE f : IsVisit(f, o)
<1>9. IsVisit(g, o)
  BY <1>8
<1>10. Visited(o) = g[k]
  BY VisitedChoose DEF k
<1> HIDE DEF g
<1>11. \A n \in 0..k : g[n] = IF n = 0 THEN {o} ELSE Grown(g[n - 1])
  BY <1>9 DEF IsVisit, k, Grown
<1>12. 0 \in 0..k /\ \A n \in 1..k : n \in 0..k /\ n # 0
  BY <1>1
<1> QED
  BY <1>10, <1>11, <1>12 DEF k

\* It stops because it can not go on: what was visited last is closed.
LEMMA VisitStops ==
  ASSUME GraphTypes, NEW o \in Objects, NEW g, g[0] = {o},
         \A n \in 1..Cardinality(Objects) : g[n] = Grown(g[n - 1])
  PROVE  /\ g[Cardinality(Objects)] \in SUBSET Objects
         /\ o \in g[Cardinality(Objects)]
         /\ Closed(g[Cardinality(Objects)])
<1> DEFINE k == Cardinality(Objects)
           T == {n \in Nat : n <= k =>
                    /\ g[n] \in SUBSET Objects /\ o \in g[n]
                    /\ Closed(g[n]) \/ Cardinality(g[n]) >= n + 1}
<1>1. k \in Nat /\ IsFiniteSet(Objects)
  BY ObjectsAre
<1> HIDE DEF k
<1>2. 0 \in T
  <2>1. Cardinality({o}) = 1
    BY FS_Singleton
  <2> QED
    BY <2>1
<1>3. ASSUME NEW n \in Nat, n \in T PROVE n + 1 \in T
  <2> SUFFICES ASSUME n + 1 <= k
               PROVE  /\ g[n + 1] \in SUBSET Objects /\ o \in g[n + 1]
                      /\ Closed(g[n + 1]) \/ Cardinality(g[n + 1]) >= n + 2
    OBVIOUS
  <2>1. /\ g[n] \in SUBSET Objects /\ o \in g[n]
        /\ Closed(g[n]) \/ Cardinality(g[n]) >= n + 1
    BY <1>1, <1>3
  <2>2. g[n + 1] = Grown(g[n])
    <3>1. n + 1 \in 1..k /\ (n + 1) - 1 = n
      BY <1>1
    <3> QED
      BY <3>1 DEF k
  <2>3. g[n] \subseteq g[n + 1] /\ g[n + 1] \in SUBSET Objects
    BY <2>1, <2>2, ChildrenAre DEF Grown, Children
  <2>4. CASE Closed(g[n])
    <3>1. g[n + 1] = g[n]
      BY <2>2, <2>4 DEF Grown, Closed, Children
    <3> QED
      BY <2>1, <2>4, <3>1
  <2>5. CASE ~Closed(g[n])
    <3>1. PICK x \in g[n] : ~(Children(x) \subseteq g[n])
      BY <2>5 DEF Closed
    <3>2. PICK y : y \in g[n + 1] /\ y \notin g[n]
      BY <2>2, <3>1 DEF Grown, Children
    <3>3. IsFiniteSet(g[n]) /\ IsFiniteSet(g[n + 1])
      BY <1>1, <2>1, <2>3, FS_Subset
    <3>4. Cardinality(g[n] \cup {y}) = Cardinality(g[n]) + 1
      BY <3>2, <3>3, FS_AddElement
    <3>5. Cardinality(g[n] \cup {y}) <= Cardinality(g[n + 1])
      BY <2>3, <3>2, <3>3, FS_Subset
    <3>6. Cardinality(g[n]) \in Nat /\ Cardinality(g[n + 1]) \in Nat
      BY <3>3, FS_CardinalityType
    <3> QED
      BY <2>1, <2>3, <2>5, <3>4, <3>5, <3>6
  <2> QED
    BY <2>4, <2>5
<1>4. \A n \in Nat : n \in T
  <2> HIDE DEF T
  <2> QED
    BY <1>2, <1>3, NatInduct
<1>5. /\ g[k] \in SUBSET Objects /\ o \in g[k]
      /\ Closed(g[k]) \/ Cardinality(g[k]) >= k + 1
  BY <1>1, <1>4
<1>6. Cardinality(g[k]) <= k
  BY <1>1, <1>5, FS_Subset DEF k
<1>7. Cardinality(g[k]) \in Nat
  BY <1>1, <1>5, FS_Subset, FS_CardinalityType
<1> QED
  BY <1>1, <1>5, <1>6, <1>7 DEF k

\* Nothing is visited but what is in every closed set with the first.
LEMMA VisitNeeds ==
  ASSUME GraphTypes, NEW o \in Objects, NEW g, g[0] = {o},
         \A n \in 1..Cardinality(Objects) : g[n] = Grown(g[n - 1]),
         NEW S, o \in S, Closed(S)
  PROVE  g[Cardinality(Objects)] \subseteq S
<1> DEFINE k == Cardinality(Objects)
           T == {n \in Nat : n <= k => g[n] \subseteq S}
<1>1. k \in Nat
  BY ObjectsAre
<1> HIDE DEF k
<1>2. 0 \in T
  OBVIOUS
<1>3. ASSUME NEW n \in Nat, n \in T PROVE n + 1 \in T
  <2> SUFFICES ASSUME n + 1 <= k PROVE g[n + 1] \subseteq S
    OBVIOUS
  <2>1. n + 1 \in 1..k /\ (n + 1) - 1 = n /\ g[n] \subseteq S
    BY <1>1, <1>3
  <2>2. g[n + 1] = Grown(g[n])
    BY <2>1 DEF k
  <2> QED
    BY <2>1, <2>2 DEF Grown, Closed, Children
<1>4. \A n \in Nat : n \in T
  <2> HIDE DEF T
  <2> QED
    BY <1>2, <1>3, NatInduct
<1> QED
  BY <1>1, <1>4 DEF k

\* What _connect_graphs visits is the least set that has the object, and with each object what
\* belongs to it.
VisitIs(o) ==
  /\ Visited(o) \subseteq Objects /\ o \in Visited(o) /\ Closed(Visited(o))
  /\ \A S : o \in S /\ Closed(S) => Visited(o) \subseteq S

LEMMA VisitedIs ==
  ASSUME GraphTypes
  PROVE  \A o \in Objects : VisitIs(o)
<1> SUFFICES ASSUME NEW o \in Objects PROVE VisitIs(o)
  OBVIOUS
<1>1. PICK g : /\ Visited(o) = g[Cardinality(Objects)]
               /\ g[0] = {o}
               /\ \A n \in 1..Cardinality(Objects) : g[n] = Grown(g[n - 1])
  BY VisitExists
<1>2. Visited(o) \subseteq Objects /\ o \in Visited(o) /\ Closed(Visited(o))
  BY <1>1, VisitStops
<1>3. ASSUME NEW S, o \in S, Closed(S) PROVE Visited(o) \subseteq S
  BY <1>1, <1>3, VisitNeeds
<1> QED
  BY <1>2, <1>3 DEF VisitIs

\* What belongs to a child belongs to its object.
LEMMA VisitedBelow ==
  ASSUME GraphTypes, NEW o \in Objects
  PROVE  /\ \A x \in Visited(o) : Visited(x) \subseteq Visited(o)
         /\ Visited(o) = {o} \cup UNION {Visited(c) : c \in Children(o)}
<1>1. VisitIs(o) /\ \A x \in Objects : VisitIs(x)
  BY VisitedIs
<1>2. ASSUME NEW x \in Visited(o) PROVE Visited(x) \subseteq Visited(o)
  BY <1>1 DEF VisitIs
<1>3. Children(o) \subseteq Visited(o)
  BY <1>1 DEF VisitIs, Closed
<1> DEFINE S == {o} \cup UNION {Visited(c) : c \in Children(o)}
<1>4. \A c \in Children(o) : c \in Visited(c) /\ Closed(Visited(c))
  BY <1>1, ChildrenAre DEF VisitIs
<1>5. Closed(S)
  <2> SUFFICES ASSUME NEW x \in S PROVE Children(x) \subseteq S
    BY DEF Closed
  <2>1. CASE x = o
    BY <1>4, <2>1
  <2>2. CASE x # o
    <3>1. PICK c \in Children(o) : x \in Visited(c)
      BY <2>2
    <3>2. Children(x) \subseteq Visited(c)
      BY <1>4, <3>1 DEF Closed
    <3> QED
      BY <3>2
  <2> QED
    BY <2>1, <2>2
<1>6. Visited(o) \subseteq S
  <2>1. o \in S
    OBVIOUS
  <2> HIDE DEF S
  <2> QED
    BY <1>1, <1>5, <2>1 DEF VisitIs
<1>7. S \subseteq Visited(o)
  BY <1>1, <1>2, <1>3 DEF VisitIs
<1> QED
  BY <1>2, <1>6, <1>7

-----------------------------------------------------------------------------
(* Recursion along the creation of objects *)

Below(c) == Delayables \cup 1..(c - 1)

\* The function is that of the definition for Delayables and the first composites.
Constructed(f, n, first, F) ==
  \A o \in Delayables \cup 1..n : f[o] = IF o \in Delayables THEN first[o] ELSE F[<<o, f>>]

\* What a composite gets depends on what was created before it only.
IsConstruction(V, first, F) ==
  /\ first \in [Delayables -> V] /\ F \in [Composites \X [Objects -> V] -> V]
  /\ \A c \in Composites : \A f, g \in [Objects -> V] :
       (\A o \in Below(c) : f[o] = g[o]) => F[<<c, f>>] = F[<<c, g>>]

HasConstruction(V, first, F) ==
  \E f \in [Objects -> V] :
    \A o \in Objects : f[o] = IF o \in Delayables THEN first[o] ELSE F[<<o, f>>]

\* What is defined for Delayables, and for a composite from what is defined for objects
\* created before, exists.
LEMMA ConstructionExists ==
  ASSUME GraphTypes, NEW V, NEW v \in V, NEW first, NEW F, IsConstruction(V, first, F)
  PROVE  HasConstruction(V, first, F)
<1>0. /\ first \in [Delayables -> V] /\ F \in [Composites \X [Objects -> V] -> V]
      /\ \A c \in Composites : \A f, g \in [Objects -> V] :
           (\A o \in Below(c) : f[o] = g[o]) => F[<<c, f>>] = F[<<c, g>>]
  BY DEF IsConstruction
<1> DEFINE k == Len(made)
           Fs == [Objects -> V]
           x == [o \in Objects |-> IF o \in Delayables THEN first[o] ELSE v]
           G == [u \in (1..k) \X Fs |-> [u[2] EXCEPT ![u[1]] = F[u]]]
<1>1. /\ k \in Nat /\ Composites = 1..k /\ Objects = Delayables \cup Composites
      /\ Composites \cap Delayables = {}
  BY ObjectsAre DEF Objects
<1>2. x \in Fs
  BY <1>0
<1> HIDE DEF k, x
<1>3. \A n \in 1..k, f \in Fs : F[<<n, f>>] \in V
  BY <1>0, <1>1
<1>4. \A n \in 1..k, f \in Fs : G[<<n, f>>] = [f EXCEPT ![n] = F[<<n, f>>]]
  OBVIOUS
<1>5. G \in [(1..k) \X Fs -> Fs]
  <2>1. \A n \in 1..k, f \in Fs : [f EXCEPT ![n] = F[<<n, f>>]] \in Fs
    BY <1>3
  <2> HIDE DEF Fs
  <2> QED
    BY <2>1
<1> HIDE DEF G
<1>6. PICK g \in [0..k -> Fs] : IsRecursive(g, k, x, G)
  <2> HIDE DEF Fs
  <2> QED
    BY <1>1, <1>2, <1>5, RecursionExists
<1>7. g[0] = x /\ \A n \in 1..k : g[n - 1] \in Fs /\ g[n] = [g[n - 1] EXCEPT ![n] = F[<<n, g[n - 1]>>]]
  <2>1. g[0] = x
    BY <1>1, <1>6 DEF IsRecursive
  <2>2. ASSUME NEW n \in 1..k PROVE g[n - 1] \in Fs /\ g[n] = G[<<n, g[n - 1]>>]
    <3>1. n - 1 \in 0..k /\ n \in 0..k /\ n # 0
      BY <1>1
    <3> QED
      BY <1>6, <3>1 DEF IsRecursive
  <2> HIDE DEF Fs
  <2> QED
    BY <2>1, <2>2, <1>4
<1> DEFINE T == {n \in Nat : n <= k => Constructed(g[n], n, first, F)}
<1>8. 0 \in T
  <2>1. Delayables \cup 1..0 = Delayables
    OBVIOUS
  <2> QED
    BY <1>1, <1>7, <2>1 DEF x, Constructed
<1>9. ASSUME NEW n \in Nat, n \in T PROVE n + 1 \in T
  <2> SUFFICES ASSUME n + 1 <= k PROVE Constructed(g[n + 1], n + 1, first, F)
    OBVIOUS
  <2>1. n + 1 \in 1..k /\ (n + 1) - 1 = n /\ Constructed(g[n], n, first, F)
    BY <1>1, <1>9
  <2>2. g[n] \in Fs /\ g[n + 1] = [g[n] EXCEPT ![n + 1] = F[<<n + 1, g[n]>>]]
    BY <1>7, <2>1
  <2>3. g[n + 1] \in Fs
    BY <1>3, <2>1, <2>2
  <2>4. \A o \in Objects : o # n + 1 => g[n + 1][o] = g[n][o]
    BY <2>2
  <2>5. g[n + 1][n + 1] = F[<<n + 1, g[n]>>]
    BY <1>1, <2>1, <2>2
  <2>6. ASSUME NEW c \in 1..(n + 1)
        PROVE  F[<<c, g[n + 1]>>] = F[<<c, g[n]>>]
    <3>1. c \in Composites /\ \A o \in Below(c) : o \in Objects /\ o # n + 1
      BY <1>1, <2>1, <2>6, DelayGraphAssumption DEF Below
    <3>2. \A o \in Below(c) : g[n + 1][o] = g[n][o]
      BY <2>4, <3>1
    <3>3. g[n] \in [Objects -> V] /\ g[n + 1] \in [Objects -> V]
      BY <2>2, <2>3
    <3> QED
      BY <1>0, <3>1, <3>2, <3>3
  <2>7. ASSUME NEW o \in Delayables \cup 1..(n + 1)
        PROVE  g[n + 1][o] = IF o \in Delayables THEN first[o] ELSE F[<<o, g[n + 1]>>]
    <3>1. CASE o = n + 1
      <4>1. o \notin Delayables
        BY <1>1, <2>1, <3>1
      <4> QED
        BY <2>5, <2>6, <3>1, <4>1
    <3>2. CASE o # n + 1
      <4>1. o \in Delayables \cup 1..n /\ o \in Objects
        BY <1>1, <2>1, <3>2
      <4>2. o \notin Delayables => o \in 1..(n + 1)
        OBVIOUS
      <4> QED
        BY <2>1, <2>4, <2>6, <3>2, <4>1, <4>2 DEF Constructed
    <3> QED
      BY <3>1, <3>2
  <2> QED
    BY <2>7 DEF Constructed
<1>10. \A n \in Nat : n \in T
  <2> HIDE DEF T
  <2> QED
    BY <1>8, <1>9, NatInduct
<1>11. Constructed(g[k], k, first, F)
  BY <1>1, <1>10
<1>12. g[k] \in Fs
  <2>1. k \in 0..k
    BY <1>1
  <2> HIDE DEF Fs
  <2> QED
    BY <1>6, <2>1
<1>13. ASSUME NEW o \in Objects
       PROVE  g[k][o] = IF o \in Delayables THEN first[o] ELSE F[<<o, g[k]>>]
  BY <1>1, <1>11 DEF Constructed
<1> DEFINE h == g[k]
<1>14. h \in [Objects -> V]
  BY <1>12
<1>15. \A o \in Objects : h[o] = IF o \in Delayables THEN first[o] ELSE F[<<o, h>>]
  BY <1>13
<1> HIDE DEF h
<1> QED
  BY <1>14, <1>15 DEF HasConstruction

\* The jobs an object consists of
IsLeaves(f) ==
  f = [o \in Objects |-> IF o \in Delayables THEN {o} ELSE UNION {f[i] : i \in Members(o)}]

LEMMA LeavesChoose == Leaves = CHOOSE f : IsLeaves(f)
BY DEF Leaves, IsLeaves

LEMMA LeavesAre ==
  ASSUME GraphTypes
  PROVE  /\ Leaves \in [Objects -> SUBSET Delayables]
         /\ \A o \in Delayables : Leaves[o] = {o}
         /\ \A c \in Composites : Leaves[c] = UNION {Leaves[i] : i \in Members(c)}
<1> DEFINE V == SUBSET Delayables
           first == [o \in Delayables |-> {o}]
           F == [u \in Composites \X [Objects -> V] |-> UNION {u[2][i] : i \in Members(u[1])}]
<1>1. \A c \in Composites : Members(c) \subseteq Below(c) /\ Members(c) \subseteq Objects
  BY ItemsAre DEF Below
<1>2. \A c \in Composites, f \in [Objects -> V] : UNION {f[i] : i \in Members(c)} \in V
  BY <1>1
<1>3. first \in [Delayables -> V] /\ {} \in V
  OBVIOUS
<1>4. /\ F \in [Composites \X [Objects -> V] -> V]
      /\ \A c \in Composites, f \in [Objects -> V] : F[<<c, f>>] = UNION {f[i] : i \in Members(c)}
  <2> HIDE DEF V
  <2> QED
    BY <1>2
<1> HIDE DEF F, V
<1>5. ASSUME NEW c \in Composites, NEW f \in [Objects -> V], NEW g \in [Objects -> V],
             \A o \in Below(c) : f[o] = g[o]
      PROVE  F[<<c, f>>] = F[<<c, g>>]
  <2>1. {f[i] : i \in Members(c)} = {g[i] : i \in Members(c)}
    BY <1>1, <1>5
  <2> QED
    BY <1>4, <2>1
<1> HIDE DEF first
<1>6. PICK f \in [Objects -> V] :
        \A o \in Objects : f[o] = IF o \in Delayables THEN first[o] ELSE F[<<o, f>>]
  <2>1. PICK v : v \in V
    BY <1>3
  <2>2. IsConstruction(V, first, F)
    BY <1>3, <1>4, <1>5 DEF IsConstruction
  <2>3. HasConstruction(V, first, F)
    BY <2>1, <2>2, ConstructionExists
  <2> QED
    BY <2>3 DEF HasConstruction
<1>7. ASSUME NEW o \in Objects
      PROVE  f[o] = IF o \in Delayables THEN {o} ELSE UNION {f[i] : i \in Members(o)}
  BY <1>4, <1>6 DEF Objects, first
<1>8. IsLeaves(f)
  <2>1. f = [o \in Objects |-> f[o]]
    OBVIOUS
  <2> QED
    BY <1>7, <2>1 DEF IsLeaves
<1>9. IsLeaves(Leaves)
  BY <1>8, LeavesChoose
<1>10. Composites \cap Delayables = {} /\ Objects = Delayables \cup Composites
  BY ObjectsAre DEF Objects
<1>11. /\ \A o \in Delayables : Leaves[o] = {o}
       /\ \A c \in Composites : Leaves[c] = UNION {Leaves[i] : i \in Members(c)}
  BY <1>9, <1>10 DEF IsLeaves
<1> DEFINE T == {n \in Nat : \A o \in Objects : o \in Delayables \cup 1..n => Leaves[o] \subseteq Delayables}
<1>12. 0 \in T
  <2>1. Delayables \cup 1..0 = Delayables
    OBVIOUS
  <2> QED
    BY <1>11, <2>1
<1>13. ASSUME NEW n \in Nat, n \in T PROVE n + 1 \in T
  <2> SUFFICES ASSUME NEW o \in Objects, o \in Delayables \cup 1..(n + 1)
               PROVE  Leaves[o] \subseteq Delayables
    OBVIOUS
  <2>1. CASE o \in Delayables
    BY <1>11, <2>1
  <2>2. CASE o \in Composites
    <3>1. \A i \in Members(o) : i \in Objects /\ i \in Delayables \cup 1..n
      BY <1>1, <2>2, ObjectsAre DEF Below
    <3>2. \A i \in Members(o) : Leaves[i] \subseteq Delayables
      BY <1>13, <3>1
    <3> QED
      BY <1>11, <2>2, <3>2
  <2> QED
    BY <1>10, <2>1, <2>2
<1>14. \A n \in Nat : n \in T
  <2> HIDE DEF T
  <2> QED
    BY <1>12, <1>13, NatInduct
<1>15. ASSUME NEW o \in Objects PROVE Leaves[o] \subseteq Delayables
  <2>1. Len(made) \in T
    BY <1>14, ObjectsAre
  <2> QED
    BY <2>1, ObjectsAre DEF Objects
<1>16. Leaves \in [Objects -> SUBSET Delayables]
  BY <1>9, <1>15 DEF IsLeaves
<1> QED
  BY <1>11, <1>16

\* The heads and tails of an object, from those of what was created before
EndsFrom(o, f) ==
  IF o \in Delayables THEN [head |-> {o}, tail |-> {o}]
  ELSE IF made[o].kind = "group"
  THEN [head |-> UNION {f[i].head : i \in Members(o)},
        tail |-> UNION {f[i].tail : i \in Members(o)}]
  ELSE [head |-> f[made[o].items[1]].tail,
        tail |-> f[made[o].items[Len(made[o].items)]].head]
IsEnds(f) == f = [o \in Objects |-> EndsFrom(o, f)]

LEMMA EndsChoose == Ends = CHOOSE f : IsEnds(f)
BY DEF Ends, IsEnds, EndsFrom

\* _head and _tail are what they are defined to be.
LEMMA EndsAre ==
  ASSUME GraphTypes
  PROVE  \A o \in Objects : Ends[o] = EndsFrom(o, Ends)
<1> DEFINE V == [head : SUBSET Delayables, tail : SUBSET Delayables]
           first == [o \in Delayables |-> [head |-> {o}, tail |-> {o}]]
           F == [u \in Composites \X [Objects -> V] |-> EndsFrom(u[1], u[2])]
<1>0. Composites \cap Delayables = {} /\ Objects = Delayables \cup Composites
  BY ObjectsAre DEF Objects
<1>1. ASSUME NEW c \in Composites
      PROVE  /\ Members(c) \subseteq Below(c) /\ Members(c) \subseteq Objects
             /\ made[c].items[1] \in Members(c)
             /\ made[c].items[Len(made[c].items)] \in Members(c)
  <2>1. 1 \in 1..Len(made[c].items) /\ Len(made[c].items) \in 1..Len(made[c].items)
    BY ItemsAre
  <2> QED
    BY <2>1, ItemsAre DEF Below
<1>2. ASSUME NEW c \in Composites, NEW f \in [Objects -> V] PROVE EndsFrom(c, f) \in V
  <2>1. \A i \in Members(c) : f[i] \in V
    BY <1>1
  <2>2. \A i \in Members(c) : f[i].head \in SUBSET Delayables /\ f[i].tail \in SUBSET Delayables
    BY <2>1
  <2>3. c \notin Delayables
    BY <1>0
  <2> QED
    BY <1>1, <2>2, <2>3 DEF EndsFrom
<1>3. first \in [Delayables -> V] /\ [head |-> {}, tail |-> {}] \in V
  OBVIOUS
<1>4. /\ F \in [Composites \X [Objects -> V] -> V]
      /\ \A c \in Composites, f \in [Objects -> V] : F[<<c, f>>] = EndsFrom(c, f)
  <2> HIDE DEF V
  <2> QED
    BY <1>2
<1> HIDE DEF F, V
<1>5. ASSUME NEW c \in Composites, NEW f \in [Objects -> V], NEW g \in [Objects -> V],
             \A o \in Below(c) : f[o] = g[o]
      PROVE  F[<<c, f>>] = F[<<c, g>>]
  <2>1. /\ {f[i].head : i \in Members(c)} = {g[i].head : i \in Members(c)}
        /\ {f[i].tail : i \in Members(c)} = {g[i].tail : i \in Members(c)}
    BY <1>1, <1>5
  <2>2. /\ f[made[c].items[1]] = g[made[c].items[1]]
        /\ f[made[c].items[Len(made[c].items)]] = g[made[c].items[Len(made[c].items)]]
    BY <1>1, <1>5
  <2>3. EndsFrom(c, f) = EndsFrom(c, g)
    BY <2>1, <2>2 DEF EndsFrom
  <2> QED
    BY <1>4, <2>3
<1> HIDE DEF first
<1>6. PICK f \in [Objects -> V] :
        \A o \in Objects : f[o] = IF o \in Delayables THEN first[o] ELSE F[<<o, f>>]
  <2>1. PICK v : v \in V
    BY <1>3
  <2>2. IsConstruction(V, first, F)
    BY <1>3, <1>4, <1>5 DEF IsConstruction
  <2>3. HasConstruction(V, first, F)
    BY <2>1, <2>2, ConstructionExists
  <2> QED
    BY <2>3 DEF HasConstruction
<1>7. ASSUME NEW o \in Objects PROVE f[o] = EndsFrom(o, f)
  <2>1. CASE o \in Delayables
    BY <1>6, <2>1 DEF EndsFrom, first
  <2>2. CASE o \in Composites
    BY <1>0, <1>4, <1>6, <2>2
  <2> QED
    BY <1>0, <2>1, <2>2
<1>8. IsEnds(f)
  <2>1. f = [o \in Objects |-> f[o]]
    OBVIOUS
  <2> QED
    BY <1>7, <2>1 DEF IsEnds
<1>9. IsEnds(Ends)
  BY <1>8, EndsChoose
<1> QED
  BY <1>9 DEF IsEnds

-----------------------------------------------------------------------------
(* Nothing is put in two places *)

\* No object belongs to two others.
OneParent ==
  \A x, y \in Objects : Children(x) \cap Children(y) # {} => x = y

\* Every set of objects has one that has nothing of the set below it.
Founded ==
  \A W \in SUBSET Objects : W # {} => \E w \in W : Children(w) \cap W = {}

\* What a composite is made of does not also come after it, and it is made of each item once.
PlacedOnce ==
  \A c \in Composites :
    /\ Members(c) \cap onDone[c] = {}
    /\ \A i, k \in 1..Len(made[c].items) : made[c].items[i] = made[c].items[k] => i = k

GraphInv == GraphTypes /\ OneParent /\ Founded /\ PlacedOnce

\* What is visited was reached from what is visited.
LEMMA VisitedFrom ==
  ASSUME GraphTypes, NEW o \in Objects, NEW z \in Visited(o), z # o
  PROVE  \E p \in Visited(o) : z \in Children(p)
<1> DEFINE S == {o} \cup {y \in Visited(o) : \E p \in Visited(o) : y \in Children(p)}
<1>1. VisitIs(o)
  BY VisitedIs
<1>2. Closed(S)
  BY <1>1 DEF Closed, VisitIs
<1>3. z \in S
  <2>1. o \in S
    OBVIOUS
  <2> HIDE DEF S
  <2> QED
    BY <1>1, <1>2, <2>1 DEF VisitIs
<1> QED
  BY <1>3

\* No object is below itself.
LEMMA NotBelowItself ==
  ASSUME GraphInv, NEW o \in Objects, NEW c \in Children(o)
  PROVE  o \notin Visited(c)
<1> SUFFICES ASSUME o \in Visited(c) PROVE FALSE
  OBVIOUS
<1>1. GraphTypes /\ Founded /\ c \in Objects
  BY ChildrenAre DEF GraphInv
<1> DEFINE W == {x \in Visited(c) : o \in Visited(x)}
<1>2. VisitIs(c) /\ VisitIs(o)
  BY <1>1, VisitedIs
<1>3. W \in SUBSET Objects /\ c \in W /\ o \in W
  BY <1>2 DEF VisitIs
<1>4. ASSUME NEW w \in W PROVE Children(w) \cap W # {}
  <2>1. Children(w) \subseteq Visited(c)
    BY <1>2 DEF VisitIs, Closed
  <2>2. CASE w = o
    BY <1>3, <2>2
  <2>3. CASE w # o
    <3>1. o \in UNION {Visited(d) : d \in Children(w)}
      BY <1>1, <1>3, <2>3, VisitedBelow
    <3> QED
      BY <2>1, <3>1
  <2> QED
    BY <2>2, <2>3
<1> HIDE DEF W
<1> QED
  BY <1>1, <1>3, <1>4 DEF Founded

\* What is below one and not the other, of two objects that are not below each other, is all of it.
LEMMA ApartOrBelow ==
  ASSUME GraphInv, NEW a \in Objects, NEW b \in Objects, b \notin Visited(a), a \notin Visited(b)
  PROVE  Visited(a) \cap Visited(b) = {}
<1> DEFINE S == Visited(a) \ Visited(b)
<1>1. GraphTypes /\ OneParent /\ VisitIs(a) /\ VisitIs(b)
  BY VisitedIs DEF GraphInv
<1>2. ASSUME NEW x \in S, NEW z \in Children(x) PROVE z \in S
  <2>1. z \in Visited(a) /\ x \in Objects
    BY <1>1 DEF VisitIs, Closed
  <2>2. ASSUME z \in Visited(b) PROVE FALSE
    <3>1. z # b
      BY <2>1
    <3>2. PICK p \in Visited(b) : z \in Children(p)
      BY <1>1, <2>2, <3>1, VisitedFrom
    <3>3. p = x
      BY <1>1, <2>1, <3>2 DEF OneParent, VisitIs
    <3> QED
      BY <3>2, <3>3
  <2> QED
    BY <2>1, <2>2
<1>3. Closed(S) /\ a \in S
  BY <1>1, <1>2 DEF Closed, VisitIs
<1> HIDE DEF S
<1>4. Visited(a) \subseteq S
  BY <1>1, <1>3 DEF VisitIs
<1> QED
  BY <1>4 DEF S

\* What belongs to two children of an object is apart, and apart from the object.
LEMMA ChildrenApart ==
  ASSUME GraphInv, NEW o \in Objects, NEW c \in Children(o), NEW d \in Children(o), c # d
  PROVE  Visited(c) \cap Visited(d) = {}
<1>1. GraphTypes /\ OneParent /\ c \in Objects /\ d \in Objects
  BY ChildrenAre DEF GraphInv
<1>2. ASSUME NEW x \in Children(o), NEW y \in Children(o), x # y PROVE x \notin Visited(y)
  <2> SUFFICES ASSUME x \in Visited(y) PROVE FALSE
    OBVIOUS
  <2>1. y \in Objects
    BY <1>1, ChildrenAre
  <2>2. PICK p \in Visited(y) : x \in Children(p)
    BY <1>1, <1>2, <2>1, VisitedFrom
  <2>3. p \in Objects
    BY <1>1, <2>1, VisitedIs DEF VisitIs
  <2>4. p = o
    BY <1>1, <2>2, <2>3 DEF OneParent
  <2> QED
    BY <2>2, <2>4, NotBelowItself
<1> QED
  BY <1>1, <1>2, ApartOrBelow

-----------------------------------------------------------------------------
(* Composing keeps it so *)

\* What there was is as it was, and there is one object more, c, of the items.
Composed(kind, n, items, c) ==
  /\ Len(made') = c
  /\ Composites' = Composites \cup {c} /\ c \notin Objects
  /\ Objects' = Objects \cup {c}
  /\ \A k \in Composites : made'[k] = made[k]
  /\ made'[c] = [kind |-> kind, items |-> items]
  /\ \A x \in Objects : Members(x)' = Members(x) /\ Children(x)' = Children(x)
  /\ Members(c)' = {items[i] : i \in 1..n}
  /\ Children(c)' = {items[i] : i \in 1..n}
  /\ Len(items) = n /\ items \in Seq(Objects)
  /\ \A x, y \in Objects : y \in Children(x) => \A i \in 1..n : items[i] # y
  /\ \A i, k \in 1..n : items[i] = items[k] => i = k

LEMMA ComposeIs ==
  ASSUME GraphTypes, NEW kind \in {"chain", "group"}, NEW n \in 2..3,
         NEW items \in [1..n -> Objects], Compose(kind, items),
         NEW c, c = Len(made) + 1
  PROVE  Composed(kind, n, items, c)
<1>1. /\ Len(made) \in Nat /\ Composites = 1..Len(made) /\ Objects = Delayables \cup Composites
      /\ c \in 1..MaxComposites /\ c \notin Objects /\ c \notin Delayables
  BY ObjectsAre, DelayGraphAssumption DEF Compose, Objects
<1>2. made \in Seq(CompositeType) /\ made' = Append(made, [kind |-> kind, items |-> items])
  BY DEF Compose, GraphTypes
<1>3. items \in Seq(Objects) /\ Len(items) = n /\ DOMAIN items = 1..n
  OBVIOUS
<1>4. [kind |-> kind, items |-> items] \in CompositeType
  <2>1. items \in Seq(AllObjects)
    BY <1>3, ObjectsAre
  <2> QED
    BY <2>1 DEF CompositeType
<1>5. /\ Len(made') = Len(made) + 1
      /\ \A k \in Composites : made'[k] = made[k]
      /\ made'[c] = [kind |-> kind, items |-> items]
  BY <1>1, <1>2, <1>4, AppendProperties
<1>6. Composites' = Composites \cup {c} /\ Objects' = Objects \cup {c}
  <2>1. 1..c = 1..Len(made) \cup {c}
    BY <1>1
  <2> QED
    BY <1>1, <1>5, <2>1 DEF Composites, Objects
<1>7. onDone' = onDone /\ onDone[c] = {}
  BY <1>1 DEF Compose, GraphTypes, AllObjects
<1>8. ASSUME NEW x \in Objects PROVE Members(x)' = Members(x) /\ Children(x)' = Children(x)
  <2>1. Members(x)' = Members(x)
    BY <1>1, <1>5 DEF Members
  <2> QED
    BY <2>1, <1>7 DEF Children
<1>9. Members(c)' = {items[i] : i \in 1..n}
  <2>1. Members(c)' = Range(items)
    BY <1>1, <1>5 DEF Members
  <2> QED
    BY <2>1, <1>3 DEF Range
<1>10. Children(c)' = {items[i] : i \in 1..n}
  BY <1>7, <1>9 DEF Children
<1>11. \A x, y \in Objects : y \in Children(x) => \A i \in 1..n : items[i] # y
  BY <1>3 DEF Compose, Unused, Children
<1>12. \A i, k \in 1..n : items[i] = items[k] => i = k
  BY <1>3 DEF Compose, IsInjective
<1> QED
  BY <1>1, <1>3, <1>5, <1>6, <1>8, <1>9, <1>10, <1>11, <1>12 DEF Composed

LEMMA ComposeKeeps ==
  ASSUME GraphInv, NEW kind \in {"chain", "group"}, NEW n \in 2..3,
         NEW items \in [1..n -> Objects], Compose(kind, items)
  PROVE  GraphInv'
<1>0. GraphTypes /\ OneParent /\ Founded /\ PlacedOnce
  BY DEF GraphInv
<1>a. PICK c : c = Len(made) + 1
  OBVIOUS
<1>b. Composed(kind, n, items, c)
  BY <1>0, <1>a, ComposeIs
<1>1. /\ Len(made') = c
      /\ Composites' = Composites \cup {c} /\ c \notin Objects
      /\ Objects' = Objects \cup {c}
      /\ \A k \in Composites : made'[k] = made[k]
      /\ made'[c] = [kind |-> kind, items |-> items]
      /\ \A x \in Objects : Members(x)' = Members(x) /\ Children(x)' = Children(x)
      /\ Members(c)' = {items[i] : i \in 1..n}
      /\ Children(c)' = {items[i] : i \in 1..n}
      /\ Len(items) = n /\ items \in Seq(Objects)
      /\ \A x, y \in Objects : y \in Children(x) => \A i \in 1..n : items[i] # y
      /\ \A i, k \in 1..n : items[i] = items[k] => i = k
  BY <1>b DEF Composed
<1>2. /\ Len(made) \in Nat /\ Composites = 1..Len(made) /\ Objects = Delayables \cup Composites
      /\ Objects \subseteq AllObjects /\ c \in 1..MaxComposites /\ onDone' = onDone
  BY <1>0, <1>a, ObjectsAre, DelayGraphAssumption DEF Compose, Objects
<1>3. \A i \in 1..n : items[i] \in Objects
  OBVIOUS
<1>4. \A x \in Objects : Children(x) \subseteq Objects
  BY <1>0, ChildrenAre
<1>5. GraphTypes'
  <2>1. made' \in Seq(CompositeType)
    <3>1. made \in Seq(CompositeType) /\ made' = Append(made, [kind |-> kind, items |-> items])
      BY <1>0 DEF Compose, GraphTypes
    <3>2. items \in Seq(AllObjects)
      BY <1>1, <1>2
    <3>3. [kind |-> kind, items |-> items] \in CompositeType
      BY <3>2 DEF CompositeType
    <3> QED
      BY <3>1, <3>3, AppendProperties
  <2>2. ASSUME NEW k \in Composites'
        PROVE  /\ Len(made'[k].items) > 0
               /\ \A i \in 1..Len(made'[k].items) : made'[k].items[i] \in Delayables \cup 1..(k - 1)
    <3>1. CASE k \in Composites
      BY <1>0, <1>1, <3>1 DEF GraphTypes
    <3>2. CASE k = c
      <4>1. made'[k].items = items /\ k - 1 = Len(made)
        BY <1>a, <1>1, <1>2, <3>2
      <4> QED
        BY <1>1, <1>2, <1>3, <4>1
    <3> QED
      BY <1>1, <3>1, <3>2
  <2>3. /\ onDone' \in [AllObjects -> SUBSET Objects']
        /\ \A x \in AllObjects \ Objects' : onDone'[x] = {}
    BY <1>0, <1>1, <1>2 DEF GraphTypes
  <2> QED
    BY <1>1, <1>2, <2>1, <2>2, <2>3 DEF GraphTypes
<1>6. OneParent'
  <2> SUFFICES ASSUME NEW x \in Objects', NEW y \in Objects', NEW z,
                      z \in Children(x)', z \in Children(y)'
               PROVE  x = y
    BY DEF OneParent
  <2>1. CASE x = c
    BY <1>1, <1>4, <2>1
  <2>2. CASE y = c
    BY <1>1, <1>4, <2>2
  <2>3. CASE x # c /\ y # c
    BY <1>0, <1>1, <2>3 DEF OneParent
  <2> QED
    BY <2>1, <2>2, <2>3
<1>7. Founded'
  <2> SUFFICES ASSUME NEW W \in SUBSET Objects', W # {}
               PROVE  \E w \in W : Children(w)' \cap W = {}
    BY DEF Founded
  <2>1. CASE W \subseteq {c}
    BY <1>1, <1>3, <2>1
  <2>2. CASE ~(W \subseteq {c})
    <3>1. W \ {c} \in SUBSET Objects /\ W \ {c} # {}
      BY <1>1, <2>2
    <3>2. PICK w \in W \ {c} : Children(w) \cap (W \ {c}) = {}
      BY <1>0, <3>1 DEF Founded
    <3> QED
      BY <1>1, <1>4, <3>1, <3>2
  <2> QED
    BY <2>1, <2>2
<1>8. PlacedOnce'
  <2> SUFFICES ASSUME NEW k \in Composites'
               PROVE  /\ Members(k)' \cap onDone'[k] = {}
                      /\ \A i, j \in 1..Len(made'[k].items) :
                           made'[k].items[i] = made'[k].items[j] => i = j
    BY DEF PlacedOnce
  <2>1. CASE k \in Composites
    BY <1>0, <1>1, <1>2, <2>1 DEF PlacedOnce
  <2>2. CASE k = c
    <3>1. onDone[c] = {}
      BY <1>0, <1>1, <1>2 DEF GraphTypes, AllObjects
    <3> QED
      BY <1>1, <1>2, <2>2, <3>1
  <2> QED
    BY <1>1, <2>1, <2>2
<1> QED
  BY <1>5, <1>6, <1>7, <1>8 DEF GraphInv

\* y comes after x, and nothing else changes.
LEMMA OnDoneKeeps ==
  ASSUME GraphInv, NEW x \in Objects, NEW y \in Objects, OnDone(x, y)
  PROVE  GraphInv'
<1>0. GraphTypes /\ OneParent /\ Founded /\ PlacedOnce
  BY DEF GraphInv
<1>1. /\ made' = made /\ Composites' = Composites /\ Objects' = Objects
      /\ \A o \in Objects : Members(o)' = Members(o)
  BY DEF OnDone, Composites, Objects, Members
<1>2. /\ onDone' = [onDone EXCEPT ![x] = @ \cup {y}]
      /\ onDone \in [AllObjects -> SUBSET Objects] /\ x \in AllObjects /\ Objects \subseteq AllObjects
  BY <1>0, ObjectsAre DEF OnDone, GraphTypes
<1>3. /\ \A o \in Objects : o # x => onDone'[o] = onDone[o] /\ Children(o)' = Children(o)
      /\ onDone'[x] = onDone[x] \cup {y} /\ Children(x)' = Children(x) \cup {y}
  BY <1>1, <1>2 DEF Children
<1>4. \A o \in Objects : y \notin Children(o)
  BY DEF OnDone, Unused, Children
<1>5. GraphTypes'
  <2>1. /\ onDone' \in [AllObjects -> SUBSET Objects]
        /\ \A o \in AllObjects \ Objects : onDone'[o] = {}
    BY <1>0, <1>2 DEF GraphTypes
  <2> QED
    BY <1>0, <1>1, <2>1 DEF GraphTypes
<1>6. OneParent'
  BY <1>0, <1>1, <1>3, <1>4 DEF OneParent
<1>7. Founded'
  <2> SUFFICES ASSUME NEW W \in SUBSET Objects, W # {},
                      \A w \in W : Children(w)' \cap W # {}
               PROVE  FALSE
    BY <1>1 DEF Founded
  <2>1. PICK w \in W : Children(w) \cap W = {}
    BY <1>0 DEF Founded
  <2>2. w = x /\ y \in W
    BY <1>3, <2>1
  <2> DEFINE U == W \cap Visited(y)
  <2>3. VisitIs(y) /\ x \notin Visited(y)
    BY <1>0, VisitedIs DEF OnDone
  <2>4. U \in SUBSET Objects /\ y \in U
    BY <2>2, <2>3 DEF VisitIs
  <2>5. ASSUME NEW u \in U PROVE Children(u) \cap U # {}
    <3>1. u # x /\ Children(u) \subseteq Visited(y)
      BY <2>3 DEF VisitIs, Closed
    <3> QED
      BY <1>3, <3>1
  <2> HIDE DEF U
  <2> QED
    BY <1>0, <2>4, <2>5 DEF Founded
<1>8. PlacedOnce'
  <2>1. ASSUME NEW c \in Composites PROVE Members(c) \cap onDone'[c] = {}
    <3>1. c \in Objects
      BY DEF Objects
    <3> QED
      BY <1>0, <1>3, <1>4, <3>1 DEF PlacedOnce, Children
  <2>2. \A c \in Composites : Members(c)' = Members(c)
    BY <1>1 DEF Objects
  <2> QED
    BY <1>0, <1>1, <2>1, <2>2 DEF PlacedOnce
<1> QED
  BY <1>5, <1>6, <1>7, <1>8 DEF GraphInv

-----------------------------------------------------------------------------
(* Who composes nothing changes no graph *)

ItemsIn(m, o) == IF o \in Delayables THEN {} ELSE Range(m[o].items)

VisitedIn(m, d, o) ==
  LET visit[n \in 0 .. Cardinality(Delayables \cup 1 .. Len(m))] ==
        IF n = 0 THEN {o}
        ELSE visit[n - 1] \cup UNION {ItemsIn(m, x) \cup d[x] : x \in visit[n - 1]}
  IN  visit[Cardinality(Delayables \cup 1 .. Len(m))]

EndsIn(m) ==
  CHOOSE f : f = [o \in Delayables \cup 1 .. Len(m) |->
    IF o \in Delayables THEN [head |-> {o}, tail |-> {o}]
    ELSE IF m[o].kind = "group"
    THEN [head |-> UNION {f[i].head : i \in ItemsIn(m, o)},
          tail |-> UNION {f[i].tail : i \in ItemsIn(m, o)}]
    ELSE [head |-> f[m[o].items[1]].tail,
          tail |-> f[m[o].items[Len(m[o].items)]].head]]

LeavesIn(m) ==
  CHOOSE f : f = [o \in Delayables \cup 1 .. Len(m) |->
    IF o \in Delayables THEN {o} ELSE UNION {f[i] : i \in ItemsIn(m, o)}]

\* What an object consists of, and what it begins and ends with, follows from the graphs.
LEMMA SameGraph ==
  ASSUME UNCHANGED graphVars
  PROVE  /\ \A o : Visited(o)' = Visited(o) /\ Edges(o)' = Edges(o)
         /\ Ends' = Ends /\ Leaves' = Leaves
         /\ \A o : Connected(o)' = Connected(o) /\ Vertices(o)' = Vertices(o)
<1>1. made' = made /\ onDone' = onDone
  BY DEF graphVars
<1>2. \A o : Visited(o) = VisitedIn(made, onDone, o)
  BY DEF Visited, VisitedIn, Objects, Composites, Members, ItemsIn
<1>3. \A o : Visited(o)' = VisitedIn(made', onDone', o)
  BY DEF Visited, VisitedIn, Objects, Composites, Members, ItemsIn
<1>4. \A o : Visited(o)' = Visited(o)
  BY <1>1, <1>2, <1>3
<1>5. Ends = EndsIn(made) /\ Ends' = EndsIn(made')
  BY DEF Ends, EndsIn, Objects, Composites, Members, ItemsIn
<1>6. Leaves = LeavesIn(made) /\ Leaves' = LeavesIn(made')
  BY DEF Leaves, LeavesIn, Objects, Composites, Members, ItemsIn
<1>7. Ends' = Ends /\ Leaves' = Leaves
  BY <1>1, <1>5, <1>6
<1>8. \A o : Edges(o)' = Edges(o)
  BY <1>1 DEF Edges
<1>9. \A o : Vertices(o)' = Vertices(o)
  BY <1>4 DEF Vertices
<1>10. ASSUME NEW o PROVE Connected(o)' = Connected(o)
  BY <1>4, <1>7, <1>8 DEF Connected
<1> QED
  BY <1>4, <1>7, <1>8, <1>9, <1>10

-----------------------------------------------------------------------------
(* What an object consists of *)

\* What all Delayables are, and each composite is when its items are, all objects are.
LEMMA CreationInduct ==
  ASSUME GraphTypes, NEW T, Delayables \subseteq T,
         \A c \in Composites : Members(c) \subseteq T => c \in T
  PROVE  Objects \subseteq T
<1> DEFINE U == {n \in Nat : \A c \in Composites : c <= n => c \in T}
<1>1. Composites = 1..Len(made) /\ Len(made) \in Nat /\ Objects = Delayables \cup Composites
  BY ObjectsAre DEF Objects
<1>2. 0 \in U
  BY <1>1
<1>3. ASSUME NEW n \in Nat, n \in U PROVE n + 1 \in U
  <2> SUFFICES ASSUME NEW c \in Composites, c = n + 1 PROVE c \in T
    BY <1>1, <1>3
  <2>1. Members(c) \subseteq Delayables \cup 1..(c - 1)
    BY ItemsAre
  <2>2. 1..(c - 1) \subseteq T
    BY <1>1, <1>3
  <2> QED
    BY <2>1, <2>2
<1>4. \A n \in Nat : n \in U
  <2> HIDE DEF U
  <2> QED
    BY <1>2, <1>3, NatInduct
<1>5. Len(made) \in U
  BY <1>1, <1>4
<1> QED
  BY <1>1, <1>5

\* Jobs that belong to an object are visited from it; every object has one.
LEMMA LeavesWithin ==
  ASSUME GraphTypes
  PROVE  \A o \in Objects : Leaves[o] # {} /\ Leaves[o] \subseteq Vertices(o)
<1> DEFINE T == {o \in Objects : Leaves[o] # {} /\ Leaves[o] \subseteq Vertices(o)}
<1>1. /\ \A o \in Delayables : Leaves[o] = {o}
      /\ \A c \in Composites : Leaves[c] = UNION {Leaves[i] : i \in Members(c)}
  BY LeavesAre
<1>2. Delayables \subseteq T
  <2> SUFFICES ASSUME NEW o \in Delayables PROVE o \in Objects /\ o \in Vertices(o)
    BY <1>1
  <2>1. o \in Objects
    BY DEF Objects
  <2> QED
    BY <2>1, VisitedIs DEF VisitIs, Vertices
<1>3. ASSUME NEW c \in Composites, Members(c) \subseteq T PROVE c \in T
  <2>1. c \in Objects
    BY DEF Objects
  <2>2. \A i \in Members(c) : Leaves[i] # {} /\ Leaves[i] \subseteq Vertices(i) /\ i \in Objects
    BY <1>3
  <2>3. Members(c) # {}
    <3>1. Len(made[c].items) \in Nat \ {0} /\ Members(c) = {made[c].items[i] : i \in 1..Len(made[c].items)}
      BY ItemsAre
    <3>2. 1 \in 1..Len(made[c].items)
      BY <3>1
    <3> QED
      BY <3>1, <3>2
  <2>4. \A i \in Members(c) : Visited(i) \subseteq Visited(c)
    BY <2>1, VisitedBelow DEF Children
  <2>5. Leaves[c] # {}
    BY <1>1, <2>2, <2>3
  <2>6. Leaves[c] \subseteq Vertices(c)
    BY <1>1, <2>2, <2>4 DEF Vertices
  <2> QED
    BY <2>1, <2>5, <2>6
<1> HIDE DEF T
<1>4. Objects \subseteq T
  BY <1>2, <1>3, CreationInduct
<1> QED
  BY <1>4 DEF T

\* So are the jobs it begins and ends with.
LEMMA EndsWithin ==
  ASSUME GraphTypes
  PROVE  \A o \in Objects : Ends[o].head \subseteq Vertices(o) /\ Ends[o].tail \subseteq Vertices(o)
<1> DEFINE T == {o \in Objects : Ends[o].head \subseteq Vertices(o) /\ Ends[o].tail \subseteq Vertices(o)}
<1>1. \A o \in Objects : Ends[o] = EndsFrom(o, Ends)
  BY EndsAre
<1>2. Delayables \subseteq T
  <2> SUFFICES ASSUME NEW o \in Delayables PROVE o \in T
    OBVIOUS
  <2>1. o \in Objects
    BY DEF Objects
  <2>2. o \in Vertices(o)
    BY <2>1, VisitedIs DEF VisitIs, Vertices
  <2>3. Ends[o] = [head |-> {o}, tail |-> {o}]
    BY <1>1, <2>1 DEF EndsFrom
  <2> QED
    BY <2>1, <2>2, <2>3
<1>3. ASSUME NEW c \in Composites, Members(c) \subseteq T PROVE c \in T
  <2>1. c \in Objects /\ c \notin Delayables
    BY ObjectsAre DEF Objects
  <2>2. \A i \in Members(c) : Visited(i) \subseteq Visited(c)
    BY <2>1, VisitedBelow DEF Children
  <2>3. \A i \in Members(c) : Ends[i].head \subseteq Vertices(c) /\ Ends[i].tail \subseteq Vertices(c)
    BY <1>3, <2>2 DEF Vertices
  <2>4. CASE made[c].kind = "group"
    <3>1. Ends[c] = [head |-> UNION {Ends[i].head : i \in Members(c)},
                     tail |-> UNION {Ends[i].tail : i \in Members(c)}]
      BY <1>1, <2>1, <2>4 DEF EndsFrom
    <3> QED
      BY <2>1, <2>3, <3>1
  <2>5. CASE made[c].kind # "group"
    <3>1. Ends[c] = [head |-> Ends[made[c].items[1]].tail,
                     tail |-> Ends[made[c].items[Len(made[c].items)]].head]
      BY <1>1, <2>1, <2>5 DEF EndsFrom
    <3>2. made[c].items[1] \in Members(c) /\ made[c].items[Len(made[c].items)] \in Members(c)
      <4>1. 1 \in 1..Len(made[c].items) /\ Len(made[c].items) \in 1..Len(made[c].items)
        BY ItemsAre
      <4> QED
        BY <4>1, ItemsAre
    <3> QED
      BY <2>1, <2>3, <3>1, <3>2
  <2> QED
    BY <2>4, <2>5
<1> HIDE DEF T
<1>4. Objects \subseteq T
  BY <1>2, <1>3, CreationInduct
<1> QED
  BY <1>4 DEF T

\* The edges of an object are between what belongs to it.
LEMMA EdgesBetween ==
  ASSUME GraphTypes, NEW x \in Objects, NEW e \in Edges(x)
  PROVE  /\ e = <<e[1], e[2]>>
         /\ e[1] \in {x} \cup Members(x) /\ e[2] \in Children(x)
         /\ e[1] = x => x \in Delayables
<1>1. CASE x \in Delayables
  BY <1>1 DEF Edges, Children
<1>2. CASE x \in Composites
  <2>1. x \notin Delayables
    BY <1>2, ObjectsAre
  <2> DEFINE items == made[x].items
  <2>2. /\ Len(items) \in Nat \ {0} /\ DOMAIN items = 1..Len(items)
        /\ Members(x) = {items[i] : i \in 1..Len(items)}
        /\ Members(x) \subseteq Delayables \cup 1..(x - 1)
    BY <1>2, ItemsAre
  <2>3. x \notin Members(x)
    BY <1>2, <2>1, <2>2, ObjectsAre
  <2>4. Range(items) = Members(x)
    BY <2>2 DEF Range
  <2>5. e \in Members(x) \X Children(x)
    <3> HIDE DEF items
    <3>0. \A i \in 1..Len(items) : items[i] \in Members(x)
      BY <2>2
    <3>1. \A i \in 1..Len(items) - 1 : items[i] \in Members(x) /\ items[i + 1] \in Members(x)
      <4>1. \A i \in 1..Len(items) - 1 : i \in 1..Len(items) /\ i + 1 \in 1..Len(items)
        BY <2>2
      <4> QED
        BY <3>0, <4>1
    <3>2. items[Len(items)] \in Members(x)
      <4>1. Len(items) \in 1..Len(items)
        BY <2>2
      <4> QED
        BY <3>0, <4>1
    <3>3. \/ e \in {<<items[i], items[i + 1]>> : i \in 1..Len(items) - 1}
          \/ e \in {items[Len(items)]} \X onDone[x]
          \/ e \in Range(items) \X onDone[x]
      BY <2>1 DEF Edges, items
    <3> QED
      BY <2>4, <3>1, <3>2, <3>3 DEF Children
  <2> QED
    BY <2>3, <2>5
<1> QED
  BY <1>1, <1>2 DEF Objects

\* Dependencies are between jobs that are visited.
LEMMA ConnectedWithin ==
  ASSUME GraphTypes, NEW o \in Objects
  PROVE  Connected(o) \subseteq Vertices(o) \X Vertices(o)
<1>1. VisitIs(o)
  BY VisitedIs
<1> SUFFICES ASSUME NEW x \in Visited(o), NEW e \in Edges(x)
             PROVE  Ends[e[1]].tail \subseteq Vertices(o) /\ Ends[e[2]].head \subseteq Vertices(o)
  BY DEF Connected
<1>2. x \in Objects /\ e[1] \in {x} \cup Members(x) /\ e[2] \in Children(x)
  BY <1>1, EdgesBetween DEF VisitIs
<1>3. e[1] \in Visited(o) /\ e[2] \in Visited(o)
  BY <1>1, <1>2 DEF VisitIs, Closed, Children
<1>4. Vertices(e[1]) \subseteq Vertices(o) /\ Vertices(e[2]) \subseteq Vertices(o)
  BY <1>3, VisitedBelow DEF Vertices
<1> QED
  BY <1>1, <1>3, <1>4, EndsWithin DEF VisitIs

-----------------------------------------------------------------------------
(* Nothing starts before what it comes after *)

\* Chains begin and end with jobs or groups of jobs.
ChainEnds ==
  \A c \in Composites : made[c].kind = "chain" =>
    Shallow(made[c].items[1]) /\ Shallow(made[c].items[Len(made[c].items)])

\* The graph of what delay() was called on is what it was then.
TopInv == top # Nothing => top \in Objects /\ edges = Connected(top)

OrderInv == GraphInv /\ ChainEnds /\ TopInv

LEMMA AfterTransitive ==
  ASSUME NEW j, NEW i, NEW k, After(j, i), After(i, k)
  PROVE  After(j, k)
<1> SUFFICES ASSUME NEW S \in SUBSET Delayables, \A e \in edges : e[1] \in S \cup {j} => e[2] \in S
             PROVE  k \in S
  BY DEF After
<1>1. i \in S
  BY DEF After
<1>2. \A e \in edges : e[1] \in S \cup {i} => e[2] \in S
  BY <1>1
<1> QED
  BY <1>2 DEF After

\* A job or a group of jobs begins and ends with all its jobs.
LEMMA ShallowEnds ==
  ASSUME GraphTypes, NEW o \in Objects, Shallow(o)
  PROVE  Ends[o].head = Leaves[o] /\ Ends[o].tail = Leaves[o]
<1>1. Ends[o] = EndsFrom(o, Ends)
  BY EndsAre
<1>2. CASE o \in Delayables
  <2>1. Ends[o] = [head |-> {o}, tail |-> {o}]
    BY <1>1, <1>2 DEF EndsFrom
  <2> QED
    BY <1>2, <2>1, LeavesAre
<1>3. CASE o \in Composites
  <2>1. o \notin Delayables /\ made[o].kind = "group" /\ Members(o) \subseteq Delayables
    BY <1>3, ObjectsAre DEF Shallow
  <2>2. Ends[o] = [head |-> UNION {Ends[i].head : i \in Members(o)},
                   tail |-> UNION {Ends[i].tail : i \in Members(o)}]
    BY <1>1, <2>1 DEF EndsFrom
  <2>3. ASSUME NEW i \in Members(o)
        PROVE  Ends[i].head = {i} /\ Ends[i].tail = {i} /\ Leaves[i] = {i}
    <3>1. i \in Delayables /\ i \in Objects
      BY <2>1 DEF Objects
    <3>2. Ends[i] = EndsFrom(i, Ends)
      BY <3>1, EndsAre
    <3>3. Ends[i] = [head |-> {i}, tail |-> {i}]
      BY <3>1, <3>2 DEF EndsFrom
    <3> QED
      BY <3>1, <3>3, LeavesAre
  <2>4. Leaves[o] = UNION {Leaves[i] : i \in Members(o)}
    BY <1>3, LeavesAre
  <2>5. Ends[o].head = UNION {Ends[i].head : i \in Members(o)} /\ Ends[o].tail = UNION {Ends[i].tail : i \in Members(o)}
    BY <2>2
  <2> QED
    BY <2>3, <2>4, <2>5
<1> QED
  BY <1>2, <1>3 DEF Objects

\* Each job of an object comes before one it ends with, and after one it begins with.
Joined(o) ==
  \A j \in Leaves[o] :
    /\ \E t \in Ends[o].tail : t = j \/ After(j, t)
    /\ \E h \in Ends[o].head : h = j \/ After(h, j)

AllBefore(x, y) == \A j \in Leaves[x], i \in Leaves[y] : After(j, i)

\* All of what an edge comes from is before all of what it leads to.
LEMMA EdgeOrders ==
  ASSUME top \in Objects, edges = Connected(top), NEW x \in Visited(top), NEW e \in Edges(x),
         Joined(e[1]), Joined(e[2])
  PROVE  AllBefore(e[1], e[2])
<1> SUFFICES ASSUME NEW j \in Leaves[e[1]], NEW i \in Leaves[e[2]] PROVE After(j, i)
  BY DEF AllBefore
<1>1. PICK t \in Ends[e[1]].tail : t = j \/ After(j, t)
  BY DEF Joined
<1>2. PICK h \in Ends[e[2]].head : h = i \/ After(h, i)
  BY DEF Joined
<1>3. <<t, h>> \in edges
  <2>1. e \in UNION {Edges(y) : y \in Visited(top)}
    OBVIOUS
  <2>2. <<t, h>> \in Ends[e[1]].tail \X Ends[e[2]].head
    BY <1>1, <1>2
  <2> QED
    BY <2>1, <2>2 DEF Connected
<1>4. After(t, h)
  BY <1>3 DEF After
<1>5. After(j, h)
  BY <1>1, <1>4, AfterTransitive
<1> QED
  BY <1>2, <1>5, AfterTransitive

\* Of a chain, each item comes after the one before, thus after the first and before the last.
LEMMA ChainOrders ==
  ASSUME GraphTypes, top \in Objects, edges = Connected(top),
         NEW c \in Composites, c \in Visited(top), made[c].kind = "chain",
         \A i \in Members(c) : Joined(i)
  PROVE  \A m, n \in 1..Len(made[c].items) :
           m < n => AllBefore(made[c].items[m], made[c].items[n])
<1> DEFINE items == made[c].items
<1>1. /\ Len(items) \in Nat \ {0} /\ Members(c) = {items[i] : i \in 1..Len(items)}
      /\ Members(c) \subseteq Objects /\ c \notin Delayables
  BY ItemsAre, ObjectsAre
<1>2. ASSUME NEW n \in 1..Len(items) - 1 PROVE AllBefore(items[n], items[n + 1])
  <2>1. n \in 1..Len(items) /\ n + 1 \in 1..Len(items)
    BY <1>1
  <2>2. Joined(items[n]) /\ Joined(items[n + 1])
    BY <1>1, <2>1
  <2> DEFINE e == <<items[n], items[n + 1]>>
  <2>3. e \in Edges(c)
    BY <1>1 DEF Edges
  <2>4. e[1] = items[n] /\ e[2] = items[n + 1]
    OBVIOUS
  <2> HIDE DEF e, items
  <2> QED
    BY <2>2, <2>3, <2>4, EdgeOrders
<1> HIDE DEF items
<1> SUFFICES ASSUME NEW m \in 1..Len(items) PROVE \A n \in 1..Len(items) : m < n => AllBefore(items[m], items[n])
  BY DEF items
<1> DEFINE U == {n \in Nat : n > m /\ n <= Len(items) => AllBefore(items[m], items[n])}
<1>3. 0 \in U
  BY <1>1
<1>4. ASSUME NEW n \in Nat, n \in U PROVE n + 1 \in U
  <2> SUFFICES ASSUME n + 1 > m, n + 1 <= Len(items) PROVE AllBefore(items[m], items[n + 1])
    OBVIOUS
  <2>1. n \in 1..Len(items) - 1
    BY <1>1
  <2>2. AllBefore(items[n], items[n + 1])
    BY <1>2, <2>1
  <2>3. CASE n = m
    BY <2>2, <2>3
  <2>4. CASE n > m
    <3>1. AllBefore(items[m], items[n])
      BY <1>1, <1>4, <2>1, <2>4
    <3>2. n \in 1..Len(items)
      BY <1>1, <2>1
    <3>3. items[n] \in Objects
      BY <1>1, <3>2
    <3>4. Leaves[items[n]] # {}
      BY <3>3, LeavesWithin
    <3>5. PICK k : k \in Leaves[items[n]]
      BY <3>4
    <3> SUFFICES ASSUME NEW j \in Leaves[items[m]], NEW i \in Leaves[items[n + 1]] PROVE After(j, i)
      BY DEF AllBefore
    <3>6. After(j, k) /\ After(k, i)
      BY <2>2, <3>1, <3>5 DEF AllBefore
    <3> QED
      BY <3>6, AfterTransitive
  <2> QED
    BY <1>1, <2>3, <2>4
<1>5. \A n \in Nat : n \in U
  <2> HIDE DEF U
  <2> QED
    BY <1>3, <1>4, NatInduct
<1> QED
  BY <1>1, <1>5

\* Whatever the nesting, what is visited is joined.
LEMMA AllJoined ==
  ASSUME GraphTypes, ChainEnds, top \in Objects, edges = Connected(top)
  PROVE  \A o \in Visited(top) : Joined(o)
<1> DEFINE T == {o \in Objects : o \in Visited(top) => Joined(o)}
<1>1. \A o \in Objects : Ends[o] = EndsFrom(o, Ends)
  BY EndsAre
<1>2. /\ \A o \in Delayables : Leaves[o] = {o}
      /\ \A c \in Composites : Leaves[c] = UNION {Leaves[i] : i \in Members(c)}
  BY LeavesAre
<1>3. Delayables \subseteq T
  <2> SUFFICES ASSUME NEW o \in Delayables PROVE o \in Objects /\ Joined(o)
    OBVIOUS
  <2>1. o \in Objects
    BY DEF Objects
  <2>2. Ends[o] = [head |-> {o}, tail |-> {o}]
    BY <1>1, <2>1 DEF EndsFrom
  <2> QED
    BY <1>2, <2>1, <2>2 DEF Joined
<1>4. ASSUME NEW c \in Composites, Members(c) \subseteq T PROVE c \in T
  <2>1. c \in Objects /\ c \notin Delayables
    BY ObjectsAre DEF Objects
  <2> SUFFICES ASSUME c \in Visited(top), NEW j \in Leaves[c]
               PROVE  /\ \E t \in Ends[c].tail : t = j \/ After(j, t)
                      /\ \E h \in Ends[c].head : h = j \/ After(h, j)
    BY <2>1 DEF Joined
  <2>2. \A i \in Members(c) : i \in Objects /\ Joined(i)
    BY <1>4, VisitedIs DEF VisitIs, Closed, Children
  <2>3. PICK i \in Members(c) : j \in Leaves[i]
    BY <1>2
  <2>4. /\ \E t \in Ends[i].tail : t = j \/ After(j, t)
        /\ \E h \in Ends[i].head : h = j \/ After(h, j)
    BY <2>2, <2>3 DEF Joined
  <2>5. CASE made[c].kind = "group"
    <3>1. Ends[c] = [head |-> UNION {Ends[k].head : k \in Members(c)},
                     tail |-> UNION {Ends[k].tail : k \in Members(c)}]
      BY <1>1, <2>1, <2>5 DEF EndsFrom
    <3>2. Ends[i].head \subseteq Ends[c].head /\ Ends[i].tail \subseteq Ends[c].tail
      BY <2>3, <3>1
    <3> QED
      BY <2>4, <3>2
  <2>6. CASE made[c].kind = "chain"
    <3> DEFINE items == made[c].items
               first == items[1]
               last == items[Len(items)]
    <3>1. /\ Len(items) \in Nat \ {0} /\ Members(c) = {items[k] : k \in 1..Len(items)}
          /\ 1 \in 1..Len(items) /\ Len(items) \in 1..Len(items)
      BY ItemsAre
    <3>2. \A m, n \in 1..Len(items) : m < n => AllBefore(items[m], items[n])
      BY <2>2, <2>6, ChainOrders
    <3>3. Ends[c] = [head |-> Ends[first].tail, tail |-> Ends[last].head]
      BY <1>1, <2>1, <2>6 DEF EndsFrom
    <3>4. Shallow(first) /\ Shallow(last)
      BY <2>6 DEF ChainEnds
    <3> HIDE DEF items
    <3>5. first \in Objects /\ last \in Objects
      BY <2>2, <3>1
    <3>6. Ends[c].head = Leaves[first] /\ Ends[c].tail = Leaves[last]
      BY <3>3, <3>4, <3>5, ShallowEnds
    <3>7. Leaves[first] # {} /\ Leaves[last] # {}
      BY <3>5, LeavesWithin
    <3>8. PICK n \in 1..Len(items) : i = items[n]
      BY <2>3, <3>1
    <3>9. \E t \in Leaves[last] : t = j \/ After(j, t)
      <4>1. CASE n = Len(items)
        BY <2>3, <3>8, <4>1
      <4>2. CASE n < Len(items)
        BY <2>3, <3>1, <3>2, <3>7, <3>8, <4>2 DEF AllBefore
      <4> QED
        BY <3>1, <4>1, <4>2
    <3>10. \E h \in Leaves[first] : h = j \/ After(h, j)
      <4>1. CASE n = 1
        BY <2>3, <3>8, <4>1
      <4>2. CASE 1 < n
        BY <2>3, <3>1, <3>2, <3>7, <3>8, <4>2 DEF AllBefore
      <4> QED
        BY <3>1, <4>1, <4>2
    <3> QED
      BY <3>6, <3>9, <3>10
  <2>7. made[c].kind \in {"chain", "group"}
    BY ItemsAre DEF CompositeType
  <2> QED
    BY <2>5, <2>6, <2>7
<1> HIDE DEF T
<1>5. Objects \subseteq T
  BY <1>3, <1>4, CreationInduct
<1> QED
  BY <1>5, VisitedIs DEF T, VisitIs

\* OrderKept in every state of such graphs.
LEMMA OrderHolds ==
  ASSUME OrderInv
  PROVE  OrderKept
<1> SUFFICES ASSUME top # Nothing, NEW x \in Visited(top), NEW e \in Edges(x)
             PROVE  AllBefore(e[1], e[2])
  BY DEF OrderKept, AllBefore
<1>1. /\ GraphTypes /\ ChainEnds /\ top \in Objects /\ edges = Connected(top)
      /\ VisitIs(top)
  BY VisitedIs DEF OrderInv, TopInv, GraphInv
<1>2. x \in Objects /\ e[1] \in {x} \cup Members(x) /\ e[2] \in Children(x)
  BY <1>1, EdgesBetween DEF VisitIs
<1>3. e[1] \in Visited(top) /\ e[2] \in Visited(top)
  BY <1>1, <1>2 DEF VisitIs, Closed, Children
<1> QED
  BY <1>1, <1>3, AllJoined, EdgeOrders

\* Nothing is composed to begin with.
LEMMA GraphFirst == InitGraph => GraphInv
<1> SUFFICES ASSUME InitGraph PROVE GraphInv
  OBVIOUS
<1>1. /\ made = <<>> /\ Len(made) = 0 /\ Composites = {} /\ Objects = Delayables
      /\ onDone = [o \in AllObjects |-> {}]
  BY DEF InitGraph, Composites, Objects
<1>2. \A x \in Objects : Children(x) = {}
  <2>1. Objects \subseteq AllObjects
    BY <1>1 DEF AllObjects
  <2> QED
    BY <1>1, <2>1 DEF Children, Members
<1>3. GraphTypes
  BY <1>1, DelayGraphAssumption DEF GraphTypes
<1> QED
  BY <1>1, <1>2, <1>3 DEF GraphInv, OneParent, Founded, PlacedOnce

\* Once delay() was called, no graph changes any more.
LEMMA DelayedStays ==
  ASSUME [NextGraph]_delayVars, top # Nothing
  PROVE  UNCHANGED <<graphVars, top, edges>>
<1>1. CASE UNCHANGED delayVars
  BY <1>1 DEF delayVars, graphVars
<1>2. CASE \E j \in Delayables : ExecuteDirectly(j)
  BY <1>2 DEF ExecuteDirectly
<1>3. CASE ~(\E j \in Delayables : ExecuteDirectly(j)) /\ NextGraph
  BY <1>3 DEF NextGraph, Compose, OnDone, DelayTop, DelayDirectly
<1> QED
  BY <1>1, <1>2, <1>3

\* Who calls delay() or does nothing composes nothing.
LEMMA StillGraph ==
  ASSUME GraphInv, UNCHANGED graphVars
  PROVE  /\ GraphInv' /\ Objects' = Objects /\ Composites' = Composites /\ made' = made
         /\ \A x : Members(x)' = Members(x) /\ Children(x)' = Children(x)
<1>1. made' = made /\ onDone' = onDone
  BY DEF graphVars
<1>2. Composites' = Composites /\ Objects' = Objects
  BY <1>1 DEF Composites, Objects
<1>3. \A x : Members(x)' = Members(x) /\ Children(x)' = Children(x)
  BY <1>1 DEF Members, Children
<1>4. GraphTypes' /\ PlacedOnce'
  BY <1>1, <1>2, <1>3 DEF GraphInv, GraphTypes, PlacedOnce
<1>5. OneParent' /\ Founded'
  BY <1>2, <1>3 DEF GraphInv, OneParent, Founded
<1> QED
  BY <1>1, <1>2, <1>3, <1>4, <1>5 DEF GraphInv

\* What callers compose stays so at every step.
LEMMA GraphStays ==
  ASSUME GraphInv, [NextGraph]_delayVars
  PROVE  GraphInv'
<1>1. ASSUME NEW kind \in {"chain", "group"}, NEW n \in 2 .. 3, NEW items \in [1 .. n -> Objects],
             Compose(kind, items)
      PROVE  GraphInv'
  BY <1>1, ComposeKeeps
<1>2. ASSUME NEW x \in Objects, NEW y \in Objects, OnDone(x, y) PROVE GraphInv'
  BY <1>2, OnDoneKeeps
<1>3. ASSUME NEW o \in Objects, DelayTop(o) \/ DelayDirectly(o) PROVE GraphInv'
  <2>1. UNCHANGED graphVars
    BY <1>3 DEF DelayTop, DelayDirectly
  <2> QED
    BY <2>1, StillGraph
<1>4. ASSUME NEW j \in Delayables, ExecuteDirectly(j) PROVE GraphInv'
  <2>1. UNCHANGED graphVars
    BY <1>4 DEF ExecuteDirectly
  <2> QED
    BY <2>1, StillGraph
<1>5. CASE UNCHANGED delayVars
  <2>1. UNCHANGED graphVars
    BY <1>5 DEF delayVars
  <2> QED
    BY <2>1, StillGraph
<1> QED
  BY <1>1, <1>2, <1>3, <1>4, <1>5 DEF NextGraph

\* The ends of chains stay what they are, if only shallow ones are made.
LEMMA ChainEndsStay ==
  ASSUME GraphInv, ChainEnds, DeepEnds = FALSE, [NextGraph]_delayVars
  PROVE  ChainEnds'
<1>0. GraphTypes
  BY DEF GraphInv
<1>1. ASSUME NEW kind \in {"chain", "group"}, NEW n \in 2 .. 3, NEW items \in [1 .. n -> Objects],
             Compose(kind, items)
      PROVE  ChainEnds'
  <2>1. PICK c : c = Len(made) + 1
    OBVIOUS
  <2>2. Composed(kind, n, items, c)
    BY <1>0, <1>1, <2>1, ComposeIs
  <2>3. Composites \subseteq Objects
    BY DEF Objects
  <2>4. \A o \in Objects : Shallow(o) => Shallow(o)'
    BY <2>2, <2>3 DEF Composed, Shallow
  <2> SUFFICES ASSUME NEW k \in Composites', made'[k].kind = "chain"
               PROVE  (Shallow(made[k].items[1]) /\ Shallow(made[k].items[Len(made[k].items)]))'
    BY DEF ChainEnds
  <2>5. CASE k \in Composites
    <3> DEFINE first == made[k].items[1]
               last == made[k].items[Len(made[k].items)]
    <3>1. Shallow(first) /\ Shallow(last) /\ made'[k] = made[k]
      BY <2>2, <2>5 DEF ChainEnds, Composed
    <3>2. first \in Objects /\ last \in Objects
      <4>1. /\ 1 \in 1..Len(made[k].items) /\ Len(made[k].items) \in 1..Len(made[k].items)
            /\ Members(k) = {made[k].items[i] : i \in 1..Len(made[k].items)}
            /\ Members(k) \subseteq Objects
        BY <1>0, <2>5, ItemsAre
      <4> QED
        BY <4>1
    <3>3. PICK f, l : f = first /\ l = last
      OBVIOUS
    <3>4. Shallow(f)' /\ Shallow(l)'
      BY <2>4, <3>1, <3>2, <3>3
    <3>5. f = made'[k].items[1] /\ l = made'[k].items[Len(made'[k].items)]
      BY <3>1, <3>3
    <3> QED
      BY <3>4, <3>5 DEF Shallow
  <2>6. CASE k = c
    <3>1. made'[k] = [kind |-> kind, items |-> items] /\ Len(items) = n
      BY <2>2, <2>6 DEF Composed
    <3>2. kind = "chain" /\ made'[k].items = items
      BY <3>1
    <3>3. items[1] \in Objects /\ items[n] \in Objects
      OBVIOUS
    <3>4. Shallow(items[1]) /\ Shallow(items[n])
      BY <1>1, <3>1, <3>2 DEF Compose
    <3>5. Shallow(items[1])' /\ Shallow(items[n])'
      BY <2>4, <3>3, <3>4
    <3> QED
      BY <3>1, <3>2, <3>5 DEF Shallow
  <2> QED
    BY <2>2, <2>5, <2>6 DEF Composed
<1>2. CASE made' = made
  <2>1. Composites' = Composites /\ \A x : Members(x)' = Members(x)
    BY <1>2 DEF Composites, Members
  <2> QED
    BY <1>2, <2>1 DEF ChainEnds, Shallow
<1>3. CASE UNCHANGED delayVars
  BY <1>2, <1>3 DEF delayVars, graphVars
<1>4. ASSUME NEW x \in Objects, NEW y \in Objects, OnDone(x, y) PROVE made' = made
  BY <1>4 DEF OnDone
<1>5. ASSUME NEW o \in Objects, DelayTop(o) \/ DelayDirectly(o) PROVE made' = made
  BY <1>5 DEF DelayTop, DelayDirectly, graphVars
<1>6. ASSUME NEW j \in Delayables, ExecuteDirectly(j) PROVE made' = made
  BY <1>6 DEF ExecuteDirectly, graphVars
<1> QED
  BY <1>1, <1>2, <1>3, <1>4, <1>5, <1>6 DEF NextGraph

LEMMA TopStays ==
  ASSUME GraphInv, TopInv, [NextGraph]_delayVars
  PROVE  TopInv'
<1>1. CASE top # Nothing
  <2>1. UNCHANGED <<graphVars, top, edges>>
    BY <1>1, DelayedStays
  <2>2. Objects' = Objects /\ \A o : Connected(o)' = Connected(o)
    BY <2>1, StillGraph, SameGraph
  <2>3. PICK o : o = top
    OBVIOUS
  <2>4. Connected(o)' = edges'
    BY <1>1, <2>1, <2>2, <2>3 DEF TopInv
  <2> QED
    BY <1>1, <2>1, <2>2, <2>3, <2>4 DEF TopInv, Connected
<1>2. CASE top' = Nothing
  BY <1>2 DEF TopInv
<1>3. ASSUME NEW o \in Objects, DelayTop(o) \/ DelayDirectly(o) PROVE TopInv'
  <2>1. UNCHANGED graphVars /\ top' = o /\ edges' = Connected(o)
    BY <1>3 DEF DelayTop, DelayDirectly
  <2>2. Objects' = Objects /\ Connected(o)' = Connected(o)
    BY <2>1, StillGraph, SameGraph
  <2> QED
    BY <2>1, <2>2 DEF TopInv, Connected
<1>4. ASSUME top = Nothing, top' # Nothing PROVE \E o \in Objects : DelayTop(o) \/ DelayDirectly(o)
  BY <1>4 DEF NextGraph, Compose, OnDone, ExecuteDirectly, delayVars
<1> QED
  BY <1>1, <1>2, <1>3, <1>4

\* As long as chains begin and end with jobs or groups of jobs, whatever the nesting, all jobs of
\* an item of a chain come before all of the next, and all of an object before what is done after it
\* (delay.py:35-39, 299-309).
THEOREM OrderIsKept ==
  ASSUME DeepEnds = FALSE
  PROVE  SpecGraph => []OrderKept
<1>1. InitGraph => OrderInv
  BY GraphFirst DEF OrderInv, InitGraph, ChainEnds, TopInv, Composites
<1>2. OrderInv /\ [NextGraph]_delayVars => OrderInv'
  BY GraphStays, ChainEndsStay, TopStays DEF OrderInv
<1>3. OrderInv => OrderKept
  BY OrderHolds
<1> QED
  BY <1>1, <1>2, <1>3, PTL DEF SpecGraph

-----------------------------------------------------------------------------
(* No job waits for itself *)

\* Of any jobs of an object, one depends on none of the others.
Acyclic(o) ==
  \A W \in SUBSET Vertices(o) :
    W # {} => \E w \in W : \A e \in Connected(o) : e[2] = w => e[1] \notin W

\* The edges of an object go upwards.
LEMMA Ranks ==
  ASSUME GraphInv, NEW o \in Objects
  PROVE  \E r \in [{o} \cup Children(o) -> Nat] : \A e \in Edges(o) : r[e[1]] < r[e[2]]
<1>0. GraphTypes /\ PlacedOnce /\ VisitIs(o)
  BY VisitedIs DEF GraphInv
<1>1. o \notin Children(o)
  BY <1>0, NotBelowItself DEF VisitIs
<1>2. \A e \in Edges(o) : e[1] \in {o} \cup Members(o) /\ e[2] \in Children(o)
  BY <1>0, EdgesBetween
<1>3. CASE o \in Delayables
  <2> DEFINE r == [x \in {o} \cup Children(o) |-> IF x = o THEN 0 ELSE 1]
  <2>1. \A e \in Edges(o) : e[1] = o /\ e[2] \in Children(o)
    BY <1>2, <1>3 DEF Members
  <2>2. \A e \in Edges(o) : r[e[1]] = 0 /\ r[e[2]] = 1
    BY <1>1, <2>1
  <2>3. r \in [{o} \cup Children(o) -> Nat]
    OBVIOUS
  <2> HIDE DEF r
  <2> QED
    BY <2>2, <2>3
<1>4. CASE o \in Composites
  <2> DEFINE items == made[o].items
  <2>1. /\ Len(items) \in Nat \ {0} /\ Members(o) = {items[i] : i \in 1..Len(items)}
        /\ o \notin Delayables /\ made[o].kind \in {"chain", "group"} /\ DOMAIN items = 1..Len(items)
    BY <1>0, <1>4, ItemsAre, ObjectsAre DEF CompositeType
  <2>2. /\ Members(o) \cap onDone[o] = {}
        /\ \A i, k \in 1..Len(items) : items[i] = items[k] => i = k
    BY <1>0, <1>4 DEF PlacedOnce
  <2>3. Range(items) = Members(o)
    BY <2>1 DEF Range
  <2>4. /\ made[o].kind = "chain" =>
             Edges(o) = {<<items[i], items[i + 1]>> : i \in 1 .. Len(items) - 1}
                        \cup {items[Len(items)]} \X onDone[o]
        /\ made[o].kind = "group" => Edges(o) = Members(o) \X onDone[o]
    BY <2>1, <2>3 DEF Edges
  <2> HIDE DEF items
  <2>5. CASE made[o].kind = "group"
    <3> DEFINE r == [x \in {o} \cup Children(o) |-> IF x \in Members(o) THEN 0 ELSE 1]
    <3>1. ASSUME NEW e \in Edges(o) PROVE r[e[1]] = 0 /\ r[e[2]] = 1
      <4>1. e[1] \in Members(o) /\ e[2] \in onDone[o]
        BY <2>4, <2>5
      <4>2. e[1] \in Children(o) /\ e[2] \in Children(o) /\ e[2] \notin Members(o)
        BY <2>2, <4>1 DEF Children
      <4> QED
        BY <4>1, <4>2
    <3>2. r \in [{o} \cup Children(o) -> Nat]
      OBVIOUS
    <3> HIDE DEF r
    <3> QED
      BY <3>1, <3>2
  <2>6. CASE made[o].kind = "chain"
    <3> DEFINE place(x) == CHOOSE i \in 1..Len(items) : items[i] = x
               r == [x \in {o} \cup Children(o) |-> IF x \in Members(o) THEN place(x) ELSE Len(items) + 1]
    <3>1. ASSUME NEW i \in 1..Len(items) PROVE place(items[i]) = i /\ r[items[i]] = i
      <4>1. place(items[i]) = i
        BY <2>2
      <4>2. items[i] \in Members(o)
        BY <2>1
      <4> HIDE DEF place
      <4> QED
        BY <4>1, <4>2 DEF Children
    <3>2. \A x \in onDone[o] : r[x] = Len(items) + 1
      BY <2>2 DEF Children
    <3>3. r \in [{o} \cup Children(o) -> Nat]
      <4>1. \A x \in Members(o) : place(x) \in Nat
        BY <2>1, <3>1
      <4> HIDE DEF place
      <4> QED
        BY <2>1, <4>1
    <3> HIDE DEF r
    <3>4. ASSUME NEW e \in Edges(o) PROVE r[e[1]] < r[e[2]]
      <4>1. CASE e \in {<<items[i], items[i + 1]>> : i \in 1 .. Len(items) - 1}
        <5>1. PICK i \in 1..Len(items) - 1 : e[1] = items[i] /\ e[2] = items[i + 1]
          BY <4>1
        <5>2. i \in 1..Len(items) /\ i + 1 \in 1..Len(items)
          BY <2>1
        <5>3. r[e[1]] = i /\ r[e[2]] = i + 1
          BY <3>1, <5>1, <5>2
        <5> QED
          BY <5>2, <5>3
      <4>2. CASE e \in {items[Len(items)]} \X onDone[o]
        <5>1. Len(items) \in 1..Len(items)
          BY <2>1
        <5>2. r[e[1]] = Len(items) /\ r[e[2]] = Len(items) + 1
          BY <3>1, <3>2, <4>2, <5>1
        <5> QED
          BY <2>1, <5>2
      <4> QED
        BY <2>4, <2>6, <4>1, <4>2
    <3> QED
      BY <3>3, <3>4
  <2> QED
    BY <2>1, <2>5, <2>6
<1> QED
  BY <1>3, <1>4 DEF Objects

\* The jobs of an object that are not those of another that belongs to it, and those of each
Block(o, x) == IF x = o THEN {o} \cap Delayables ELSE Vertices(x)

\* The blocks of an object are apart, and are all there is.
LEMMA BlocksAre ==
  ASSUME GraphInv, NEW o \in Objects
  PROVE  /\ Vertices(o) = UNION {Block(o, x) : x \in {o} \cup Children(o)}
         /\ \A x, y \in {o} \cup Children(o) : Block(o, x) \cap Block(o, y) # {} => x = y
         /\ o \notin Children(o)
<1>0. GraphTypes /\ VisitIs(o)
  BY VisitedIs DEF GraphInv
<1>1. o \notin Children(o)
  BY <1>0, NotBelowItself DEF VisitIs
<1>2. Vertices(o) = UNION {Block(o, x) : x \in {o} \cup Children(o)}
  <2>1. Visited(o) = {o} \cup UNION {Visited(c) : c \in Children(o)}
    BY <1>0, VisitedBelow
  <2> QED
    BY <1>1, <2>1 DEF Vertices, Block
<1>3. ASSUME NEW x \in {o} \cup Children(o), NEW y \in {o} \cup Children(o), x # y
      PROVE  Block(o, x) \cap Block(o, y) = {}
  <2>1. CASE x # o /\ y # o
    BY <1>3, <2>1, ChildrenApart DEF Block, Vertices
  <2>2. CASE x = o
    BY <1>3, <2>2, NotBelowItself DEF Block, Vertices
  <2>3. CASE y = o
    BY <1>3, <2>3, NotBelowItself DEF Block, Vertices
  <2> QED
    BY <2>1, <2>2, <2>3
<1> QED
  BY <1>1, <1>2, <1>3

\* A dependency is between the blocks of an edge of the object, or in the graph of a child.
LEMMA ConnectedParts ==
  ASSUME GraphInv, NEW o \in Objects, NEW e \in Connected(o)
  PROVE  \/ \E c \in Children(o) : e \in Connected(c)
         \/ \E f \in Edges(o) : /\ f[1] \in {o} \cup Children(o) /\ f[2] \in Children(o)
                                /\ e[1] \in Block(o, f[1]) /\ e[2] \in Block(o, f[2])
<1>0. GraphTypes /\ VisitIs(o) /\ o \notin Children(o)
  BY VisitedIs, BlocksAre DEF GraphInv
<1>a. PICK x \in Visited(o) : \E f \in Edges(x) : e \in Ends[f[1]].tail \X Ends[f[2]].head
  BY DEF Connected
<1>1. PICK f \in Edges(x) : e \in Ends[f[1]].tail \X Ends[f[2]].head
  BY <1>a
<1>2. CASE x = o
  <2>1. /\ f[1] \in {o} \cup Members(o) /\ f[2] \in Children(o)
        /\ f[1] = o => o \in Delayables
    BY <1>0, <1>2, EdgesBetween
  <2>2. f[1] \in Objects /\ f[2] \in Objects /\ f[2] # o
    BY <1>0, <2>1, ChildrenAre DEF Children
  <2>3. e[2] \in Block(o, f[2])
    BY <1>0, <1>1, <2>2, EndsWithin DEF Block
  <2>4. e[1] \in Block(o, f[1])
    <3>1. CASE f[1] = o
      <4>1. Ends[o] = [head |-> {o}, tail |-> {o}]
        BY <1>0, <2>1, <3>1, EndsAre DEF EndsFrom
      <4> QED
        BY <1>1, <2>1, <3>1, <4>1 DEF Block
    <3>2. CASE f[1] # o
      BY <1>0, <1>1, <2>2, <3>2, EndsWithin DEF Block
    <3> QED
      BY <3>1, <3>2
  <2> QED
    BY <1>2, <2>1, <2>3, <2>4 DEF Children
<1>3. CASE x # o
  <2>1. PICK c \in Children(o) : x \in Visited(c)
    BY <1>0, <1>3, VisitedBelow
  <2>2. f \in UNION {Edges(y) : y \in Visited(c)}
    BY <2>1
  <2>3. e \in Connected(c)
    BY <1>1, <2>2 DEF Connected
  <2> QED
    BY <2>3
<1> QED
  BY <1>2, <1>3

\* What is composed of what has no cycle has none: the first of the lowest block is free.
LEMMA AcyclicFromBelow ==
  ASSUME GraphInv, NEW o \in Objects, \A c \in Children(o) : Acyclic(c)
  PROVE  Acyclic(o)
<1>0. GraphTypes /\ \A c \in Children(o) : c \in Objects /\ c # o
  BY ChildrenAre, BlocksAre DEF GraphInv
<1>1. PICK r \in [{o} \cup Children(o) -> Nat] : \A f \in Edges(o) : r[f[1]] < r[f[2]]
  BY Ranks
<1> SUFFICES ASSUME NEW W \in SUBSET Vertices(o), W # {}
             PROVE  \E w \in W : \A e \in Connected(o) : e[2] = w => e[1] \notin W
  BY DEF Acyclic
<1> DEFINE Met == {x \in {o} \cup Children(o) : Block(o, x) \cap W # {}}
           R == {r[x] : x \in Met}
<1>2. R \in SUBSET Nat /\ R # {}
  <2>1. PICK w : w \in W /\ w \in Vertices(o)
    OBVIOUS
  <2>2. PICK x \in {o} \cup Children(o) : w \in Block(o, x)
    BY <2>1, BlocksAre
  <2> QED
    BY <2>1, <2>2
<1>3. PICK n \in R : \A m \in R : n <= m
  BY <1>2, NatLeast
<1>4. PICK x \in Met : r[x] = n
  BY <1>3
<1>5. \A y \in Met : r[x] <= r[y]
  BY <1>3, <1>4
<1>6. x \in {o} \cup Children(o) /\ Block(o, x) \cap W # {}
  BY <1>4
<1>7. \A y \in {o} \cup Children(o) : Block(o, y) \cap W # {} => r[x] <= r[y]
  BY <1>5
<1> HIDE DEF Met, R
<1>8. \E w \in Block(o, x) \cap W :
        \A c \in Children(o) : \A e \in Connected(c) : e[2] = w => e[1] \notin W
  <2>1. ASSUME NEW c \in Children(o), NEW e \in Connected(c), e[2] \in Block(o, x)
        PROVE  c = x /\ x # o
    <3>1. e[2] \in Vertices(c)
      BY <1>0, ConnectedWithin
    <3>2. e[2] \in Block(o, c)
      BY <1>0, <3>1 DEF Block
    <3>3. c = x
      BY <1>6, <2>1, <3>2, BlocksAre
    <3> QED
      BY <1>0, <3>3
  <2>2. CASE x = o
    BY <1>6, <2>1, <2>2
  <2>3. CASE x # o
    <3>1. x \in Children(o) /\ Block(o, x) = Vertices(x) /\ Acyclic(x)
      BY <1>6, <2>3 DEF Block
    <3>2. PICK w \in Vertices(x) \cap W :
            \A e \in Connected(x) : e[2] = w => e[1] \notin Vertices(x) \cap W
      BY <1>6, <3>1 DEF Acyclic
    <3>3. \A e \in Connected(x) : e[1] \in Vertices(x)
      BY <1>0, <3>1, ConnectedWithin
    <3> QED
      BY <2>1, <3>1, <3>2, <3>3
  <2> QED
    BY <2>2, <2>3
<1>9. PICK w \in Block(o, x) \cap W :
        \A c \in Children(o) : \A e \in Connected(c) : e[2] = w => e[1] \notin W
  BY <1>8
<1>10. ASSUME NEW e \in Connected(o), e[2] = w, e[1] \in W PROVE FALSE
  <2>1. PICK f \in Edges(o) : /\ f[1] \in {o} \cup Children(o) /\ f[2] \in Children(o)
                              /\ e[1] \in Block(o, f[1]) /\ e[2] \in Block(o, f[2])
    BY <1>9, <1>10, ConnectedParts
  <2>2. f[2] = x
    BY <1>6, <1>9, <1>10, <2>1, BlocksAre
  <2>3. r[x] <= r[f[1]]
    BY <1>7, <1>10, <2>1
  <2>4. r[f[1]] < r[x]
    BY <1>1, <2>1, <2>2
  <2>5. r[x] \in Nat /\ r[f[1]] \in Nat
    BY <1>1, <1>6, <2>1
  <2> QED
    BY <2>3, <2>4, <2>5
<1> QED
  BY <1>9, <1>10

LEMMA AllAcyclic ==
  ASSUME GraphInv
  PROVE  \A o \in Objects : Acyclic(o)
<1> DEFINE W == {o \in Objects : ~Acyclic(o)}
<1> SUFFICES ASSUME W # {} PROVE FALSE
  OBVIOUS
<1>1. GraphTypes /\ Founded /\ W \in SUBSET Objects
  BY DEF GraphInv
<1>2. PICK w \in W : Children(w) \cap W = {}
  BY <1>1 DEF Founded
<1>3. \A c \in Children(w) : Acyclic(c)
  BY <1>1, <1>2, ChildrenAre
<1> QED
  BY <1>2, <1>3, AcyclicFromBelow

-----------------------------------------------------------------------------
(* Nothing is lost on the way to the table, or to its end *)

TableInv ==
  /\ keyed \in KeyedSets /\ existing \subseteq keyed
  /\ top = Nothing => rows = {} /\ handles = {}
  /\ handles # {} => Vertices(top) \subseteq rows \cup existing
  /\ rows # {} => rows = Vertices(top)

\* What job c still waits for when those of done have been executed
LeftFor(c, done) == {e \in edges : e[2] = c /\ e[1] \notin done}

Performing ==
  /\ executed \subseteq Vertices(top)
  /\ \A c \in Vertices(top) : todo[c] = Cardinality(LeftFor(c, executed))
  /\ ready = {c \in Vertices(top) \ executed : LeftFor(c, executed) = {}}
  /\ \A c \in executed : LeftFor(c, executed) = {}

DirectInv ==
  /\ top = Nothing => ready = {} /\ executed = {}
  /\ ready # {} \/ executed # {} => Performing

DroppedInv == GraphInv /\ TopInv /\ TableInv /\ DirectInv

\* The graph of the top object is one of finitely many jobs, without a cycle.
LEMMA TopGraph ==
  ASSUME GraphInv, TopInv, top # Nothing
  PROVE  /\ edges \subseteq Vertices(top) \X Vertices(top) /\ Vertices(top) \subseteq Delayables
         /\ IsFiniteSet(Vertices(top)) /\ IsFiniteSet(edges)
         /\ \A c, done : IsFiniteSet(LeftFor(c, done))
         /\ \A W \in SUBSET Vertices(top) :
              W # {} => \E w \in W : \A e \in edges : e[2] = w => e[1] \notin W
         /\ \A e \in edges : e = <<e[1], e[2]>> /\ e[1] # e[2]
<1>1. GraphTypes /\ top \in Objects /\ edges = Connected(top)
  BY DEF GraphInv, TopInv
<1>2. edges \subseteq Vertices(top) \X Vertices(top)
  BY <1>1, ConnectedWithin
<1>3. Vertices(top) \subseteq Delayables
  BY DEF Vertices
<1>4. IsFiniteSet(Vertices(top))
  BY <1>3, DelayGraphAssumption, FS_Subset
<1>5. IsFiniteSet(edges)
  <2>1. IsFiniteSet(Vertices(top) \X Vertices(top))
    BY <1>4, FS_Product
  <2> QED
    BY <1>2, <2>1, FS_Subset
<1>6. ASSUME NEW c, NEW done PROVE IsFiniteSet(LeftFor(c, done))
  <2>1. LeftFor(c, done) \subseteq edges
    BY DEF LeftFor
  <2> QED
    BY <1>5, <2>1, FS_Subset
<1>7. \A W \in SUBSET Vertices(top) :
        W # {} => \E w \in W : \A e \in edges : e[2] = w => e[1] \notin W
  BY <1>1, AllAcyclic DEF Acyclic
<1>8. ASSUME NEW e \in edges PROVE e = <<e[1], e[2]>> /\ e[1] # e[2]
  <2>1. e = <<e[1], e[2]>> /\ e[2] \in Vertices(top)
    BY <1>2
  <2>2. {e[2]} \in SUBSET Vertices(top) /\ {e[2]} # {}
    BY <2>1
  <2>3. e[1] \notin {e[2]}
    BY <1>7, <2>2
  <2> QED
    BY <2>1, <2>3
<1> QED
  BY <1>2, <1>3, <1>4, <1>5, <1>6, <1>7, <1>8

\* NothingDropped in every state of the invariant.
LEMMA NothingDroppedHolds ==
  ASSUME DroppedInv
  PROVE  NothingDropped
<1>1. ASSUME handles # {} PROVE Vertices(top) \subseteq rows \cup existing
  BY <1>1 DEF DroppedInv, TableInv
<1>2. ASSUME NEW j \in rows, edges # {}
      PROVE  GraphShown(j) = [nodes |-> Vertices(top), edges |-> edges]
  <2>1. rows = Vertices(top) /\ top # Nothing
    BY DEF DroppedInv, TableInv
  <2>2. /\ edges \subseteq Vertices(top) \X Vertices(top) /\ IsFiniteSet(Vertices(top))
        /\ \A e \in edges : e = <<e[1], e[2]>> /\ e[1] # e[2]
    BY <2>1, TopGraph DEF DroppedInv
  <2>3. PICK e \in edges : TRUE
    BY <1>2
  <2>4. e[1] # e[2] /\ e[1] \in rows /\ e[2] \in rows
    BY <2>1, <2>2, <2>3
  <2>5. Cardinality(rows) > 1
    <3>1. Cardinality({e[1]}) = 1
      BY FS_Singleton
    <3>2. {e[1]} \subseteq rows /\ IsFiniteSet(rows)
      BY <2>1, <2>2, <2>4
    <3>3. Cardinality({e[1]}) <= Cardinality(rows)
      BY <3>2, FS_Subset
    <3>4. Cardinality(rows) \in Nat
      BY <3>2, FS_CardinalityType
    <3>5. Cardinality(rows) # 1
      <4> SUFFICES ASSUME Cardinality(rows) = 1 PROVE FALSE
        OBVIOUS
      <4>1. \E x : rows = {x}
        BY <3>2, FS_Singleton
      <4> QED
        BY <2>4, <4>1
    <3> QED
      BY <3>1, <3>3, <3>4, <3>5
  <2>6. InGraph(rows) = rows
    BY <2>5 DEF InGraph
  <2>7. {f \in edges : f[1] \in rows /\ f[2] \in rows} = edges
    BY <2>1, <2>2
  <2> QED
    BY <1>2, <2>1, <2>6, <2>7 DEF GraphShown
<1>3. ASSUME top # Nothing, ready # {} \/ executed # {}
      PROVE  /\ \A e \in edges : e[2] \in executed \cup ready => e[1] \in executed
             /\ ready = {} => executed = Vertices(top)
  <2>1. Performing
    BY <1>3 DEF DroppedInv, DirectInv
  <2>2. /\ edges \subseteq Vertices(top) \X Vertices(top)
        /\ \A W \in SUBSET Vertices(top) :
             W # {} => \E w \in W : \A e \in edges : e[2] = w => e[1] \notin W
    BY <1>3, TopGraph DEF DroppedInv
  <2>3. ASSUME NEW e \in edges, e[2] \in executed \cup ready PROVE e[1] \in executed
    <3>1. LeftFor(e[2], executed) = {}
      BY <2>1, <2>3 DEF Performing
    <3> QED
      BY <3>1 DEF LeftFor
  <2>4. ASSUME ready = {} PROVE executed = Vertices(top)
    <3> SUFFICES ASSUME Vertices(top) \ executed # {} PROVE FALSE
      BY <2>1 DEF Performing
    <3>1. PICK w \in Vertices(top) \ executed :
            \A e \in edges : e[2] = w => e[1] \notin Vertices(top) \ executed
      BY <2>2
    <3>2. LeftFor(w, executed) = {}
      BY <2>2, <3>1 DEF LeftFor
    <3> QED
      BY <2>1, <2>4, <3>1, <3>2 DEF Performing
  <2> QED
    BY <2>3, <2>4
<1> QED
  BY <1>1, <1>2, <1>3 DEF NothingDropped

\* One job more executed leaves one dependency less to those that wait for it.
LEMMA ExecutedLeaves ==
  ASSUME GraphInv, TopInv, top # Nothing, NEW done, NEW j, j \notin done, NEW c
  PROVE  /\ <<j, c>> \in edges =>
              /\ LeftFor(c, done) # {}
              /\ Cardinality(LeftFor(c, done \cup {j})) = Cardinality(LeftFor(c, done)) - 1
              /\ Cardinality(LeftFor(c, done)) \in Nat
         /\ <<j, c>> \notin edges => LeftFor(c, done \cup {j}) = LeftFor(c, done)
<1>1. IsFiniteSet(LeftFor(c, done)) /\ \A e \in edges : e = <<e[1], e[2]>>
  BY TopGraph
<1>2. LeftFor(c, done \cup {j}) = LeftFor(c, done) \ {<<j, c>>}
  BY <1>1 DEF LeftFor
<1>3. ASSUME <<j, c>> \in edges PROVE <<j, c>> \in LeftFor(c, done)
  BY <1>3 DEF LeftFor
<1>4. ASSUME <<j, c>> \notin edges PROVE <<j, c>> \notin LeftFor(c, done)
  BY <1>4 DEF LeftFor
<1>5. ASSUME <<j, c>> \in edges
      PROVE  Cardinality(LeftFor(c, done \cup {j})) = Cardinality(LeftFor(c, done)) - 1
  BY <1>1, <1>2, <1>3, <1>5, FS_RemoveElement
<1> QED
  BY <1>1, <1>2, <1>3, <1>4, <1>5, FS_CardinalityType

\* The sort goes on.
LEMMA PerformingGoesOn ==
  ASSUME GraphInv, TopInv, DirectInv, NEW j \in Delayables, ExecuteDirectly(j)
  PROVE  DirectInv'
<1>1. top # Nothing /\ Performing
  BY DEF DirectInv, ExecuteDirectly
<1>2. UNCHANGED graphVars /\ top' = top /\ edges' = edges /\ executed' = executed \cup {j}
  BY DEF ExecuteDirectly
<1>3. \A o : Vertices(o)' = Vertices(o)
  BY <1>2, SameGraph
<1>4. Vertices(top)' = Vertices(top)
  BY <1>2, <1>3 DEF Vertices
<1>5. j \in Vertices(top) /\ j \notin executed /\ LeftFor(j, executed) = {}
  BY <1>1 DEF ExecuteDirectly, Performing
<1>6. \A c, done : LeftFor(c, done)' = LeftFor(c, done)
  BY <1>2 DEF LeftFor
<1>7. \A c : \/ /\ <<j, c>> \in edges /\ LeftFor(c, executed) # {}
                /\ Cardinality(LeftFor(c, executed \cup {j})) = Cardinality(LeftFor(c, executed)) - 1
                /\ Cardinality(LeftFor(c, executed)) \in Nat
             \/ /\ <<j, c>> \notin edges /\ LeftFor(c, executed \cup {j}) = LeftFor(c, executed)
  BY <1>1, <1>5, ExecutedLeaves
<1>8. /\ Vertices(top) \subseteq Delayables /\ edges \subseteq Vertices(top) \X Vertices(top)
      /\ \A c, done : IsFiniteSet(LeftFor(c, done))
      /\ \A e \in edges : e = <<e[1], e[2]>> /\ e[1] # e[2]
  BY <1>1, TopGraph
<1> DEFINE next == {e[2] : e \in {f \in edges : f[1] = j}}
<1>9. \A c : c \in next <=> <<j, c>> \in edges
  BY <1>8
<1>10. next \subseteq Vertices(top) /\ next \cap executed = {} /\ j \notin next
  BY <1>1, <1>7, <1>8, <1>9 DEF Performing
<1>11. /\ \A c \in next : todo'[c] = todo[c] - 1
       /\ \A c \in Vertices(top) \ next : todo'[c] = todo[c]
       /\ ready' = (ready \ {j}) \cup {c \in next : todo[c] - 1 = 0}
  BY <1>8, <1>10 DEF ExecuteDirectly, LeftAfter
<1> HIDE DEF next
<1>12. ASSUME NEW c \in Vertices(top)
       PROVE  todo'[c] = Cardinality(LeftFor(c, executed \cup {j}))
  BY <1>1, <1>7, <1>9, <1>11 DEF Performing
<1>13. ASSUME NEW c \in Vertices(top) \ (executed \cup {j})
       PROVE  c \in ready' <=> LeftFor(c, executed \cup {j}) = {}
  <2>1. CASE c \in next
    <3>1. c \notin ready
      BY <1>1, <1>7, <1>9, <2>1 DEF Performing
    <3>2. c \in ready' <=> todo'[c] = 0
      BY <1>11, <2>1, <3>1
    <3>3. Cardinality(LeftFor(c, executed \cup {j})) = 0 <=> LeftFor(c, executed \cup {j}) = {}
      BY <1>8, FS_EmptySet
    <3> QED
      BY <1>12, <3>2, <3>3
  <2>2. CASE c \notin next
    BY <1>1, <1>7, <1>9, <1>11, <1>13, <2>2 DEF Performing
  <2> QED
    BY <2>1, <2>2
<1>14. ready' \subseteq Vertices(top) \ (executed \cup {j})
  BY <1>1, <1>10, <1>11 DEF Performing
<1>15. ASSUME NEW c \in executed \cup {j} PROVE LeftFor(c, executed \cup {j}) = {}
  BY <1>1, <1>5, <1>7, <1>9, <1>10 DEF Performing
<1>16. \A c : LeftFor(c, executed)' = LeftFor(c, executed \cup {j})
  BY <1>2 DEF LeftFor
<1>17. Performing'
  <2>1. executed' \subseteq Vertices(top)'
    BY <1>1, <1>2, <1>4, <1>5 DEF Performing
  <2>2. \A c \in Vertices(top)' : todo'[c] = Cardinality(LeftFor(c, executed)')
    BY <1>4, <1>12, <1>16
  <2>3. ready' = {c \in Vertices(top)' \ executed' : LeftFor(c, executed)' = {}}
    BY <1>2, <1>4, <1>13, <1>14, <1>16
  <2>4. \A c \in executed' : LeftFor(c, executed)' = {}
    BY <1>2, <1>15, <1>16
  <2> QED
    BY <2>1, <2>2, <2>3, <2>4 DEF Performing
<1> QED
  BY <1>1, <1>2, <1>17 DEF DirectInv

\* delay() stores the jobs, or finds all of them, and touches the table once.
LEMMA TableStays ==
  ASSUME KeyedSets \subseteq {{}, Delayables}, TableInv, [NextGraph]_delayVars
  PROVE  TableInv'
<1>1. CASE UNCHANGED <<keyVars, rows, handles>> /\ (top' = top \/ top = Nothing)
           /\ (top # Nothing => UNCHANGED graphVars)
  <2>1. CASE top = Nothing
    BY <1>1, <2>1 DEF TableInv, keyVars
  <2>2. CASE top # Nothing
    <3>1. \A o : Vertices(o)' = Vertices(o)
      BY <1>1, <2>2, SameGraph
    <3>2. top' = top /\ Vertices(top)' = Vertices(top)
      BY <1>1, <2>2, <3>1 DEF Vertices
    <3> QED
      BY <1>1, <3>2 DEF TableInv, keyVars
  <2> QED
    BY <2>1, <2>2
<1>2. ASSUME NEW o \in Objects, DelayTop(o) PROVE TableInv'
  <2>1. UNCHANGED <<keyVars, graphVars>> /\ top' = o /\ o # Nothing
    BY <1>2, DelayGraphAssumption DEF DelayTop, Objects, Composites, Nothing
  <2>2. Vertices(o)' = Vertices(o)
    BY <2>1, SameGraph
  <2>3. Vertices(top)' = Vertices(o)
    BY <2>1, <2>2 DEF Vertices
  <2>4. keyed' = keyed /\ existing' = existing /\ keyed \in KeyedSets /\ existing \subseteq keyed
    BY <2>1 DEF keyVars, TableInv
  <2>5. CASE AllExist(Vertices(o))
    <3>1. rows' = rows /\ rows = {}
      BY <1>2, <2>5 DEF DelayTop, TableInv
    <3>2. keyed = Delayables
      BY <2>4, <2>5 DEF AllExist
    <3>3. Vertices(o) \subseteq keyed
      BY <3>2 DEF Vertices
    <3>4. Vertices(o) \subseteq existing
      BY <2>5, <3>3 DEF AllExist, SameKey
    <3> QED
      BY <2>1, <2>3, <2>4, <3>1, <3>4 DEF TableInv
  <2>6. CASE ~AllExist(Vertices(o))
    <3>1. rows' = Vertices(o)
      BY <1>2, <2>6 DEF DelayTop
    <3> QED
      BY <2>1, <2>3, <2>4, <3>1 DEF TableInv
  <2> QED
    BY <2>5, <2>6
<1>3. ASSUME NEW o \in Objects, DelayDirectly(o) PROVE TableInv'
  BY <1>1, <1>3 DEF DelayDirectly
<1>4. ASSUME NEW j \in Delayables, ExecuteDirectly(j) PROVE TableInv'
  BY <1>1, <1>4 DEF ExecuteDirectly
<1>5. ASSUME NEW kind, NEW items, Compose(kind, items) PROVE TableInv'
  BY <1>1, <1>5 DEF Compose
<1>6. ASSUME NEW x, NEW y, OnDone(x, y) PROVE TableInv'
  BY <1>1, <1>6 DEF OnDone
<1>7. CASE UNCHANGED delayVars
  BY <1>1, <1>7 DEF delayVars
<1> QED
  BY <1>2, <1>3, <1>4, <1>5, <1>6, <1>7 DEF NextGraph

\* The sort begins with the jobs nothing comes before.
LEMMA DirectStays ==
  ASSUME GraphInv, TopInv, DirectInv, [NextGraph]_delayVars
  PROVE  DirectInv'
<1>1. ASSUME NEW o \in Objects, DelayDirectly(o) PROVE DirectInv'
  <2>1. /\ UNCHANGED <<graphVars, executed>> /\ top = Nothing /\ top' = o /\ o # Nothing
        /\ edges' = Connected(o) /\ executed = {}
    BY <1>1, DelayGraphAssumption DEF DelayDirectly, Objects, Composites, Nothing, DirectInv
  <2>2. Vertices(o)' = Vertices(o) /\ o \in Objects
    BY <2>1, SameGraph
  <2>3. Vertices(top)' = Vertices(o) /\ Vertices(o) \subseteq Delayables
    BY <2>1, <2>2 DEF Vertices
  <2>4. \A c : LeftFor(c, executed)' = {e \in Connected(o) : e[2] = c}
    BY <2>1 DEF LeftFor
  <2>5. ASSUME NEW c \in Vertices(o) PROVE todo'[c] = Cardinality(LeftFor(c, executed)')
    BY <1>1, <2>3, <2>4 DEF DelayDirectly, Degree
  <2>6. ASSUME NEW c \in Vertices(o) PROVE IsFiniteSet(LeftFor(c, executed)')
    <3>1. IsFiniteSet(Vertices(o))
      BY <2>3, DelayGraphAssumption, FS_Subset
    <3>2. IsFiniteSet(Vertices(o) \X Vertices(o))
      BY <3>1, FS_Product
    <3>3. Connected(o) \subseteq Vertices(o) \X Vertices(o)
      BY <2>2, ConnectedWithin DEF GraphInv
    <3>4. LeftFor(c, executed)' \subseteq Vertices(o) \X Vertices(o)
      BY <2>4, <3>3
    <3> QED
      BY <3>2, <3>4, FS_Subset
  <2>7. ready' = {c \in Vertices(o) : LeftFor(c, executed)' = {}}
    <3>1. ready' = {c \in Vertices(o) : Cardinality(LeftFor(c, executed)') = 0}
      BY <1>1, <2>4 DEF DelayDirectly, Degree
    <3> QED
      BY <2>6, <3>1, FS_EmptySet
  <2>8. Performing'
    BY <2>1, <2>3, <2>5, <2>7 DEF Performing
  <2> QED
    BY <2>1, <2>8 DEF DirectInv
<1>2. ASSUME NEW j \in Delayables, ExecuteDirectly(j) PROVE DirectInv'
  BY <1>2, PerformingGoesOn
<1>3. CASE UNCHANGED directVars /\ top = Nothing
  BY <1>3 DEF DirectInv, directVars
<1>4. ASSUME NEW o \in Objects, DelayTop(o) PROVE DirectInv'
  BY <1>3, <1>4 DEF DelayTop
<1>5. ASSUME NEW kind, NEW items, Compose(kind, items) PROVE DirectInv'
  BY <1>3, <1>5 DEF Compose
<1>6. ASSUME NEW x, NEW y, OnDone(x, y) PROVE DirectInv'
  BY <1>3, <1>6 DEF OnDone
<1>7. CASE UNCHANGED delayVars
  <2>1. /\ UNCHANGED <<graphVars, top, edges, todo, ready, executed>>
        /\ \A o : Vertices(o)' = Vertices(o)
    BY <1>7, SameGraph DEF delayVars, directVars
  <2>2. Vertices(top)' = Vertices(top)
    BY <2>1 DEF Vertices
  <2>3. \A c : LeftFor(c, executed)' = LeftFor(c, executed)
    BY <2>1 DEF LeftFor
  <2>4. Performing => Performing'
    BY <2>1, <2>2, <2>3 DEF Performing
  <2> QED
    BY <2>1, <2>4 DEF DirectInv
<1> QED
  BY <1>1, <1>2, <1>4, <1>5, <1>6, <1>7 DEF NextGraph

\* Where all jobs have an identity key or none has, delay() leaves each in the table, created or
\* found, with all its dependencies; performed at once, each is performed, after what it depends on.
THEOREM NothingIsDropped ==
  ASSUME KeyedSets \subseteq {{}, Delayables}
  PROVE  SpecGraph => []NothingDropped
<1>1. InitGraph => DroppedInv
  <2> SUFFICES ASSUME InitGraph PROVE TopInv /\ TableInv /\ DirectInv
    BY GraphFirst DEF DroppedInv
  <2> QED
    BY DEF InitGraph, TopInv, TableInv, DirectInv
<1>2. DroppedInv /\ [NextGraph]_delayVars => DroppedInv'
  BY GraphStays, TopStays, TableStays, DirectStays DEF DroppedInv
<1>3. DroppedInv => NothingDropped
  BY NothingDroppedHolds
<1> QED
  BY <1>1, <1>2, <1>3, PTL DEF SpecGraph

=============================================================================
