------------------------ MODULE TaskExecution_proofs ------------------------
(***************************************************************************)
(* TaskExecution's properties for every set of workers and reconcilers,    *)
(* every attempt budget and any number of disturbances.                    *)
(*                                                                         *)
(* ExecutionInv needs no assumption on the environment: the row lock of    *)
(* the claim is enough.  ReconcileInv needs the reconcile lease to be      *)
(* exclusive, so the theorems that rest on it assume that no pass outlives *)
(* its lease ("reconcile_overrun" is not a disturbance).  IntegrationInv   *)
(* also needs a pass that integrates to live until it has settled the task *)
(* ("reconcile_failure" is not one either).                                *)
(***************************************************************************)
EXTENDS TaskExecution, TLAPS

USE DEF broker, fileVars, resultRows, controlVars, history

\* Every statement that writes a row, a file or a message keeps it well formed.
THEOREM TypeCorrect == Spec => []TypeOK
<1> USE DEF TypeOK, Task, Worker, Recon, Identity, Result, Outcomes,
            WorkerPcs, ReconPcs, TaskStatuses, Dispatchable,
            TERMINAL_TASK_STATUSES, SUCCESS_TASK_STATUSES, IdentityOf,
            NoIdentity, NoResult, IdleWorker, IdleRecon, TaskWith, WorkerAt,
            FinalizerAt, SchedulerAt, Disturb
<1>1. Init => TypeOK
  BY ConstantsAssumption DEF Init
<1>2. TypeOK /\ [Next]_vars => TypeOK'
  <2> SUFFICES ASSUME TypeOK, [Next]_vars PROVE TypeOK'
    OBVIOUS
  <2> USE ConstantsAssumption
  <2>1. ASSUME NEW m \in outbox, RelayPublish(m) PROVE TypeOK'
    BY <2>1 DEF RelayPublish
  <2>2. ASSUME NEW m \in outbox, RelayCrash(m) PROVE TypeOK'
    BY <2>2 DEF RelayCrash
  <2>3. ASSUME NEW m \in outbox, RelayDeadLetter(m) PROVE TypeOK'
    BY <2>3 DEF RelayDeadLetter
  <2>4. ASSUME NEW w \in Workers, NEW m \in queue, ClaimExecution(w, m) PROVE TypeOK'
    BY <2>4 DEF ClaimExecution, Claimable
  <2>5. ASSUME NEW w \in Workers, NEW m \in queue, AckStale(w, m) PROVE TypeOK'
    BY <2>5 DEF AckStale, Claimable
  <2>6. ASSUME NEW w \in Workers, LoadDescriptor(w) PROVE TypeOK'
    BY <2>6 DEF LoadDescriptor
  <2>7. ASSUME NEW w \in Workers, WriteRepairCheckpoint(w) PROVE TypeOK'
    <3>1. worker[w].id.attempt \in Nat
      OBVIOUS
    <3>2. checkpoints' \in SUBSET Nat
      BY <2>7, <3>1 DEF WriteRepairCheckpoint
    <3> QED BY <2>7, <3>2 DEF WriteRepairCheckpoint
  <2>8. ASSUME NEW w \in Workers, Heartbeat(w) PROVE TypeOK'
    BY <2>8 DEF Heartbeat
  <2>9. ASSUME NEW w \in Workers, ExecutorExit(w) PROVE TypeOK'
    BY <2>9 DEF ExecutorExit
  <2>10. ASSUME NEW w \in Workers, ExecutorAbort(w) PROVE TypeOK'
    BY <2>10 DEF ExecutorAbort
  <2>11. ASSUME NEW w \in Workers, WriteResultFile(w) PROVE TypeOK'
    BY <2>11 DEF WriteResultFile
  <2>12. ASSUME NEW w \in Workers, CommitResult(w) PROVE TypeOK'
    BY <2>12 DEF CommitResult
  <2>13. ASSUME NEW w \in Workers, WorkerCrash(w) PROVE TypeOK'
    BY <2>13 DEF WorkerCrash
  <2>14. ASSUME NEW r \in Reconcilers, ReconcileClaim(r) PROVE TypeOK'
    BY <2>14 DEF ReconcileClaim
  <2>15. ASSUME NEW r \in Reconcilers, FinalizeDiscard(r) PROVE TypeOK'
    BY <2>15 DEF FinalizeDiscard, Oldest, Loaded, staleExecutionResult
  <2>16. ASSUME NEW r \in Reconcilers, FinalizeReceive(r) PROVE TypeOK'
    BY <2>16 DEF FinalizeReceive, Oldest, Loaded, staleExecutionResult
  <2>17. ASSUME NEW r \in Reconcilers, IntegrateWorkspace(r) PROVE TypeOK'
    <3> DEFINE x == recon[r].result
    <3>1. recon[r] \in Recon /\ x \in Result /\ Failed(x) \in Result
      BY DEF Failed
    <3>2. CASE Step(r, "settle") /\ UNCHANGED integrated
      BY <2>17, <3>1, <3>2 DEF IntegrateWorkspace, Step
    <3>3. CASE Step(r, "settle") /\ integrated' = integrated \cup {x.generation}
      <4>1. x.generation \in Nat
        BY <3>1
      <4>2. integrated' \in SUBSET Nat
        BY <3>3, <4>1
      <4>3. recon' \in [Reconcilers -> Recon]
        BY <3>1, <3>3 DEF Step
      <4> QED BY <2>17, <4>2, <4>3 DEF IntegrateWorkspace
    <3>4. CASE /\ UNCHANGED integrated
               /\ recon' = [recon EXCEPT ![r] =
                              FinalizerAt(r, "settle", recon[r].todo,
                                          recon[r].row, Failed(x))]
      <4>1. FinalizerAt(r, "settle", recon[r].todo, recon[r].row, Failed(x))
              \in Recon
        BY <3>1
      <4>2. recon' \in [Reconcilers -> Recon]
        BY <3>4, <4>1
      <4> QED BY <2>17, <3>4, <4>2 DEF IntegrateWorkspace
    <3> QED BY <2>17, <3>2, <3>3, <3>4 DEF IntegrateWorkspace
  <2>18. ASSUME NEW r \in Reconcilers, SettleTask(r) PROVE TypeOK'
    BY <2>18 DEF SettleTask, Step, StatusAfter, RetryAllowed
  <2>19. ASSUME NEW r \in Reconcilers, ConsumeResult(r) PROVE TypeOK'
    BY <2>19 DEF ConsumeResult
  <2>20. ASSUME NEW r \in Reconcilers, BookkeepingFailure(r) PROVE TypeOK'
    BY <2>20 DEF BookkeepingFailure, Failed
  <2>21. ASSUME NEW r \in Reconcilers, RecoverScan(r) PROVE TypeOK'
    BY <2>21 DEF RecoverScan, Step
  <2>22. ASSUME NEW r \in Reconcilers, RecoverExpired(r) PROVE TypeOK'
    BY <2>22 DEF RecoverExpired, Step
  <2>23. ASSUME NEW r \in Reconcilers, PlanPass(r) PROVE TypeOK'
    <3>1. CASE Step(r, "release")
      BY <2>23, <3>1 DEF PlanPass, Step
    <3>2. CASE Step(r, "finish")
      BY <2>23, <3>2 DEF PlanPass, Step
    <3>3. CASE Step(r, "check")
      BY <2>23, <3>3 DEF PlanPass, Step
    <3> QED BY <2>23, <3>1, <3>2, <3>3 DEF PlanPass
  <2>24. ASSUME NEW r \in Reconcilers, SelectReady(r) PROVE TypeOK'
    BY <2>24 DEF SelectReady
  <2>25. ASSUME NEW r \in Reconcilers, PrepareTask(r) PROVE TypeOK'
    BY <2>25 DEF PrepareTask, RepairResumeCandidate
  <2>26. ASSUME NEW r \in Reconcilers, DispatchDenied(r) PROVE TypeOK'
    BY <2>26 DEF DispatchDenied, Step
  <2>27. ASSUME NEW r \in Reconcilers, PreparationFailure(r) PROVE TypeOK'
    BY <2>27 DEF PreparationFailure, Step, RetryAllowed
  <2>28. ASSUME NEW r \in Reconcilers, DispatchPreparedTask(r) PROVE TypeOK'
    BY <2>28 DEF DispatchPreparedTask, Step
  <2>29. ASSUME NEW r \in Reconcilers, DispatchSkipped(r) PROVE TypeOK'
    BY <2>29 DEF DispatchSkipped, Step
  <2>30. ASSUME NEW r \in Reconcilers, CheckPass(r) PROVE TypeOK'
    BY <2>30 DEF CheckPass, Step
  <2>31. ASSUME NEW r \in Reconcilers, FinishRun(r) PROVE TypeOK'
    BY <2>31 DEF FinishRun, Step
  <2>32. ASSUME NEW r \in Reconcilers, ReleaseReconcile(r) PROVE TypeOK'
    BY <2>32 DEF ReleaseReconcile, Released
  <2>33. ASSUME NEW r \in Reconcilers, ReconcileFailure(r) PROVE TypeOK'
    <3>1. reconcileLease' \in [owner : Reconcilers \cup {NoOwner},
                               expired : BOOLEAN]
      <4>1. CASE UNCHANGED reconcileLease
        BY <4>1
      <4>2. CASE reconcileLease' = Released(r)
        BY <4>2 DEF Released
      <4> QED BY <2>33, <4>1, <4>2 DEF ReconcileFailure
    <3>2. recon' \in [Reconcilers -> Recon]
      BY <2>33 DEF ReconcileFailure
    <3> QED BY <2>33, <3>1, <3>2 DEF ReconcileFailure
  <2>34. ASSUME CancelList PROVE TypeOK'
    BY <2>34 DEF CancelList
  <2>35. ASSUME CancelTask PROVE TypeOK'
    BY <2>35 DEF CancelTask
  <2>36. ASSUME CancelRun PROVE TypeOK'
    BY <2>36 DEF CancelRun
  <2>37. ASSUME LeaseExpires PROVE TypeOK'
    BY <2>37 DEF LeaseExpires
  <2>38. ASSUME ReconcileLeaseExpires PROVE TypeOK'
    BY <2>38 DEF ReconcileLeaseExpires
  <2>39. CASE UNCHANGED vars
    BY <2>39 DEF vars
  <2> QED
    BY <2>1, <2>2, <2>3, <2>4, <2>5, <2>6, <2>7, <2>8, <2>9, <2>10, <2>11, <2>12,
       <2>13, <2>14, <2>15, <2>16, <2>17, <2>18, <2>19, <2>20, <2>21, <2>22, <2>23,
       <2>24, <2>25, <2>26, <2>27, <2>28, <2>29, <2>30, <2>31, <2>32, <2>33,
       <2>34, <2>35, <2>36, <2>37, <2>38, <2>39
       DEF Next, RelayNext, WorkerNext, ReconcilerNext, FinalizerStep,
             SchedulerStep, CancelNext
<1> QED
  BY <1>1, <1>2, PTL DEF Spec

\* ExecutionInv: claim_execution's test of status and identity under the row
\* lock makes each generation the business of one worker, once, and every file
\* and row the trace of a generation that was claimed.
THEOREM ExecutionInvariant == Spec => []ExecutionInv
<1> USE DEF ExecutionInv, ClaimIsFresh, IdleWorker, IdleRecon, IdentityOf,
            NoIdentity, NoResult, TaskWith, WorkerAt, FinalizerAt,
            SchedulerAt, Disturb
<1>1. Init => ExecutionInv
  BY DEF Init
<1>2. TypeOK /\ ExecutionInv /\ [Next]_vars => ExecutionInv'
  <2> SUFFICES ASSUME TypeOK, ExecutionInv, [Next]_vars PROVE ExecutionInv'
    OBVIOUS
  <2> USE DEF TypeOK, Task, Worker, Recon, Identity, Result
  <2>1. ASSUME NEW m \in outbox, RelayPublish(m) PROVE ExecutionInv'
    BY <2>1 DEF RelayPublish
  <2>2. ASSUME NEW m \in outbox, RelayCrash(m) PROVE ExecutionInv'
    BY <2>2 DEF RelayCrash
  <2>3. ASSUME NEW m \in outbox, RelayDeadLetter(m) PROVE ExecutionInv'
    BY <2>3 DEF RelayDeadLetter
  <2>4. ASSUME NEW w \in Workers, NEW m \in queue, ClaimExecution(w, m) PROVE ExecutionInv'
    BY <2>4 DEF ClaimExecution, Claimable
  <2>5. ASSUME NEW w \in Workers, NEW m \in queue, AckStale(w, m) PROVE ExecutionInv'
    BY <2>5 DEF AckStale, Claimable
  <2>6. ASSUME NEW w \in Workers, LoadDescriptor(w) PROVE ExecutionInv'
    BY <2>6 DEF LoadDescriptor
  <2>7. ASSUME NEW w \in Workers, WriteRepairCheckpoint(w) PROVE ExecutionInv'
    BY <2>7 DEF WriteRepairCheckpoint
  <2>8. ASSUME NEW w \in Workers, Heartbeat(w) PROVE ExecutionInv'
    BY <2>8 DEF Heartbeat
  <2>9. ASSUME NEW w \in Workers, ExecutorExit(w) PROVE ExecutionInv'
    BY <2>9 DEF ExecutorExit
  <2>10. ASSUME NEW w \in Workers, ExecutorAbort(w) PROVE ExecutionInv'
    BY <2>10 DEF ExecutorAbort
  <2>11. ASSUME NEW w \in Workers, WriteResultFile(w) PROVE ExecutionInv'
    BY <2>11 DEF WriteResultFile
  <2>12. ASSUME NEW w \in Workers, CommitResult(w) PROVE ExecutionInv'
    <3>1. \A v \in Workers : worker'[v].pc # "idle" =>
                               v # w /\ worker'[v] = worker[v]
      BY <2>12 DEF CommitResult
    <3>2. CASE UNCHANGED <<results, task>>
      BY <2>12, <3>1, <3>2 DEF CommitResult
    <3>3. CASE task.generation = worker[w].id.generation
      <4>1. /\ task'.status = task.status
            /\ task'.generation = task.generation
            /\ results \subseteq results'
        BY <2>12, <3>3 DEF CommitResult
      <4>2. \A x \in results' : x.generation \in started
        BY <2>12, <3>3 DEF CommitResult
      <4> QED BY <2>12, <3>1, <4>1, <4>2 DEF CommitResult
    <3> QED BY <2>12, <3>2, <3>3 DEF CommitResult
  <2>13. ASSUME NEW w \in Workers, WorkerCrash(w) PROVE ExecutionInv'
    BY <2>13 DEF WorkerCrash
  <2>14. ASSUME NEW r \in Reconcilers, ReconcileClaim(r) PROVE ExecutionInv'
    BY <2>14 DEF ReconcileClaim
  <2>15. ASSUME NEW r \in Reconcilers, FinalizeDiscard(r) PROVE ExecutionInv'
    BY <2>15 DEF FinalizeDiscard, Oldest, Loaded, staleExecutionResult
  <2>16. ASSUME NEW r \in Reconcilers, FinalizeReceive(r) PROVE ExecutionInv'
    BY <2>16 DEF FinalizeReceive, Oldest, Loaded, staleExecutionResult
  <2>17. ASSUME NEW r \in Reconcilers, IntegrateWorkspace(r) PROVE ExecutionInv'
    BY <2>17 DEF IntegrateWorkspace, Step, Failed
  <2>18. ASSUME NEW r \in Reconcilers, SettleTask(r) PROVE ExecutionInv'
    BY <2>18 DEF SettleTask, Step, StatusAfter, RetryAllowed
  <2>19. ASSUME NEW r \in Reconcilers, ConsumeResult(r) PROVE ExecutionInv'
    BY <2>19 DEF ConsumeResult
  <2>20. ASSUME NEW r \in Reconcilers, BookkeepingFailure(r) PROVE ExecutionInv'
    BY <2>20 DEF BookkeepingFailure, Failed
  <2>21. ASSUME NEW r \in Reconcilers, RecoverScan(r) PROVE ExecutionInv'
    BY <2>21 DEF RecoverScan, Step
  <2>22. ASSUME NEW r \in Reconcilers, RecoverExpired(r) PROVE ExecutionInv'
    BY <2>22 DEF RecoverExpired, Step
  <2>23. ASSUME NEW r \in Reconcilers, PlanPass(r) PROVE ExecutionInv'
    <3>1. CASE Step(r, "release")
      BY <2>23, <3>1 DEF PlanPass, Step
    <3>2. CASE Step(r, "finish")
      BY <2>23, <3>2 DEF PlanPass, Step
    <3>3. CASE Step(r, "check")
      BY <2>23, <3>3 DEF PlanPass, Step
    <3> QED BY <2>23, <3>1, <3>2, <3>3 DEF PlanPass
  <2>24. ASSUME NEW r \in Reconcilers, SelectReady(r) PROVE ExecutionInv'
    BY <2>24 DEF SelectReady
  <2>25. ASSUME NEW r \in Reconcilers, PrepareTask(r) PROVE ExecutionInv'
    BY <2>25 DEF PrepareTask, RepairResumeCandidate
  <2>26. ASSUME NEW r \in Reconcilers, DispatchDenied(r) PROVE ExecutionInv'
    BY <2>26 DEF DispatchDenied, Step
  <2>27. ASSUME NEW r \in Reconcilers, PreparationFailure(r) PROVE ExecutionInv'
    BY <2>27 DEF PreparationFailure, Step, RetryAllowed
  <2>28. ASSUME NEW r \in Reconcilers, DispatchPreparedTask(r) PROVE ExecutionInv'
    BY <2>28 DEF DispatchPreparedTask, Step
  <2>29. ASSUME NEW r \in Reconcilers, DispatchSkipped(r) PROVE ExecutionInv'
    BY <2>29 DEF DispatchSkipped, Step
  <2>30. ASSUME NEW r \in Reconcilers, CheckPass(r) PROVE ExecutionInv'
    BY <2>30 DEF CheckPass, Step
  <2>31. ASSUME NEW r \in Reconcilers, FinishRun(r) PROVE ExecutionInv'
    BY <2>31 DEF FinishRun, Step
  <2>32. ASSUME NEW r \in Reconcilers, ReleaseReconcile(r) PROVE ExecutionInv'
    BY <2>32 DEF ReleaseReconcile, Released
  <2>33. ASSUME NEW r \in Reconcilers, ReconcileFailure(r) PROVE ExecutionInv'
    BY <2>33 DEF ReconcileFailure, Released
  <2>34. ASSUME CancelList PROVE ExecutionInv'
    BY <2>34 DEF CancelList
  <2>35. ASSUME CancelTask PROVE ExecutionInv'
    BY <2>35 DEF CancelTask
  <2>36. ASSUME CancelRun PROVE ExecutionInv'
    BY <2>36 DEF CancelRun
  <2>37. ASSUME LeaseExpires PROVE ExecutionInv'
    BY <2>37 DEF LeaseExpires
  <2>38. ASSUME ReconcileLeaseExpires PROVE ExecutionInv'
    BY <2>38 DEF ReconcileLeaseExpires
  <2>39. CASE UNCHANGED vars
    BY <2>39 DEF vars
  <2> QED
    BY <2>1, <2>2, <2>3, <2>4, <2>5, <2>6, <2>7, <2>8, <2>9, <2>10, <2>11, <2>12,
       <2>13, <2>14, <2>15, <2>16, <2>17, <2>18, <2>19, <2>20, <2>21, <2>22, <2>23,
       <2>24, <2>25, <2>26, <2>27, <2>28, <2>29, <2>30, <2>31, <2>32, <2>33,
       <2>34, <2>35, <2>36, <2>37, <2>38, <2>39
       DEF Next, RelayNext, WorkerNext, ReconcilerNext, FinalizerStep,
             SchedulerStep, CancelNext
<1> QED
  BY <1>1, <1>2, TypeCorrect, PTL DEF Spec

\* ReconcileInv: claimRunReconcile admits one pass at a time, so nothing a pass
\* reads about the dispatch changes until it releases, except by the operator,
\* who never moves the generation.
THEOREM ReconcileInvariant ==
  ASSUME "reconcile_overrun" \notin Disturbances
  PROVE  Spec => []ReconcileInv
<1> USE DEF ReconcileInv, IdleRecon, IdentityOf, NoResult, TaskWith,
            FinalizerAt, SchedulerAt, Disturb, TERMINAL_TASK_STATUSES,
            SUCCESS_TASK_STATUSES, Dispatchable
<1>1. Init => ReconcileInv
  BY DEF Init
<1>2. TypeOK /\ ReconcileInv /\ [Next]_vars => ReconcileInv'
  <2> SUFFICES ASSUME TypeOK, ReconcileInv, [Next]_vars PROVE ReconcileInv'
    OBVIOUS
  <2> USE ConstantsAssumption DEF TypeOK, Task, Worker, Recon, Identity, Result
  <2>1. ASSUME NEW m \in outbox, RelayPublish(m) PROVE ReconcileInv'
    BY <2>1 DEF RelayPublish
  <2>2. ASSUME NEW m \in outbox, RelayCrash(m) PROVE ReconcileInv'
    BY <2>2 DEF RelayCrash
  <2>3. ASSUME NEW m \in outbox, RelayDeadLetter(m) PROVE ReconcileInv'
    BY <2>3 DEF RelayDeadLetter
  <2>4. ASSUME NEW w \in Workers, NEW m \in queue, ClaimExecution(w, m) PROVE ReconcileInv'
    BY <2>4 DEF ClaimExecution, Claimable
  <2>5. ASSUME NEW w \in Workers, NEW m \in queue, AckStale(w, m) PROVE ReconcileInv'
    BY <2>5 DEF AckStale, Claimable
  <2>6. ASSUME NEW w \in Workers, LoadDescriptor(w) PROVE ReconcileInv'
    BY <2>6 DEF LoadDescriptor
  <2>7. ASSUME NEW w \in Workers, WriteRepairCheckpoint(w) PROVE ReconcileInv'
    BY <2>7 DEF WriteRepairCheckpoint
  <2>8. ASSUME NEW w \in Workers, Heartbeat(w) PROVE ReconcileInv'
    BY <2>8 DEF Heartbeat
  <2>9. ASSUME NEW w \in Workers, ExecutorExit(w) PROVE ReconcileInv'
    BY <2>9 DEF ExecutorExit
  <2>10. ASSUME NEW w \in Workers, ExecutorAbort(w) PROVE ReconcileInv'
    BY <2>10 DEF ExecutorAbort
  <2>11. ASSUME NEW w \in Workers, WriteResultFile(w) PROVE ReconcileInv'
    BY <2>11 DEF WriteResultFile
  <2>12. ASSUME NEW w \in Workers, CommitResult(w) PROVE ReconcileInv'
    BY <2>12 DEF CommitResult
  <2>13. ASSUME NEW w \in Workers, WorkerCrash(w) PROVE ReconcileInv'
    BY <2>13 DEF WorkerCrash
  <2>14. ASSUME NEW r \in Reconcilers, ReconcileClaim(r) PROVE ReconcileInv'
    <3>1. \A s \in Reconcilers : s # r => recon[s].pc = "idle"
      BY <2>14 DEF ReconcileClaim
    <3>2. /\ recon'[r].pc = "finalize"
          /\ \A s \in Reconcilers : s # r => recon'[s].pc = "idle"
      BY <2>14, <3>1 DEF ReconcileClaim
    <3> QED BY <2>14, <3>2 DEF ReconcileClaim
  <2>15. ASSUME NEW r \in Reconcilers, FinalizeDiscard(r) PROVE ReconcileInv'
    BY <2>15 DEF FinalizeDiscard, Oldest, Loaded, staleExecutionResult
  <2>16. ASSUME NEW r \in Reconcilers, FinalizeReceive(r) PROVE ReconcileInv'
    BY <2>16 DEF FinalizeReceive, Oldest, Loaded, staleExecutionResult
  <2>17. ASSUME NEW r \in Reconcilers, IntegrateWorkspace(r) PROVE ReconcileInv'
    <3>1. /\ recon'[r].pc = "settle"
          /\ \A s \in Reconcilers : s # r => recon'[s] = recon[s]
      <4>1. CASE Step(r, "settle")
        BY <4>1 DEF Step
      <4>2. CASE recon' = [recon EXCEPT ![r] =
                             FinalizerAt(r, "settle", recon[r].todo,
                                         recon[r].row,
                                         Failed(recon[r].result))]
        BY <4>2
      <4> QED BY <2>17, <4>1, <4>2 DEF IntegrateWorkspace
    <3>2. recon[r].pc = "integrate" /\ UNCHANGED <<run, task, reconcileLease>>
      BY <2>17 DEF IntegrateWorkspace
    <3> QED BY <3>1, <3>2
  <2>18. ASSUME NEW r \in Reconcilers, SettleTask(r) PROVE ReconcileInv'
    BY <2>18 DEF SettleTask, Step, StatusAfter, RetryAllowed
  <2>19. ASSUME NEW r \in Reconcilers, ConsumeResult(r) PROVE ReconcileInv'
    BY <2>19 DEF ConsumeResult
  <2>20. ASSUME NEW r \in Reconcilers, BookkeepingFailure(r) PROVE ReconcileInv'
    BY <2>20 DEF BookkeepingFailure, Failed
  <2>21. ASSUME NEW r \in Reconcilers, RecoverScan(r) PROVE ReconcileInv'
    BY <2>21 DEF RecoverScan, Step
  <2>22. ASSUME NEW r \in Reconcilers, RecoverExpired(r) PROVE ReconcileInv'
    BY <2>22 DEF RecoverExpired, Step
  <2>23. ASSUME NEW r \in Reconcilers, PlanPass(r) PROVE ReconcileInv'
    <3>1. CASE Step(r, "release")
      BY <2>23, <3>1 DEF PlanPass, Step
    <3>2. CASE Step(r, "finish") /\ task.status \in TERMINAL_TASK_STATUSES
      BY <2>23, <3>2 DEF PlanPass, Step
    <3>3. CASE Step(r, "check")
      BY <2>23, <3>3 DEF PlanPass, Step
    <3> QED BY <2>23, <3>1, <3>2, <3>3 DEF PlanPass
  <2>24. ASSUME NEW r \in Reconcilers, SelectReady(r) PROVE ReconcileInv'
    BY <2>24 DEF SelectReady
  <2>25. ASSUME NEW r \in Reconcilers, PrepareTask(r) PROVE ReconcileInv'
    BY <2>25 DEF PrepareTask, RepairResumeCandidate
  <2>26. ASSUME NEW r \in Reconcilers, DispatchDenied(r) PROVE ReconcileInv'
    BY <2>26 DEF DispatchDenied, Step
  <2>27. ASSUME NEW r \in Reconcilers, PreparationFailure(r) PROVE ReconcileInv'
    BY <2>27 DEF PreparationFailure, Step, RetryAllowed
  <2>28. ASSUME NEW r \in Reconcilers, DispatchPreparedTask(r) PROVE ReconcileInv'
    BY <2>28 DEF DispatchPreparedTask, Step
  <2>29. ASSUME NEW r \in Reconcilers, DispatchSkipped(r) PROVE ReconcileInv'
    BY <2>29 DEF DispatchSkipped, Step
  <2>30. ASSUME NEW r \in Reconcilers, CheckPass(r) PROVE ReconcileInv'
    BY <2>30 DEF CheckPass, Step
  <2>31. ASSUME NEW r \in Reconcilers, FinishRun(r) PROVE ReconcileInv'
    BY <2>31 DEF FinishRun, Step
  <2>32. ASSUME NEW r \in Reconcilers, ReleaseReconcile(r) PROVE ReconcileInv'
    BY <2>32 DEF ReleaseReconcile, Released
  <2>33. ASSUME NEW r \in Reconcilers, ReconcileFailure(r) PROVE ReconcileInv'
    BY <2>33 DEF ReconcileFailure, Released
  <2>34. ASSUME CancelList PROVE ReconcileInv'
    BY <2>34 DEF CancelList
  <2>35. ASSUME CancelTask PROVE ReconcileInv'
    BY <2>35 DEF CancelTask
  <2>36. ASSUME CancelRun PROVE ReconcileInv'
    BY <2>36 DEF CancelRun
  <2>37. ASSUME LeaseExpires PROVE ReconcileInv'
    BY <2>37 DEF LeaseExpires
  <2>38. ASSUME ReconcileLeaseExpires PROVE ReconcileInv'
    BY <2>38 DEF ReconcileLeaseExpires
  <2>39. CASE UNCHANGED vars
    BY <2>39 DEF vars
  <2> QED
    BY <2>1, <2>2, <2>3, <2>4, <2>5, <2>6, <2>7, <2>8, <2>9, <2>10, <2>11, <2>12,
       <2>13, <2>14, <2>15, <2>16, <2>17, <2>18, <2>19, <2>20, <2>21, <2>22, <2>23,
       <2>24, <2>25, <2>26, <2>27, <2>28, <2>29, <2>30, <2>31, <2>32, <2>33,
       <2>34, <2>35, <2>36, <2>37, <2>38, <2>39
       DEF Next, RelayNext, WorkerNext, ReconcilerNext, FinalizerStep,
             SchedulerStep, CancelNext
<1> QED
  BY <1>1, <1>2, TypeCorrect, PTL DEF Spec

\* OutcomeInv: the worker that holds a generation is the only one to write its
\* outcome, first to the attempt's file and then to the row.
THEOREM OutcomeInvariant == Spec => []OutcomeInv
<1> USE DEF OutcomeInv, IdleWorker, IdentityOf, NoIdentity, TaskWith, WorkerAt
<1>1. Init => OutcomeInv
  BY DEF Init
<1>2. TypeOK /\ ExecutionInv /\ OutcomeInv /\ [Next]_vars => OutcomeInv'
  <2> SUFFICES ASSUME TypeOK, ExecutionInv, OutcomeInv, [Next]_vars
               PROVE  OutcomeInv'
    OBVIOUS
  <2> USE DEF TypeOK, Worker, Identity, Result
  <2>1. ASSUME NEW m \in outbox, RelayPublish(m) PROVE OutcomeInv'
    BY <2>1 DEF RelayPublish
  <2>2. ASSUME NEW m \in outbox, RelayCrash(m) PROVE OutcomeInv'
    BY <2>2 DEF RelayCrash
  <2>3. ASSUME NEW m \in outbox, RelayDeadLetter(m) PROVE OutcomeInv'
    BY <2>3 DEF RelayDeadLetter
  <2>4. ASSUME NEW w \in Workers, NEW m \in queue, ClaimExecution(w, m) PROVE OutcomeInv'
    <3>1. task.generation \notin started /\ m.generation = task.generation
      BY <2>4 DEF ClaimExecution, Claimable, ExecutionInv
    <3>2. \A x \in files \cup results : x.generation # m.generation
      BY <3>1 DEF ExecutionInv
    <3> QED BY <2>4, <3>2 DEF ClaimExecution
  <2>5. ASSUME NEW w \in Workers, NEW m \in queue, AckStale(w, m) PROVE OutcomeInv'
    BY <2>5 DEF AckStale, Claimable
  <2>6. ASSUME NEW w \in Workers, LoadDescriptor(w) PROVE OutcomeInv'
    BY <2>6 DEF LoadDescriptor
  <2>7. ASSUME NEW w \in Workers, WriteRepairCheckpoint(w) PROVE OutcomeInv'
    BY <2>7 DEF WriteRepairCheckpoint
  <2>8. ASSUME NEW w \in Workers, Heartbeat(w) PROVE OutcomeInv'
    BY <2>8 DEF Heartbeat
  <2>9. ASSUME NEW w \in Workers, ExecutorExit(w) PROVE OutcomeInv'
    BY <2>9 DEF ExecutorExit
  <2>10. ASSUME NEW w \in Workers, ExecutorAbort(w) PROVE OutcomeInv'
    BY <2>10 DEF ExecutorAbort
  <2>11. ASSUME NEW w \in Workers, WriteResultFile(w) PROVE OutcomeInv'
    <3> DEFINE mine == [attempt |-> worker[w].id.attempt,
                        generation |-> worker[w].id.generation,
                        outcome |-> worker[w].outcome]
    <3>1. files' \subseteq files \cup {mine} /\ results' = results
      BY <2>11 DEF WriteResultFile
    <3>2. \A x \in files \cup results : x.generation # worker[w].id.generation
      BY <2>11 DEF WriteResultFile
    <3>3. \A v \in Workers \ {w} : worker'[v] = worker[v]
      BY <2>11 DEF WriteResultFile
    <3>4. \A v \in Workers \ {w} : worker[v].pc # "idle"
            => worker[v].id.generation # worker[w].id.generation
      BY <2>11 DEF WriteResultFile, ExecutionInv
    <3>5. /\ worker'[w].pc = "written" /\ worker'[w].id = worker[w].id
          /\ worker'[w].outcome = worker[w].outcome
      BY <2>11 DEF WriteResultFile
    <3> QED BY <3>1, <3>2, <3>3, <3>4, <3>5
  <2>12. ASSUME NEW w \in Workers, CommitResult(w) PROVE OutcomeInv'
    <3> DEFINE mine == [attempt |-> worker[w].id.attempt,
                        generation |-> worker[w].id.generation,
                        outcome |-> worker[w].outcome]
    <3>1. results' \subseteq results \cup {mine} /\ files' = files
      BY <2>12 DEF CommitResult
    <3>2. worker[w].pc = "written" /\ worker'[w].pc = "idle"
      BY <2>12 DEF CommitResult
    <3>3. \A v \in Workers \ {w} : worker'[v] = worker[v]
      BY <2>12 DEF CommitResult
    <3>4. \A v \in Workers \ {w} : worker[v].pc # "idle"
            => worker[v].id.generation # worker[w].id.generation
      BY <3>2 DEF ExecutionInv
    <3> QED BY <3>1, <3>2, <3>3, <3>4
  <2>13. ASSUME NEW w \in Workers, WorkerCrash(w) PROVE OutcomeInv'
    BY <2>13 DEF WorkerCrash
  <2>14. ASSUME NEW r \in Reconcilers, ReconcileClaim(r) PROVE OutcomeInv'
    BY <2>14 DEF ReconcileClaim
  <2>15. ASSUME NEW r \in Reconcilers, FinalizeDiscard(r) PROVE OutcomeInv'
    BY <2>15 DEF FinalizeDiscard, Oldest, Loaded, staleExecutionResult
  <2>16. ASSUME NEW r \in Reconcilers, FinalizeReceive(r) PROVE OutcomeInv'
    BY <2>16 DEF FinalizeReceive, Oldest, Loaded, staleExecutionResult
  <2>17. ASSUME NEW r \in Reconcilers, IntegrateWorkspace(r) PROVE OutcomeInv'
    BY <2>17 DEF IntegrateWorkspace, Step, Failed
  <2>18. ASSUME NEW r \in Reconcilers, SettleTask(r) PROVE OutcomeInv'
    BY <2>18 DEF SettleTask, Step, StatusAfter, RetryAllowed
  <2>19. ASSUME NEW r \in Reconcilers, ConsumeResult(r) PROVE OutcomeInv'
    BY <2>19 DEF ConsumeResult
  <2>20. ASSUME NEW r \in Reconcilers, BookkeepingFailure(r) PROVE OutcomeInv'
    BY <2>20 DEF BookkeepingFailure, Failed
  <2>21. ASSUME NEW r \in Reconcilers, RecoverScan(r) PROVE OutcomeInv'
    BY <2>21 DEF RecoverScan, Step
  <2>22. ASSUME NEW r \in Reconcilers, RecoverExpired(r) PROVE OutcomeInv'
    BY <2>22 DEF RecoverExpired, Step
  <2>23. ASSUME NEW r \in Reconcilers, PlanPass(r) PROVE OutcomeInv'
    BY <2>23 DEF PlanPass, Step
  <2>24. ASSUME NEW r \in Reconcilers, SelectReady(r) PROVE OutcomeInv'
    BY <2>24 DEF SelectReady
  <2>25. ASSUME NEW r \in Reconcilers, PrepareTask(r) PROVE OutcomeInv'
    BY <2>25 DEF PrepareTask, RepairResumeCandidate
  <2>26. ASSUME NEW r \in Reconcilers, DispatchDenied(r) PROVE OutcomeInv'
    BY <2>26 DEF DispatchDenied, Step
  <2>27. ASSUME NEW r \in Reconcilers, PreparationFailure(r) PROVE OutcomeInv'
    BY <2>27 DEF PreparationFailure, Step, RetryAllowed
  <2>28. ASSUME NEW r \in Reconcilers, DispatchPreparedTask(r) PROVE OutcomeInv'
    BY <2>28 DEF DispatchPreparedTask, Step
  <2>29. ASSUME NEW r \in Reconcilers, DispatchSkipped(r) PROVE OutcomeInv'
    BY <2>29 DEF DispatchSkipped, Step
  <2>30. ASSUME NEW r \in Reconcilers, CheckPass(r) PROVE OutcomeInv'
    BY <2>30 DEF CheckPass, Step
  <2>31. ASSUME NEW r \in Reconcilers, FinishRun(r) PROVE OutcomeInv'
    BY <2>31 DEF FinishRun, Step
  <2>32. ASSUME NEW r \in Reconcilers, ReleaseReconcile(r) PROVE OutcomeInv'
    BY <2>32 DEF ReleaseReconcile, Released
  <2>33. ASSUME NEW r \in Reconcilers, ReconcileFailure(r) PROVE OutcomeInv'
    BY <2>33 DEF ReconcileFailure, Released
  <2>34. ASSUME CancelList PROVE OutcomeInv'
    BY <2>34 DEF CancelList
  <2>35. ASSUME CancelTask PROVE OutcomeInv'
    BY <2>35 DEF CancelTask
  <2>36. ASSUME CancelRun PROVE OutcomeInv'
    BY <2>36 DEF CancelRun
  <2>37. ASSUME LeaseExpires PROVE OutcomeInv'
    BY <2>37 DEF LeaseExpires
  <2>38. ASSUME ReconcileLeaseExpires PROVE OutcomeInv'
    BY <2>38 DEF ReconcileLeaseExpires
  <2>39. CASE UNCHANGED vars
    BY <2>39 DEF vars
  <2> QED
    BY <2>1, <2>2, <2>3, <2>4, <2>5, <2>6, <2>7, <2>8, <2>9, <2>10, <2>11, <2>12,
       <2>13, <2>14, <2>15, <2>16, <2>17, <2>18, <2>19, <2>20, <2>21, <2>22, <2>23,
       <2>24, <2>25, <2>26, <2>27, <2>28, <2>29, <2>30, <2>31, <2>32, <2>33,
       <2>34, <2>35, <2>36, <2>37, <2>38, <2>39
       DEF Next, RelayNext, WorkerNext, ReconcilerNext, FinalizerStep,
             SchedulerStep, CancelNext
<1> QED
  BY <1>1, <1>2, TypeCorrect, ExecutionInvariant, PTL DEF Spec

\* AppliedInv and IntegrationInv while no pass outlives its lease or dies half
\* way: the finalizer holds an integrated execution until its task is terminal,
\* a terminal task is neither recovered nor dispatched, and a replay of its
\* result meets the same accepted outcome.
THEOREM IntegrationInvariant ==
  ASSUME "reconcile_overrun" \notin Disturbances,
         "reconcile_failure" \notin Disturbances
  PROVE  Spec => [](AppliedInv /\ IntegrationInv)
<1> DEFINE Inv == AppliedInv /\ IntegrationInv
           Facts == TypeOK /\ ExecutionInv /\ ReconcileInv /\ OutcomeInv
<1>1. Init => Inv
  BY DEF Init, AppliedInv, Applied, IntegrationInv, IdleRecon, IdleWorker
<1>2. Facts /\ Inv /\ [Next]_vars => Inv'
  <2> SUFFICES ASSUME Facts, Inv, [Next]_vars PROVE Inv'
    OBVIOUS
  <2> USE DEF AppliedInv, Applied, IntegrationInv, IdleWorker, IdleRecon, IdentityOf,
              NoIdentity, NoResult, TaskWith, WorkerAt, FinalizerAt, SchedulerAt,
              Disturb, TypeOK, Task, Worker, Recon, Identity, Result,
              TERMINAL_TASK_STATUSES, SUCCESS_TASK_STATUSES
  <2> USE ConstantsAssumption
  <2>0. \A r, s \in Reconcilers :
          recon[r].pc # "idle" /\ recon[s].pc # "idle" => r = s
    BY DEF ReconcileInv
  <2>1. ASSUME NEW m \in outbox, RelayPublish(m) PROVE Inv'
    BY <2>1 DEF RelayPublish
  <2>2. ASSUME NEW m \in outbox, RelayCrash(m) PROVE Inv'
    BY <2>2 DEF RelayCrash
  <2>3. ASSUME NEW m \in outbox, RelayDeadLetter(m) PROVE Inv'
    BY <2>3 DEF RelayDeadLetter
  <2>4. ASSUME NEW w \in Workers, NEW m \in queue, ClaimExecution(w, m) PROVE Inv'
    <3>1. task.generation \notin started /\ m.generation = task.generation
      BY <2>4 DEF ClaimExecution, Claimable, ExecutionInv
    <3>2. /\ integrated' = integrated /\ recon' = recon
          /\ files' = files /\ results' = results
          /\ started' = started \cup {m.generation}
          /\ task'.generation = task.generation
          /\ \A v \in Workers \ {w} : worker'[v] = worker[v]
          /\ worker'[w].id = m
      BY <2>4 DEF ClaimExecution
    <3>3. \A g : Applied(g) => g \in started
      <4>1. \A r \in Reconcilers :
              recon[r].pc = "integrate" => recon[r].result.generation \in started
        BY DEF ExecutionInv
      <4>2. integrated \subseteq started
        OBVIOUS
      <4>3. ASSUME NEW g, Applied(g) PROVE g \in started
        <5>1. CASE g \in integrated
          BY <4>2, <5>1
        <5>2. CASE \E s \in Reconcilers : /\ recon[s].pc = "integrate"
                                          /\ recon[s].result.generation = g
          BY <4>1, <5>2
        <5> QED BY <4>3, <5>1, <5>2 DEF Applied
      <4> QED BY <4>3
    <3>4. \A g : Applied(g)' <=> Applied(g)
      BY <3>2
    <3>5. AppliedInv'
      BY <3>1, <3>2, <3>3, <3>4
    <3>6. integrated = {}
      BY <3>1
    <3> QED BY <3>2, <3>5, <3>6
  <2>5. ASSUME NEW w \in Workers, NEW m \in queue, AckStale(w, m) PROVE Inv'
    BY <2>5 DEF AckStale, Claimable
  <2>6. ASSUME NEW w \in Workers, LoadDescriptor(w) PROVE Inv'
    BY <2>6 DEF LoadDescriptor
  <2>7. ASSUME NEW w \in Workers, WriteRepairCheckpoint(w) PROVE Inv'
    BY <2>7 DEF WriteRepairCheckpoint
  <2>8. ASSUME NEW w \in Workers, Heartbeat(w) PROVE Inv'
    BY <2>8 DEF Heartbeat
  <2>9. ASSUME NEW w \in Workers, ExecutorExit(w) PROVE Inv'
    BY <2>9 DEF ExecutorExit
  <2>10. ASSUME NEW w \in Workers, ExecutorAbort(w) PROVE Inv'
    BY <2>10 DEF ExecutorAbort
  <2>11. ASSUME NEW w \in Workers, WriteResultFile(w) PROVE Inv'
    <3> DEFINE mine == [attempt |-> worker[w].id.attempt,
                        generation |-> worker[w].id.generation,
                        outcome |-> worker[w].outcome]
    <3>1. files' \subseteq files \cup {mine} /\ results' = results
      BY <2>11 DEF WriteResultFile
    <3>2. worker[w].pc = "exited"
      BY <2>11 DEF WriteResultFile
    <3>3. ~Applied(worker[w].id.generation)
      BY <3>2 DEF ExecutionInv
    <3>4. /\ \A v \in Workers \ {w} : worker'[v] = worker[v]
          /\ worker'[w].id = worker[w].id
      BY <2>11 DEF WriteResultFile
    <3>5. UNCHANGED <<task, started, integrated, recon>>
      BY <2>11 DEF WriteResultFile
    <3>6. \A g : Applied(g)' <=> Applied(g)
      BY <3>5
    <3>7. AppliedInv'
      <4> SUFFICES ASSUME NEW g \in started, Applied(g)
                   PROVE  /\ \A x \in files' \cup results' :
                               x.generation = g => x.outcome = "accepted"
                          /\ \A v \in Workers :
                               worker'[v].pc # "idle" /\ worker'[v].id.generation = g
                                 => /\ worker'[v].pc = "written"
                                    /\ worker'[v].outcome = "accepted"
        BY <3>5, <3>6
      <4>1. g # worker[w].id.generation
        BY <3>3
      <4> QED BY <3>1, <3>4, <4>1
    <3> QED BY <3>5, <3>7
  <2>12. ASSUME NEW w \in Workers, CommitResult(w) PROVE Inv'
    <3> DEFINE mine == [attempt |-> worker[w].id.attempt,
                        generation |-> worker[w].id.generation,
                        outcome |-> worker[w].outcome]
    <3>1. results' \subseteq results \cup {mine} /\ files' = files
      BY <2>12 DEF CommitResult
    <3>2. worker[w].pc = "written" /\ worker'[w].pc = "idle"
      BY <2>12 DEF CommitResult
    <3>3. \A v \in Workers \ {w} : worker'[v] = worker[v]
      BY <2>12 DEF CommitResult
    <3>4. UNCHANGED <<started, integrated, recon>>
      BY <2>12 DEF CommitResult
    <3>5. task'.status = task.status /\ task'.generation = task.generation
      BY <2>12 DEF CommitResult
    <3>6. \A g : Applied(g)' <=> Applied(g)
      BY <3>4
    <3>7. AppliedInv'
      <4> SUFFICES ASSUME NEW g \in started', Applied(g)'
                   PROVE  /\ \A x \in (files \cup results)' :
                               x.generation = g => x.outcome = "accepted"
                          /\ \A v \in Workers :
                               worker'[v].pc # "idle" /\ worker'[v].id.generation = g
                                 => /\ worker'[v].pc = "written"
                                    /\ worker'[v].outcome = "accepted"
        BY DEF AppliedInv
      <4>0. g \in started /\ Applied(g)
        BY <3>4, <3>6
      <4>1. mine.generation = g => mine.outcome = "accepted"
        BY <3>2, <4>0
      <4> QED BY <3>1, <3>2, <3>3, <4>0, <4>1
    <3> QED BY <3>4, <3>5, <3>7
  <2>13. ASSUME NEW w \in Workers, WorkerCrash(w) PROVE Inv'
    BY <2>13 DEF WorkerCrash
  <2>14. ASSUME NEW r \in Reconcilers, ReconcileClaim(r) PROVE Inv'
    BY <2>14 DEF ReconcileClaim
  <2>15. ASSUME NEW r \in Reconcilers, FinalizeDiscard(r) PROVE Inv'
    BY <2>15 DEF FinalizeDiscard, Oldest, Loaded, staleExecutionResult
  <2>16. ASSUME NEW r \in Reconcilers, FinalizeReceive(r) PROVE Inv'
    <3>1. PICK x \in files \cup results :
            /\ x.generation = task.generation
            /\ recon'[r].pc = (IF x.outcome = "accepted" THEN "integrate" ELSE "settle")
            /\ recon'[r].result = x
      BY <2>16 DEF FinalizeReceive, Loaded, staleExecutionResult, ExecutionInv
    <3>2. /\ recon[r].pc = "finalize"
          /\ \A s \in Reconcilers \ {r} : recon'[s] = recon[s]
          /\ task'.generation = task.generation
          /\ UNCHANGED <<started, integrated, files, results, worker>>
      BY <2>16 DEF FinalizeReceive
    <3>3. \A s \in Reconcilers \ {r} : recon[s].pc = "idle"
      BY <2>0, <3>2
    <3>4. x.generation \in started
      BY DEF ExecutionInv
    <3>5. \A g : Applied(g)' => Applied(g) \/ (g = x.generation /\ x.outcome = "accepted")
      BY <3>1, <3>2, <3>3
    <3>6. AppliedInv'
      <4> SUFFICES ASSUME NEW g \in started, Applied(g)'
                   PROVE  /\ \A y \in files \cup results :
                               y.generation = g => y.outcome = "accepted"
                          /\ \A v \in Workers :
                               worker[v].pc # "idle" /\ worker[v].id.generation = g
                                 => /\ worker[v].pc = "written"
                                    /\ worker[v].outcome = "accepted"
        BY <3>2
      <4>1. CASE Applied(g)
        BY <4>1
      <4>2. CASE g = x.generation /\ x.outcome = "accepted"
        BY <4>2 DEF OutcomeInv
      <4> QED BY <3>5, <4>1, <4>2
    <3>7. ASSUME integrated # {} PROVE x.outcome = "accepted"
      <4>1. task.generation \in integrated
        BY <3>7
      <4>2. Applied(x.generation)
        BY <3>1, <4>1
      <4> QED BY <3>4, <4>2 DEF AppliedInv
    <3>8. integrated # {} => recon'[r].pc = "integrate"
      BY <3>1, <3>7
    <3>9. recon'[r].pc = "integrate" => recon'[r].result.outcome = "accepted"
      BY <3>1
    <3>10. \A s \in Reconcilers \ {r} : recon'[s].pc = "idle"
      BY <3>2, <3>3
    <3>11. IntegrationInv'
      BY <3>2, <3>8, <3>9, <3>10
    <3> QED BY <3>6, <3>11
  <2>17. ASSUME NEW r \in Reconcilers, IntegrateWorkspace(r) PROVE Inv'
    <3> DEFINE x == recon[r].result
    <3>1. /\ recon[r].pc = "integrate" /\ x.outcome = "accepted"
          /\ x.generation = task.generation
          /\ x.generation \in started
      BY <2>17 DEF IntegrateWorkspace, ReconcileInv, ExecutionInv
    <3>2. /\ recon'[r].pc = "settle"
          /\ recon'[r].result.outcome \in {"accepted", "fatal"}
          /\ \A s \in Reconcilers \ {r} : recon'[s] = recon[s]
      <4>1. CASE Step(r, "settle")
        BY <3>1, <4>1 DEF Step
      <4>2. CASE recon' = [recon EXCEPT ![r] =
                             FinalizerAt(r, "settle", recon[r].todo,
                                         recon[r].row, Failed(x))]
        BY <4>2 DEF Failed
      <4> QED BY <2>17, <4>1, <4>2 DEF IntegrateWorkspace
    <3>3. integrated' = integrated \/ integrated' = integrated \cup {x.generation}
      BY <2>17 DEF IntegrateWorkspace
    <3>4. UNCHANGED <<task, started, files, results, worker>>
      BY <2>17 DEF IntegrateWorkspace
    <3>5. \A s \in Reconcilers \ {r} : recon[s].pc = "idle"
      BY <2>0, <3>1
    <3>6. \A g : Applied(g)' => Applied(g)
      BY <3>1, <3>2, <3>3, <3>5
    <3>7. AppliedInv'
      BY <3>4, <3>6
    <3>8. integrated' \subseteq integrated \cup {task.generation}
      BY <3>1, <3>3
    <3>9. \A s \in Reconcilers \ {r} : recon'[s].pc = "idle"
      BY <3>2, <3>5
    <3>10. integrated' \subseteq started /\ \A g \in integrated' : g = task.generation
      BY <3>1, <3>8
    <3>11. IntegrationInv'
      BY <3>2, <3>4, <3>9, <3>10
    <3> QED BY <3>7, <3>11
  <2>18. ASSUME NEW r \in Reconcilers, SettleTask(r) PROVE Inv'
    BY <2>18 DEF SettleTask, Step, StatusAfter, RetryAllowed
  <2>19. ASSUME NEW r \in Reconcilers, ConsumeResult(r) PROVE Inv'
    BY <2>19 DEF ConsumeResult
  <2>20. ASSUME NEW r \in Reconcilers, BookkeepingFailure(r) PROVE Inv'
    BY <2>20 DEF BookkeepingFailure, Failed
  <2>21. ASSUME NEW r \in Reconcilers, RecoverScan(r) PROVE Inv'
    <3>1. /\ recon[r].pc = "finalize"
          /\ \A s \in Reconcilers \ {r} : recon'[s] = recon[s]
          /\ recon'[r].pc \in {"release", "recover", "plan"}
          /\ recon'[r].pc = "recover" => task.status = "running"
          /\ UNCHANGED <<task, started, integrated, files, results, worker>>
      BY <2>21 DEF RecoverScan, Step
    <3>2. \A s \in Reconcilers \ {r} : recon[s].pc = "idle"
      BY <2>0, <3>1
    <3>3. \A g : Applied(g)' => Applied(g)
      BY <3>1, <3>2
    <3>4. AppliedInv'
      BY <3>1, <3>3
    <3>5. integrated # {} => task.status \in TERMINAL_TASK_STATUSES
      BY <3>1, <3>2
    <3> QED BY <3>1, <3>2, <3>4, <3>5
  <2>22. ASSUME NEW r \in Reconcilers, RecoverExpired(r) PROVE Inv'
    BY <2>22 DEF RecoverExpired, Step
  <2>23. ASSUME NEW r \in Reconcilers, PlanPass(r) PROVE Inv'
    <3>1. /\ recon[r].pc = "plan"
          /\ \A s \in Reconcilers \ {r} : recon'[s] = recon[s]
          /\ recon'[r].pc \in {"release", "finish", "check"}
          /\ UNCHANGED <<task, started, integrated, files, results, worker>>
      BY <2>23 DEF PlanPass, Step
    <3>2. \A s \in Reconcilers \ {r} : recon[s].pc = "idle"
      BY <2>0, <3>1
    <3>3. \A g : Applied(g)' => Applied(g)
      BY <3>1, <3>2
    <3>4. AppliedInv'
      BY <3>1, <3>3
    <3>5. integrated # {} => task.status \in TERMINAL_TASK_STATUSES
      BY <3>1, <3>2
    <3>6. \A s \in Reconcilers \ {r} : recon'[s].pc = "idle"
      BY <3>1, <3>2
    <3>7. IntegrationInv'
      BY <3>1, <3>5, <3>6
    <3> QED BY <3>4, <3>7
  <2>24. ASSUME NEW r \in Reconcilers, SelectReady(r) PROVE Inv'
    <3>1. /\ recon[r].pc = "plan" /\ task.status \in Dispatchable
          /\ \A s \in Reconcilers \ {r} : recon'[s] = recon[s]
          /\ recon'[r].pc = "prepare"
          /\ UNCHANGED <<task, started, integrated, files, results, worker>>
      BY <2>24 DEF SelectReady
    <3>2. \A s \in Reconcilers \ {r} : recon[s].pc = "idle"
      BY <2>0, <3>1
    <3>3. \A g : Applied(g)' => Applied(g)
      BY <3>1, <3>2
    <3>4. AppliedInv'
      BY <3>1, <3>3
    <3>5. integrated = {}
      BY <3>1, <3>2 DEF Dispatchable
    <3> QED BY <3>1, <3>2, <3>4, <3>5
  <2>25. ASSUME NEW r \in Reconcilers, PrepareTask(r) PROVE Inv'
    BY <2>25 DEF PrepareTask, RepairResumeCandidate
  <2>26. ASSUME NEW r \in Reconcilers, DispatchDenied(r) PROVE Inv'
    BY <2>26 DEF DispatchDenied, Step
  <2>27. ASSUME NEW r \in Reconcilers, PreparationFailure(r) PROVE Inv'
    BY <2>27 DEF PreparationFailure, Step, RetryAllowed
  <2>28. ASSUME NEW r \in Reconcilers, DispatchPreparedTask(r) PROVE Inv'
    BY <2>28 DEF DispatchPreparedTask, Step
  <2>29. ASSUME NEW r \in Reconcilers, DispatchSkipped(r) PROVE Inv'
    BY <2>29 DEF DispatchSkipped, Step
  <2>30. ASSUME NEW r \in Reconcilers, CheckPass(r) PROVE Inv'
    BY <2>30 DEF CheckPass, Step
  <2>31. ASSUME NEW r \in Reconcilers, FinishRun(r) PROVE Inv'
    BY <2>31 DEF FinishRun, Step
  <2>32. ASSUME NEW r \in Reconcilers, ReleaseReconcile(r) PROVE Inv'
    BY <2>32 DEF ReleaseReconcile, Released
  <2>33. ASSUME NEW r \in Reconcilers, ReconcileFailure(r) PROVE Inv'
    BY <2>33 DEF ReconcileFailure, Released
  <2>34. ASSUME CancelList PROVE Inv'
    BY <2>34 DEF CancelList
  <2>35. ASSUME CancelTask PROVE Inv'
    BY <2>35 DEF CancelTask
  <2>36. ASSUME CancelRun PROVE Inv'
    BY <2>36 DEF CancelRun
  <2>37. ASSUME LeaseExpires PROVE Inv'
    BY <2>37 DEF LeaseExpires
  <2>38. ASSUME ReconcileLeaseExpires PROVE Inv'
    BY <2>38 DEF ReconcileLeaseExpires
  <2>39. CASE UNCHANGED vars
    BY <2>39 DEF vars
  <2> QED
    BY <2>1, <2>2, <2>3, <2>4, <2>5, <2>6, <2>7, <2>8, <2>9, <2>10, <2>11, <2>12,
       <2>13, <2>14, <2>15, <2>16, <2>17, <2>18, <2>19, <2>20, <2>21, <2>22, <2>23,
       <2>24, <2>25, <2>26, <2>27, <2>28, <2>29, <2>30, <2>31, <2>32, <2>33,
       <2>34, <2>35, <2>36, <2>37, <2>38, <2>39
       DEF Next, RelayNext, WorkerNext, ReconcilerNext, FinalizerStep,
             SchedulerStep, CancelNext
<1> QED
  BY <1>1, <1>2, TypeCorrect, ExecutionInvariant, ReconcileInvariant,
     OutcomeInvariant, PTL DEF Spec

\* Only three actions move what fencing is about: a claim, a dispatch and an
\* integration.  Every other step leaves the generation, the started and the
\* integrated dispatches alone and starts no worker.
LEMMA FencedSteps ==
  ASSUME TypeOK, [Next]_vars
  PROVE  \/ /\ task'.generation = task.generation
            /\ UNCHANGED <<started, integrated>>
            /\ \A w \in Workers : worker[w].pc = "idle" =>
                                   worker'[w].pc # "claimed"
         \/ \E w \in Workers, m \in queue : ClaimExecution(w, m)
         \/ \E r \in Reconcilers : DispatchPreparedTask(r)
         \/ \E r \in Reconcilers : IntegrateWorkspace(r)
<1> DEFINE Quiet == /\ task'.generation = task.generation
                    /\ UNCHANGED <<started, integrated>>
                    /\ \A w \in Workers : worker[w].pc = "idle" =>
                                           worker'[w].pc # "claimed"
           Goal == \/ Quiet
                   \/ \E w \in Workers, m \in queue : ClaimExecution(w, m)
                   \/ \E r \in Reconcilers : DispatchPreparedTask(r)
                   \/ \E r \in Reconcilers : IntegrateWorkspace(r)
<1>1. Goal
  <2> USE DEF TypeOK, Task, Worker, IdleWorker, TaskWith, WorkerAt
  <2>1. ASSUME NEW m \in outbox, RelayPublish(m) PROVE Goal
    BY <2>1 DEF RelayPublish
  <2>2. ASSUME NEW m \in outbox, RelayCrash(m) PROVE Goal
    BY <2>2 DEF RelayCrash
  <2>3. ASSUME NEW m \in outbox, RelayDeadLetter(m) PROVE Goal
    BY <2>3 DEF RelayDeadLetter
  <2>4. ASSUME NEW w \in Workers, NEW m \in queue, ClaimExecution(w, m) PROVE Goal
    BY <2>4
  <2>5. ASSUME NEW w \in Workers, NEW m \in queue, AckStale(w, m) PROVE Goal
    BY <2>5 DEF AckStale, Claimable
  <2>6. ASSUME NEW w \in Workers, LoadDescriptor(w) PROVE Goal
    BY <2>6 DEF LoadDescriptor
  <2>7. ASSUME NEW w \in Workers, WriteRepairCheckpoint(w) PROVE Goal
    BY <2>7 DEF WriteRepairCheckpoint
  <2>8. ASSUME NEW w \in Workers, Heartbeat(w) PROVE Goal
    BY <2>8 DEF Heartbeat
  <2>9. ASSUME NEW w \in Workers, ExecutorExit(w) PROVE Goal
    BY <2>9 DEF ExecutorExit
  <2>10. ASSUME NEW w \in Workers, ExecutorAbort(w) PROVE Goal
    BY <2>10 DEF ExecutorAbort
  <2>11. ASSUME NEW w \in Workers, WriteResultFile(w) PROVE Goal
    BY <2>11 DEF WriteResultFile
  <2>12. ASSUME NEW w \in Workers, CommitResult(w) PROVE Goal
    BY <2>12 DEF CommitResult
  <2>13. ASSUME NEW w \in Workers, WorkerCrash(w) PROVE Goal
    BY <2>13 DEF WorkerCrash
  <2>14. ASSUME NEW r \in Reconcilers, ReconcileClaim(r) PROVE Goal
    BY <2>14 DEF ReconcileClaim
  <2>15. ASSUME NEW r \in Reconcilers, FinalizeDiscard(r) PROVE Goal
    BY <2>15 DEF FinalizeDiscard, Oldest, Loaded, staleExecutionResult
  <2>16. ASSUME NEW r \in Reconcilers, FinalizeReceive(r) PROVE Goal
    BY <2>16 DEF FinalizeReceive, Oldest, Loaded, staleExecutionResult
  <2>17. ASSUME NEW r \in Reconcilers, IntegrateWorkspace(r) PROVE Goal
    BY <2>17
  <2>18. ASSUME NEW r \in Reconcilers, SettleTask(r) PROVE Goal
    BY <2>18 DEF SettleTask, Step, StatusAfter, RetryAllowed
  <2>19. ASSUME NEW r \in Reconcilers, ConsumeResult(r) PROVE Goal
    BY <2>19 DEF ConsumeResult
  <2>20. ASSUME NEW r \in Reconcilers, BookkeepingFailure(r) PROVE Goal
    BY <2>20 DEF BookkeepingFailure, Failed
  <2>21. ASSUME NEW r \in Reconcilers, RecoverScan(r) PROVE Goal
    BY <2>21 DEF RecoverScan, Step
  <2>22. ASSUME NEW r \in Reconcilers, RecoverExpired(r) PROVE Goal
    BY <2>22 DEF RecoverExpired, Step
  <2>23. ASSUME NEW r \in Reconcilers, PlanPass(r) PROVE Goal
    BY <2>23 DEF PlanPass, Step
  <2>24. ASSUME NEW r \in Reconcilers, SelectReady(r) PROVE Goal
    BY <2>24 DEF SelectReady
  <2>25. ASSUME NEW r \in Reconcilers, PrepareTask(r) PROVE Goal
    BY <2>25 DEF PrepareTask, RepairResumeCandidate
  <2>26. ASSUME NEW r \in Reconcilers, DispatchDenied(r) PROVE Goal
    BY <2>26 DEF DispatchDenied, Step
  <2>27. ASSUME NEW r \in Reconcilers, PreparationFailure(r) PROVE Goal
    BY <2>27 DEF PreparationFailure, Step, RetryAllowed
  <2>28. ASSUME NEW r \in Reconcilers, DispatchPreparedTask(r) PROVE Goal
    BY <2>28
  <2>29. ASSUME NEW r \in Reconcilers, DispatchSkipped(r) PROVE Goal
    BY <2>29 DEF DispatchSkipped, Step
  <2>30. ASSUME NEW r \in Reconcilers, CheckPass(r) PROVE Goal
    BY <2>30 DEF CheckPass, Step
  <2>31. ASSUME NEW r \in Reconcilers, FinishRun(r) PROVE Goal
    BY <2>31 DEF FinishRun, Step
  <2>32. ASSUME NEW r \in Reconcilers, ReleaseReconcile(r) PROVE Goal
    BY <2>32 DEF ReleaseReconcile, Released
  <2>33. ASSUME NEW r \in Reconcilers, ReconcileFailure(r) PROVE Goal
    BY <2>33 DEF ReconcileFailure, Released
  <2>34. ASSUME CancelList PROVE Goal
    BY <2>34 DEF CancelList
  <2>35. ASSUME CancelTask PROVE Goal
    BY <2>35 DEF CancelTask
  <2>36. ASSUME CancelRun PROVE Goal
    BY <2>36 DEF CancelRun
  <2>37. ASSUME LeaseExpires PROVE Goal
    BY <2>37 DEF LeaseExpires
  <2>38. ASSUME ReconcileLeaseExpires PROVE Goal
    BY <2>38 DEF ReconcileLeaseExpires
  <2>39. CASE UNCHANGED vars
    BY <2>39 DEF vars
  <2> HIDE DEF Goal
  <2> QED
    BY <2>1, <2>2, <2>3, <2>4, <2>5, <2>6, <2>7, <2>8, <2>9, <2>10, <2>11, <2>12,
       <2>13, <2>14, <2>15, <2>16, <2>17, <2>18, <2>19, <2>20, <2>21, <2>22, <2>23,
       <2>24, <2>25, <2>26, <2>27, <2>28, <2>29, <2>30, <2>31, <2>32, <2>33,
       <2>34, <2>35, <2>36, <2>37, <2>38, <2>39
       DEF Next, RelayNext, WorkerNext, ReconcilerNext, FinalizerStep,
             SchedulerStep, CancelNext
<1> QED BY <1>1

\* StartsOnce for any number of workers, messages and faults: the claim's
\* status test is enough, because a queued generation has not been started.
THEOREM StartsOnceHolds == Spec => StartsOnce
<1>1. ASSUME TypeOK, ExecutionInv, [Next]_vars,
             NEW w \in Workers,
             worker[w].pc = "idle", worker'[w].pc = "claimed"
      PROVE  worker'[w].id.generation \notin started
  <2>1. CASE \E v \in Workers, m \in queue : ClaimExecution(v, m)
    <3>1. PICK v \in Workers, m \in queue : ClaimExecution(v, m)
      BY <2>1
    <3>2. v = w
      BY <1>1, <3>1 DEF ClaimExecution, TypeOK
    <3>3. m.generation = task.generation
      BY <3>1 DEF ClaimExecution, Claimable, IdentityOf
    <3>4. worker'[w] = [pc |-> "claimed", id |-> m, path |-> task.descriptor,
                        outcome |-> "fatal"]
      BY <1>1, <3>1, <3>2 DEF ClaimExecution, TypeOK
    <3>5. worker'[w].id.generation = task.generation
      BY <3>3, <3>4
    <3>6. task.status = "queued"
      BY <3>1 DEF ClaimExecution, Claimable
    <3> QED BY <1>1, <3>5, <3>6 DEF ExecutionInv
  <2>2. CASE \E r \in Reconcilers : DispatchPreparedTask(r)
    BY <1>1, <2>2 DEF DispatchPreparedTask
  <2>3. CASE \E r \in Reconcilers : IntegrateWorkspace(r)
    BY <1>1, <2>3 DEF IntegrateWorkspace
  <2> QED BY <1>1, <2>1, <2>2, <2>3, FencedSteps
<1>2. TypeOK /\ ExecutionInv /\ [Next]_vars
        => [\A w \in Workers :
              worker[w].pc = "idle" /\ worker'[w].pc = "claimed"
                => worker'[w].id.generation \notin started]_vars
  BY <1>1
<1> QED
  BY <1>2, TypeCorrect, ExecutionInvariant, PTL DEF Spec, StartsOnce

\* ClaimIsFresh, likewise: the recovery branch of consume_execute is dead.
THEOREM ClaimIsFreshHolds == Spec => []ClaimIsFresh
<1>1. ExecutionInv => ClaimIsFresh
  BY DEF ExecutionInv
<1> QED BY <1>1, ExecutionInvariant, PTL

\* StaleNeverIntegrates while no pass outlives its reconcile lease.
THEOREM StaleNeverIntegratesHolds ==
  ASSUME "reconcile_overrun" \notin Disturbances
  PROVE  Spec => StaleNeverIntegrates
<1>1. ASSUME TypeOK, ReconcileInv, [Next]_vars,
             NEW g \in integrated' \ integrated
      PROVE  g = task.generation
  <2>1. CASE \E w \in Workers, m \in queue : ClaimExecution(w, m)
    BY <1>1, <2>1 DEF ClaimExecution
  <2>2. CASE \E r \in Reconcilers : DispatchPreparedTask(r)
    BY <1>1, <2>2 DEF DispatchPreparedTask
  <2>3. CASE \E r \in Reconcilers : IntegrateWorkspace(r)
    <3>1. PICK r \in Reconcilers : IntegrateWorkspace(r)
      BY <2>3
    <3>2. recon[r].result.generation = task.generation
      BY <1>1, <3>1 DEF IntegrateWorkspace, ReconcileInv
    <3>3. g = recon[r].result.generation
      BY <1>1, <3>1 DEF IntegrateWorkspace
    <3> QED BY <3>2, <3>3
  <2> QED BY <1>1, <2>1, <2>2, <2>3, FencedSteps
<1>2. TypeOK /\ ReconcileInv /\ [Next]_vars
        => [\A g \in integrated' \ integrated : g = task.generation]_vars
  BY <1>1
<1> QED
  BY <1>2, TypeCorrect, ReconcileInvariant, PTL DEF Spec, StaleNeverIntegrates

\* FinishedRunIsSettled, likewise.
THEOREM FinishedRunIsSettledHolds ==
  ASSUME "reconcile_overrun" \notin Disturbances
  PROVE  Spec => []FinishedRunIsSettled
<1>1. ReconcileInv => FinishedRunIsSettled
  BY DEF ReconcileInv, FinishedRunIsSettled
<1> QED BY <1>1, ReconcileInvariant, PTL

\* OneIntegration under the same two assumptions.
THEOREM OneIntegrationHolds ==
  ASSUME "reconcile_overrun" \notin Disturbances,
         "reconcile_failure" \notin Disturbances
  PROVE  Spec => []OneIntegration
<1>1. IntegrationInv => OneIntegration
  BY DEF IntegrationInv, OneIntegration
<1> QED BY <1>1, IntegrationInvariant, PTL

\* The task implements FencedExecution: claims, dispatches and integrations are
\* its three steps, and everything else stutters.
THEOREM FencingPromiseHolds ==
  ASSUME "reconcile_overrun" \notin Disturbances
  PROVE  Spec => FencingPromise
<1> USE DEF Fenced!fencedVars
<1>1. Init => Fenced!FencedInit
  BY DEF Init, Fenced!FencedInit
<1>2. ASSUME TypeOK, ExecutionInv, ReconcileInv, [Next]_vars
      PROVE  [Fenced!FencedNext]_(Fenced!fencedVars)
  <2>1. CASE \E w \in Workers, m \in queue : ClaimExecution(w, m)
    <3>1. PICK w \in Workers, m \in queue : ClaimExecution(w, m)
      BY <2>1
    <3>2. task.generation \notin started /\ m.generation = task.generation
      BY <1>2, <3>1
      DEF ClaimExecution, Claimable, IdentityOf, ExecutionInv
    <3>3. Fenced!Start
      BY <3>1, <3>2 DEF ClaimExecution, TaskWith, Fenced!Start
    <3> QED BY <3>3 DEF Fenced!FencedNext
  <2>2. CASE \E r \in Reconcilers : DispatchPreparedTask(r)
    BY <2>2 DEF DispatchPreparedTask, history, Fenced!Dispatch,
                Fenced!FencedNext
  <2>3. CASE \E r \in Reconcilers : IntegrateWorkspace(r)
    <3>1. PICK r \in Reconcilers : IntegrateWorkspace(r)
      BY <2>3
    <3>2. /\ recon[r].result.generation = task.generation
          /\ task.generation \in started
      BY <1>2, <3>1 DEF IntegrateWorkspace, ReconcileInv, ExecutionInv
    <3>3. CASE UNCHANGED integrated
      BY <3>1, <3>3 DEF IntegrateWorkspace
    <3>4. CASE /\ recon[r].result.generation \notin integrated
               /\ integrated' = integrated \cup {recon[r].result.generation}
      BY <3>1, <3>2, <3>4
      DEF IntegrateWorkspace, Fenced!Integrate, Fenced!FencedNext
    <3> QED BY <3>1, <3>3, <3>4 DEF IntegrateWorkspace
  <2> QED BY <1>2, <2>1, <2>2, <2>3, FencedSteps
<1> QED
  BY <1>1, <1>2, TypeCorrect, ExecutionInvariant, ReconcileInvariant, PTL
  DEF Spec, FencingPromise, Fenced!FencedSpec
=============================================================================
