--------------------------- MODULE TaskExecution ---------------------------
(***************************************************************************)
(* The life of one task of a Runtime V2 run: the semantic controller       *)
(* (reconcileRun, in the context engine) prepares and dispatches it, the   *)
(* outbox relay publishes the execute message, a Rust worker claims it     *)
(* under a lease, runs the executor, and commits a fenced result, which    *)
(* the controller finalizes.  Every `await` of the code at which another   *)
(* process can change what was read is a boundary between two actions.     *)
(*                                                                         *)
(* dispatch_generation and fencing_token are written by one statement      *)
(* only, dispatchPreparedTask, which adds one to both; they start equal    *)
(* and every comparison in the code tests them together, so `generation'   *)
(* stands for the pair.                                                    *)
(*                                                                         *)
(* PostgreSQL rows: run, task, outbox, results, consumed, reconcileLease.  *)
(* RabbitMQ: queue (at-least-once; copies of a message are not counted).   *)
(* Files on the shared volume, one path per attempt: descriptors,          *)
(* checkpoints, files.  Process memory: worker, recon, cancel.             *)
(* History: started, integrated, disturbed.                                *)
(***************************************************************************)
EXTENDS Integers, FiniteSets

CONSTANTS Workers,       \* executor slots of the Rust workers
          Reconcilers,   \* processes that may run reconcileRun
          NoOwner,       \* a NULL reconcile_lease_owner
          MaxAttempts,   \* agent_tasks.max_attempts
          ExitOutcomes,  \* how an execution that is not aborted may end
          Disturbances,  \* what the environment may do to the system
          MaxDisturbances \* bound: how often in one behaviour

DisturbanceKinds == {"relay_crash", "dead_letter", "worker_crash",
                     "lease_lapse", "preparation_failure",
                     "bookkeeping_failure", "reconcile_failure",
                     "reconcile_overrun", "cancel"}

\* What the finalizer makes of a result: an accepted handoff, a failure whose
\* class may be retried, one that may not, a blocked handoff, an abort.
Outcomes == {"accepted", "retryable", "fatal", "blocked", "aborted"}

ASSUME ConstantsAssumption ==
  /\ NoOwner \notin Reconcilers
  /\ MaxAttempts \in Nat \ {0}
  /\ ExitOutcomes \subseteq Outcomes \ {"aborted"}
  /\ Disturbances \subseteq DisturbanceKinds
  /\ MaxDisturbances \in Nat

VARIABLES
  run,             \* agent_runs.status
  task,            \* the agent_tasks row
  outbox,          \* unpublished agent.task.execute.v1 rows
  queue,           \* the execute queue
  worker,          \* one consume_execute task per slot
  descriptors,     \* descriptor files: which generation each was written for
  checkpoints,     \* attempts that left a resumable repair checkpoint file
  files,           \* result files
  results,         \* agent_execution_results rows
  consumed,        \* those with consumed_at set
  reconcileLease,  \* reconcile_lease_owner and whether it has expired
  recon,           \* one reconcileRun invocation per process
  cancel,          \* the agent_cancel call
  started,         \* generations a worker has claimed ('task.running' events)
  integrated,      \* generations whose change set was applied to the root
  disturbed        \* disturbances so far

broker      == <<outbox, queue>>
fileVars    == <<descriptors, checkpoints, files>>
resultRows  == <<results, consumed>>
controlVars == <<reconcileLease, recon>>
history     == <<started, integrated>>
vars == <<run, task, outbox, queue, worker, descriptors, checkpoints, files,
          results, consumed, reconcileLease, recon, cancel, started,
          integrated, disturbed>>

-----------------------------------------------------------------------------
SUCCESS_TASK_STATUSES  == {"integrated"}
TERMINAL_TASK_STATUSES == SUCCESS_TASK_STATUSES
                            \cup {"failed", "blocked", "cancelled"}
Dispatchable == {"routed", "retrying"}
TaskStatuses == Dispatchable \cup {"queued", "running"}
                  \cup TERMINAL_TASK_STATUSES

Identity == [attempt : Nat, generation : Nat]
Result   == [attempt : Nat, generation : Nat, outcome : Outcomes]

IdentityOf(x) == [attempt |-> x.attempt, generation |-> x.generation]
NoIdentity == [attempt |-> 0, generation |-> 0]
NoResult   == [attempt |-> 0, generation |-> 0, outcome |-> "fatal"]

IdleWorker == [pc |-> "idle", id |-> NoIdentity, path |-> 0,
               outcome |-> "fatal"]
IdleRecon  == [pc |-> "idle", todo |-> {}, row |-> NoResult,
               result |-> NoResult, attempt |-> 0, expected |-> 0]

WorkerPcs == {"idle", "claimed", "executing", "exited", "written"}
ReconPcs  == {"idle", "finalize", "integrate", "settle", "consume",
              "recover", "plan", "prepare", "dispatch", "check", "finish",
              "release"}

Task == [status : TaskStatuses, attempt : Nat, generation : Nat,
         lease : {"none", "live", "expired"},
         error : {"none", "execution_lease_expired", "other"},
         descriptor : Nat]
Worker == [pc : WorkerPcs, id : Identity, path : Nat, outcome : Outcomes]
Recon  == [pc : ReconPcs, todo : SUBSET Result, row : Result,
           result : Result, attempt : Nat, expected : Nat]

\* Every row, message, file and program counter has the shape its column or
\* struct gives it.
TypeOK ==
  /\ run \in {"running", "finished", "cancelled"}
  /\ task \in Task
  /\ outbox \in SUBSET Identity
  /\ queue \in SUBSET Identity
  /\ worker \in [Workers -> Worker]
  /\ descriptors \in SUBSET Identity
  /\ checkpoints \in SUBSET Nat
  /\ files \in SUBSET Result
  /\ results \in SUBSET Result
  /\ consumed \in SUBSET Result
  /\ reconcileLease \in [owner : Reconcilers \cup {NoOwner},
                         expired : BOOLEAN]
  /\ recon \in [Reconcilers -> Recon]
  /\ cancel \in {"none", "task", "run", "done"}
  /\ started \in SUBSET Nat
  /\ integrated \in SUBSET Nat
  /\ disturbed \in Nat

\* createRun and the first reconcile of a run leave each task routed, at
\* attempt 0 and generation 0, with nothing queued.
Init ==
  /\ run = "running"
  /\ task = [status |-> "routed", attempt |-> 0, generation |-> 0,
             lease |-> "none", error |-> "none", descriptor |-> 0]
  /\ outbox = {} /\ queue = {}
  /\ worker = [w \in Workers |-> IdleWorker]
  /\ descriptors = {} /\ checkpoints = {} /\ files = {}
  /\ results = {} /\ consumed = {}
  /\ reconcileLease = [owner |-> NoOwner, expired |-> FALSE]
  /\ recon = [r \in Reconcilers |-> IdleRecon]
  /\ cancel = "none"
  /\ started = {} /\ integrated = {}
  /\ disturbed = 0

\* Rows and processes with some of their fields replaced.
TaskWith(status, lease, error) ==
  [status |-> status, attempt |-> task.attempt,
   generation |-> task.generation, lease |-> lease, error |-> error,
   descriptor |-> task.descriptor]

WorkerAt(w, pc, outcome) ==
  [pc |-> pc, id |-> worker[w].id, path |-> worker[w].path,
   outcome |-> outcome]

FinalizerAt(r, pc, todo, row, result) ==
  [pc |-> pc, todo |-> todo, row |-> row, result |-> result,
   attempt |-> recon[r].attempt, expected |-> recon[r].expected]

SchedulerAt(r, pc, attempt, expected) ==
  [pc |-> pc, todo |-> recon[r].todo, row |-> recon[r].row,
   result |-> recon[r].result, attempt |-> attempt, expected |-> expected]

\* The environment spends one unit of its budget.
Disturb(kind) == /\ kind \in Disturbances
                 /\ disturbed < MaxDisturbances
                 /\ disturbed' = disturbed + 1

-----------------------------------------------------------------------------
(* The outbox relay *)

\* run_outbox_relay publishes inside the transaction that marks the row.
RelayPublish(m) ==
  /\ m \in outbox
  /\ queue' = queue \cup {m}
  /\ outbox' = outbox \ {m}
  /\ UNCHANGED <<run, task, worker, fileVars, resultRows, controlVars, cancel,
                 history, disturbed>>

\* That transaction is lost after the publish: the message is sent again.
RelayCrash(m) ==
  /\ m \in outbox
  /\ Disturb("relay_crash")
  /\ queue' = queue \cup {m}
  /\ UNCHANGED <<run, task, outbox, worker, fileVars, resultRows, controlVars,
                 cancel, history>>

\* The broker refused the row outbox_max_publish_attempts times.
RelayDeadLetter(m) ==
  /\ m \in outbox
  /\ Disturb("dead_letter")
  /\ outbox' = outbox \ {m}
  /\ UNCHANGED <<run, task, queue, worker, fileVars, resultRows, controlVars,
                 cancel, history>>

-----------------------------------------------------------------------------
(* The Rust worker *)

\* Mutant: the status of the locked row is not checked.
Claimable_AnyStatus(m) == run = "running" /\ IdentityOf(task) = m

\* claim_execution's conditions on the locked row.
Claimable(m) == /\ run = "running"
                /\ task.status = "queued"
                /\ IdentityOf(task) = m

ClaimExecution(w, m) ==
  /\ worker[w].pc = "idle"
  /\ m \in queue
  /\ Claimable(m)
  /\ queue' = queue \ {m}
  /\ task' = TaskWith("running", "live", task.error)
  /\ worker' = [worker EXCEPT ![w] =
                  [pc |-> "claimed", id |-> m, path |-> task.descriptor,
                   outcome |-> "fatal"]]
  /\ started' = started \cup {m.generation}
  /\ UNCHANGED <<run, outbox, fileVars, resultRows, controlVars, cancel,
                 integrated, disturbed>>

\* A message whose identity is no longer claimable is acknowledged.
AckStale(w, m) ==
  /\ worker[w].pc = "idle"
  /\ m \in queue
  /\ ~Claimable(m)
  /\ queue' = queue \ {m}
  /\ UNCHANGED <<run, task, outbox, worker, fileVars, resultRows, controlVars,
                 cancel, history, disturbed>>

\* The descriptor is read at the path the claim returned; its attempt and
\* generation must be the claim's.  On a mismatch the message is dropped and
\* the task stays running under a lease nobody renews.
LoadDescriptor(w) ==
  /\ worker[w].pc = "claimed"
  /\ LET loaded == /\ worker[w].path = worker[w].id.attempt
                   /\ worker[w].id \in descriptors
     IN worker' = [worker EXCEPT ![w] =
                     IF loaded THEN WorkerAt(w, "executing", "fatal")
                               ELSE IdleWorker]
  /\ UNCHANGED <<run, task, broker, fileVars, resultRows, controlVars, cancel,
                 history, disturbed>>

\* The executor enters a same-attempt repair and writes its checkpoint.
WriteRepairCheckpoint(w) ==
  /\ worker[w].pc = "executing"
  /\ checkpoints' = checkpoints \cup {worker[w].id.attempt}
  /\ UNCHANGED <<run, task, broker, worker, descriptors, files, resultRows,
                 controlVars, cancel, history, disturbed>>

\* The heartbeat renews lease_expires_at under generation and fence alone,
\* whatever the row's status.
Heartbeat(w) ==
  /\ worker[w].pc = "executing"
  /\ task.generation = worker[w].id.generation
  /\ task.lease # "live"
  /\ task' = TaskWith(task.status, "live", task.error)
  /\ UNCHANGED <<run, broker, worker, fileVars, resultRows, controlVars,
                 cancel, history, disturbed>>

\* The child exits, or is killed on a timeout or a stall.
ExecutorExit(w) ==
  /\ worker[w].pc = "executing"
  /\ \E o \in ExitOutcomes :
       worker' = [worker EXCEPT ![w] = WorkerAt(w, "exited", o)]
  /\ UNCHANGED <<run, task, broker, fileVars, resultRows, controlVars, cancel,
                 history, disturbed>>

\* The cancellation tick saw the run cancelled or a newer dispatch.
ExecutorAbort(w) ==
  /\ worker[w].pc = "executing"
  /\ \/ run = "cancelled"
     \/ task.generation # worker[w].id.generation
  /\ worker' = [worker EXCEPT ![w] = WorkerAt(w, "exited", "aborted")]
  /\ UNCHANGED <<run, task, broker, fileVars, resultRows, controlVars, cancel,
                 history, disturbed>>

\* persist_execution_result writes the file of the attempt before its fenced
\* transaction, over whatever an earlier execution of the attempt wrote.
WriteResultFile(w) ==
  /\ worker[w].pc = "exited"
  /\ LET mine == [attempt |-> worker[w].id.attempt,
                  generation |-> worker[w].id.generation,
                  outcome |-> worker[w].outcome]
     IN files' = {f \in files : f.attempt # mine.attempt} \cup {mine}
  /\ worker' = [worker EXCEPT ![w] =
                  WorkerAt(w, "written", worker[w].outcome)]
  /\ UNCHANGED <<run, task, broker, descriptors, checkpoints, resultRows,
                 controlVars, cancel, history, disturbed>>

\* The transaction: a row only if the fence is still current.
CommitResult(w) ==
  /\ worker[w].pc = "written"
  /\ IF task.generation = worker[w].id.generation
     THEN /\ results' = IF \E x \in results : IdentityOf(x) = worker[w].id
                        THEN results
                        ELSE results \cup
                               {[attempt |-> worker[w].id.attempt,
                                 generation |-> worker[w].id.generation,
                                 outcome |-> worker[w].outcome]}
          /\ task' = TaskWith(task.status, "none", task.error)
     ELSE UNCHANGED <<results, task>>
  /\ worker' = [worker EXCEPT ![w] = IdleWorker]
  /\ UNCHANGED <<run, broker, fileVars, consumed, controlVars, cancel,
                 history, disturbed>>

\* The worker process dies, or fails to load the descriptor or to persist the
\* result: the broker redelivers the message.
WorkerCrash(w) ==
  /\ worker[w].pc # "idle"
  /\ Disturb("worker_crash")
  /\ queue' = queue \cup {worker[w].id}
  /\ worker' = [worker EXCEPT ![w] = IdleWorker]
  /\ UNCHANGED <<run, task, outbox, fileVars, resultRows, controlVars, cancel,
                 history>>

\* lease_expires_at passes.  While the worker that claimed the generation is
\* alive this takes a stall or a partition that outlasts the lease.
LeaseExpires ==
  /\ task.lease = "live"
  /\ task' = TaskWith(task.status, "expired", task.error)
  /\ IF \E w \in Workers : /\ worker[w].pc # "idle"
                           /\ worker[w].id.generation = task.generation
     THEN Disturb("lease_lapse")
     ELSE UNCHANGED disturbed
  /\ UNCHANGED <<run, broker, worker, fileVars, resultRows, controlVars,
                 cancel, history>>

-----------------------------------------------------------------------------
(* reconcileRun *)

Step(r, pc) ==
  recon' = [recon EXCEPT ![r] =
              SchedulerAt(r, pc, recon[r].attempt, recon[r].expected)]

\* claimRunReconcile, then the list of unconsumed results.
ReconcileClaim(r) ==
  /\ recon[r].pc = "idle"
  /\ run = "running"
  /\ \/ reconcileLease.owner \in {NoOwner, r}
     \/ reconcileLease.expired
  /\ reconcileLease' = [owner |-> r, expired |-> FALSE]
  /\ recon' = [recon EXCEPT ![r] =
                 [pc |-> "finalize", todo |-> results \ consumed,
                  row |-> NoResult, result |-> NoResult,
                  attempt |-> 0, expected |-> 0]]
  /\ UNCHANGED <<run, task, broker, worker, fileVars, resultRows, cancel,
                 history, disturbed>>

\* finalizePendingResults takes the listed rows in the order they were created.
Oldest(S, x) == /\ x \in S
                /\ \A y \in S : x.generation <= y.generation

\* loadExecutionResult prefers the file at the row's result_path to the row.
Loaded(row, x) ==
  \/ x \in files /\ x.attempt = row.attempt
  \/ x = row /\ \A f \in files : f.attempt # row.attempt

\* Mutant: only the semantic attempt is compared.
staleExecutionResult_AttemptOnly(x) == x.attempt # task.attempt

staleExecutionResult(x) == IdentityOf(x) # IdentityOf(task)

\* A stale result, and the replay of one that already succeeded, are consumed.
FinalizeDiscard(r) ==
  /\ recon[r].pc = "finalize"
  /\ \E row \in recon[r].todo, x \in files \cup recon[r].todo :
       /\ Oldest(recon[r].todo, row)
       /\ Loaded(row, x)
       /\ \/ staleExecutionResult(x)
          \/ task.status \in SUCCESS_TASK_STATUSES
       /\ consumed' = consumed \cup {row}
       /\ recon' = [recon EXCEPT ![r] =
                      FinalizerAt(r, "finalize", recon[r].todo \ {row},
                                  NoResult, NoResult)]
  /\ UNCHANGED <<run, task, broker, worker, fileVars, results, reconcileLease,
                 cancel, history, disturbed>>

\* A current result: the row is marked running and the handoff is judged.
FinalizeReceive(r) ==
  /\ recon[r].pc = "finalize"
  /\ task.status \notin SUCCESS_TASK_STATUSES
  /\ \E row \in recon[r].todo, x \in files \cup recon[r].todo :
       /\ Oldest(recon[r].todo, row)
       /\ Loaded(row, x)
       /\ ~staleExecutionResult(x)
       /\ recon' = [recon EXCEPT ![r] =
                      FinalizerAt(r, IF x.outcome = "accepted"
                                     THEN "integrate" ELSE "settle",
                                  recon[r].todo, row, x)]
  /\ task' = TaskWith("running", task.lease, task.error)
  /\ UNCHANGED <<run, broker, worker, fileVars, resultRows, reconcileLease,
                 cancel, history, disturbed>>

\* The integration_failed verdict on a result that was accepted.
Failed(x) == [attempt |-> x.attempt, generation |-> x.generation,
              outcome |-> "fatal"]

\* integrateWorkspace: the change set is applied if every root file still is
\* what the workspace was forked from, so never twice for one execution; an
\* empty change set applies nothing; any error fails the task for good.
IntegrateWorkspace(r) ==
  /\ recon[r].pc = "integrate"
  /\ LET g == recon[r].result.generation IN
       \/ /\ g \notin integrated
          /\ integrated' = integrated \cup {g}
          /\ Step(r, "settle")
       \/ /\ g \notin integrated
          /\ UNCHANGED integrated
          /\ Step(r, "settle")
       \/ /\ UNCHANGED integrated
          /\ recon' = [recon EXCEPT ![r] =
                         FinalizerAt(r, "settle", recon[r].todo,
                                     recon[r].row,
                                     Failed(recon[r].result))]
  /\ UNCHANGED <<run, task, broker, worker, fileVars, resultRows,
                 reconcileLease, cancel, started, disturbed>>

\* Mutant: retryability is not required.
RetryAllowed_AnyFailure(retryable, attempt) == attempt < MaxAttempts

\* evaluateRetry's attempt budget.
RetryAllowed(retryable, attempt) == retryable /\ attempt < MaxAttempts

\* The status the finalizer writes for a judged result.
StatusAfter(x) ==
  CASE x.outcome = "accepted" -> "integrated"
    [] x.outcome = "aborted"  -> "cancelled"
    [] x.outcome = "blocked"  -> "blocked"
    [] OTHER -> IF RetryAllowed(x.outcome = "retryable", x.attempt)
                THEN "retrying" ELSE "failed"

SettleTask(r) ==
  /\ recon[r].pc = "settle"
  /\ task' = TaskWith(StatusAfter(recon[r].result), "none",
                      IF recon[r].result.outcome = "accepted"
                      THEN task.error ELSE "other")
  /\ Step(r, "consume")
  /\ UNCHANGED <<run, broker, worker, fileVars, resultRows, reconcileLease,
                 cancel, history, disturbed>>

\* The bookkeeping of an integration shares its try block: an error there, the
\* artifact, checkpoint or event rows say, is taken for a failed integration,
\* even once the task is integrated.
BookkeepingFailure(r) ==
  /\ recon[r].pc \in {"settle", "consume"}
  /\ recon[r].result.outcome = "accepted"
  /\ Disturb("bookkeeping_failure")
  /\ recon' = [recon EXCEPT ![r] =
                 FinalizerAt(r, "settle", recon[r].todo, recon[r].row,
                             Failed(recon[r].result))]
  /\ UNCHANGED <<run, task, broker, worker, fileVars, resultRows,
                 reconcileLease, cancel, history>>

ConsumeResult(r) ==
  /\ recon[r].pc = "consume"
  /\ consumed' = consumed \cup {recon[r].row}
  /\ recon' = [recon EXCEPT ![r] =
                 FinalizerAt(r, "finalize", recon[r].todo \ {recon[r].row},
                             NoResult, NoResult)]
  /\ UNCHANGED <<run, task, broker, worker, fileVars, results, reconcileLease,
                 cancel, history, disturbed>>

\* Mutant: no expired execution is ever found.
RecoverScan_FindsNone(r) ==
  /\ recon[r].pc = "finalize"
  /\ recon[r].todo = {}
  /\ Step(r, IF run # "running" THEN "release" ELSE "plan")
  /\ UNCHANGED <<run, task, broker, worker, fileVars, resultRows,
                 reconcileLease, cancel, history, disturbed>>

\* recoverExpiredExecutions reads the rows ...
RecoverScan(r) ==
  /\ recon[r].pc = "finalize"
  /\ recon[r].todo = {}
  /\ Step(r, CASE run # "running" -> "release"
               [] /\ run = "running"
                  /\ task.status = "running"
                  /\ task.lease = "expired" -> "recover"
               [] OTHER -> "plan")
  /\ UNCHANGED <<run, task, broker, worker, fileVars, resultRows,
                 reconcileLease, cancel, history, disturbed>>

\* ... and later writes the expired ones back unconditionally.
RecoverExpired(r) ==
  /\ recon[r].pc = "recover"
  /\ task' = TaskWith("routed", "none", "execution_lease_expired")
  /\ Step(r, "plan")
  /\ UNCHANGED <<run, broker, worker, fileVars, resultRows, reconcileLease,
                 cancel, history, disturbed>>

\* The task list: all terminal, ready, or (active, or its retry window still
\* closed) nothing to dispatch.
PlanPass(r) ==
  /\ recon[r].pc = "plan"
  /\ \/ /\ run # "running"
        /\ Step(r, "release")
     \/ /\ run = "running"
        /\ task.status \in TERMINAL_TASK_STATUSES
        /\ Step(r, "finish")
     \/ /\ run = "running"
        /\ task.status \in {"queued", "running", "retrying"}
        /\ Step(r, "check")
  /\ UNCHANGED <<run, task, broker, worker, fileVars, resultRows,
                 reconcileLease, cancel, history, disturbed>>

SelectReady(r) ==
  /\ recon[r].pc = "plan"
  /\ run = "running"
  /\ task.status \in Dispatchable
  /\ recon' = [recon EXCEPT ![r] =
                 SchedulerAt(r, "prepare", task.attempt, 0)]
  /\ UNCHANGED <<run, task, broker, worker, fileVars, resultRows,
                 reconcileLease, cancel, history, disturbed>>

\* resolveProcessLossRepairResumeCandidate
RepairResumeCandidate ==
  /\ task.status \in Dispatchable
  /\ task.error = "execution_lease_expired"
  /\ task.attempt >= 1
  /\ task.attempt \in checkpoints

\* prepareTaskExecution re-reads the row, keeps the attempt of a resumable
\* execution and otherwise takes the next one, and writes the descriptor for
\* the generation the dispatch is expected to produce.
PrepareTask(r) ==
  /\ recon[r].pc = "prepare"
  /\ run = "running"
  /\ LET attempt == IF RepairResumeCandidate THEN task.attempt
                                             ELSE task.attempt + 1
     IN /\ descriptors' = {d \in descriptors : d.attempt # attempt} \cup
                            {[attempt |-> attempt,
                              generation |-> task.generation + 1]}
        /\ task' = [status |-> task.status, attempt |-> task.attempt,
                    generation |-> task.generation, lease |-> task.lease,
                    error |-> task.error, descriptor |-> attempt]
        /\ recon' = [recon EXCEPT ![r] =
                       SchedulerAt(r, "dispatch", attempt,
                                   IF RepairResumeCandidate
                                   THEN task.generation + 1 ELSE 0)]
  /\ UNCHANGED <<run, broker, worker, checkpoints, files, resultRows,
                 reconcileLease, cancel, history, disturbed>>

\* evaluateDispatch denies a run that has become terminal: the pass throws.
DispatchDenied(r) ==
  /\ recon[r].pc = "prepare"
  /\ run # "running"
  /\ Step(r, "release")
  /\ UNCHANGED <<run, task, broker, worker, fileVars, resultRows,
                 reconcileLease, cancel, history, disturbed>>

\* persistPreparationFailure counts the failed preparation as an attempt, from
\* the row the task list returned.
PreparationFailure(r) ==
  /\ recon[r].pc = "prepare"
  /\ run = "running"
  /\ Disturb("preparation_failure")
  /\ \E retryable \in BOOLEAN :
       LET attempt == recon[r].attempt + 1
       IN task' = [status |-> IF RetryAllowed(retryable, attempt)
                              THEN "retrying" ELSE "failed",
                   attempt |-> attempt, generation |-> task.generation,
                   lease |-> "none", error |-> "other",
                   descriptor |-> task.descriptor]
  /\ Step(r, "check")
  /\ UNCHANGED <<run, broker, worker, fileVars, resultRows, reconcileLease,
                 cancel, history>>

\* dispatchPreparedTask, under the row lock.  A resumed dispatch that did not
\* get the generation it was prepared for throws after the commit.
DispatchPreparedTask(r) ==
  /\ recon[r].pc = "dispatch"
  /\ task.status \in Dispatchable
  /\ LET next == [attempt |-> recon[r].attempt,
                  generation |-> task.generation + 1]
     IN /\ task' = [status |-> "queued", attempt |-> next.attempt,
                    generation |-> next.generation, lease |-> "none",
                    error |-> "none", descriptor |-> next.attempt]
        /\ outbox' = outbox \cup {next}
        /\ Step(r, IF recon[r].expected \in {0, next.generation}
                   THEN "check" ELSE "release")
  /\ UNCHANGED <<run, queue, worker, fileVars, resultRows, reconcileLease,
                 cancel, history, disturbed>>

DispatchSkipped(r) ==
  /\ recon[r].pc = "dispatch"
  /\ task.status \notin Dispatchable
  /\ Step(r, "check")
  /\ UNCHANGED <<run, task, broker, worker, fileVars, resultRows,
                 reconcileLease, cancel, history, disturbed>>

\* Mutant: a queued task counts as done.
CheckPass_QueuedIsDone(r) ==
  /\ recon[r].pc = "check"
  /\ Step(r, IF task.status # "running" THEN "finish" ELSE "release")
  /\ UNCHANGED <<run, task, broker, worker, fileVars, resultRows,
                 reconcileLease, cancel, history, disturbed>>

\* After the dispatch phase the task list is read once more.
CheckPass(r) ==
  /\ recon[r].pc = "check"
  /\ Step(r, IF task.status \in TERMINAL_TASK_STATUSES
             THEN "finish" ELSE "release")
  /\ UNCHANGED <<run, task, broker, worker, fileVars, resultRows,
                 reconcileLease, cancel, history, disturbed>>

\* finalizeExecution: a terminal status computed from the tasks, unless the run
\* has one already.
FinishRun(r) ==
  /\ recon[r].pc = "finish"
  /\ run' \in CASE run # "running" -> {run}
                [] run = "running" /\ task.status = "cancelled"
                     -> {"cancelled", "finished"}
                [] OTHER -> {"finished"}
  /\ Step(r, "release")
  /\ UNCHANGED <<task, broker, worker, fileVars, resultRows, reconcileLease,
                 cancel, history, disturbed>>

\* releaseRunReconcile, a no-op once another process owns the lease.
Released(r) == IF reconcileLease.owner = r
               THEN [owner |-> NoOwner, expired |-> FALSE]
               ELSE reconcileLease

ReleaseReconcile(r) ==
  /\ recon[r].pc = "release"
  /\ reconcileLease' = Released(r)
  /\ recon' = [recon EXCEPT ![r] = IdleRecon]
  /\ UNCHANGED <<run, task, broker, worker, fileVars, resultRows, cancel,
                 history, disturbed>>

\* The pass throws (its finally block releases the lease) or its process dies.
ReconcileFailure(r) ==
  /\ recon[r].pc \notin {"idle", "release"}
  /\ Disturb("reconcile_failure")
  /\ \/ reconcileLease' = Released(r)
     \/ UNCHANGED reconcileLease
  /\ recon' = [recon EXCEPT ![r] = IdleRecon]
  /\ UNCHANGED <<run, task, broker, worker, fileVars, resultRows, cancel,
                 history>>

\* The 120 s reconcile lease is never renewed: a pass that takes longer loses
\* its exclusivity while it is still running.
ReconcileLeaseExpires ==
  /\ reconcileLease.owner # NoOwner
  /\ ~reconcileLease.expired
  /\ reconcileLease' = [owner |-> reconcileLease.owner, expired |-> TRUE]
  /\ IF recon[reconcileLease.owner].pc # "idle"
     THEN Disturb("reconcile_overrun")
     ELSE UNCHANGED disturbed
  /\ UNCHANGED <<run, task, broker, worker, fileVars, resultRows, recon,
                 cancel, history>>

-----------------------------------------------------------------------------
(* agent_cancel: cancelRun lists the tasks, writes each that was not terminal
   in the list, and then the run. *)

CancelList ==
  /\ cancel = "none"
  /\ Disturb("cancel")
  /\ cancel' = IF task.status \in TERMINAL_TASK_STATUSES THEN "run" ELSE "task"
  /\ UNCHANGED <<run, task, broker, worker, fileVars, resultRows, controlVars,
                 history>>

CancelTask ==
  /\ cancel = "task"
  /\ task' = TaskWith("cancelled", task.lease, "other")
  /\ cancel' = "run"
  /\ UNCHANGED <<run, broker, worker, fileVars, resultRows, controlVars,
                 history, disturbed>>

\* updateRun refuses to replace a terminal status.
CancelRun ==
  /\ cancel = "run"
  /\ run' = IF run = "running" THEN "cancelled" ELSE run
  /\ cancel' = "done"
  /\ UNCHANGED <<task, broker, worker, fileVars, resultRows, controlVars,
                 history, disturbed>>

-----------------------------------------------------------------------------
RelayNext ==
  \E m \in outbox : RelayPublish(m) \/ RelayCrash(m) \/ RelayDeadLetter(m)

WorkerNext(w) ==
  \/ \E m \in queue : ClaimExecution(w, m) \/ AckStale(w, m)
  \/ LoadDescriptor(w) \/ WriteRepairCheckpoint(w) \/ Heartbeat(w)
  \/ ExecutorExit(w) \/ ExecutorAbort(w)
  \/ WriteResultFile(w) \/ CommitResult(w)
  \/ WorkerCrash(w)

FinalizerStep(r) ==
  \/ FinalizeDiscard(r) \/ FinalizeReceive(r) \/ IntegrateWorkspace(r)
  \/ SettleTask(r) \/ ConsumeResult(r) \/ BookkeepingFailure(r)

SchedulerStep(r) ==
  \/ RecoverScan(r) \/ RecoverExpired(r) \/ PlanPass(r) \/ SelectReady(r)
  \/ PrepareTask(r) \/ DispatchDenied(r) \/ PreparationFailure(r)
  \/ DispatchPreparedTask(r) \/ DispatchSkipped(r) \/ CheckPass(r)
  \/ FinishRun(r)

ReconcilerNext(r) ==
  \/ ReconcileClaim(r) \/ FinalizerStep(r) \/ SchedulerStep(r)
  \/ ReleaseReconcile(r) \/ ReconcileFailure(r)

CancelNext == CancelList \/ CancelTask \/ CancelRun

Next == \/ RelayNext
        \/ \E w \in Workers : WorkerNext(w)
        \/ \E r \in Reconcilers : ReconcilerNext(r)
        \/ CancelNext
        \/ LeaseExpires
        \/ ReconcileLeaseExpires

Spec == Init /\ [][Next]_vars

\* The relay polls, each worker slot consumes and runs to the end, the driver
\* wakes every runnable run (its sweep every 30 s at the latest) and a pass
\* runs to its end, and a lease nobody renews runs out.  A retry window opens
\* for good, so a pass that keeps meeting the task cannot always find it shut.
Fairness ==
  /\ WF_vars(\E m \in outbox : RelayPublish(m))
  /\ \A w \in Workers :
       /\ WF_vars(\E m \in queue : ClaimExecution(w, m))
       /\ WF_vars(LoadDescriptor(w))
       /\ WF_vars(ExecutorExit(w))
       /\ WF_vars(WriteResultFile(w))
       /\ WF_vars(CommitResult(w))
  /\ \A r \in Reconcilers :
       /\ WF_vars(ReconcileClaim(r))
       /\ WF_vars(FinalizerStep(r))
       /\ WF_vars(SchedulerStep(r))
       /\ SF_vars(SelectReady(r))
       /\ WF_vars(ReleaseReconcile(r))
  /\ WF_vars(LeaseExpires /\ UNCHANGED disturbed)
  /\ WF_vars(ReconcileLeaseExpires /\ UNCHANGED disturbed)

FairSpec == Spec /\ Fairness

-----------------------------------------------------------------------------
(* Properties *)

\* No dispatch is executed twice: a generation a worker has once claimed is
\* never claimed again, however often its message is published or redelivered
\* and whatever happened to the worker that held it.
StartsOnce ==
  [][\A w \in Workers :
       worker[w].pc = "idle" /\ worker'[w].pc = "claimed"
         => worker'[w].id.generation \notin started]_vars

\* A worker that holds a claim never finds a result file of its own dispatch:
\* consume_execute's recovery of an existing result is never needed, and never
\* confuses an earlier execution of the attempt with this one.
ClaimIsFresh ==
  \A w \in Workers :
    worker[w].pc \in {"claimed", "executing", "exited"}
      => \A f \in files : f.generation # worker[w].id.generation

\* Only the current dispatch is ever applied to the repository root: the fence
\* the finalizer checked still holds when integrateWorkspace writes.
StaleNeverIntegrates ==
  [][\A g \in integrated' \ integrated : g = task.generation]_vars

\* The root receives the change set of at most one execution of the task, in
\* spite of retries, lost workers and late results, as long as the pass that
\* integrates lives to record it (event-driven-finalizer.mjs).
OneIntegration == \A g, h \in integrated : g = h

\* A run that finished of itself holds no task that is still to be executed.
FinishedRunIsSettled ==
  run = "finished" => task.status \in TERMINAL_TASK_STATUSES

\* Every run ends: a lost worker, a failed preparation or a failed pass delays
\* the task but never leaves it waiting for something that cannot happen.
RunEnds == <>(run # "running")

\* The task keeps the promise of fencing, in every interleaving of workers,
\* relay, controller and operator that respects the reconcile lease.
Fenced == INSTANCE FencedExecution WITH generation <- task.generation
FencingPromise == Fenced!FencedSpec

-----------------------------------------------------------------------------
(* The inductive invariants behind the properties *)

\* A generation above the current one has not been started; a queued one is
\* unclaimed; workers never share a generation; and whatever a worker wrote, a
\* row recorded or the finalizer holds belongs to a generation that was started.
ExecutionInv ==
  /\ \A g \in started : g <= task.generation
  /\ task.status = "queued" => task.generation \notin started
  /\ \A w \in Workers :
       worker[w].pc # "idle" => worker[w].id.generation \in started
  /\ \A v, w \in Workers :
       v # w /\ worker[v].pc # "idle" /\ worker[w].pc # "idle"
         => worker[v].id.generation # worker[w].id.generation
  /\ \A x \in files \cup results : x.generation \in started
  /\ \A r \in Reconcilers :
       /\ recon[r].todo \subseteq results
       /\ recon[r].pc = "integrate" => recon[r].result.generation \in started
  /\ ClaimIsFresh

\* While no pass outlives its lease, a pass in progress owns the lease, the
\* fence it checked still holds when it integrates, and the run it finishes has
\* a terminal task and no other pass.
ReconcileInv ==
  /\ \A r \in Reconcilers :
       recon[r].pc # "idle" => reconcileLease = [owner |-> r, expired |-> FALSE]
  /\ \A r \in Reconcilers :
       recon[r].pc = "integrate" => recon[r].result.generation = task.generation
  /\ \A r \in Reconcilers :
       recon[r].pc = "finish" => task.status \in TERMINAL_TASK_STATUSES
  /\ run = "finished" =>
       /\ task.status \in TERMINAL_TASK_STATUSES
       /\ \A r \in Reconcilers : recon[r].pc \in {"idle", "release"}

\* An execution has one outcome: the worker that has it is the only one to write
\* it, to the file and to the row.
OutcomeInv ==
  /\ \A x, y \in files \cup results :
       x.generation = y.generation => x.outcome = y.outcome
  /\ \A w \in Workers, x \in files \cup results :
       worker[w].pc # "idle" /\ x.generation = worker[w].id.generation
         => worker[w].pc = "written" /\ x.outcome = worker[w].outcome

\* An execution that is integrated, or is about to be, was accepted wherever it
\* left a trace.
Applied(g) == \/ g \in integrated
              \/ \E r \in Reconcilers : /\ recon[r].pc = "integrate"
                                        /\ recon[r].result.generation = g
AppliedInv ==
  \A g \in started : Applied(g) =>
    /\ \A x \in files \cup results : x.generation = g => x.outcome = "accepted"
    /\ \A w \in Workers : worker[w].pc # "idle" /\ worker[w].id.generation = g
         => worker[w].pc = "written" /\ worker[w].outcome = "accepted"

\* While no pass fails half way, an integrated execution is the current one, its
\* task is terminal or in the hands of the finalizer, and no pass is about to
\* dispatch the task again.
IntegrationInv ==
  /\ integrated \subseteq started
  /\ \A g \in integrated : g = task.generation
  /\ \A r \in Reconcilers :
       recon[r].pc = "integrate" => recon[r].result.outcome = "accepted"
  /\ integrated # {} =>
       /\ \/ task.status \in TERMINAL_TASK_STATUSES
          \/ \E r \in Reconcilers : recon[r].pc \in {"integrate", "settle"}
       /\ \A r \in Reconcilers :
            /\ recon[r].pc \notin {"recover", "prepare", "dispatch"}
            /\ recon[r].pc = "settle"
                 => recon[r].result.outcome \in {"accepted", "fatal"}
=============================================================================
