---------------------------- MODULE RunScheduler ----------------------------
(***************************************************************************)
(* One run as a graph of tasks: reconcileRun, pass after pass, refines the *)
(* bootstrap graph, compiles the implementation graph, dispatches what is  *)
(* ready, cascades failures and settles the run, while workers execute the *)
(* dispatched tasks and an operator may cancel.  Passes of one run do not  *)
(* overlap here and an execution is a claim and an outcome: the lease, the *)
(* fence and the steps of a finalization are the subject of TaskExecution. *)
(*                                                                         *)
(* Every await of a pass is a place where it may fail or the process die   *)
(* (PassFails); what has been written by then stays.                       *)
(***************************************************************************)
EXTENDS Planning, Sequences

CONSTANTS
    ProductHandoffs, \* what Product Discovery may hand off
    Plans,           \* the implementation plans the Technical Lead may hand off
    Intents,         \* workflow.executionIntent: "execute", "plan-only"
    Parallelism,     \* the values of options.maxParallel considered
    Outcomes,        \* what an execution's result amounts to
    Disturbances,    \* the kinds of disturbance considered
    MaxDisturbances  \* bound: how often the environment interferes

DisturbanceKinds ==
    {"pass_failure", "worker_crash", "preparation_failure", "cancel"}

ASSUME HandoffAssumption ==
    /\ ProductHandoffs \subseteq Assessment
    /\ Plans \subseteq ImplementationPlan
ASSUME BoundsAssumption ==
    /\ Intents \subseteq {"execute", "plan-only"}
    /\ Parallelism \subseteq Nat \ {0}
    /\ MaxDisturbances \in Nat
    /\ Outcomes \subseteq OutcomeKinds
    /\ Disturbances \subseteq DisturbanceKinds

VARIABLES
    intent,     \* workflow.executionIntent
    maxParallel, \* options.maxParallel
    brief,      \* the accepted handoff of Product Discovery, NoBrief before
    itemDeps,   \* the dependencies of the accepted implementation plan
    run,        \* agent_runs.status
    phase,      \* plan_json: "provisional", "refined" (bootstrap), "compiled"
    planned,    \* the tasks of plan_json
    status,     \* agent_tasks.status, "absent" where there is no row
    deps,       \* agent_tasks.dependencies_json
    attempt,    \* agent_tasks.attempt
    waiting,    \* retrying tasks whose retry_not_before lies ahead
    result,     \* the unconsumed execution result of a task, or "none"
    lapsed,     \* running tasks whose lease has run out
    pc,         \* where the pass is
    batch,      \* tasks the pass still has to reopen, prepare or dispatch
    cancelling, \* tasks cancelRun has still to cancel
    cancel,     \* cancelRun: "none", "tasks", "done"
    disturbed   \* bound

vars == <<intent, maxParallel, brief, itemDeps, run, phase, planned, status, deps,
          attempt, waiting, result, lapsed, pc, batch, cancelling, cancel, disturbed>>

handoffs  == <<brief, itemDeps>>
graph     == <<intent, maxParallel, handoffs, phase, planned, deps>>
operator  == <<cancelling, cancel>>
execution == <<result, lapsed>>

-----------------------------------------------------------------------------
Success  == {"integrated"}            \* and "verified", of a verification task
Failure  == {"failed", "blocked", "cancelled"}
Terminal == Success \cup Failure
Waiting  == {"routed", "retrying"}
Active   == {"queued", "running"}
TerminalRun == {"closed", "failed", "blocked", "cancelled"}

Rows == {t \in Tasks : status[t] # "absent"}

\* listTasks and every loop over it go by task_id, that is by stage and name.
Alphabet == <<"review", "implementation", "operational-readiness",
              "product-acceptance", "product-discovery", "quality-assurance",
              "technical-refinement">>
Precedes(t, u) ==
    LET Place(x) == CHOOSE i \in DOMAIN Alphabet : Alphabet[i] = x.stage
    IN Place(t) < Place(u) \/ (Place(t) = Place(u) /\ t.n < u.n)
IsFirst(t, S) == t \in S /\ \A u \in S \ {t} : Precedes(t, u)

dependenciesSatisfied(t) == \A d \in deps[t] : status[d] \in Success
dependenciesFailed(t)    == \E d \in deps[t] : status[d] \in Failure
retryWindowOpen(t)       == t \notin waiting
bootstrapTopologyReadyForTask(t) == t = Product \/ phase # "provisional"

NoBrief == [required |-> {}, facts |-> {}, criteria |-> {}]

\* createRun of a provisional plan: Product Discovery and the Technical Lead,
\* who waits for it, are the rows a run starts with.
Init ==
    /\ intent \in Intents /\ maxParallel \in Parallelism
    /\ brief = NoBrief /\ itemDeps = [i \in WorkItems |-> {}]
    /\ run = "routed" /\ phase = "provisional"
    /\ planned = ProvisionalTasks
    /\ status = [t \in Tasks |-> IF t \in planned THEN "routed" ELSE "absent"]
    /\ deps = ProvisionalDeps
    /\ attempt = [t \in Tasks |-> 0]
    /\ waiting = {} /\ lapsed = {} /\ batch = {}
    /\ result = [t \in Tasks |-> "none"]
    /\ pc = "idle"
    /\ cancel = "none" /\ cancelling = {}
    /\ disturbed = 0

Disturb(kind) ==
    /\ kind \in Disturbances
    /\ disturbed < MaxDisturbances
    /\ disturbed' = disturbed + 1

-----------------------------------------------------------------------------
(* Execution: a worker claims a queued task and commits one result. *)

Claim(t) ==
    /\ status[t] = "queued"
    /\ status' = [status EXCEPT ![t] = "running"]
    /\ UNCHANGED <<graph, execution, operator, run, attempt, waiting, pc, batch,
                   disturbed>>

\* Only Quality Assurance can ask for changes of integrated work; for every
\* other review stage that decision is a retryable failure of its own task.
Finish(t, outcome) ==
    /\ status[t] = "running" /\ t \notin lapsed /\ result[t] = "none"
    /\ outcome = "changes" => t = QA
    /\ result' = [result EXCEPT ![t] = outcome]
    /\ UNCHANGED <<graph, operator, run, status, attempt, waiting, lapsed, pc,
                   batch, disturbed>>

WorkerDies(t) ==
    /\ Disturb("worker_crash")
    /\ status[t] = "running" /\ result[t] = "none" /\ t \notin lapsed
    /\ lapsed' = lapsed \cup {t}
    /\ UNCHANGED <<graph, operator, run, status, attempt, waiting, result, pc,
                   batch>>

RetryWindowOpens(t) ==
    /\ t \in waiting
    /\ waiting' = waiting \ {t}
    /\ UNCHANGED <<graph, execution, operator, run, status, attempt, pc, batch,
                   disturbed>>

-----------------------------------------------------------------------------
(* The pass. *)

\* Most steps of a pass leave the graph, the executions and the operator alone.
OnlyRows == UNCHANGED <<graph, execution, operator, run, attempt, waiting,
                        batch, disturbed>>

\* claimRunReconcile; a run that has ended is left alone.
BeginPass ==
    /\ pc = "idle" /\ run \notin TerminalRun
    /\ run' = "running" /\ pc' = "finalize"
    /\ UNCHANGED <<graph, execution, operator, status, attempt, waiting, batch,
                   disturbed>>

\* Mutant: work items without an attempt left are reopened too.
Reopenable_AnyAttempt == {t \in deps[QA] : /\ t.stage = "implementation"
                                           /\ status[t] \in Success}

\* reopenImplementationDependenciesForQaRepair: integrated work items with an
\* attempt left.
Reopenable == {t \in deps[QA] : /\ t.stage = "implementation"
                                /\ status[t] \in Success
                                /\ attempt[t] < MaxAttempts}

\* The handoffs of Product Discovery as its executor passes them on.
Handed == {reconcileExistingAssessment(h) : h \in ProductHandoffs}

\* The plans of the Technical Lead, as its executor passes them on.
HandedPlans == UNION {RepairedPlans(p, brief.criteria) : p \in Plans}

\* An accepted handoff of a planning agent becomes an artifact of the run.
AcceptHandoff(t) ==
    /\ brief' \in IF t = Product
                  THEN {h \in Handed : ProductHandoffAccepted(h)}
                  ELSE {brief}
    /\ itemDeps' \in IF t = Technical
                     THEN {p.deps : p \in {q \in HandedPlans :
                                             TechnicalHandoffAccepted(q, brief)}}
                     ELSE {itemDeps}

\* finalizeExecutionResult of one pending result.  A Quality Assurance review
\* that asks for changes first reopens the work it reviewed, row by row.
FinalizeResult(t) ==
    /\ pc = "finalize" /\ result[t] # "none"
    /\ \E budget \in BOOLEAN :
         LET settled == t \notin planned \/ status[t] \in Success
             again == evaluateRetry(result[t], attempt[t], budget)
             next == IF settled THEN status[t]
                     ELSE CASE result[t] = "accepted" -> "integrated"
                            [] result[t] \in {"blocked", "cancelled"} -> result[t]
                            [] OTHER -> IF again THEN "retrying" ELSE "failed"
         IN IF result[t] = "changes" /\ again /\ ~settled /\ Reopenable # {}
            THEN /\ batch' = Reopenable /\ pc' = "reopen"
                 /\ UNCHANGED <<status, waiting, result, handoffs>>
            ELSE /\ status' = [status EXCEPT ![t] = next]
                 /\ waiting' = IF next = "retrying" /\ RetryIsDelayed(result[t])
                               THEN waiting \cup {t} ELSE waiting \ {t}
                 /\ result' = [result EXCEPT ![t] = "none"]
                 /\ IF result[t] = "accepted" /\ ~settled
                    THEN AcceptHandoff(t) ELSE UNCHANGED handoffs
                 /\ UNCHANGED <<batch, pc>>
    /\ lapsed' = lapsed \ {t}
    /\ UNCHANGED <<intent, maxParallel, phase, planned, deps, operator, run,
                   attempt, disturbed>>

ReopenForQaRepair(t) ==
    /\ pc = "reopen" /\ IsFirst(t, batch)
    /\ status' = [status EXCEPT ![t] = "retrying"]
    /\ batch' = batch \ {t}
    /\ UNCHANGED <<graph, execution, operator, run, attempt, waiting, pc,
                   disturbed>>

\* Quality Assurance itself is retried; only now is its result consumed.
QaRepairScheduled ==
    /\ pc = "reopen" /\ batch = {}
    /\ status' = [status EXCEPT ![QA] = "retrying"]
    /\ result' = [result EXCEPT ![QA] = "none"]
    /\ pc' = "finalize"
    /\ UNCHANGED <<graph, operator, run, attempt, waiting, lapsed, batch,
                   disturbed>>

\* The run is read again: it may have been cancelled meanwhile.
ResultsFinalized ==
    /\ pc = "finalize" /\ \A t \in Tasks : result[t] = "none"
    /\ pc' = IF run \in TerminalRun THEN "idle" ELSE "refine"
    /\ status' = status
    /\ OnlyRows

\* The reviews Product Discovery asked for, and the facts one review needs of
\* another, replace the provisional graph in one transaction.
applyBootstrapPlanRefinement(plan) ==
    /\ phase' = "refined"
    /\ planned' = planned \cup ReviewTasks(plan)
    /\ status' = [t \in Tasks |-> IF t \in ReviewTasks(plan) THEN "routed"
                                                            ELSE status[t]]
    /\ deps' = [t \in Tasks |->
                  IF t \in ReviewTasks(plan) \cup {Technical}
                  THEN BootstrapDeps(plan, t) ELSE deps[t]]

\* The pass fails where the refinement throws, and where the run has ended or
\* the Technical Lead's row is no longer waiting.
RefineBootstrapTopology ==
    /\ pc = "refine"
    /\ IF phase # "provisional" \/ status[Product] \notin Success
       THEN /\ pc' = "recover"
            /\ UNCHANGED <<phase, planned, status, deps>>
       ELSE IF \/ RefinementThrows(brief)
               \/ run \in TerminalRun \/ status[Technical] \notin Waiting
       THEN /\ pc' = "idle"
            /\ UNCHANGED <<phase, planned, status, deps>>
       ELSE /\ pc' = "recover"
            /\ applyBootstrapPlanRefinement(
                 refineBootstrapPlanFromProductDiscovery(brief))
    /\ UNCHANGED <<intent, maxParallel, handoffs, execution, operator, run,
                   attempt, waiting, batch, disturbed>>

recoverExpiredExecutions ==
    /\ pc = "recover"
    /\ status' = [t \in Tasks |-> IF t \in lapsed /\ status[t] = "running"
                                  THEN "routed" ELSE status[t]]
    /\ lapsed' = {} /\ pc' = "cascade"
    /\ UNCHANGED <<graph, operator, run, attempt, waiting, result, batch,
                   disturbed>>

\* Mutant: a task that waits to be retried is not cancelled.
Doomed_RoutedOnly ==
    {t \in Tasks : status[t] = "routed" /\ dependenciesFailed(t)}

Doomed == {t \in Tasks : status[t] \in Waiting /\ dependenciesFailed(t)}

\* cascadeDependencyFailures: one round over the rows, repeated while a round
\* changes something.
CascadeRound ==
    /\ pc \in {"cascade", "cascade-again"} /\ Doomed # {}
    /\ status' = [t \in Tasks |-> IF t \in Doomed THEN "cancelled"
                                                  ELSE status[t]]
    /\ pc' = pc
    /\ OnlyRows

CascadeDone ==
    /\ pc \in {"cascade", "cascade-again"} /\ Doomed = {}
    /\ pc' = IF pc = "cascade" THEN "compile" ELSE "settle-again"
    /\ status' = status
    /\ OnlyRows

\* The rows of the compiled tasks, unless the request asked for a plan only;
\* a row that is already there is left alone.
addTasks ==
    LET added == {t \in CompiledTasks(planned) : status[t] = "absent"}
    IN /\ status' = [t \in Tasks |-> IF t \in added THEN "routed" ELSE status[t]]
       /\ deps' = [t \in Tasks |-> IF t \in added
                                   THEN CompiledDeps(planned, itemDeps, t)
                                   ELSE deps[t]]

CompileRefinedDag ==
    /\ pc = "compile"
    /\ LET ready == evaluateCompile(phase, status[Technical] \in Success)
       IN /\ pc' = IF ready THEN "replace-plan"
                   ELSE IF run \in TerminalRun THEN "idle" ELSE "settle"
          /\ IF ready /\ intent = "execute"
             THEN addTasks
             ELSE UNCHANGED <<status, deps>>
    /\ UNCHANGED <<intent, maxParallel, handoffs, phase, planned, execution,
                   operator, run, attempt, waiting, batch, disturbed>>

\* The plan row is a statement of its own, after the transaction of the rows.
replacePlan ==
    /\ pc = "replace-plan"
    /\ phase' = "compiled"
    /\ planned' = IF intent = "execute" THEN planned \cup CompiledTasks(planned)
                                        ELSE planned
    /\ pc' = IF intent = "plan-only" THEN "close-plan"
             ELSE IF run \in TerminalRun THEN "idle" ELSE "settle"
    /\ UNCHANGED <<intent, maxParallel, handoffs, deps, execution, operator,
                   run, status, attempt, waiting, batch, disturbed>>

\* updateRun refuses to change the status of a run that has ended.
EndRun(outcome) == run' = IF run \in TerminalRun THEN run ELSE outcome

ClosePlanOnlyRun ==
    /\ pc = "close-plan"
    /\ EndRun("closed")
    /\ pc' = "idle"
    /\ UNCHANGED <<graph, execution, operator, status, attempt, waiting, batch,
                   disturbed>>

AllTerminal == \A t \in Rows : status[t] \in Terminal

\* Mutant: the phase of the plan and the product's acceptance are not looked at.
FinalStatus_RowsOnly ==
    CASE \E t \in Rows : status[t] = "failed" -> "failed"
      [] OTHER -> "closed"

\* determineRunStatusWithDocker, then what finalizeExecution asks on top: a
\* compiled plan, product acceptance, and the promotion policy.
FinalStatus ==
    LET some(s) == \E t \in Rows : status[t] = s
        rows == IF some("failed") THEN "failed" ELSE IF some("blocked") THEN "blocked"
                ELSE IF some("cancelled") THEN "cancelled" ELSE "closed"
        promoted == evaluatePromotion(
                      status[QA] \in Success,
                      \A t \in ReadinessTasks(planned) : status[t] \in Success,
                      status[Acceptance] \in Success,
                      {t \in Rows : status[t] \in Failure})
    IN IF phase = "compiled" /\ (rows = "closed" => promoted) THEN rows ELSE "failed"

\* finalizeExecution when every row is terminal.
SettleRun ==
    /\ pc \in {"settle", "settle-again"}
    /\ IF AllTerminal
       THEN EndRun(FinalStatus) /\ pc' = "idle"
       ELSE run' = run /\ pc' = IF pc = "settle" THEN "select" ELSE "idle"
    /\ UNCHANGED <<graph, execution, operator, status, attempt, waiting, batch,
                   disturbed>>

\* Mutant: a task that ran before is taken to have its dependencies still.
Ready_RetryUnchecked ==
    {t \in Tasks : /\ status[t] \in Waiting
                   /\ retryWindowOpen(t)
                   /\ status[t] = "retrying" \/ dependenciesSatisfied(t)}

Ready == {t \in Tasks : /\ status[t] \in Waiting
                        /\ retryWindowOpen(t)
                        /\ dependenciesSatisfied(t)}
ActiveTasks == {t \in Tasks : status[t] \in Active}
Available == IF Cardinality(ActiveTasks) >= maxParallel THEN 0
             ELSE maxParallel - Cardinality(ActiveTasks)

FirstReady(n) ==
    {t \in Ready : Cardinality({u \in Ready : Precedes(u, t)}) < n}

\* As many of the ready tasks, in the order of their names, as there is room.
selectReadyDispatchTasks == FirstReady(Available)

\* A ready task without a plan fails the pass, and so does one the policy does
\* not let go: of a run that has ended, or of a graph that is still provisional.
\* That its dependencies are satisfied is asserted to the policy, not computed.
SelectReady ==
    /\ pc = "select"
    /\ IF \E t \in selectReadyDispatchTasks :
            \/ t \notin planned
            \/ ~evaluateDispatch(run \in TerminalRun, status[t] \in Waiting, TRUE,
                                 retryWindowOpen(t),
                                 bootstrapTopologyReadyForTask(t))
       THEN batch' = {} /\ pc' = "idle"
       ELSE batch' = selectReadyDispatchTasks /\ pc' = "dispatch"
    /\ UNCHANGED <<graph, execution, operator, run, status, attempt, waiting,
                   disturbed>>

\* prepareTaskExecution and dispatchPreparedTask, which looks at the row again
\* and at nothing else.
DispatchReadyTask(t) ==
    /\ pc = "dispatch" /\ IsFirst(t, batch)
    /\ batch' = batch \ {t}
    /\ IF status[t] \in Waiting
       THEN /\ status' = [status EXCEPT ![t] = "queued"]
            /\ attempt' = [attempt EXCEPT ![t] = @ + 1]
            /\ waiting' = waiting \ {t}
       ELSE UNCHANGED <<status, attempt, waiting>>
    /\ UNCHANGED <<graph, execution, operator, run, pc, disturbed>>

\* classifyPreparationFailure: a dependency that is unavailable, or a history
\* of reviews that is ambiguous.
PreparationFailures == {"transient", "fatal"}

\* persistPreparationFailure writes the row without looking at it again.
PreparationFails(t, failure) ==
    /\ Disturb("preparation_failure")
    /\ pc = "dispatch" /\ IsFirst(t, batch)
    /\ batch' = batch \ {t}
    /\ attempt' = [attempt EXCEPT ![t] = @ + 1]
    /\ \E budget \in BOOLEAN :
         LET again == evaluateRetry(failure, attempt[t] + 1, budget)
         IN /\ status' = [status EXCEPT ![t] = IF again THEN "retrying" ELSE "failed"]
            /\ waiting' = IF again THEN waiting \cup {t} ELSE waiting
    /\ UNCHANGED <<graph, execution, operator, run, pc>>

DispatchDone ==
    /\ pc = "dispatch" /\ batch = {}
    /\ pc' = "cascade-again"
    /\ status' = status
    /\ OnlyRows

\* An await of the pass throws, or the process goes away.
PassFails ==
    /\ Disturb("pass_failure")
    /\ pc # "idle"
    /\ pc' = "idle" /\ batch' = {}
    /\ UNCHANGED <<graph, execution, operator, run, status, attempt, waiting>>

-----------------------------------------------------------------------------
(* cancelRun walks over the rows it read first, without a lock. *)

StartCancel ==
    /\ Disturb("cancel") /\ cancel = "none" /\ run \notin TerminalRun
    /\ cancel' = "tasks"
    /\ cancelling' = {t \in Rows : status[t] \notin Terminal}
    /\ UNCHANGED <<graph, execution, run, status, attempt, waiting, pc, batch>>

CancelTask(t) ==
    /\ cancel = "tasks" /\ IsFirst(t, cancelling)
    /\ status' = [status EXCEPT ![t] = "cancelled"]
    /\ cancelling' = cancelling \ {t}
    /\ UNCHANGED <<graph, execution, run, attempt, waiting, pc, batch, cancel,
                   disturbed>>

CancelRun ==
    /\ cancel = "tasks" /\ cancelling = {}
    /\ cancel' = "done"
    /\ EndRun("cancelled")
    /\ UNCHANGED <<graph, execution, status, attempt, waiting, pc, batch,
                   cancelling, disturbed>>

-----------------------------------------------------------------------------
PassStep ==
    \/ \E t \in Tasks : FinalizeResult(t) \/ ReopenForQaRepair(t)
    \/ QaRepairScheduled \/ ResultsFinalized
    \/ RefineBootstrapTopology \/ recoverExpiredExecutions
    \/ CascadeRound \/ CascadeDone
    \/ CompileRefinedDag \/ replacePlan \/ ClosePlanOnlyRun
    \/ SettleRun \/ SelectReady
    \/ \E t \in Tasks : DispatchReadyTask(t)
    \/ DispatchDone

CancelStep == CancelRun \/ \E t \in Tasks : CancelTask(t)

Next ==
    \/ BeginPass \/ PassStep \/ PassFails
    \/ \E t \in Tasks : Claim(t) \/ WorkerDies(t) \/ RetryWindowOpens(t)
    \/ \E t \in Tasks, f \in PreparationFailures : PreparationFails(t, f)
    \/ \E t \in Tasks, outcome \in Outcomes : Finish(t, outcome)
    \/ StartCancel \/ CancelStep

Spec == Init /\ [][Next]_vars

\* The driver comes back to an active run, a pass goes on, workers claim and
\* finish what is queued, and time passes.
Fairness ==
    /\ WF_vars(BeginPass) /\ WF_vars(PassStep) /\ WF_vars(CancelStep)
    /\ \A t \in Tasks : /\ WF_vars(Claim(t)) /\ WF_vars(RetryWindowOpens(t))
                        /\ WF_vars(\E o \in Outcomes : Finish(t, o))

FairSpec == Spec /\ Fairness

-----------------------------------------------------------------------------
TypeOK ==
    /\ intent \in Intents /\ maxParallel \in Parallelism
    /\ brief \in Handed \cup {NoBrief}
    /\ itemDeps \in [WorkItems -> SUBSET WorkItems]
    /\ run \in {"routed", "running"} \cup TerminalRun
    /\ phase \in {"provisional", "refined", "compiled"}
    /\ planned \subseteq Tasks /\ batch \subseteq Tasks
    /\ status \in [Tasks -> {"absent"} \cup Waiting \cup Active \cup Terminal]
    /\ deps \in [Tasks -> SUBSET Tasks]
    /\ attempt \in [Tasks -> Nat]
    /\ waiting \subseteq Tasks /\ lapsed \subseteq Tasks
    /\ result \in [Tasks -> OutcomeKinds \cup {"none"}]
    /\ cancel \in {"none", "tasks", "done"} /\ cancelling \subseteq Tasks
    /\ disturbed \in 0..MaxDisturbances

\* An execution that is queued or under way builds on integrated work only:
\* neither the refinement of the graph, nor its compilation, nor the reopening
\* of work for Quality Assurance takes a dependency away from under it.
RunsOnIntegratedWork ==
    cancel = "none" =>
      \A t \in Tasks : status[t] \in Active /\ result[t] = "none" =>
                         dependenciesSatisfied(t)

\* No more than maxParallel tasks of the run are queued or running, across
\* passes, retries, repairs and recovered leases.
ParallelBound == Cardinality(ActiveTasks) <= maxParallel

\* A run closes only over a compiled plan whose every task is integrated,
\* product acceptance and each readiness review included, or over a plan that
\* was all it was asked for.
ClosedIsProven ==
    run = "closed" /\ cancel = "none" =>
      /\ phase = "compiled"
      /\ \A t \in Rows : status[t] \in Success
      /\ intent = "execute" =>
           /\ Rows = planned /\ CompiledTasks(planned) \subseteq Rows
           /\ \A t \in Rows : \A d \in deps[t] : status[d] \in Success

\* A run whose compiled tasks are all integrated is never reported as failed,
\* blocked or cancelled, whatever pass failed on the way.
IntegratedRunCloses ==
    /\ run \in TerminalRun /\ cancel = "none" /\ intent = "execute"
    /\ Acceptance \in Rows
    /\ \A t \in Rows : status[t] \in Success
    => run = "closed"

\* A pass that fails between the rows of the compiled tasks and the plan that
\* names them leaves no row a later pass could dispatch or finalize without a
\* plan: every result and every task about to be dispatched is in the plan, and
\* as long as nobody cancels the run a pass gets to see rows with a plan only.
PlanKnowsTheWork ==
    /\ cancel = "none" /\ pc \in {"settle", "select", "dispatch"} => Rows \subseteq planned
    /\ pc = "dispatch" => batch \subseteq planned
    /\ \A t \in Tasks : result[t] # "none" \/ attempt[t] > 0 => t \in planned

-----------------------------------------------------------------------------
(* The invariants the proofs rest on. *)

Bootstrap == {Product, Technical} \cup {Review(r) : r \in Reviews}

\* Rows and plan: rows a plan does not name are those of a compilation that was
\* cut short, and the Technical Lead is done by then.
RowsInv ==
    /\ ProvisionalTasks \subseteq planned /\ planned \subseteq Rows
    /\ cancelling \subseteq Rows
    /\ phase = "provisional" => Rows = ProvisionalTasks
    /\ phase # "compiled" \/ intent = "plan-only" => planned \subseteq Bootstrap
    /\ phase = "compiled" /\ intent = "execute" => CompiledTasks(planned) \subseteq planned
    /\ ~(Rows \subseteq planned) =>
         /\ intent = "execute" /\ phase = "refined"
         /\ Rows = planned \cup CompiledTasks(planned)
         /\ cancel = "none" =>
              /\ status[Technical] \in Success
              /\ pc \notin {"settle", "select", "dispatch", "cascade-again",
                            "settle-again", "close-plan"}
    /\ pc = "replace-plan" =>
         /\ phase = "refined"
         /\ intent = "execute" => CompiledTasks(planned) \subseteq Rows

\* The edges of the graph: they join rows, work items are waited for by work
\* items and Quality Assurance only, and the Technical Lead waits for every
\* review.
EdgesInv ==
    /\ \A t \in Rows : deps[t] \subseteq Rows
    /\ \A t \in Tasks : \A d \in deps[t] :
         d.stage = "implementation" => t = QA \/ t.stage = "implementation"
    /\ QA \in Rows => {Item(i) : i \in WorkItems} \subseteq deps[QA]
    /\ phase # "provisional" => Rows \cap Bootstrap \subseteq {Technical} \cup deps[Technical]
    /\ RequirementsAreValid(brief.facts)

\* Attempts: a task nobody attempted has no result and waits, or was cancelled.
AttemptsInv ==
    /\ \A t \in Tasks : attempt[t] = 0 => /\ status[t] \in {"absent", "routed", "cancelled"}
                                         /\ result[t] = "none"
    /\ \A t \in Tasks : attempt[t] > 0 => t \in planned
    /\ phase = "provisional" => attempt[Technical] = 0
    /\ pc = "dispatch" =>
         \A t \in batch : t \in planned /\ bootstrapTopologyReadyForTask(t)

\* Results: a pending one belongs to a running task, and the one that asks for
\* changes to Quality Assurance, whose result is kept while work is reopened.
ResultsInv ==
    /\ \A t \in lapsed : result[t] = "none"
    /\ \A t \in Tasks : result[t] = "changes" => t = QA
    /\ cancel = "none" => \A t \in Tasks : result[t] # "none" => status[t] = "running"
    /\ pc = "reopen" =>
         /\ result[QA] = "changes"
         /\ \A t \in batch : /\ t.stage = "implementation"
                             /\ attempt[t] > 0 /\ attempt[t] < MaxAttempts
                             /\ cancel = "none" => status[t] \in Success

\* While Quality Assurance is queued or running the work it reviews stands still:
\* integrated, or reopened for a result that is still to be consumed.
WorkInv ==
    cancel = "none" =>
      /\ pc = "dispatch" =>
           \A t \in batch : status[t] \in Waiting /\ dependenciesSatisfied(t)
      /\ status[QA] \in Active =>
           \A i \in WorkItems :
              \/ status[Item(i)] \in Success
              \/ /\ status[Item(i)] = "retrying"
                 /\ result[QA] = "changes" /\ pc \in {"idle", "finalize", "reopen"}
      /\ \A t \in Tasks : QA \in deps[t] /\ attempt[t] > 0 => status[QA] \in Success
      /\ status[Technical] \in Active \cup Success => dependenciesSatisfied(Technical)

\* The tasks of a batch count as active from its selection on.
BatchInv ==
    pc = "dispatch" => Cardinality(ActiveTasks \cup batch) <= maxParallel

\* A pass ends a run as its last step, when nothing is left to run.
EndInv ==
    /\ pc = "close-plan" => intent = "plan-only" /\ phase = "compiled"
    /\ cancel = "none" =>
         /\ run \in TerminalRun => pc = "idle" /\ AllTerminal
         /\ pc \in {"replace-plan", "close-plan"} => status[Technical] \in Success

\* What is dispatched may be dispatched, in every graph the run goes through:
\* on integrated work, within maxParallel and as part of the plan
\* (selectReadyDispatchTasks, dispatchReadyTasks, compileRefinedDag).
DispatchIsSound == RunsOnIntegratedWork /\ ParallelBound /\ PlanKnowsTheWork

\* A run is closed when its work is integrated and proven, and only then
\* (finalizeExecution).
StatusIsRight == ClosedIsProven /\ IntegratedRunCloses

\* Integrated work is reopened for Quality Assurance alone, within its attempt
\* budget, and before anything downstream of Quality Assurance was started.
QaRepairIsContained ==
    [][\A t \in Tasks :
         status[t] \in Success /\ status'[t] \notin Success /\ cancel = "none" =>
           /\ t.stage = "implementation" /\ attempt[t] < MaxAttempts
           /\ status[QA] \notin Success /\ result[QA] = "changes"
           /\ \A d \in Tasks : QA \in deps[d] => attempt[d] = 0]_vars

\* Every run ends: failures cascade to whatever waited for them, retries are
\* bounded, and failed passes, dead workers and failed preparations delay the
\* end without preventing it.  The one exception is a brief the facts of which
\* form a cycle: its acceptance is not refused, its refinement always is.
RunEnds == <>(run \in TerminalRun \/ RefinementThrows(brief))
=============================================================================
