--------------------------- MODULE DirectExecution ---------------------------
(***************************************************************************)
(* executePlan and executeTask: one node process that runs the tasks of a  *)
(* plan itself, up to maxParallel at a time.  A task whose agent has a     *)
(* docker profile gets a compose project of its own for its validation:    *)
(* preflight, up, wait for health, executor, health check, down.           *)
(*                                                                         *)
(* Every executeTask is a coroutine; two of them, the loop of executePlan, *)
(* a signal handler and an operator's cancelRun interleave at every await. *)
(* A coroutine that throws rejects its promise, and what becomes of that   *)
(* depends on whether a Promise.race has already been set upon it.         *)
(***************************************************************************)
EXTENDS Naturals, FiniteSets, Sequences

CONSTANTS
    Tasks,           \* the tasks of the compiled plan
    Bootstrap,       \* the tasks the run starts with
    Lead,            \* workflow.technicalLeadTaskId
    Deps,            \* dependencies_json
    Services,        \* the services with a published port, in the map's order
    Profile,         \* the services of the docker profile of a task's agent
    Dynamic,         \* tasks whose agent has the profile "dynamic"
    Hashes,          \* the hashes of the lifecycle scopes considered
    PortRange,       \* published ports (10000 in the code)
    Exits,           \* how an executor may fail
    MaxParallel,     \* options.maxParallel
    MaxAttempts,     \* options.maxAttempts
    Disturbances,    \* the kinds of disturbance considered
    MaxDisturbances  \* bound: how often the environment interferes

\* What an executor that does not complete comes back with.
RetryableExits == {"rate_limit", "schema", "database_locked", "stalled",
                   "soft_timeout", "timeout", "nonzero"}
FatalExits     == {"agent_fallback", "auth", "model_missing", "identity"}
HandoffResults == {"missing", "invalid", "agent_blocked", "agent_cancelled",
                   "agent_failed", "unproven", "paths_mismatch"}
DisturbanceKinds == {"store", "toolchain", "docker", "service", "agent", "compile",
                     "integration", "signal", "cancel"}

ASSUME GraphAssumption ==
    /\ Bootstrap \subseteq Tasks /\ Lead \in Bootstrap
    /\ Deps \in [Tasks -> SUBSET Tasks]
    /\ \A t \in Bootstrap : Deps[t] \subseteq Bootstrap
\* collectCycleIssues refuses a plan with a cycle.
ASSUME AcyclicAssumption ==
    \A S \in SUBSET Tasks : S # {} => \E t \in S : Deps[t] \cap S = {}
ASSUME DockerAssumption ==
    /\ \A t \in Tasks : Profile[t] \subseteq {Services[i] : i \in DOMAIN Services}
    /\ PortRange \in Nat /\ PortRange >= Len(Services)
    /\ Hashes \subseteq [Tasks -> Nat] /\ Dynamic \subseteq Tasks
ASSUME BoundsAssumption ==
    /\ Exits \subseteq (RetryableExits \cup FatalExits \cup HandoffResults)
    /\ MaxParallel \in Nat \ {0} /\ MaxAttempts \in Nat \ {0}
    /\ Disturbances \subseteq DisturbanceKinds /\ MaxDisturbances \in Nat

Managers == Tasks \X (1 .. MaxAttempts)  \* one lifecycle manager per attempt

VARIABLES
    run,        \* agent_runs.status
    phase,      \* plan.phase: "bootstrap", "compiled"
    status,     \* agent_tasks.status, "absent" where there is no row
    attempt,    \* agent_tasks.attempt
    needs,      \* the services of dockerProfile of the attempt
    plan,       \* where executePlan is
    ready,      \* the tasks its last selection found ready
    running,    \* the tasks of the map running
    handled,    \* tasks whose promise a Promise.race listens to
    at,         \* where the executeTask of a task is
    blocked,    \* dockerBlocked of the attempt
    result,     \* how the executor of the attempt came back
    health,     \* preTeardownHealth of the attempt
    workspaces, \* tasks whose isolated workspace exists
    hash,       \* the hash of a task's lifecycle scope
    project,    \* a compose project: the health and the ports of its services
    called,     \* managers whose down() has been called
    teardowns,  \* managers whose compose down is under way
    traps,      \* managers whose signal traps are set
    alive,      \* the process lives
    proven,     \* tasks whose latest attempt proved completion (history)
    excused,    \* services and workspaces of tasks nobody answers for (history)
    cancelling, \* tasks cancelRun has still to cancel
    cancel,     \* cancelRun: "none", "tasks", "done"
    signalled,  \* a signal has reached the process (history)
    disturbed   \* bound

tries   == <<attempt, needs>>
docker  == <<hash, project, called, teardowns, traps, signalled>>
loop    == <<plan, ready, handled, phase>>
operator == <<cancelling, cancel>>
outcome == <<blocked, result, health, proven>>
vars == <<run, status, tries, running, at, workspaces, alive, excused, disturbed,
          docker, loop, operator, outcome>>

Success  == {"integrated"}            \* and "verified", of a verification task
Failure  == {"failed", "blocked", "cancelled"}
Terminal == Success \cup Failure
TerminalRun == {"closed", "failed", "blocked", "cancelled"}

Rows == {t \in Tasks : status[t] # "absent"}
First(S) == CHOOSE t \in S : TRUE        \* the order of listTasks, whatever it is
dependenciesSatisfied(t) == \A d \in Deps[t] : status[d] \in Success
dependenciesFailed(t)    == \E d \in Deps[t] : status[d] \in Failure

Disturb(kind) ==
    /\ kind \in Disturbances
    /\ disturbed < MaxDisturbances
    /\ disturbed' = disturbed + 1

-----------------------------------------------------------------------------
(* Docker: the compose project of a task and its ports. *)

resolveAgentDockerProfile(t) == IF t \in Dynamic THEN {} ELSE Profile[t]
resolveRunDockerProfile == UNION {resolveAgentDockerProfile(t) : t \in Rows}
\* Resolved once per attempt, from the plan executeTask is given.
DockerProfile(t) == IF t \in Dynamic THEN resolveRunDockerProfile
                    ELSE resolveAgentDockerProfile(t)

\* The project is named after the run and the task, so a retry finds the
\* project of the attempt before it and no other.
dockerLifecycleProjectName(t) == t

computeEphemeralPort(t) == hash[t] % PortRange
Offset(s) == CHOOSE i \in 0 .. Len(Services) - 1 : Services[i + 1] = s
buildEphemeralPortMap(t) ==
    [s \in needs[t] |-> (computeEphemeralPort(t) + Offset(s)) % PortRange]
\* What compose brings up: the override publishes these ports and no other.
generateComposeOverride(t) == [health |-> "starting", ports |-> buildEphemeralPortMap(t)]

\* Mutant: the ports are those of the run, not of the task.
RunScopedEnv(t) ==
    [s \in needs[t] |-> (computeEphemeralPort(Lead) + Offset(s)) % PortRange]

\* The executor's environment computes the ports a second time.
buildDockerLifecycleEnv(t) ==
    [s \in needs[t] |-> (computeEphemeralPort(t) + Offset(s)) % PortRange]

Ports(p) == {p[s] : s \in DOMAIN p}
Absent == [health |-> "none", ports |-> <<>>]
MyProject(t) == project[dockerLifecycleProjectName(t)]
SetProject(t, p) == project' = [project EXCEPT ![dockerLifecycleProjectName(t)] = p]
Manager(t) == <<t, attempt[t]>>

Conflict(t) ==
    \E q \in Tasks \ {dockerLifecycleProjectName(t)} :
        /\ project[q].health # "none"
        /\ Ports(project[q].ports) \cap Ports(buildEphemeralPortMap(t)) # {}

Init ==
    /\ run = "running" /\ phase = "bootstrap"
    /\ status = [t \in Tasks |-> IF t \in Bootstrap THEN "routed" ELSE "absent"]
    /\ attempt = [t \in Tasks |-> 0] /\ needs = [t \in Tasks |-> {}]
    /\ plan = "cascade" /\ ready = {} /\ running = {} /\ handled = {}
    /\ at = [t \in Tasks |-> "none"]
    /\ blocked = {} /\ result = [t \in Tasks |-> "none"]
    /\ health = [t \in Tasks |-> "unknown"]
    /\ workspaces = {} /\ hash \in Hashes
    /\ project = [t \in Tasks |-> Absent]
    /\ called = {} /\ teardowns = {} /\ traps = {}
    /\ alive = TRUE /\ proven = {} /\ excused = {}
    /\ cancelling = {} /\ cancel = "none" /\ signalled = FALSE /\ disturbed = 0

-----------------------------------------------------------------------------
(* The loop of executePlan. *)

OnlyLoop == UNCHANGED <<tries, at, workspaces, alive, excused, docker, operator,
                        outcome>>

\* Rounds until nothing changes: every round judges by the rows it began with.
Doomed == {t \in Tasks : status[t] = "routed" /\ dependenciesFailed(t)}
Cascade ==
    /\ alive /\ plan = "cascade" /\ Doomed # {}
    /\ status' = [t \in Tasks |-> IF t \in Doomed THEN "cancelled" ELSE status[t]]
    /\ UNCHANGED <<run, running, plan, ready, handled, phase, disturbed>> /\ OnlyLoop

CompileDue == phase = "bootstrap" /\ status[Lead] \in Success

\* A missing artifact, a refused decision or an invalid plan throws out of the
\* loop, before or after the new rows are written.
Compile ==
    /\ alive /\ plan = "cascade" /\ Doomed = {}
    /\ \/ ~CompileDue /\ plan' = "select" /\ UNCHANGED <<phase, status, disturbed>>
       \/ /\ CompileDue /\ plan' = "select" /\ phase' = "compiled"
          /\ status' = [t \in Tasks |-> IF status[t] = "absent" THEN "routed"
                                        ELSE status[t]]
          /\ UNCHANGED disturbed
       \/ /\ CompileDue /\ Disturb("compile")
          /\ plan' = "threw" /\ UNCHANGED <<phase, status>>
    /\ UNCHANGED <<run, running, ready, handled>> /\ OnlyLoop

Select ==
    /\ alive /\ plan = "select"
    /\ IF (\A t \in Rows : status[t] \in Terminal) /\ running = {}
       THEN plan' = "finalize" /\ ready' = {}
       ELSE /\ plan' = "dispatch"
            /\ ready' = {t \in Tasks : status[t] = "routed" /\ dependenciesSatisfied(t)}
    /\ UNCHANGED <<run, status, running, handled, phase, disturbed>> /\ OnlyLoop

\* executeTask up to its first update of the row.  The loop does not look into
\* the map when it selects, so the model takes it that this update is written
\* before the loop reads the rows again.
Begin(t) ==
    /\ running' = running \cup {t} /\ handled' = handled \ {t}
    /\ at' = [at EXCEPT ![t] = "prepare"]
    /\ status' = [status EXCEPT ![t] = "running"]
    /\ attempt' = [attempt EXCEPT ![t] = @ + 1]
    /\ needs' = [needs EXCEPT ![t] = DockerProfile(t)]
    /\ proven' = proven \ {t}

\* The policy looks at the run as it is now and at the row as it was selected;
\* a refusal throws, and what is running goes on without the loop.
Dispatch(t) ==
    /\ alive /\ plan = "dispatch"
    /\ ready # {} /\ t = First(ready) /\ Cardinality(running) < MaxParallel
    /\ ready' = ready \ {t}
    /\ \/ run \notin TerminalRun /\ Begin(t) /\ UNCHANGED plan
       \/ /\ run \in TerminalRun /\ plan' = "threw"
          /\ UNCHANGED <<running, handled, at, status, tries, proven>>
    /\ UNCHANGED <<run, workspaces, alive, excused, disturbed, phase, docker,
                   operator, blocked, result, health>>

\* Nothing runs: the loop ends, or declares a stall when a row is open still.
\* The run's status can be set only while the run is open.
Dispatched ==
    /\ alive /\ plan = "dispatch"
    /\ ready = {} \/ Cardinality(running) >= MaxParallel
    /\ IF running # {}
       THEN plan' = "race" /\ handled' = handled \cup running /\ UNCHANGED run
       ELSE /\ IF \A t \in Rows : status[t] \in Terminal
               THEN plan' = "finalize" /\ UNCHANGED run
               ELSE /\ plan' = "threw" /\ run' = IF run \in TerminalRun THEN run ELSE "failed"
            /\ UNCHANGED handled
    /\ UNCHANGED <<status, running, ready, phase, disturbed>> /\ OnlyLoop

\* Promise.race over the promises that were running.
Raced ==
    /\ alive /\ plan = "race" /\ ~(handled \subseteq running)
    /\ plan' = "cascade" /\ handled' = handled \cap running
    /\ UNCHANGED <<run, status, running, ready, phase, disturbed>> /\ OnlyLoop

\* The status of the run, from its rows.  The comment above the function would
\* close a run whose other tasks integrated when docker alone blocked a task;
\* its code takes no notice of dockerValidation, and the run is blocked.
determineRunStatusWithDocker ==
    IF \E t \in Rows : status[t] = "failed" THEN "failed"
    ELSE IF \E t \in Rows : status[t] = "blocked" THEN "blocked"
    ELSE IF \E t \in Rows : status[t] = "cancelled" THEN "cancelled"
    ELSE IF \E t \in Rows : status[t] \notin Success THEN "failed"
    ELSE "closed"
FinalStatus == IF phase # "compiled" THEN "failed" ELSE determineRunStatusWithDocker

\* A run that has ended refuses a second completion: finalizeExecution throws.
Finalize ==
    /\ alive /\ plan = "finalize"
    /\ IF run \in TerminalRun
       THEN plan' = "threw" /\ UNCHANGED run
       ELSE plan' = "returned" /\ run' = FinalStatus
    /\ UNCHANGED <<status, running, ready, handled, phase, disturbed>> /\ OnlyLoop

-----------------------------------------------------------------------------
(* executeTask: one attempt of a task. *)

OnlyTask == UNCHANGED <<run, alive, loop, operator>>
To(t, there) == at' = [at EXCEPT ![t] = there]
SetRow(t, s) == status' = [status EXCEPT ![t] = s]
\* The promise of executeTask settles; its locals and its manager are gone.
locals == <<running, blocked, result, health, called>>
Return(t) ==
    /\ To(t, "none") /\ running' = running \ {t}
    /\ blocked' = blocked \ {t} /\ called' = called \ {Manager(t)}
    /\ result' = [result EXCEPT ![t] = "none"]
    /\ health' = [health EXCEPT ![t] = "unknown"]

\* orchestrateDockerLifecycle gives up: its manager is kept for the teardown.
LifecycleBlocked(t) == To(t, "lifecycle") /\ blocked' = blocked \cup {t}

createIsolatedWorkspace(t) == workspaces' = workspaces \cup {t}

\* Context, brief and toolchain; without the toolchain the task is blocked
\* before it has a workspace.
Prepare(t) ==
    /\ alive /\ at[t] = "prepare"
    /\ \/ /\ createIsolatedWorkspace(t)
          /\ To(t, IF needs[t] = {} THEN "execute" ELSE "preflight")
          /\ UNCHANGED <<status, locals, disturbed>>
       \/ /\ Disturb("toolchain") /\ SetRow(t, "blocked") /\ Return(t)
          /\ UNCHANGED workspaces
    /\ UNCHANGED <<tries, excused, hash, project, teardowns, traps, signalled, proven>>
    /\ OnlyTask

\* An exception leaves executeTask: the workspace, if there is one, is left to
\* nobody.  A rejected promise no race listens to ends the node process; one of
\* an earlier race is swallowed.
Reject(t) ==
    /\ alive /\ Return(t) /\ traps' = traps \ {Manager(t)}
    /\ IF t \in handled THEN plan' = (IF plan = "race" THEN "threw" ELSE plan) /\ UNCHANGED alive
                         ELSE alive' = FALSE /\ UNCHANGED plan
    /\ UNCHANGED <<run, status, tries, ready, handled, phase, hash, project, teardowns,
                   signalled, operator, proven>>

\* A store call that fails outside the try of the executor; before the traps are
\* set, services that are already up are left to nobody as well.
Throws(t) ==
    /\ at[t] \in {"prepare", "lifecycle", "settle", "integrate", "sleep"}
    /\ result[t] # "threw" /\ Disturb("store") /\ Reject(t)
    /\ workspaces' \in {workspaces, IF at[t] = "prepare" THEN workspaces \cup {t}
                                    ELSE workspaces}
    /\ excused' = excused \cup {<<t, "workspace">>}
                     \cup (IF at[t] = "lifecycle" THEN {<<t, "services">>} ELSE {})

\* The activity of an executor that starts or has ended is not recorded: the
\* finally stops the services, and the exception goes on from there.
Rethrows(t) ==
    /\ at[t] = "settle" /\ result[t] = "threw" /\ Reject(t)
    /\ excused' = excused \cup {<<t, "workspace">>}
    /\ UNCHANGED <<workspaces, disturbed>>

\* up begins with a down of the project of this task that an attempt may have
\* left; its failure is not looked at.
ClearStale(t) ==
    \/ SetProject(t, Absent) /\ UNCHANGED disturbed
    \/ Disturb("docker") /\ UNCHANGED project

preflight(t) ==
    /\ alive /\ at[t] = "preflight"
    /\ \/ To(t, "up") /\ ClearStale(t) /\ UNCHANGED blocked
       \/ /\ Disturb("docker") /\ LifecycleBlocked(t)
          /\ UNCHANGED project
    /\ UNCHANGED <<status, tries, running, workspaces, excused, hash, called, teardowns,
                   traps, signalled, result, health, proven>>
    /\ OnlyTask

Up(t) ==
    /\ alive /\ at[t] = "up"
    /\ \/ /\ ~Conflict(t) /\ To(t, "health")
          /\ SetProject(t, generateComposeOverride(t))
          /\ UNCHANGED <<blocked, disturbed>>
       \/ /\ Conflict(t) /\ LifecycleBlocked(t)
          /\ UNCHANGED <<project, disturbed>>
       \/ /\ Disturb("docker") /\ LifecycleBlocked(t)
          /\ SetProject(t, generateComposeOverride(t))
    /\ UNCHANGED <<status, tries, running, workspaces, excused, hash, called, teardowns,
                   traps, signalled, result, health, proven>>
    /\ OnlyTask

\* The cancellation poll of the task has seen the run cancelled.
Aborted == run = "cancelled"

\* The poll sees the services healthy, the abort of a cancelled run, or the end
\* of its time.
waitForHealth(t) ==
    /\ alive /\ at[t] = "health"
    /\ \/ MyProject(t).health = "healthy" /\ To(t, "lifecycle") /\ UNCHANGED blocked
       \/ Aborted /\ LifecycleBlocked(t)
       \/ MyProject(t).health # "healthy" /\ LifecycleBlocked(t)
    /\ UNCHANGED <<status, tries, running, workspaces, excused, disturbed, docker, result,
                   health, proven>>
    /\ OnlyTask

\* The event of the lifecycle, then the traps; a blocked task skips the executor.
RegisterTraps(t) ==
    /\ alive /\ at[t] = "lifecycle"
    /\ traps' = traps \cup {Manager(t)}
    /\ To(t, IF t \in blocked THEN "teardown" ELSE "execute")
    /\ UNCHANGED <<status, tries, running, workspaces, excused, disturbed, hash, project,
                   called, teardowns, signalled, outcome>>
    /\ OnlyTask

\* runProcess: the executor completes, fails in some way, or is killed when the
\* cancellation poll has seen the run cancelled; the store may fail before or
\* after it.
Execute(t) ==
    /\ alive /\ at[t] = "execute"
    /\ To(t, IF needs[t] = {} THEN "settle" ELSE "teardown")
    /\ \/ result' = [result EXCEPT ![t] = "complete"] /\ UNCHANGED disturbed
       \/ Aborted /\ result' = [result EXCEPT ![t] = "aborted"]
          /\ UNCHANGED disturbed
       \/ \E e \in Exits : Disturb("agent") /\ result' = [result EXCEPT ![t] = e]
       \/ Disturb("store") /\ result' = [result EXCEPT ![t] = "threw"]
    /\ UNCHANGED <<status, tries, running, workspaces, excused, docker, blocked, health,
                   proven>>
    /\ OnlyTask

\* One look at the services before the teardown.
checkHealth(t) ==
    IF MyProject(t).health \in {"none", "sick"} THEN "unhealthy" ELSE "healthy"

\* Mutant: a task that docker blocked is not torn down.
SkipsWhenBlocked(t) ==
    /\ alive /\ at[t] = "teardown"
    /\ IF Manager(t) \in called \/ t \in blocked
       THEN To(t, "settle") /\ UNCHANGED <<called, teardowns>>
       ELSE /\ To(t, "down")
            /\ called' = called \cup {Manager(t)}
            /\ teardowns' = teardowns \cup {Manager(t)}
    /\ health' = [health EXCEPT ![t] = IF t \in blocked \/ result[t] = "threw" THEN @
                                       ELSE checkHealth(t)]
    /\ UNCHANGED <<status, tries, running, workspaces, excused, disturbed, hash, project,
                   traps, signalled, blocked, result, proven>>
    /\ OnlyTask

\* down() answers at once when it has been called before, done or not.
Teardown(t) ==
    /\ alive /\ at[t] = "teardown"
    /\ IF Manager(t) \in called
       THEN To(t, "settle") /\ UNCHANGED <<called, teardowns>>
       ELSE /\ To(t, "down")
            /\ called' = called \cup {Manager(t)}
            /\ teardowns' = teardowns \cup {Manager(t)}
    /\ health' = [health EXCEPT ![t] = IF t \in blocked \/ result[t] = "threw" THEN @
                                       ELSE checkHealth(t)]
    /\ UNCHANGED <<status, tries, running, workspaces, excused, disturbed, hash, project,
                   traps, signalled, blocked, result, proven>>
    /\ OnlyTask

\* compose down ends; when it fails the services stay and a warning is kept.
Down(t, a) ==
    /\ alive /\ <<t, a>> \in teardowns
    /\ teardowns' = teardowns \ {<<t, a>>}
    /\ \/ SetProject(t, Absent) /\ UNCHANGED <<excused, disturbed>>
       \/ Disturb("docker") /\ excused' = excused \cup {<<t, "services">>} /\ UNCHANGED project
    /\ IF at[t] = "down" /\ a = attempt[t] THEN To(t, "settle") ELSE UNCHANGED at
    /\ UNCHANGED <<status, tries, running, workspaces, hash, called, traps, signalled,
                   outcome>>
    /\ OnlyTask

-----------------------------------------------------------------------------
(* The outcome of an attempt. *)

\* A failed executor is blamed on its services when they are not healthy.
classifyValidationFailure(t) ==
    IF health[t] = "unhealthy" \/ result[t] \in RetryableExits THEN "retryable"
    ELSE "fatal"
FailureOf(t) ==
    CASE result[t] = "complete" -> "none"
      [] result[t] \in {"aborted", "agent_cancelled"} -> "cancelled"
      [] result[t] = "agent_blocked" -> "blocked"
      [] result[t] \in {"missing", "invalid", "unproven"} -> "retryable"
      [] result[t] \in {"agent_failed", "paths_mismatch"} -> "fatal"
      [] OTHER -> classifyValidationFailure(t)

evaluateRetry(t) == FailureOf(t) = "retryable" /\ attempt[t] < MaxAttempts

\* A task the docker lifecycle has blocked ends here.
SettleBlocked(t) ==
    /\ alive /\ at[t] = "settle" /\ t \in blocked
    /\ SetRow(t, "blocked") /\ workspaces' = workspaces \ {t} /\ Return(t)
    /\ traps' = traps \ {Manager(t)}
    /\ UNCHANGED <<tries, excused, disturbed, hash, project, teardowns, signalled, proven>>
    /\ OnlyTask

Settle(t) ==
    /\ alive /\ at[t] = "settle" /\ t \notin blocked /\ result[t] # "threw"
    /\ traps' = traps \ {Manager(t)}
    /\ \/ /\ FailureOf(t) = "none"
          /\ To(t, "integrate") /\ proven' = proven \cup {t}
          /\ UNCHANGED <<status, workspaces, locals>>
       \/ /\ FailureOf(t) # "none" /\ evaluateRetry(t)
          /\ To(t, "sleep") /\ SetRow(t, "retrying")
          /\ workspaces' = workspaces \ {t} /\ UNCHANGED <<locals, proven>>
       \/ /\ FailureOf(t) # "none" /\ ~evaluateRetry(t)
          /\ SetRow(t, IF FailureOf(t) \in {"cancelled", "blocked"} THEN FailureOf(t)
                       ELSE "failed")
          /\ workspaces' = workspaces \ {t} /\ Return(t) /\ UNCHANGED proven
    /\ UNCHANGED <<tries, excused, disturbed, hash, project, teardowns, signalled>>
    /\ OnlyTask

\* integrateWorkspace, the accepted artifact and the row; nothing asks whether
\* the run has been cancelled meanwhile.
Integrate(t) ==
    /\ alive /\ at[t] = "integrate"
    /\ \/ SetRow(t, "integrated") /\ UNCHANGED disturbed
       \/ Disturb("integration") /\ SetRow(t, "failed")
    /\ workspaces' = workspaces \ {t} /\ Return(t)
    /\ UNCHANGED <<tries, excused, hash, project, teardowns, traps, signalled, proven>>
    /\ OnlyTask

\* Mutant: the task is not routed again when its delay is over.
RetryForgets(t) ==
    /\ alive /\ at[t] = "sleep" /\ Return(t)
    /\ UNCHANGED <<status, tries, workspaces, excused, disturbed, hash, project, teardowns,
                   traps, signalled, proven>>
    /\ OnlyTask

\* The end of the sleep sets the row whatever it is by then.
RetryWakes(t) ==
    /\ alive /\ at[t] = "sleep"
    /\ SetRow(t, "routed") /\ Return(t)
    /\ UNCHANGED <<tries, workspaces, excused, disturbed, hash, project, teardowns, traps,
                   signalled, proven>>
    /\ OnlyTask

-----------------------------------------------------------------------------
(* The surroundings. *)

\* Services come up, and may fall ill.
ServicesHealthy(t) ==
    /\ project[t].health = "starting"
    /\ project' = [project EXCEPT ![t].health = "healthy"]
    /\ UNCHANGED <<run, status, tries, running, at, workspaces, alive, excused, disturbed,
                   hash, called, teardowns, traps, signalled, loop, operator, outcome>>
ServicesFail(t) ==
    /\ project[t].health \in {"starting", "healthy"} /\ Disturb("service")
    /\ project' = [project EXCEPT ![t].health = "sick"]
    /\ UNCHANGED <<run, status, tries, running, at, workspaces, alive, excused, hash,
                   called, teardowns, traps, signalled, loop, operator, outcome>>

\* SIGINT: every manager with traps starts its down; the process goes on.  With
\* no trap set it ends.
registerSignalTraps ==
    /\ alive /\ Disturb("signal") /\ signalled' = TRUE
    /\ alive' = (traps # {})
    /\ called' = called \cup traps
    /\ teardowns' = teardowns \cup (traps \ called)
    /\ UNCHANGED <<run, status, tries, running, at, workspaces, excused, hash, project,
                   traps, loop, operator, outcome>>

\* cancelRun: the open rows of one snapshot, then the run.
StartCancel ==
    /\ Disturb("cancel") /\ cancel = "none"
    /\ cancel' = "tasks" /\ cancelling' = {t \in Rows : status[t] \notin Terminal}
    /\ UNCHANGED <<run, status, tries, running, at, workspaces, alive, excused, docker,
                   loop, outcome>>
CancelTask(t) ==
    /\ cancel = "tasks" /\ cancelling # {} /\ t = First(cancelling)
    /\ cancelling' = cancelling \ {t} /\ SetRow(t, "cancelled")
    /\ UNCHANGED <<run, tries, running, at, workspaces, alive, excused, disturbed, docker,
                   loop, outcome, cancel>>
CancelRun ==
    /\ cancel = "tasks" /\ cancelling = {}
    /\ cancel' = "done"
    /\ run' = IF run \in TerminalRun THEN run ELSE "cancelled"
    /\ UNCHANGED <<status, tries, running, at, workspaces, alive, excused, disturbed,
                   docker, loop, outcome, cancelling>>

-----------------------------------------------------------------------------
LoopStep == Cascade \/ Compile \/ Select \/ Dispatched \/ Raced \/ Finalize
              \/ \E t \in Tasks : Dispatch(t)
TaskStep(t) ==
    \/ Prepare(t)
    \/ preflight(t) \/ Up(t) \/ waitForHealth(t) \/ RegisterTraps(t)
    \/ Execute(t) \/ Teardown(t) \/ SettleBlocked(t) \/ Settle(t)
    \/ Integrate(t) \/ RetryWakes(t) \/ Rethrows(t)
TeardownStep == \E m \in Managers : Down(m[1], m[2])
CancelStep == CancelRun \/ \E t \in Tasks : CancelTask(t)

Next ==
    \/ LoopStep \/ TeardownStep \/ StartCancel \/ CancelStep \/ registerSignalTraps
    \/ \E t \in Tasks : TaskStep(t) \/ Throws(t) \/ ServicesHealthy(t) \/ ServicesFail(t)

Spec == Init /\ [][Next]_vars

-----------------------------------------------------------------------------
LoopTypes ==
    /\ run \in {"running"} \cup TerminalRun /\ phase \in {"bootstrap", "compiled"}
    /\ status \in [Tasks -> {"absent", "routed", "running", "retrying"} \cup Terminal]
    /\ plan \in {"cascade", "select", "dispatch", "race", "finalize",
                 "returned", "threw"}
    /\ ready \subseteq Tasks /\ running \subseteq Tasks /\ handled \subseteq Tasks
    /\ cancelling \subseteq Tasks /\ cancel \in {"none", "tasks", "done"}
Places == {"none", "prepare", "preflight", "up", "health", "lifecycle", "execute",
           "teardown", "down", "settle", "integrate", "sleep"}
AttemptTypes ==
    /\ attempt \in [Tasks -> 0 .. MaxAttempts]
    /\ needs \in [Tasks -> SUBSET {Services[i] : i \in DOMAIN Services}]
    /\ at \in [Tasks -> Places]
    /\ blocked \subseteq Tasks /\ proven \subseteq Tasks
    /\ result \in [Tasks -> {"none", "complete", "aborted", "threw"} \cup Exits]
    /\ health \in [Tasks -> {"unknown", "healthy", "unhealthy"}]
    /\ workspaces \subseteq Tasks /\ excused \subseteq Tasks \X {"services", "workspace"}
\* A project is its health and the ports it publishes.
DockerTypes ==
    /\ hash \in Hashes /\ project = [t \in Tasks |-> project[t]]
    /\ \A t \in Tasks :
        /\ project[t] = [health |-> project[t].health, ports |-> project[t].ports]
        /\ project[t].health \in {"none", "starting", "healthy", "sick"}
    /\ called \subseteq Managers /\ teardowns \subseteq Managers /\ traps \subseteq Managers
    /\ {alive, signalled} \subseteq BOOLEAN

\* Type correctness of the loop, of the attempts and of their docker projects.
TypeOK == LoopTypes /\ AttemptTypes /\ DockerTypes /\ disturbed \in 0 .. MaxDisturbances

\* An attempt that is over leaves neither services nor a workspace behind,
\* however it ended: blocked by docker, killed, failed, retried or integrated
\* (the finally of executeTask and cleanupWorkspace).  A store call that throws
\* leaves the workspace, wherever it is, for cleanupWorkspace is in no finally;
\* it leaves services only if it comes before the traps are set, and a compose
\* down that failed leaves them too.
NothingIsLeftBehind ==
    \A t \in Tasks :
        alive /\ at[t] = "none" =>
            /\ t \in workspaces => <<t, "workspace">> \in excused
            /\ \/ <<t, "services">> \in excused
               \/ \E a \in 1 .. MaxAttempts : <<t, a>> \in teardowns
               \/ MyProject(t).health = "none"

\* While the executor of a task runs, the services of its own project are there,
\* on the ports its environment names, whatever a parallel task starts or tears
\* down (unless a signal has told its manager to go).
OwnServicesHold ==
    \A t \in Tasks :
        at[t] = "execute" /\ needs[t] # {} /\ ~signalled =>
            /\ MyProject(t).health # "none"
            /\ \A s \in needs[t] :
                  /\ s \in DOMAIN MyProject(t).ports
                  /\ MyProject(t).ports[s] = buildDockerLifecycleEnv(t)[s]

\* A closed run has compiled its plan and integrated every task, each by an
\* attempt whose completion was proven (finalizeExecution); only a cancelRun that
\* began while the run was open may still write over its rows.
ClosedIsProven ==
    run = "closed" =>
        /\ phase = "compiled"
        /\ \A t \in Tasks : t \in proven /\ (status[t] = "integrated" \/ cancel # "none")

\* Work the loop would have found had it looked at the rows once more.
WorkToDo ==
    \/ CompileDue
    \/ \E t \in Tasks : status[t] = "routed" /\ (dependenciesSatisfied(t) \/ dependenciesFailed(t))

\* A run that fails has a task that failed, a Technical Lead without a plan, or a
\* row that a store failure left open; the one other reason is the stall declared
\* on rows read before the last task settled (executor.mjs:1697), and then there
\* was work to do.  The dependencies alone never bring the run to a halt.
FailedHasACause ==
    run = "failed" /\ cancel = "none" =>
        \/ \E t \in Tasks : status[t] = "failed"
        \/ \E t \in Tasks :
              status[t] \in {"running", "retrying"} /\ <<t, "workspace">> \in excused
        \/ phase = "bootstrap" /\ status[Lead] \in Failure
        \/ WorkToDo

\* The status of a run that closed or failed is borne out by its tasks.
OutcomeIsBorneOut == ClosedIsProven /\ FailedHasACause

-----------------------------------------------------------------------------
(* The inductive invariant behind these properties. *)

\* The map running names the attempts under way; a row that may be dispatched has
\* none, and has attempts left.
RowsInv ==
    \A t \in Tasks :
        /\ t \in running <=> at[t] # "none"
        /\ status[t] \in {"absent", "routed"} \/ t \in ready =>
               at[t] = "none" /\ attempt[t] < MaxAttempts
        /\ at[t] = "sleep" => attempt[t] < MaxAttempts
        /\ at[t] # "none" => attempt[t] > 0
        /\ status[t] = "integrated" \/ at[t] = "integrate" => t \in proven

\* When the loop is over nothing runs, and a run it closed stays proven.
RunInv ==
    /\ phase = "compiled" => \A t \in Tasks : status[t] # "absent"
    /\ plan \in {"finalize", "returned"} => running = {}
    /\ run = "closed" => plan = "returned"
    /\ ClosedIsProven

\* Before its traps are set a manager is unknown to the signal handler.
Early == {"prepare", "preflight", "up", "health", "lifecycle"}
ManagersInv ==
    /\ \A t \in Tasks : \A a \in 1 .. MaxAttempts :
        <<t, a>> \in called \cup traps \cup teardowns =>
            a < attempt[t] \/ (a = attempt[t] /\ at[t] \notin Early)
    /\ ~signalled => \A t \in Tasks : \A a \in 1 .. MaxAttempts :
        <<t, a>> \in teardowns => at[t] = "down" /\ a = attempt[t]

\* The project of a task is gone, or is about to go, or nobody answers for it.
GoneOrGoing(t) ==
    \/ <<t, "services">> \in excused
    \/ \E a \in 1 .. MaxAttempts : <<t, a>> \in teardowns
    \/ project[t].health = "none"
TeardownInv ==
    \A t \in Tasks :
        /\ at[t] \in {"none", "prepare", "preflight", "settle", "integrate", "sleep"} =>
               GoneOrGoing(t)
        /\ at[t] = "execute" /\ needs[t] = {} => GoneOrGoing(t)
        /\ at[t] \in {"preflight", "up", "health", "lifecycle"} => needs[t] # {}
        /\ Manager(t) \in called => GoneOrGoing(t)
        /\ t \in workspaces /\ <<t, "workspace">> \notin excused =>
               at[t] \notin {"none", "prepare", "sleep"}

\* Services that are up for an attempt are on the ports of its environment.
ServicesInv ==
    \A t \in Tasks :
        /\ t \in blocked =>
               at[t] \notin {"none", "prepare", "preflight", "up", "health", "execute"}
        /\ at[t] \in {"lifecycle", "execute"} /\ t \notin blocked /\ needs[t] # {} /\ ~signalled =>
               project[t].health # "none"
        /\ at[t] \in {"health", "lifecycle", "execute"} /\ t \notin blocked /\ needs[t] # {}
             /\ ~signalled => project[t].ports = buildEphemeralPortMap(t)

\* A row stays open without an attempt only after a store failure; a task comes
\* with its dependencies, and what is listed has a row; the loop ends on settled
\* rows, and nothing runs once the run has failed.
CauseInv ==
    /\ \A t \in Tasks : status[t] \in {"running", "retrying"} /\ at[t] = "none" =>
           <<t, "workspace">> \in excused
    /\ \A t \in Tasks : status[t] # "absent" => \A d \in Deps[t] : status[d] # "absent"
    /\ \A t \in ready \cup cancelling \cup {Lead} : status[t] # "absent"
    /\ plan = "finalize" => \A t \in Tasks : status[t] \in Terminal \cup {"absent"}
    /\ run = "failed" => plan \in {"returned", "threw"} /\ running = {}
    /\ FailedHasACause

ExecutionInv ==
    TypeOK /\ RowsInv /\ RunInv /\ ManagersInv /\ TeardownInv /\ ServicesInv /\ CauseInv
=============================================================================
