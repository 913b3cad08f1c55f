------------------------------ MODULE Workspace ------------------------------
(***************************************************************************)
(* The life of a task's workspace: the worker copies the repository, the   *)
(* agent works in the copy, the worker writes down what changed, the       *)
(* finalizer holds the agent's handoff against it and copies the approved  *)
(* paths back, and a cleanup job removes the copy.                         *)
(*                                                                         *)
(* The files of an attempt (workspace, baseline, change set, handoff) are  *)
(* named after the attempt, not after the execution: an execution that     *)
(* resumes an attempt after the loss of its process works on the same      *)
(* files.  The repository itself is shared with sibling tasks and with the *)
(* developer.  Contents are numbers: 0 for no file, 1 for the original,    *)
(* then one for every edit by others and one for every execution.          *)
(***************************************************************************)
EXTENDS Naturals, FiniteSets

CONSTANTS
    Paths,         \* the paths considered
    Present,       \* those with a file in the repository at first
    Owned,         \* task.ownedPaths
    SiblingOwned,  \* paths owned by implementation tasks beside it
    Context,       \* brief.readOnlyContextPaths
    Tooling,       \* paths the tooling writes by itself (.opencode/...)
    Skipped,       \* build output and the like, in no copy and no snapshot
    Roles,         \* the roles of the task considered
    Handoffs,      \* what an agent may have done and what it may say of it
    MaxAttempts,   \* max_attempts
    MaxExecutions, \* bound: executions of the task
    MaxEdits,      \* bound: edits of the repository by others
    MaxFaults      \* bound: crashes, lost leases and failing calls

ASSUME PathsAssumption ==
    /\ IsFiniteSet(Paths)
    /\ Present \cup Owned \cup SiblingOwned \cup Context \cup Tooling \cup Skipped
         \subseteq Paths
    /\ Roles \subseteq {"implementation", "review"}
ASSUME HandoffsAssumption ==
    \A h \in Handoffs :
        /\ h.writes \cup h.deletes \cup h.changed \cup h.reused \cup h.mentions
             \subseteq Paths
        /\ h.complete \in BOOLEAN /\ h.role \in Roles
ASSUME BoundsAssumption ==
    {MaxAttempts, MaxExecutions, MaxEdits, MaxFaults} \subseteq Nat

VARIABLES
    role,       \* the task's role: implementation, or governance review
    row,        \* agent_tasks: status, attempt, execution, lease
    root,       \* the repository
    dirs,       \* attempts whose workspace directory exists
    files,      \* the files in it
    baseline,   \* workspace-baseline-attempt-N.json
    changeSet,  \* workspace-changeset-attempt-N.json: whose, and the paths
    handoff,    \* handoff-attempt-N.json: whose, and what it says
    at,         \* where the worker is with an execution
    attemptOf,  \* the attempt an execution was dispatched for
    captured,   \* what copy_tree_with_baseline has fingerprinted
    pending,    \* executions with an unconsumed result
    final,      \* the finalizer: its step, the paths it has yet to copy, and the
                \* one it has compared, with the content it found there
    marks,      \* agent_integrated_paths of this task: path and content
    siblings,   \* paths in that table for a task beside it
    cancel,     \* cancelRun: "none", "cleanup", "done"; "stopped": no pass is under way
    jobs,       \* agent_workspace_cleanup_jobs: status and attempt, by execution
    messages,   \* cleanup messages in the queue or not acknowledged
    sent,       \* cleanup messages ever put into the outbox
    cleaner,    \* the cleanup consumer: its step and job, and the row as it saw it
    cutOff,     \* a lease has expired while its worker lived on (history)
    pulled,     \* a workspace was removed before its result was settled (history)
    lost,       \* a cleanup request has failed (history)
    edits,      \* bound
    faults      \* bound

disk  == <<root, dirs, files, baseline, changeSet, handoff>>
work  == <<at, attemptOf, captured>>
sweep == <<jobs, messages, sent, cleaner>>
fin   == <<pending, final, marks, siblings>>
odds  == <<role, cutOff, pulled, lost, edits, faults>>
vars  == <<row, disk, work, sweep, fin, cancel, odds>>

Executions == 1 .. MaxExecutions
Attempts   == 1 .. MaxAttempts
Missing  == 0
Original == 1
Edit(k)  == 1 + k
By(e)    == 1 + MaxEdits + e

Terminal == {"integrated", "failed", "cancelled"}
Working  == {"copy", "baseline", "agent", "run", "collect", "persist"}
Empty    == [p \in Paths |-> Missing]
NoChangeSet == [of |-> 0, paths |-> {}]
NoHandoff   == [of |-> 0, writes |-> {}, deletes |-> {}, changed |-> {}, reused |-> {},
                mentions |-> {}, complete |-> FALSE]
NoJob       == [status |-> "none", attempt |-> 0]
Idle        == [step |-> "idle", job |-> 0, seen |-> 0]
NotFinalizing == [step |-> "idle", todo |-> {}, approved |-> {}, checked |-> {},
                  next |-> "none"]

First(S) == CHOOSE p \in S : TRUE      \* the order of normalizeDeclaredPaths

Fault == faults < MaxFaults /\ faults' = faults + 1
NoFault == UNCHANGED faults

Init ==
    /\ role \in Roles
    /\ row = [status |-> "routed", attempt |-> 0, execution |-> 0, lease |-> FALSE]
    /\ root = [p \in Paths |-> IF p \in Present THEN Original ELSE Missing]
    /\ dirs = {} /\ files = [a \in Attempts |-> Empty]
    /\ baseline = [a \in Attempts |-> Empty]
    /\ changeSet = [a \in Attempts |-> NoChangeSet]
    /\ handoff = [a \in Attempts |-> NoHandoff]
    /\ at = [e \in Executions |-> "none"] /\ attemptOf = [e \in Executions |-> 0]
    /\ captured = [e \in Executions |-> Empty]
    /\ pending = {} /\ final = NotFinalizing /\ marks = {} /\ siblings = {}
    /\ cancel = "none"
    /\ jobs = [e \in Executions |-> NoJob] /\ messages = {} /\ sent = {} /\ cleaner = Idle
    /\ cutOff = FALSE /\ pulled = FALSE /\ lost = FALSE /\ edits = 0 /\ faults = 0

-----------------------------------------------------------------------------
(* The controller queues an execution. *)

\* The names of an attempt's files; nothing in them tells executions apart.
runtimeTaskPaths(attempt) == attempt

\* A fresh attempt, or the attempt before it when a repair checkpoint of it was
\* found after the loss of its process.
Dispatch ==
    /\ final.step = "idle" /\ cancel # "stopped" /\ row.status \in {"routed", "retrying"}
    /\ row.execution < MaxExecutions
    /\ LET e == row.execution + 1 IN
       \E attempt \in {row.attempt + 1} \cup IF row.status = "routed" THEN {row.attempt} ELSE {} :
          /\ attempt \in Attempts
          /\ row' = [row EXCEPT !.status = "queued", !.attempt = attempt, !.execution = e]
          /\ at' = [at EXCEPT ![e] = "queued"]
          /\ attemptOf' = [attemptOf EXCEPT ![e] = runtimeTaskPaths(attempt)]
    /\ cancel' = IF cancel = "done" THEN "stopped" ELSE cancel
    /\ UNCHANGED <<disk, captured, sweep, fin, odds>>

\* recoverExpiredExecutions: the worker is dead, or cut off from the database
\* for a lease period (bound: not while it still prepares the workspace).
recoverExpiredExecutions ==
    /\ final.step = "idle" /\ cancel # "stopped" /\ row.status = "running" /\ row.lease
    /\ at[row.execution] \in {"run", "collect", "persist", "dead"}
    /\ IF at[row.execution] = "dead" THEN NoFault ELSE Fault
    /\ row' = [row EXCEPT !.status = "routed", !.lease = FALSE]
    /\ final' = [NotFinalizing EXCEPT !.step = "cleanup"]
    /\ cutOff' = (cutOff \/ at[row.execution] # "dead")
    /\ UNCHANGED <<disk, work, sweep, pending, marks, siblings, cancel, role, pulled, lost, edits>>

-----------------------------------------------------------------------------
(* The worker executes. *)

Mine(e) == attemptOf[e]
Worker(e) == UNCHANGED <<root, handoff, attemptOf, sweep, final, marks, siblings, cancel,
                         role, cutOff, pulled, lost, edits>>
Reach(e, there) == at' = [at EXCEPT ![e] = there]

claim_execution(e) ==
    /\ at[e] = "queued"
    /\ IF row.status = "queued" /\ row.execution = e
       THEN row' = [row EXCEPT !.status = "running", !.lease = TRUE] /\ Reach(e, "copy")
       ELSE Reach(e, "over") /\ UNCHANGED row
    /\ NoFault /\ Worker(e)
    /\ UNCHANGED <<dirs, files, baseline, changeSet, captured, pending>>

should_skip_entry(p) == p \in Skipped
snapshot_tree(tree) == [p \in Paths |-> IF should_skip_entry(p) THEN Missing ELSE tree[p]]

\* Whatever is there is removed, then every file is copied and the copy, not the
\* source, is fingerprinted.
copy_tree_with_baseline(e) ==
    /\ at[e] = "copy"
    /\ dirs' = dirs \cup {Mine(e)}
    /\ files' = [files EXCEPT ![Mine(e)] = snapshot_tree(root)]
    /\ captured' = [captured EXCEPT ![e] = snapshot_tree(root)]
    /\ Reach(e, "baseline")
    /\ NoFault /\ Worker(e) /\ UNCHANGED <<row, baseline, changeSet, pending>>

\* Mutant: the baseline is that of the repository, not of the copy.
BaselineOfTheSource(e) ==
    /\ at[e] = "baseline"
    /\ baseline' = [baseline EXCEPT ![Mine(e)] = snapshot_tree(root)]
    /\ Reach(e, "agent")
    /\ NoFault /\ Worker(e)
    /\ UNCHANGED <<row, dirs, files, changeSet, captured, pending>>

\* The repository of the workspace and its link to node_modules are made before.
write_baseline(e) ==
    /\ at[e] = "baseline"
    /\ baseline' = [baseline EXCEPT ![Mine(e)] = captured[e]]
    /\ Reach(e, "agent")
    /\ NoFault /\ Worker(e)
    /\ UNCHANGED <<row, dirs, files, changeSet, captured, pending>>

\* git, the link, the restricted home or a chown fails: the execution ends in a
\* result that reports the error.
MaterializationFails(e) ==
    /\ at[e] \in {"copy", "baseline", "agent"}
    /\ Fault /\ Reach(e, "persist")
    /\ Worker(e) /\ UNCHANGED <<row, dirs, files, baseline, changeSet, captured, pending>>

prepare_restricted_model_agent(e) ==
    /\ at[e] = "agent" /\ Reach(e, "run")
    /\ NoFault /\ Worker(e)
    /\ UNCHANGED <<row, dirs, files, baseline, changeSet, captured, pending>>

\* Bound: the agent of an execution that has been replaced does one thing only.
Choices(e) ==
    LET mine == {h \in Handoffs : h.role = role} IN
    IF row.execution = e THEN mine ELSE {h \in mine : h = CHOOSE c \in mine : c.complete}

\* The agent changes files and leaves a handoff; without its directory it can do
\* neither.
Agent(e) ==
    /\ at[e] = "run" /\ Reach(e, "collect")
    /\ \/ /\ Mine(e) \in dirs
          /\ \E h \in Choices(e) :
                /\ files' = [files EXCEPT ![Mine(e)] =
                      [p \in Paths |-> IF p \in h.writes THEN By(e)
                                       ELSE IF p \in h.deletes THEN Missing ELSE @[p]]]
                /\ handoff' = [handoff EXCEPT ![Mine(e)] =
                      [of |-> e, writes |-> h.writes,
                       deletes |-> {p \in h.deletes : files[Mine(e)][p] # Missing},
                       changed |-> h.changed, reused |-> h.reused,
                       mentions |-> h.mentions, complete |-> h.complete]]
       \/ Mine(e) \notin dirs /\ UNCHANGED <<files, handoff>>
    /\ NoFault
    /\ UNCHANGED <<row, root, dirs, baseline, changeSet, attemptOf, captured, sweep, fin,
                   cancel, role, cutOff, pulled, lost, edits>>

\* The cancellation tick has seen the run cancelled or a newer dispatch.
terminate_process(e) ==
    /\ at[e] = "run" /\ (cancel \in {"done", "stopped"} \/ row.execution # e)
    /\ Reach(e, "collect")
    /\ NoFault /\ Worker(e)
    /\ UNCHANGED <<row, dirs, files, baseline, changeSet, captured, pending>>

\* What differs from the baseline file, written for whoever reads it.
Differing(a) == {p \in Paths : snapshot_tree(files[a])[p] # baseline[a][p]}
collect_workspace_change_set(e) ==
    /\ at[e] = "collect" /\ Reach(e, "persist")
    /\ IF Mine(e) \in dirs
       THEN changeSet' = [changeSet EXCEPT ![Mine(e)] = [of |-> e, paths |-> Differing(Mine(e))]]
       ELSE UNCHANGED changeSet
    /\ NoFault /\ Worker(e) /\ UNCHANGED <<row, dirs, files, baseline, captured, pending>>

persist_execution_result(e) ==
    /\ at[e] = "persist" /\ Reach(e, "over")
    /\ IF row.execution = e
       THEN pending' = pending \cup {e} /\ row' = [row EXCEPT !.lease = FALSE]
       ELSE UNCHANGED <<row, pending>>
    /\ NoFault /\ Worker(e) /\ UNCHANGED <<dirs, files, baseline, changeSet, captured>>

\* The worker process dies with everything it does.
WorkerCrash ==
    /\ Fault /\ (cleaner # Idle \/ \E e \in Executions : at[e] \in Working)
    /\ at' = [e \in Executions |-> IF at[e] \in Working THEN "dead" ELSE at[e]]
    /\ cleaner' = Idle
    /\ UNCHANGED <<row, disk, attemptOf, captured, jobs, messages, sent, fin, cancel, role,
                   cutOff, pulled, lost, edits>>

-----------------------------------------------------------------------------
(* The handoff against the workspace. *)

\* classifyWorkspaceChanges: what the tooling wrote is nobody's change.
classifyWorkspaceChanges(observed) == observed \ Tooling

BaselineVerdict(a, p) ==
    IF files[a][p] = Missing
    THEN IF baseline[a][p] = Missing THEN "phantom" ELSE "missing_in_workspace"
    ELSE IF baseline[a][p] = Missing THEN "missing_in_baseline"
    ELSE IF baseline[a][p] # files[a][p] THEN "changed_in_attempt" ELSE "valid"
verifyReusablePath(a, p, actual) ==
    IF p \in Tooling THEN "tooling_side_effect"
    ELSE IF p \notin Owned THEN "ownership_violation"
    ELSE IF p \in actual THEN "changed_in_attempt" ELSE BaselineVerdict(a, p)
verifyReadOnlyContextPath(a, p, actual) ==
    IF p \in Tooling THEN "tooling_side_effect"
    ELSE IF p \in actual THEN "changed_in_attempt"
    ELSE IF files[a][p] = Missing THEN "missing_in_workspace" ELSE BaselineVerdict(a, p)

\* A review that touches no file may name a path that never existed, unless its
\* evidence speaks of it.
canDropPhantomGovernanceReuse(h, p, verdict) ==
    verdict = "phantom" /\ role = "review" /\ h.complete /\ p \notin h.mentions

reconcileHandoffPathDisposition(a, h, actual) ==
    LET ghosts     == h.changed \ actual
        candidates == (h.reused \ actual) \cup ghosts
        context    == {p \in candidates : p \notin Owned /\ p \in Context}
        verdict    == [p \in candidates |->
                         IF p \in context THEN verifyReadOnlyContextPath(a, p, actual)
                         ELSE verifyReusablePath(a, p, actual)]
        gaps       == {p \in candidates \ context :
                         p \in Owned /\ verdict[p] = "changed_in_attempt"}
        dropped    == {p \in candidates \ (context \cup gaps) :
                         canDropPhantomGovernanceReuse(h, p, verdict[p])}
        wrong      == {p \in candidates \ (gaps \cup dropped) : verdict[p] # "valid"}
        changed    == (h.changed \cap actual) \cup (h.reused \cap actual \cap Owned) \cup gaps
    IN [changed |-> changed,
        phantom |-> {p \in wrong : verdict[p] = "phantom"},
        invalid |-> wrong \cup ((h.reused \cap actual) \ Owned),
        missing |-> actual \ changed]

isRetryableReuseFailure(h, d) ==
    /\ h.complete /\ d.invalid = d.phantom
    /\ role = "implementation" \/ d.invalid \subseteq h.mentions
isRetryableImplementationOwnershipFailure(h, unauthorized) ==
    role = "implementation" /\ h.complete /\ unauthorized \subseteq SiblingOwned

\* Mutant: a changed path the handoff leaves out is let through.
UndeclaredPasses(a) ==
    LET h == handoff[a]
        actual == classifyWorkspaceChanges(changeSet[a].paths)
        d == reconcileHandoffPathDisposition(a, h, actual)
        unauthorized == (actual \cup d.changed) \ Owned
        no(retryable) == [to |-> IF retryable THEN "retry" ELSE "failed", approved |-> {}]
    IN IF h.of # row.execution THEN no(TRUE)
       ELSE IF ~h.complete THEN no(FALSE)
       ELSE IF unauthorized # {} THEN no(isRetryableImplementationOwnershipFailure(h, unauthorized))
       ELSE IF d.invalid # {} THEN no(isRetryableReuseFailure(h, d))
       ELSE [to |-> "integrated", approved |-> d.changed]

\* The status the finalizer gives, and the paths it approves.
Verdict(a) ==
    LET h == handoff[a]
        actual == classifyWorkspaceChanges(changeSet[a].paths)
        d == reconcileHandoffPathDisposition(a, h, actual)
        unauthorized == (actual \cup d.changed) \ Owned
        no(retryable) == [to |-> IF retryable THEN "retry" ELSE "failed", approved |-> {}]
    IN IF h.of # row.execution THEN no(TRUE)
       ELSE IF ~h.complete THEN no(FALSE)
       ELSE IF unauthorized # {} THEN no(isRetryableImplementationOwnershipFailure(h, unauthorized))
       ELSE IF d.invalid # {} THEN no(isRetryableReuseFailure(h, d))
       ELSE IF d.missing # {} THEN no(FALSE)
       ELSE [to |-> "integrated", approved |-> d.changed]

-----------------------------------------------------------------------------
(* The finalizer. *)

Finalizer == UNCHANGED <<dirs, files, baseline, changeSet, handoff, work, cancel, role,
                         cutOff, pulled, edits>>
After(verdict) ==
    IF verdict # "retry" THEN verdict
    ELSE IF row.attempt < MaxAttempts THEN "retrying" ELSE "failed"
Settling(verdict) == [NotFinalizing EXCEPT !.step = "settle", !.next = After(verdict)]

\* A result that is stale, or of a task that has succeeded, is only consumed; any
\* other makes the row running again.  A change set of another execution throws,
\* and the next pass finds the result again.
Readable(e) == changeSet[row.attempt].of \in {0, e} \/ handoff[row.attempt].of # e
FinalizeResult(e) ==
    /\ final.step = "idle" /\ cancel # "stopped" /\ e \in pending
    /\ \/ /\ row.execution # e \/ row.status = "integrated"
          /\ pending' = pending \ {e} /\ UNCHANGED <<row, final>>
       \/ /\ row.execution = e /\ row.status # "integrated"
          /\ row' = [row EXCEPT !.status = "running"] /\ UNCHANGED pending
          /\ LET v == Verdict(row.attempt) IN
             final' = IF ~Readable(e) THEN final
                      ELSE IF v.to # "integrated" THEN Settling(v.to)
                      ELSE [step |-> "copy", todo |-> v.approved, approved |-> v.approved,
                            checked |-> {}, next |-> "integrated"]
    /\ NoFault /\ Finalizer /\ UNCHANGED <<root, marks, siblings, sweep, lost>>

\* integrateWorkspace, in the mode "copy" of a worker's result.  A path a sibling
\* has integrated ends the integration.
ParallelWrite == final.approved \cap siblings # {}

\* So does a path that is not, now, what it was when the copy was made.
ComparePath(p) ==
    /\ final.step = "copy" /\ final.checked = {} /\ final.todo # {} /\ p = First(final.todo)
    /\ final' = IF ParallelWrite \/ baseline[row.attempt][p] # root[p] THEN Settling("failed")
                ELSE [final EXCEPT !.checked = {<<p, root[p]>>}]
    /\ NoFault /\ Finalizer
    /\ UNCHANGED <<row, root, pending, marks, siblings, sweep, lost>>

\* The file is copied or removed, whatever has become of it since the comparison.
IntegratePath(p) ==
    /\ final.step = "copy" /\ p \in {look[1] : look \in final.checked}
    /\ root' = [root EXCEPT ![p] = files[row.attempt][p]]
    /\ final' = [final EXCEPT !.todo = @ \ {p}, !.checked = {}]
    /\ NoFault /\ Finalizer
    /\ UNCHANGED <<row, pending, marks, siblings, sweep, lost>>

materializationProof(p) == files[row.attempt][p] = root[p]

MarkIntegrated ==
    /\ final.step = "copy" /\ final.todo = {}
    /\ IF \A p \in final.approved : materializationProof(p)
       THEN /\ marks' = {m \in marks : m[1] \notin final.approved}
                          \cup {<<p, root[p]>> : p \in final.approved}
            /\ final' = [final EXCEPT !.step = "settle"]
       ELSE final' = Settling("failed") /\ UNCHANGED marks
    /\ NoFault /\ Finalizer /\ UNCHANGED <<row, root, pending, siblings, sweep, lost>>

\* The row is written whatever has become of it, and the result is consumed.
SettleTask ==
    /\ final.step = "settle"
    /\ row' = [row EXCEPT !.status = final.next, !.lease = FALSE]
    /\ pending' = pending \ {row.execution}
    /\ final' = [final EXCEPT !.step = "cleanup"]
    /\ NoFault /\ Finalizer /\ UNCHANGED <<root, marks, siblings, sweep, lost>>

-----------------------------------------------------------------------------
(* Cleanup. *)

\* One job and one message for every execution; a job that is done stays done.
requestWorkspaceCleanup ==
    LET e == row.execution IN
    /\ jobs' = [jobs EXCEPT ![e] = [status |-> IF @.status = "done" THEN "done" ELSE "queued",
                                    attempt |-> runtimeTaskPaths(row.attempt)]]
    /\ messages' = IF e \in sent THEN messages ELSE messages \cup {e}
    /\ sent' = sent \cup {e}
    /\ UNCHANGED cleaner

scheduleCleanup ==
    /\ final.step = "cleanup" /\ final' = NotFinalizing
    /\ \/ requestWorkspaceCleanup /\ NoFault /\ UNCHANGED lost
       \/ Fault /\ lost' = TRUE /\ UNCHANGED sweep
    /\ Finalizer /\ UNCHANGED <<row, root, pending, marks, siblings>>

\* cancelRun: the row, then its cleanup; the lease is left as it is.
CancelTask ==
    /\ cancel = "none" /\ row.status \notin Terminal /\ Fault
    /\ row' = [row EXCEPT !.status = "cancelled"]
    /\ cancel' = IF row.attempt = 0 THEN "done" ELSE "cleanup"
    /\ UNCHANGED <<disk, work, sweep, fin, role, cutOff, pulled, lost, edits>>
CancelCleanup ==
    /\ cancel = "cleanup" /\ cancel' = "done"
    /\ requestWorkspaceCleanup
    /\ UNCHANGED <<row, disk, work, fin, odds>>

\* The pass that was under way ends, at the latest with its dispatch, and the next
\* one finds the run cancelled.
PassEnds ==
    /\ cancel = "done" /\ final.step = "idle" /\ cancel' = "stopped"
    /\ UNCHANGED <<row, disk, work, sweep, fin, odds>>

Cleaner == UNCHANGED <<row, root, baseline, changeSet, handoff, work, fin, cancel, role,
                       cutOff, lost, edits>>
SetJob(e, status) == jobs' = [jobs EXCEPT ![e].status = status]

\* Mutant: the row is not compared with the execution of the job.
NoSupersedeCheck(e) ==
    /\ cleaner = Idle /\ e \in messages /\ jobs[e].status # "done"
    /\ \/ /\ ~row.lease \/ row.execution # e
          /\ SetJob(e, "running") /\ UNCHANGED messages
          /\ cleaner' = [step |-> "remove", job |-> e, seen |-> row.execution]
       \/ /\ row.execution = e /\ row.lease
          /\ SetJob(e, "deferred") /\ UNCHANGED <<messages, cleaner>>
    /\ NoFault /\ Cleaner /\ UNCHANGED <<dirs, files, sent, pulled>>

\* consume_cleanup up to the removal: done already, superseded by a newer
\* execution, deferred while the execution has its lease, or begun.
CleanupDelivered(e) ==
    /\ cleaner = Idle /\ e \in messages
    /\ \/ jobs[e].status = "done" /\ messages' = messages \ {e} /\ UNCHANGED <<jobs, cleaner>>
       \/ /\ jobs[e].status # "done" /\ row.execution # e
          /\ SetJob(e, "done") /\ messages' = messages \ {e} /\ UNCHANGED cleaner
       \/ /\ jobs[e].status # "done" /\ row.execution = e /\ row.lease
          /\ SetJob(e, "deferred") /\ UNCHANGED <<messages, cleaner>>
       \/ /\ jobs[e].status # "done" /\ row.execution = e /\ ~row.lease
          /\ SetJob(e, "running") /\ UNCHANGED messages
          /\ cleaner' = [step |-> "remove", job |-> e, seen |-> row.execution]
    /\ NoFault /\ Cleaner /\ UNCHANGED <<dirs, files, sent, pulled>>

remove_workspace_robust(a) ==
    /\ dirs' = dirs \ {a} /\ files' = [files EXCEPT ![a] = Empty]
    /\ pulled' = (pulled \/ (/\ a = runtimeTaskPaths(row.attempt)
                             /\ at[row.execution] \in Working \/ row.execution \in pending))

\* Mutant: a removal that fails counts as done.
ForgetsWhenBusy ==
    /\ cleaner.step = "remove"
    /\ \/ /\ remove_workspace_robust(jobs[cleaner.job].attempt)
          /\ cleaner' = [cleaner EXCEPT !.step = "report"] /\ NoFault
          /\ UNCHANGED <<jobs, messages>>
       \/ /\ Fault /\ SetJob(cleaner.job, "deferred") /\ cleaner' = Idle
          /\ messages' = messages \ {cleaner.job} /\ UNCHANGED <<dirs, files, pulled>>
    /\ Cleaner /\ UNCHANGED sent

\* A removal that fails (EBUSY) is put off and the message delivered again.
CleanupRemoves ==
    /\ cleaner.step = "remove"
    /\ \/ /\ remove_workspace_robust(jobs[cleaner.job].attempt)
          /\ cleaner' = [cleaner EXCEPT !.step = "report"] /\ NoFault /\ UNCHANGED jobs
       \/ /\ Fault /\ SetJob(cleaner.job, "deferred") /\ cleaner' = Idle
          /\ UNCHANGED <<dirs, files, pulled>>
    /\ Cleaner /\ UNCHANGED <<messages, sent>>

\* The job is done and the message acknowledged; a lost acknowledgement brings it
\* back.
CleanupDone ==
    /\ cleaner.step = "report" /\ SetJob(cleaner.job, "done") /\ cleaner' = Idle
    /\ \/ messages' = messages \ {cleaner.job} /\ NoFault
       \/ Fault /\ UNCHANGED messages
    /\ Cleaner /\ UNCHANGED <<dirs, files, sent, pulled>>

-----------------------------------------------------------------------------
(* Others work on the repository: the developer at any time, a sibling task  *)
(* when the controller integrates it.                                        *)

Others == UNCHANGED <<row, dirs, files, baseline, changeSet, handoff, work, sweep, pending,
                      final, marks, cancel, role, cutOff, pulled, lost, faults>>
DeveloperEdits(p) ==
    /\ edits < MaxEdits /\ edits' = edits + 1
    /\ root' = [root EXCEPT ![p] = Edit(edits + 1)]
    /\ Others /\ UNCHANGED siblings
SiblingIntegrates(p) ==
    /\ edits < MaxEdits /\ edits' = edits + 1
    /\ final.step = "idle" /\ ~\E m \in marks : m[1] = p
    /\ root' = [root EXCEPT ![p] = Edit(edits + 1)] /\ siblings' = siblings \cup {p}
    /\ Others

-----------------------------------------------------------------------------
ControllerStep ==
    \/ Dispatch \/ recoverExpiredExecutions
    \/ (\E e \in Executions : FinalizeResult(e))
    \/ (\E p \in Paths : ComparePath(p) \/ IntegratePath(p))
    \/ MarkIntegrated \/ SettleTask \/ scheduleCleanup \/ PassEnds
WorkerStep(e) ==
    \/ claim_execution(e) \/ copy_tree_with_baseline(e) \/ write_baseline(e)
    \/ prepare_restricted_model_agent(e) \/ Agent(e) \/ terminate_process(e)
    \/ collect_workspace_change_set(e) \/ persist_execution_result(e)
CleanerStep == CleanupRemoves \/ CleanupDone \/ \E e \in Executions : CleanupDelivered(e)

Next ==
    \/ ControllerStep \/ CleanerStep \/ WorkerCrash \/ CancelTask \/ CancelCleanup
    \/ \E e \in Executions : WorkerStep(e) \/ MaterializationFails(e)
    \/ (\E p \in Owned : DeveloperEdits(p))
    \/ \E p \in Owned \cap SiblingOwned : SiblingIntegrates(p)

Spec == Init /\ [][Next]_vars

\* The controller's passes, the worker's executions and its consumer go on, and
\* an operator's call is served to its end.
Fairness ==
    /\ WF_vars(ControllerStep) /\ WF_vars(CleanerStep) /\ WF_vars(CancelCleanup)
    /\ \A e \in Executions : WF_vars(WorkerStep(e))
FairSpec == Spec /\ Fairness

-----------------------------------------------------------------------------
Contents == 0 .. By(MaxExecutions)
Trees == [Paths -> Contents]
HandoffRecord == [of : 0 .. MaxExecutions, writes : SUBSET Paths, deletes : SUBSET Paths,
                  changed : SUBSET Paths, reused : SUBSET Paths, mentions : SUBSET Paths,
                  complete : BOOLEAN]
ChangeSet == [of : 0 .. MaxExecutions, paths : SUBSET (Paths \ Skipped)]
RowRecord == [status : {"routed", "queued", "running", "retrying"} \cup Terminal,
              attempt : 0 .. MaxAttempts, execution : 0 .. MaxExecutions, lease : BOOLEAN]
FinalRecord == [step : {"idle", "copy", "settle", "cleanup"}, todo : SUBSET Owned,
                approved : SUBSET Owned, checked : SUBSET (Owned \X Contents),
                next : {"none", "retrying"} \cup Terminal]
JobRecord == [status : {"none", "queued", "deferred", "running", "done"},
              attempt : 0 .. MaxAttempts]
CleanerRecord == [step : {"idle", "remove", "report"}, job : 0 .. MaxExecutions,
                  seen : 0 .. MaxExecutions]
RowTypes == role \in Roles /\ row \in RowRecord /\ cancel \in {"none", "cleanup", "done", "stopped"}
DiskTypes ==
    /\ root \in Trees /\ dirs \subseteq Attempts
    /\ files \in [Attempts -> Trees] /\ baseline \in [Attempts -> Trees]
    /\ \A a \in Attempts \ dirs : files[a] = Empty
    /\ changeSet \in [Attempts -> ChangeSet] /\ handoff \in [Attempts -> HandoffRecord]
WorkTypes ==
    /\ at \in [Executions -> {"none", "queued", "over", "dead"} \cup Working]
    /\ attemptOf \in [Executions -> 0 .. MaxAttempts] /\ captured \in [Executions -> Trees]
FinTypes ==
    /\ pending \subseteq Executions /\ siblings \subseteq SiblingOwned
    /\ marks \subseteq Owned \X Contents /\ final \in FinalRecord
SweepTypes ==
    /\ messages \subseteq sent /\ sent \subseteq Executions
    /\ jobs \in [Executions -> JobRecord] /\ cleaner \in CleanerRecord
OddsTypes ==
    /\ cutOff \in BOOLEAN /\ pulled \in BOOLEAN /\ lost \in BOOLEAN
    /\ edits \in 0 .. MaxEdits /\ faults \in 0 .. MaxFaults
TypeOK == RowTypes /\ DiskTypes /\ WorkTypes /\ FinTypes /\ SweepTypes /\ OddsTypes

\* An integrated task has brought back exactly what its execution changed: every
\* path it wrote or deleted and no other, all of them its own, whatever the
\* handoff claimed (reconcileHandoffPathDisposition, integrateWorkspace).  Two
\* cases are not covered: a cleanup that comes before the result is settled (see
\* CleanupSparesTheLiving for when it cannot), and a worker that lives on after
\* its lease and shares the files of the attempt with its replacement.
IntegratedIsExact ==
    row.status = "integrated" /\ ~pulled /\ ~cutOff =>
        LET h == handoff[row.attempt]
            changed == (h.writes \cup h.deletes) \ (Tooling \cup Skipped)
        IN /\ changed \subseteq Owned
           /\ marks = {<<p, IF p \in h.writes THEN By(row.execution) ELSE Missing>> :
                          p \in changed}

\* Integration replaces a file of the repository only when it has found there, in
\* the comparison just before, the very file the work started from: what the
\* developer or a sibling has written since the copy was made survives (the
\* baseline of copy_tree_with_baseline).  Only an edit that falls between that
\* comparison and the copy is lost (workspace.mjs:463 and 470).
OthersWorkSurvives ==
    [][\A p \in Paths : root'[p] # root[p] /\ edits' = edits =>
          <<p, captured[row.execution][p]>> \in final.checked \/ cutOff]_vars

\* A cleanup job that is picked up after a newer execution was dispatched leaves
\* the newer one's directory alone, and none is picked up while its own execution
\* is leased (the checks of consume_cleanup).  A cancellation is not covered: it
\* may ask for the cleanup of an execution dispatched after it wrote the row.
CleanupSparesTheLiving ==
    [][\A e \in Executions :
          /\ e = row.execution /\ row.lease /\ at[e] \in Working /\ cancel = "none"
          /\ Mine(e) \in dirs \ dirs'
          => cleaner.seen # e]_vars

\* The workspace the task ended with is removed in the end, in spite of crashes
\* and busy directories.  Excepted are a request that failed, a worker that lives
\* on after its lease, the lease of a cancelled task whose worker died (nobody
\* takes that lease away) and a pass that writes its verdict over a cancellation.
LastWorkspaceGoes ==
    <>[](row.status \in Terminal =>
            \/ row.attempt \notin dirs \/ lost \/ cutOff
            \/ row.lease /\ at[row.execution] = "dead"
            \/ cancel # "none" /\ row.status # "cancelled")

-----------------------------------------------------------------------------
(* The inductive invariant behind the three safety properties.               *)

\* The current execution and attempt, the agent's changes to report, and what
\* they leave of the files the attempt began with.
Current == row.execution
Files == files[row.attempt]
Work == handoff[row.attempt]
Reportable == (Work.writes \cup Work.deletes) \ (Tooling \cup Skipped)
Unstarted == {"none", "queued", "copy", "baseline", "agent", "run"}
Ended == {"over", "dead"}

\* The row and the worker of its execution agree, and later executions have
\* not begun.
RowInv ==
    /\ \A e \in Executions : e > Current => at[e] = "none"
    /\ Current = 0 => row.status \in {"routed", "cancelled"} /\ row.attempt = 0
    /\ \A e \in Executions : at[e] # "none" => attemptOf[e] \in Attempts
    /\ Current > 0 => /\ at[Current] # "none" /\ attemptOf[Current] = row.attempt
                      /\ at[Current] = "queued" => row.status \in {"queued", "cancelled"}
                      /\ row.status = "queued" => at[Current] = "queued"
    /\ row.lease => Current > 0 /\ at[Current] # "queued"
    /\ row.lease => row.status \in {"running", "cancelled"}

\* Where the finalizer is, and that the result in its hands is that of the
\* current execution.
FinalInv ==
    /\ \A e \in pending : at[e] = "over" /\ e <= Current
    /\ Current \in pending => ~row.lease
    /\ final.step \in {"copy", "settle"} => Current \in pending
    /\ final.step = "cleanup" => Current > 0 /\ at[Current] # "queued" /\ ~row.lease
    /\ final.step = "copy" => final.todo \subseteq final.approved /\ final.next = "integrated"
    /\ final.step # "copy" => final.checked = {}
    /\ \A look \in final.checked : look[1] \in final.todo /\ final.checked = {look}
    /\ final.step = "settle" => final.next \in {"retrying", "failed", "integrated"}
    /\ row.status = "integrated" =>
          Current > 0 /\ at[Current] = "over" /\ final.step \in {"idle", "cleanup"}
    /\ marks # {} => \/ final.step = "settle" /\ final.next = "integrated"
                     \/ row.status = "integrated"

\* What an execution writes is nowhere before its agent has run.
FreshInv ==
    /\ \A e \in Executions : at[e] \in Unstarted =>
          /\ \A p \in Paths : root[p] # By(e)
          /\ \A a \in Attempts, p \in Paths : files[a][p] # By(e)
          /\ \A a \in Attempts : handoff[a].of # e
    /\ \A e \in Executions, p \in Paths :
          captured[e][p] # By(e) /\ (p \in Skipped => captured[e][p] = Missing)
    /\ \A a \in Attempts, p \in Skipped : baseline[a][p] = Missing

\* While no worker has outlived its lease, only the current execution works, and
\* an attempt that is given up or retried has ended.
AloneInv == ~cutOff =>
    /\ \A e \in Executions : e # Current => at[e] \in {"none"} \cup Ended
    /\ pending \subseteq {Current}
    /\ Current > 0 /\ row.status \in {"routed", "retrying"} =>
          at[Current] \in Ended /\ Current \notin pending
    /\ final.step = "cleanup" => at[Current] \in Ended

\* The baseline file is what the current execution copied.
BaselineInv == ~cutOff /\ Current > 0 =>
    /\ at[Current] \in {"agent", "run"} \/ Work.of = Current =>
          baseline[row.attempt] = captured[Current]
    /\ final.step = "copy" => Work.of = Current
    /\ \A look \in final.checked : look[2] = captured[Current][look[1]]

\* The files are what it copied and, once the agent has run, what the agent left;
\* the change set says so.
FilesInv == ~cutOff /\ ~pulled /\ Current > 0 =>
    /\ at[Current] \in {"baseline", "agent", "run"} =>
          row.attempt \in dirs /\ Files = captured[Current]
    /\ Work.of = Current =>
          /\ \A p \in Work.deletes : captured[Current][p] # Missing
          /\ at[Current] = "collect" => row.attempt \in dirs
          /\ at[Current] \in {"collect", "persist"} \/ Current \in pending =>
                \A p \in Paths : Files[p] = IF p \in Work.writes THEN By(Current)
                                           ELSE IF p \in Work.deletes THEN Missing
                                           ELSE captured[Current][p]
          /\ at[Current] \in {"persist", "over"} =>
                changeSet[row.attempt] =
                  [of |-> Current, paths |-> (Work.writes \cup Work.deletes) \ Skipped]

\* What is approved, and then what is marked, is what the agent changed.
MarksInv == ~cutOff /\ ~pulled =>
    /\ final.step = "copy" => final.approved = Reportable /\ Reportable \subseteq Owned
    /\ (final.step = "settle" /\ final.next = "integrated") \/ row.status = "integrated" =>
          /\ Reportable \subseteq Owned
          /\ marks = {<<p, IF p \in Work.writes THEN By(Current) ELSE Missing>> :
                         p \in Reportable}

\* A cleanup that was asked for before any cancellation is that of an execution
\* that has lost its lease for good.
CleanupInv ==
    /\ \A e \in sent : e <= Current
    /\ cancel = "none" /\ Current \in sent => ~row.lease /\ at[Current] # "queued"
    /\ cancel = "cleanup" => Current > 0
    /\ cleaner.step # "idle" => cleaner.job \in sent /\ cleaner.seen = cleaner.job

WorkspaceInv ==
    /\ TypeOK /\ RowInv /\ FinalInv /\ FreshInv /\ AloneInv
    /\ BaselineInv /\ FilesInv /\ MarksInv /\ CleanupInv
=============================================================================
