-------------------------- MODULE Workspace_proofs --------------------------
(***************************************************************************)
(* Workspace's safety properties for every set of paths, every handoff an  *)
(* agent may leave, and any number of attempts, executions, edits and      *)
(* faults.                                                                 *)
(***************************************************************************)
EXTENDS Workspace, TLAPS

USE DEF disk, work, sweep, fin, odds, Executions, Attempts, Missing, Original, Edit, By,
        Current, runtimeTaskPaths, Fault, NoFault

\* The contents are numbers, and one execution's are not another's.
LEMMA ContentFacts ==
    /\ Missing \in Contents /\ Original \in Contents /\ Empty \in Trees
    /\ \A k \in 1 .. MaxEdits : Edit(k) \in Contents /\ \A e \in Executions : Edit(k) # By(e)
    /\ \A e \in Executions : /\ By(e) \in Contents /\ By(e) # Missing /\ By(e) # Original
                             /\ \A d \in Executions : By(e) = By(d) => e = d
BY BoundsAssumption DEF Contents, Trees, Empty

\* A snapshot of a tree is a tree without what is skipped.
LEMMA SnapshotFacts ==
    ASSUME NEW tree \in Trees
    PROVE  /\ snapshot_tree(tree) \in Trees
           /\ \A p \in Paths : /\ p \in Skipped => snapshot_tree(tree)[p] = Missing
                               /\ p \notin Skipped => snapshot_tree(tree)[p] = tree[p]
BY ContentFacts DEF snapshot_tree, should_skip_entry, Trees

\* The finalizer approves what the agent changed and declared, if it is the
\* task's own, and nothing otherwise.
LEMMA VerdictFacts ==
    ASSUME TypeOK, NEW a \in Attempts
    PROVE  LET h == handoff[a]
               actual == classifyWorkspaceChanges(changeSet[a].paths)
               d == reconcileHandoffPathDisposition(a, h, actual)
           IN /\ Verdict(a).to \in {"retry", "failed", "integrated"}
              /\ Verdict(a).approved \in SUBSET Owned
              /\ Verdict(a).to = "integrated" =>
                    /\ h.of = row.execution
                    /\ Verdict(a).approved = d.changed
                    /\ actual \subseteq d.changed
<1>. DEFINE h == handoff[a]
            actual == classifyWorkspaceChanges(changeSet[a].paths)
            d == reconcileHandoffPathDisposition(a, h, actual)
            unauthorized == (actual \cup d.changed) \ Owned
            no(retryable) == [to |-> IF retryable THEN "retry" ELSE "failed", approved |-> {}]
<1>. HIDE DEF h, actual, d
<1>1. Verdict(a) = IF h.of # row.execution THEN no(TRUE)
       ELSE IF ~h.complete THEN no(FALSE)
       ELSE IF unauthorized # {} THEN no(isRetryableImplementationOwnershipFailure(h, unauthorized))
       ELSE IF d.invalid # {} THEN no(isRetryableReuseFailure(h, d))
       ELSE IF d.missing # {} THEN no(FALSE)
       ELSE [to |-> "integrated", approved |-> d.changed]
    BY DEF Verdict, h, actual, d
<1>2. d.missing = actual \ d.changed
    BY DEF d, reconcileHandoffPathDisposition
<1>3. \A b : no(b).to \in {"retry", "failed"} /\ no(b).approved = {}
    OBVIOUS
<1>4. CASE \E b : Verdict(a) = no(b)
    BY <1>3, <1>4
<1>5. CASE /\ h.of = row.execution /\ unauthorized = {} /\ d.missing = {}
           /\ Verdict(a) = [to |-> "integrated", approved |-> d.changed]
    BY <1>2, <1>5 DEF h, actual, d
<1>6. (\E b : Verdict(a) = no(b))
      \/ (/\ h.of = row.execution /\ unauthorized = {} /\ d.missing = {}
          /\ Verdict(a) = [to |-> "integrated", approved |-> d.changed])
    <2>. HIDE DEF no
    <2>. QED  BY <1>1
<1>. QED  BY <1>4, <1>5, <1>6
\* A cleanup request and a change of a job's status keep the types.
LEMMA RequestTypes ==
    ASSUME TypeOK, Current > 0, requestWorkspaceCleanup
    PROVE  SweepTypes' /\ sent' = sent \cup {Current} /\ cleaner' = cleaner
<1>. DEFINE e == Current
            j == [status |-> IF jobs[e].status = "done" THEN "done" ELSE "queued",
                  attempt |-> row.attempt]
<1>1. e \in Executions /\ row.attempt \in 0 .. MaxAttempts
    BY BoundsAssumption DEF TypeOK, RowTypes, RowRecord
<1>2. j \in JobRecord
    BY <1>1 DEF JobRecord
<1>3. jobs' = [jobs EXCEPT ![e] = j]
    BY DEF requestWorkspaceCleanup
<1>. HIDE DEF j
<1>4. jobs' \in [Executions -> JobRecord]
    BY <1>1, <1>2, <1>3 DEF TypeOK, SweepTypes
<1>. QED  BY <1>1, <1>4 DEF TypeOK, SweepTypes, requestWorkspaceCleanup

\* A job that changes its status is still a job.
LEMMA SetJobTypes ==
    ASSUME SweepTypes, NEW e \in Executions,
           NEW s \in {"deferred", "running", "done"}, SetJob(e, s)
    PROVE  jobs' \in [Executions -> JobRecord]
<1>. DEFINE j == [jobs[e] EXCEPT !.status = s]
<1>1. j \in JobRecord
    BY DEF JobRecord, SweepTypes
<1>2. jobs' = [jobs EXCEPT ![e] = j]
    BY DEF SetJob
<1>. HIDE DEF j
<1>. QED  BY <1>1, <1>2 DEF SweepTypes

\* What the finalizer may settle on.
LEMMA SettlingType ==
    ASSUME NEW v \in {"retry", "failed"}
    PROVE  /\ Settling(v) \in FinalRecord
           /\ Settling(v).step = "settle" /\ Settling(v).next \in {"retrying", "failed"}
           /\ Settling(v).checked = {}
<1>1. After(v) \in {"retrying", "failed"}
    BY DEF After
<1>. QED  BY <1>1 DEF Settling, NotFinalizing, FinalRecord, Terminal

\* The current execution and its attempt, once there is one.
LEMMA CurrentFacts ==
    ASSUME WorkspaceInv
    PROVE  /\ Current \in 0 .. MaxExecutions /\ Current \in Nat
           /\ Current > 0 => Current \in Executions /\ row.attempt \in Attempts
           /\ Current = 0 => row.attempt = 0
           /\ final.step # "idle" => Current > 0
           /\ \A e \in pending : Current > 0
<1>1. Current \in 0 .. MaxExecutions /\ Current \in Nat
    BY BoundsAssumption DEF WorkspaceInv, TypeOK, RowTypes, RowRecord
<1>2. Current > 0 => Current \in Executions
    BY <1>1, BoundsAssumption
<1>3. \A e \in pending : Current > 0
    BY <1>1, BoundsAssumption DEF WorkspaceInv, FinalInv, TypeOK, FinTypes
<1>4. final.step \in {"idle", "copy", "settle", "cleanup"}
    BY DEF WorkspaceInv, TypeOK, FinTypes, FinalRecord
<1>. QED  BY <1>1, <1>2, <1>3, <1>4 DEF WorkspaceInv, RowInv, FinalInv

\* What the agent of execution e makes of the files and the handoff of attempt a
\* when it does h.
AgentLeaves(e, a, h) ==
    /\ files' = [files EXCEPT ![a] =
         [p \in Paths |-> IF p \in h.writes THEN By(e)
                          ELSE IF p \in h.deletes THEN Missing ELSE files[a][p]]]
    /\ handoff' = [handoff EXCEPT ![a] =
         [of |-> e, writes |-> h.writes,
          deletes |-> {p \in h.deletes : files[a][p] # Missing},
          changed |-> h.changed, reused |-> h.reused,
          mentions |-> h.mentions, complete |-> h.complete]]

\* With its directory in place the agent does one of the things it may do.
LEMMA AgentSteps ==
    ASSUME NEW e \in Executions, Agent(e), attemptOf[e] \in dirs
    PROVE  \E h \in Choices(e) : AgentLeaves(e, attemptOf[e], h)
BY DEF Agent, AgentLeaves, Mine

\* What the agent leaves is well-formed, and is what it did: its own writing, the
\* deletions of files that were there, and everything else as it found it.
LEMMA AgentTypes ==
    ASSUME TypeOK, NEW e \in Executions, NEW a \in Attempts, NEW h \in Choices(e),
           AgentLeaves(e, a, h)
    PROVE  /\ files'[a] \in Trees /\ handoff'[a] \in HandoffRecord
           /\ files' = [files EXCEPT ![a] = files'[a]]
           /\ handoff' = [handoff EXCEPT ![a] = handoff'[a]]
           /\ handoff'[a].of = e /\ handoff'[a].writes = h.writes
           /\ handoff'[a].deletes = {p \in h.deletes : files[a][p] # Missing}
           /\ \A p \in Paths : files'[a][p] = IF p \in h.writes THEN By(e)
                                              ELSE IF p \in h.deletes THEN Missing
                                              ELSE files[a][p]
<1>. DEFINE tree == [p \in Paths |-> IF p \in h.writes THEN By(e)
                                     ELSE IF p \in h.deletes THEN Missing ELSE files[a][p]]
            left == [of |-> e, writes |-> h.writes,
                     deletes |-> {p \in h.deletes : files[a][p] # Missing},
                     changed |-> h.changed, reused |-> h.reused,
                     mentions |-> h.mentions, complete |-> h.complete]
<1>1. h \in Handoffs
    BY DEF Choices
<1>2. /\ h.writes \subseteq Paths /\ h.deletes \subseteq Paths /\ h.changed \subseteq Paths
      /\ h.reused \subseteq Paths /\ h.mentions \subseteq Paths /\ h.complete \in BOOLEAN
    BY <1>1, HandoffsAssumption
<1>3. files[a] \in Trees /\ files \in [Attempts -> Trees]
      /\ handoff \in [Attempts -> HandoffRecord]
    BY DEF TypeOK, DiskTypes
<1>4. tree \in Trees
    BY <1>3, ContentFacts DEF Trees
<1>5. left \in HandoffRecord
    BY <1>2, BoundsAssumption DEF HandoffRecord
<1>6. files' = [files EXCEPT ![a] = tree] /\ handoff' = [handoff EXCEPT ![a] = left]
    BY DEF AgentLeaves
<1>7. left.of = e /\ left.writes = h.writes
      /\ left.deletes = {p \in h.deletes : files[a][p] # Missing}
    OBVIOUS
<1>8. \A p \in Paths : tree[p] = IF p \in h.writes THEN By(e)
                                 ELSE IF p \in h.deletes THEN Missing ELSE files[a][p]
    OBVIOUS
<1>. HIDE DEF tree, left
<1>9. files'[a] = tree /\ handoff'[a] = left
    BY <1>3, <1>6
<1>. QED  BY <1>4, <1>5, <1>6, <1>7, <1>8, <1>9

\* What differs from a baseline is nothing that is skipped.
LEMMA DifferingType ==
    ASSUME WorkspaceInv, NEW a \in Attempts
    PROVE  Differing(a) \in SUBSET (Paths \ Skipped)
BY SnapshotFacts DEF Differing, WorkspaceInv, FreshInv, TypeOK, DiskTypes

\* Every step keeps the types.
LEMMA TypeStep ==
    ASSUME WorkspaceInv, [Next]_vars
    PROVE  TypeOK'
<1>. USE DEF WorkspaceInv, TypeOK
<1>1. CASE Dispatch
    <2>. DEFINE e == row.execution + 1
    <2>1. PICK a \in Attempts :
            /\ row' = [row EXCEPT !.status = "queued", !.attempt = a, !.execution = e]
            /\ at' = [at EXCEPT ![e] = "queued"] /\ attemptOf' = [attemptOf EXCEPT ![e] = a]
        BY <1>1 DEF Dispatch
    <2>2. e \in Executions /\ e \in 0 .. MaxExecutions /\ a \in 0 .. MaxAttempts
        BY <1>1, CurrentFacts, BoundsAssumption DEF Dispatch
    <2>. HIDE DEF e
    <2>3. row' \in RowRecord
        BY <2>1, <2>2 DEF RowTypes, RowRecord
    <2>4. WorkTypes'
        BY <1>1, <2>1, <2>2 DEF Dispatch, WorkTypes
    <2>5. RowTypes' /\ DiskTypes' /\ FinTypes' /\ SweepTypes' /\ OddsTypes'
        BY <1>1, <2>3 DEF Dispatch, RowTypes, DiskTypes, FinTypes, SweepTypes, OddsTypes
    <2>. QED  BY <2>4, <2>5
<1>2. CASE recoverExpiredExecutions
    <2>1. RowTypes'
        BY <1>2 DEF recoverExpiredExecutions, RowTypes, RowRecord
    <2>2. FinTypes'
        BY <1>2 DEF recoverExpiredExecutions, FinTypes, FinalRecord, NotFinalizing
    <2>3. OddsTypes'
        BY <1>2, BoundsAssumption DEF recoverExpiredExecutions, OddsTypes
    <2>4. DiskTypes' /\ WorkTypes' /\ SweepTypes'
        BY <1>2 DEF recoverExpiredExecutions, DiskTypes, WorkTypes, SweepTypes
    <2>. QED  BY <2>1, <2>2, <2>3, <2>4 DEF TypeOK
<1>3. ASSUME NEW e \in Executions, FinalizeResult(e) PROVE TypeOK'
    <2>1. row' \in RowRecord
        BY <1>3 DEF FinalizeResult, RowTypes, RowRecord
    <2>2. final' \in FinalRecord
        <3>1. CASE UNCHANGED final
            BY <3>1 DEF FinTypes
        <3>2. CASE final' # final
            <4>. DEFINE v == Verdict(row.attempt)
            <4>1. row.attempt \in Attempts
                BY <1>3, CurrentFacts DEF FinalizeResult
            <4>2. v.to \in {"retry", "failed", "integrated"} /\ v.approved \in SUBSET Owned
                BY <4>1, VerdictFacts, Zenon
            <4>3. \/ v.to # "integrated" /\ final' = Settling(v.to)
                  \/ final' = [step |-> "copy", todo |-> v.approved,
                               approved |-> v.approved, checked |-> {}, next |-> "integrated"]
                BY <1>3, <3>2 DEF FinalizeResult
            <4>. HIDE DEF v
            <4>4. CASE v.to # "integrated" /\ final' = Settling(v.to)
                BY <4>2, <4>4, SettlingType
            <4>5. CASE final' = [step |-> "copy", todo |-> v.approved,
                                 approved |-> v.approved, checked |-> {}, next |-> "integrated"]
                BY <4>2, <4>5 DEF FinalRecord, Terminal
            <4>. QED  BY <4>3, <4>4, <4>5
        <3>. QED  BY <3>1, <3>2
    <2>3. RowTypes' /\ FinTypes'
        BY <1>3, <2>1, <2>2 DEF FinalizeResult, Finalizer, RowTypes, FinTypes
    <2>4. DiskTypes' /\ WorkTypes' /\ SweepTypes' /\ OddsTypes'
        BY <1>3 DEF FinalizeResult, Finalizer, DiskTypes, WorkTypes, SweepTypes, OddsTypes
    <2>. QED  BY <2>3, <2>4
<1>4. ASSUME NEW p \in Paths, IntegratePath(p) PROVE TypeOK'
    <2>1. row.attempt \in Attempts
        BY <1>4, CurrentFacts DEF IntegratePath
    <2>2. files[row.attempt][p] \in Contents
        BY <2>1 DEF DiskTypes, Trees
    <2>3. DiskTypes'
        BY <1>4, <2>2 DEF IntegratePath, Finalizer, DiskTypes, Trees
    <2>4. final' \in FinalRecord
        BY <1>4 DEF IntegratePath, FinTypes, FinalRecord
    <2>5. FinTypes' /\ RowTypes' /\ WorkTypes' /\ SweepTypes' /\ OddsTypes'
        BY <1>4, <2>4 DEF IntegratePath, Finalizer, FinTypes, RowTypes, WorkTypes,
           SweepTypes, OddsTypes
    <2>. QED  BY <2>3, <2>5
<1>4a. ASSUME NEW p \in Paths, ComparePath(p) PROVE TypeOK'
    <2>1. final' \in FinalRecord
        <3>1. CASE final' = Settling("failed")
            BY <3>1, SettlingType
        <3>2. CASE final' = [final EXCEPT !.checked = {<<p, root[p]>>}]
            <4>1. p \in final.todo /\ final \in FinalRecord
                BY <1>4a DEF ComparePath, First, FinTypes
            <4>2. <<p, root[p]>> \in Owned \X Contents
                BY <4>1 DEF FinalRecord, DiskTypes, Trees
            <4>. QED  BY <3>2, <4>1, <4>2 DEF FinalRecord
        <3>. QED  BY <1>4a, <3>1, <3>2 DEF ComparePath
    <2>2. FinTypes' /\ RowTypes' /\ WorkTypes' /\ SweepTypes' /\ OddsTypes' /\ DiskTypes'
        BY <1>4a, <2>1 DEF ComparePath, Finalizer, FinTypes, RowTypes, WorkTypes,
           SweepTypes, OddsTypes, DiskTypes
    <2>. QED  BY <2>2
<1>5. CASE MarkIntegrated
    <2>1. final.approved \subseteq Owned /\ \A p \in Owned : root[p] \in Contents
        BY PathsAssumption DEF FinTypes, FinalRecord, DiskTypes, Trees
    <2>2. marks' \subseteq Owned \X Contents
        BY <1>5, <2>1 DEF MarkIntegrated, FinTypes
    <2>3. final' \in FinalRecord
        <3>1. CASE final' = Settling("failed")
            BY <3>1, SettlingType
        <3>2. CASE final' = [final EXCEPT !.step = "settle"]
            BY <3>2 DEF FinTypes, FinalRecord
        <3>. QED  BY <1>5, <3>1, <3>2 DEF MarkIntegrated
    <2>4. FinTypes' /\ RowTypes'
        BY <1>5, <2>2, <2>3 DEF MarkIntegrated, Finalizer, FinTypes, RowTypes
    <2>5. DiskTypes' /\ WorkTypes' /\ SweepTypes' /\ OddsTypes'
        BY <1>5 DEF MarkIntegrated, Finalizer, DiskTypes, WorkTypes, SweepTypes, OddsTypes
    <2>. QED  BY <2>4, <2>5
<1>6. CASE SettleTask
    <2>1. RowTypes'
        BY <1>6 DEF SettleTask, Finalizer, RowTypes, RowRecord, FinalInv, Terminal
    <2>2. FinTypes'
        BY <1>6 DEF SettleTask, Finalizer, FinTypes, FinalRecord
    <2>3. DiskTypes' /\ WorkTypes' /\ SweepTypes' /\ OddsTypes'
        BY <1>6 DEF SettleTask, Finalizer, DiskTypes, WorkTypes, SweepTypes, OddsTypes
    <2>. QED  BY <2>1, <2>2, <2>3 DEF TypeOK
<1>7. CASE scheduleCleanup
    <2>1. SweepTypes'
        <3>1. CASE requestWorkspaceCleanup
            BY <1>7, <3>1, CurrentFacts, RequestTypes DEF scheduleCleanup
        <3>2. CASE UNCHANGED sweep
            BY <3>2 DEF SweepTypes
        <3>. QED  BY <1>7, <3>1, <3>2 DEF scheduleCleanup
    <2>2. FinTypes'
        BY <1>7 DEF scheduleCleanup, Finalizer, FinTypes, FinalRecord, NotFinalizing
    <2>3. OddsTypes'
        <3>1. lost' = lost \/ lost' = TRUE
            BY <1>7 DEF scheduleCleanup
        <3>2. lost' \in BOOLEAN
            BY <3>1 DEF OddsTypes
        <3>3. faults' \in 0 .. MaxFaults
            BY <1>7, BoundsAssumption DEF scheduleCleanup, OddsTypes
        <3>. QED  BY <1>7, <3>2, <3>3 DEF scheduleCleanup, Finalizer, OddsTypes
    <2>4. RowTypes' /\ DiskTypes' /\ WorkTypes'
        BY <1>7 DEF scheduleCleanup, Finalizer, RowTypes, DiskTypes, WorkTypes
    <2>. QED  BY <2>1, <2>2, <2>3, <2>4
<1>8. CASE PassEnds
    <2>1. RowTypes'
        BY <1>8 DEF PassEnds, RowTypes
    <2>2. DiskTypes' /\ WorkTypes' /\ FinTypes' /\ SweepTypes' /\ OddsTypes'
        BY <1>8 DEF PassEnds, DiskTypes, WorkTypes, FinTypes, SweepTypes, OddsTypes
    <2>. QED  BY <2>1, <2>2 DEF TypeOK
<1>9. ASSUME NEW e \in Executions, claim_execution(e) PROVE TypeOK'
    <2>1. RowTypes'
        BY <1>9 DEF claim_execution, Worker, Reach, RowTypes, RowRecord
    <2>2. WorkTypes'
        BY <1>9 DEF claim_execution, Worker, Reach, WorkTypes, Working
    <2>3. DiskTypes' /\ FinTypes' /\ SweepTypes' /\ OddsTypes'
        BY <1>9 DEF claim_execution, Worker, Reach, DiskTypes, FinTypes, SweepTypes,
           OddsTypes
    <2>. QED  BY <2>1, <2>2, <2>3 DEF TypeOK
<1>10. ASSUME NEW e \in Executions, copy_tree_with_baseline(e) PROVE TypeOK'
    <2>. DEFINE a == attemptOf[e]
                tree == snapshot_tree(root)
    <2>1. a \in Attempts /\ tree \in Trees
        BY <1>10, SnapshotFacts DEF copy_tree_with_baseline, RowInv, DiskTypes
    <2>. HIDE DEF a, tree
    <2>2. /\ dirs' = dirs \cup {a} /\ files' = [files EXCEPT ![a] = tree]
          /\ captured' = [captured EXCEPT ![e] = tree]
          /\ at' = [at EXCEPT ![e] = "baseline"]
        BY <1>10 DEF copy_tree_with_baseline, Worker, Reach, Mine, a, tree
    <2>3. DiskTypes'
        BY <1>10, <2>1, <2>2 DEF copy_tree_with_baseline, Worker, DiskTypes
    <2>4. WorkTypes'
        BY <1>10, <2>1, <2>2 DEF copy_tree_with_baseline, Worker, WorkTypes, Working
    <2>5. RowTypes' /\ FinTypes' /\ SweepTypes' /\ OddsTypes'
        BY <1>10 DEF copy_tree_with_baseline, Worker, Reach, Mine, RowTypes, FinTypes,
           SweepTypes, OddsTypes
    <2>. QED  BY <2>3, <2>4, <2>5
<1>11. ASSUME NEW e \in Executions, write_baseline(e) PROVE TypeOK'
    <2>1. DiskTypes'
        BY <1>11 DEF write_baseline, Worker, Reach, Mine, DiskTypes, WorkTypes
    <2>2. WorkTypes'
        BY <1>11 DEF write_baseline, Worker, Reach, Mine, WorkTypes, Working
    <2>3. RowTypes' /\ FinTypes' /\ SweepTypes' /\ OddsTypes'
        BY <1>11 DEF write_baseline, Worker, Reach, Mine, RowTypes, FinTypes, SweepTypes,
           OddsTypes
    <2>. QED  BY <2>1, <2>2, <2>3
<1>12. ASSUME NEW e \in Executions, prepare_restricted_model_agent(e) PROVE TypeOK'
    <2>1. WorkTypes'
        BY <1>12 DEF prepare_restricted_model_agent, Worker, Reach, WorkTypes, Working
    <2>2. RowTypes' /\ DiskTypes' /\ FinTypes' /\ SweepTypes' /\ OddsTypes'
        BY <1>12 DEF prepare_restricted_model_agent, Worker, Reach, RowTypes, DiskTypes,
           FinTypes, SweepTypes, OddsTypes
    <2>. QED  BY <2>1, <2>2 DEF TypeOK
<1>13. ASSUME NEW e \in Executions, Agent(e) PROVE TypeOK'
    <2>1. DiskTypes'
        <3>1. CASE UNCHANGED <<files, handoff>>
            BY <1>13, <3>1 DEF Agent, DiskTypes
        <3>2. CASE attemptOf[e] \in dirs
            <4>. DEFINE a == attemptOf[e]
            <4>1. a \in Attempts
                BY <3>2 DEF DiskTypes
            <4>2. PICK h \in Choices(e) : AgentLeaves(e, a, h)
                BY <1>13, <3>2, AgentSteps
            <4>3. /\ files'[a] \in Trees /\ handoff'[a] \in HandoffRecord
                  /\ files' = [files EXCEPT ![a] = files'[a]]
                  /\ handoff' = [handoff EXCEPT ![a] = handoff'[a]]
                BY <4>1, <4>2, AgentTypes
            <4>. QED  BY <1>13, <3>2, <4>1, <4>3 DEF Agent, DiskTypes
        <3>. QED  BY <1>13, <3>1, <3>2 DEF Agent, Mine
    <2>2. WorkTypes'
        BY <1>13 DEF Agent, Reach, Mine, WorkTypes, Working
    <2>3. RowTypes' /\ FinTypes' /\ SweepTypes' /\ OddsTypes'
        BY <1>13 DEF Agent, Reach, Mine, RowTypes, FinTypes, SweepTypes, OddsTypes
    <2>. QED  BY <2>1, <2>2, <2>3
<1>14. ASSUME NEW e \in Executions, terminate_process(e) PROVE TypeOK'
    <2>1. WorkTypes'
        BY <1>14 DEF terminate_process, Worker, Reach, WorkTypes, Working
    <2>2. RowTypes' /\ DiskTypes' /\ FinTypes' /\ SweepTypes' /\ OddsTypes'
        BY <1>14 DEF terminate_process, Worker, Reach, RowTypes, DiskTypes, FinTypes,
           SweepTypes, OddsTypes
    <2>. QED  BY <2>1, <2>2 DEF TypeOK
<1>15. ASSUME NEW e \in Executions, collect_workspace_change_set(e) PROVE TypeOK'
    <2>. DEFINE a == attemptOf[e]
                c == [of |-> e, paths |-> Differing(a)]
    <2>1. a \in Attempts
        BY <1>15 DEF collect_workspace_change_set, RowInv
    <2>2. changeSet' \in [Attempts -> ChangeSet]
        <3>1. c \in ChangeSet
            <4>1. Differing(a) \in SUBSET (Paths \ Skipped)
                BY <2>1, DifferingType
            <4>. QED  BY <4>1, BoundsAssumption DEF ChangeSet
        <3>2. changeSet' = changeSet \/ changeSet' = [changeSet EXCEPT ![a] = c]
            BY <1>15 DEF collect_workspace_change_set, Mine
        <3>. HIDE DEF c
        <3>. QED  BY <2>1, <3>1, <3>2 DEF DiskTypes
    <2>3. DiskTypes'
        BY <1>15, <2>2 DEF collect_workspace_change_set, Worker, DiskTypes
    <2>4. WorkTypes'
        BY <1>15 DEF collect_workspace_change_set, Worker, Reach, Mine, WorkTypes, Working
    <2>5. RowTypes' /\ FinTypes' /\ SweepTypes' /\ OddsTypes'
        BY <1>15 DEF collect_workspace_change_set, Worker, Reach, Mine, RowTypes, FinTypes,
           SweepTypes, OddsTypes
    <2>. QED  BY <2>3, <2>4, <2>5
<1>16. ASSUME NEW e \in Executions, persist_execution_result(e) PROVE TypeOK'
    <2>1. RowTypes'
        BY <1>16 DEF persist_execution_result, Worker, Reach, RowTypes, RowRecord
    <2>2. WorkTypes'
        BY <1>16 DEF persist_execution_result, Worker, Reach, WorkTypes, Working
    <2>3. FinTypes'
        BY <1>16 DEF persist_execution_result, Worker, Reach, FinTypes
    <2>4. DiskTypes' /\ SweepTypes' /\ OddsTypes'
        BY <1>16 DEF persist_execution_result, Worker, Reach, DiskTypes, SweepTypes,
           OddsTypes
    <2>. QED  BY <2>1, <2>2, <2>3, <2>4 DEF TypeOK
<1>17. ASSUME NEW e \in Executions, MaterializationFails(e) PROVE TypeOK'
    <2>1. WorkTypes'
        BY <1>17 DEF MaterializationFails, Worker, Reach, WorkTypes, Working
    <2>2. OddsTypes'
        BY <1>17, BoundsAssumption DEF MaterializationFails, Worker, Reach, OddsTypes
    <2>3. RowTypes' /\ DiskTypes' /\ FinTypes' /\ SweepTypes'
        BY <1>17 DEF MaterializationFails, Worker, Reach, RowTypes, DiskTypes, FinTypes,
           SweepTypes
    <2>. QED  BY <2>1, <2>2, <2>3 DEF TypeOK
<1>18. CASE WorkerCrash
    <2>1. WorkTypes'
        BY <1>18 DEF WorkerCrash, WorkTypes, Working
    <2>2. SweepTypes'
        BY <1>18, BoundsAssumption DEF WorkerCrash, SweepTypes, CleanerRecord, Idle
    <2>3. OddsTypes'
        BY <1>18, BoundsAssumption DEF WorkerCrash, OddsTypes
    <2>4. RowTypes' /\ DiskTypes' /\ FinTypes'
        BY <1>18 DEF WorkerCrash, RowTypes, DiskTypes, FinTypes
    <2>. QED  BY <2>1, <2>2, <2>3, <2>4 DEF TypeOK
<1>19. ASSUME NEW e \in Executions, CleanupDelivered(e) PROVE TypeOK'
    <2>1. jobs' \in [Executions -> JobRecord]
        BY <1>19, SetJobTypes DEF CleanupDelivered, SweepTypes
    <2>2. cleaner' \in CleanerRecord
        BY <1>19, CurrentFacts DEF CleanupDelivered, SweepTypes, CleanerRecord
    <2>3. SweepTypes'
        BY <1>19, <2>1, <2>2 DEF CleanupDelivered, SweepTypes
    <2>4. RowTypes' /\ DiskTypes' /\ WorkTypes' /\ FinTypes' /\ OddsTypes'
        BY <1>19 DEF CleanupDelivered, Cleaner, RowTypes, DiskTypes, WorkTypes, FinTypes,
           OddsTypes
    <2>. QED  BY <2>3, <2>4
<1>20. CASE CleanupRemoves
    <2>1. cleaner.job \in Executions
        BY <1>20 DEF CleanupRemoves, CleanupInv, SweepTypes
    <2>2. jobs' \in [Executions -> JobRecord]
        BY <1>20, <2>1, SetJobTypes DEF CleanupRemoves, SweepTypes
    <2>3. cleaner' \in CleanerRecord
        BY <1>20, BoundsAssumption DEF CleanupRemoves, SweepTypes, CleanerRecord, Idle
    <2>4. SweepTypes'
        BY <1>20, <2>2, <2>3 DEF CleanupRemoves, SweepTypes
    <2>5. DiskTypes'
        <3>. DEFINE a == jobs[cleaner.job].attempt
        <3>1. \/ UNCHANGED <<dirs, files>>
              \/ dirs' = dirs \ {a} /\ files' = [files EXCEPT ![a] = Empty]
            BY <1>20 DEF CleanupRemoves, remove_workspace_robust
        <3>. HIDE DEF a
        <3>2. /\ files' \in [Attempts -> Trees] /\ dirs' \subseteq Attempts
              /\ \A b \in Attempts \ dirs' : files'[b] = Empty
            BY <3>1, ContentFacts DEF DiskTypes
        <3>. QED  BY <1>20, <3>2 DEF CleanupRemoves, Cleaner, DiskTypes
    <2>6. OddsTypes'
        <3>1. pulled' \in BOOLEAN
            <4>1. CASE UNCHANGED pulled
                BY <4>1 DEF OddsTypes
            <4>2. CASE remove_workspace_robust(jobs[cleaner.job].attempt)
                BY <4>2, Zenon DEF remove_workspace_robust
            <4>. QED  BY <1>20, <4>1, <4>2 DEF CleanupRemoves
        <3>2. faults' \in 0 .. MaxFaults
            BY <1>20, BoundsAssumption DEF CleanupRemoves, OddsTypes
        <3>. QED  BY <1>20, <3>1, <3>2 DEF CleanupRemoves, Cleaner, OddsTypes
    <2>7. RowTypes' /\ WorkTypes' /\ FinTypes'
        BY <1>20 DEF CleanupRemoves, Cleaner, RowTypes, WorkTypes, FinTypes
    <2>. QED  BY <2>4, <2>5, <2>6, <2>7
<1>21. CASE CleanupDone
    <2>1. cleaner.job \in Executions
        BY <1>21 DEF CleanupDone, CleanupInv, SweepTypes
    <2>2. jobs' \in [Executions -> JobRecord]
        BY <1>21, <2>1, SetJobTypes DEF CleanupDone
    <2>3. SweepTypes'
        <3>1. cleaner' \in CleanerRecord
            BY <1>21, BoundsAssumption DEF CleanupDone, CleanerRecord, Idle
        <3>2. messages' \subseteq sent' /\ sent' \subseteq Executions
            BY <1>21 DEF CleanupDone, SweepTypes
        <3>. QED  BY <2>2, <3>1, <3>2 DEF SweepTypes
    <2>4. OddsTypes'
        BY <1>21, BoundsAssumption DEF CleanupDone, Cleaner, OddsTypes
    <2>5. RowTypes' /\ DiskTypes' /\ WorkTypes' /\ FinTypes'
        BY <1>21 DEF CleanupDone, Cleaner, RowTypes, DiskTypes, WorkTypes, FinTypes
    <2>. QED  BY <2>3, <2>4, <2>5
<1>22. CASE CancelTask
    <2>1. RowTypes'
        BY <1>22 DEF CancelTask, RowTypes, RowRecord, Terminal
    <2>2. OddsTypes'
        BY <1>22, BoundsAssumption DEF CancelTask, OddsTypes
    <2>3. DiskTypes' /\ WorkTypes' /\ FinTypes' /\ SweepTypes'
        BY <1>22 DEF CancelTask, DiskTypes, WorkTypes, FinTypes, SweepTypes
    <2>. QED  BY <2>1, <2>2, <2>3 DEF TypeOK
<1>23. CASE CancelCleanup
    <2>1. SweepTypes'
        BY <1>23, RequestTypes DEF CancelCleanup, CleanupInv
    <2>2. RowTypes' /\ DiskTypes' /\ WorkTypes' /\ FinTypes' /\ OddsTypes'
        BY <1>23 DEF CancelCleanup, RowTypes, DiskTypes, WorkTypes, FinTypes, OddsTypes
    <2>. QED  BY <2>1, <2>2
<1>24. ASSUME NEW p \in Owned, DeveloperEdits(p) PROVE TypeOK'
    <2>1. Edit(edits + 1) \in Contents /\ p \in Paths
        BY <1>24, ContentFacts, PathsAssumption, BoundsAssumption DEF DeveloperEdits,
           OddsTypes
    <2>2. DiskTypes' /\ OddsTypes'
        BY <1>24, <2>1, BoundsAssumption DEF DeveloperEdits, Others, DiskTypes, OddsTypes,
           Trees
    <2>3. RowTypes' /\ WorkTypes' /\ FinTypes' /\ SweepTypes'
        BY <1>24 DEF DeveloperEdits, Others, RowTypes, WorkTypes, FinTypes, SweepTypes
    <2>. QED  BY <2>2, <2>3
<1>25. ASSUME NEW p \in Owned \cap SiblingOwned, SiblingIntegrates(p) PROVE TypeOK'
    <2>1. Edit(edits + 1) \in Contents /\ p \in Paths
        BY <1>25, ContentFacts, PathsAssumption, BoundsAssumption DEF SiblingIntegrates,
           OddsTypes
    <2>2. DiskTypes' /\ OddsTypes'
        BY <1>25, <2>1, BoundsAssumption DEF SiblingIntegrates, Others, DiskTypes,
           OddsTypes, Trees
    <2>3. RowTypes' /\ WorkTypes' /\ FinTypes' /\ SweepTypes'
        BY <1>25 DEF SiblingIntegrates, Others, RowTypes, WorkTypes, FinTypes, SweepTypes
    <2>. QED  BY <2>2, <2>3
<1>26. CASE UNCHANGED vars
    BY <1>26 DEF vars, RowTypes, DiskTypes, WorkTypes, FinTypes, SweepTypes, OddsTypes
<1>. QED  BY <1>1, <1>2, <1>3, <1>4, <1>4a, <1>5, <1>6, <1>7, <1>8, <1>9, <1>10, <1>11,
             <1>12,
             <1>13, <1>14, <1>15, <1>16, <1>17, <1>18, <1>19, <1>20, <1>21, <1>22, <1>23,
             <1>24, <1>25, <1>26
          DEF Next, ControllerStep, WorkerStep, CleanerStep

-----------------------------------------------------------------------------
(* What the steps that write the row, the position of a worker and the       *)
(* finalizer's state together make of them.                                  *)

\* Only the status and the lease of the row are written.
RowStays == row'.attempt = row.attempt /\ row'.execution = row.execution

\* The worker moves from one place to another.
Moves(e, from, to) ==
    at[e] = from /\ at'[e] = to /\ \A d \in Executions \ {e} : at'[d] = at[d]

\* A claim takes the row if it is queued for this very execution; else the message
\* is stale and the execution over.
LEMMA ClaimEffect ==
    ASSUME WorkspaceInv, NEW e \in Executions, claim_execution(e)
    PROVE  /\ UNCHANGED <<disk, attemptOf, captured, sweep, fin, cancel, odds>>
           /\ \/ /\ row.status = "queued" /\ Current = e /\ RowStays
                 /\ row'.status = "running" /\ row'.lease = TRUE
                 /\ Moves(e, "queued", "copy")
              \/ /\ ~(row.status = "queued" /\ Current = e)
                 /\ UNCHANGED row /\ Moves(e, "queued", "over")
<1>1. row \in RowRecord
    BY DEF WorkspaceInv, TypeOK, RowTypes
<1>2. /\ UNCHANGED <<disk, attemptOf, captured, sweep, fin, cancel, odds>>
      /\ at[e] = "queued" /\ \A d \in Executions \ {e} : at'[d] = at[d]
    BY DEF claim_execution, Worker, Reach, WorkspaceInv, TypeOK, WorkTypes
<1>3. CASE row.status = "queued" /\ Current = e
    <2>1. row' = [row EXCEPT !.status = "running", !.lease = TRUE] /\ at'[e] = "copy"
        BY <1>3 DEF claim_execution, Reach, WorkspaceInv, TypeOK, WorkTypes
    <2>. QED  BY <1>1, <1>2, <1>3, <2>1 DEF RowRecord, RowStays, Moves
<1>4. CASE ~(row.status = "queued" /\ Current = e)
    BY <1>2, <1>4 DEF Moves, claim_execution, Reach, WorkspaceInv, TypeOK, WorkTypes
<1>. QED  BY <1>3, <1>4

\* A result is recorded, and the lease given up, only by the current execution.
LEMMA PersistEffect ==
    ASSUME WorkspaceInv, NEW e \in Executions, persist_execution_result(e)
    PROVE  /\ UNCHANGED <<disk, attemptOf, captured, sweep, final, marks, siblings, cancel, odds>>
           /\ Moves(e, "persist", "over")
           /\ \/ /\ Current = e /\ RowStays /\ row'.status = row.status /\ row'.lease = FALSE
                 /\ pending' = pending \cup {e}
              \/ Current # e /\ UNCHANGED <<row, pending>>
<1>1. row \in RowRecord
    BY DEF WorkspaceInv, TypeOK, RowTypes
<1>2. /\ UNCHANGED <<disk, attemptOf, captured, sweep, final, marks, siblings, cancel, odds>>
      /\ at[e] = "persist" /\ at'[e] = "over" /\ \A d \in Executions \ {e} : at'[d] = at[d]
    BY DEF persist_execution_result, Worker, Reach, WorkspaceInv, TypeOK, WorkTypes
<1>3. CASE Current = e
    <2>1. row' = [row EXCEPT !.lease = FALSE] /\ pending' = pending \cup {e}
        BY <1>3 DEF persist_execution_result
    <2>. QED  BY <1>1, <1>2, <1>3, <2>1 DEF RowRecord, RowStays, Moves
<1>4. CASE Current # e
    BY <1>2, <1>4 DEF Moves, persist_execution_result
<1>. QED  BY <1>3, <1>4

\* The settlement writes the verdict, consumes the result and goes on to the cleanup.
LEMMA SettleEffect ==
    ASSUME WorkspaceInv, SettleTask
    PROVE  /\ RowStays /\ row'.status = final.next /\ row'.lease = FALSE
           /\ final.step = "settle" /\ final'.step = "cleanup" /\ final'.next = final.next
           /\ final'.checked = {}
           /\ pending' = pending \ {Current}
           /\ UNCHANGED <<at, attemptOf, marks>>
BY DEF WorkspaceInv, TypeOK, RowTypes, RowRecord, FinTypes, FinalRecord, FinalInv,
       SettleTask, Finalizer, RowStays

\* A result is consumed as stale, or it is judged: then it is left for the next pass,
\* refused, or approved.
LEMMA FinalizeEffect ==
    ASSUME WorkspaceInv, NEW e \in Executions, FinalizeResult(e)
    PROVE  /\ final.step = "idle" /\ e \in pending
           /\ RowStays /\ row'.lease = row.lease
           /\ UNCHANGED <<at, attemptOf, marks>>
           /\ \/ /\ Current # e \/ row.status = "integrated"
                 /\ pending' = pending \ {e} /\ UNCHANGED <<row, final>>
              \/ /\ Current = e /\ row.status # "integrated"
                 /\ row'.status = "running" /\ pending' = pending
                 /\ \/ UNCHANGED final
                    \/ /\ final'.step = "settle" /\ final'.next \in {"retrying", "failed"}
                       /\ final'.checked = {}
                    \/ /\ Verdict(row.attempt).to = "integrated" /\ Readable(e)
                       /\ final'.step = "copy" /\ final'.next = "integrated"
                       /\ final'.approved = Verdict(row.attempt).approved
                       /\ final'.todo = final'.approved /\ final'.checked = {}
<1>1. row \in RowRecord
    BY DEF WorkspaceInv, TypeOK, RowTypes
<1>2. final.step = "idle" /\ e \in pending /\ UNCHANGED <<at, attemptOf, marks>>
    BY DEF FinalizeResult, Finalizer
<1>3. CASE pending' = pending \ {e} /\ UNCHANGED <<row, final>>
             /\ (Current # e \/ row.status = "integrated")
    BY <1>2, <1>3 DEF RowStays
<1>4. CASE Current = e /\ row.status # "integrated" /\ pending' = pending
             /\ row' = [row EXCEPT !.status = "running"]
    <2>1. RowStays /\ row'.lease = row.lease /\ row'.status = "running"
        BY <1>1, <1>4 DEF RowRecord, RowStays
    <2>. DEFINE v == Verdict(row.attempt)
    <2>2. /\ v.to \in {"retry", "failed", "integrated"}
          /\ final' = IF ~Readable(e) THEN final
                      ELSE IF v.to # "integrated" THEN Settling(v.to)
                      ELSE [step |-> "copy", todo |-> v.approved,
                            approved |-> v.approved, checked |-> {}, next |-> "integrated"]
        <3>1. row.attempt \in Attempts /\ TypeOK
            BY <1>2, CurrentFacts DEF WorkspaceInv
        <3>2. v.to \in {"retry", "failed", "integrated"}
            BY <3>1, VerdictFacts, Zenon
        <3>. QED  BY <1>4, <3>2 DEF FinalizeResult
    <2>. HIDE DEF v
    <2>3. CASE final' = final
        BY <1>2, <1>4, <2>1, <2>3
    <2>4. CASE v.to # "integrated" /\ final' = Settling(v.to)
        <3>1. final'.step = "settle" /\ final'.next \in {"retrying", "failed"}
              /\ final'.checked = {}
            BY <2>2, <2>4, SettlingType
        <3>. QED  BY <1>2, <1>4, <2>1, <3>1
    <2>5. CASE /\ v.to = "integrated" /\ Readable(e)
               /\ final' = [step |-> "copy", todo |-> v.approved,
                            approved |-> v.approved, checked |-> {}, next |-> "integrated"]
        <3>1. /\ final'.step = "copy" /\ final'.next = "integrated"
              /\ final'.approved = v.approved /\ final'.todo = final'.approved
              /\ final'.checked = {}
            BY <2>5
        <3>. QED  BY <1>2, <1>4, <2>1, <2>5, <3>1 DEF v
    <2>6. \/ final' = final
          \/ v.to # "integrated" /\ final' = Settling(v.to)
          \/ /\ v.to = "integrated" /\ Readable(e)
             /\ final' = [step |-> "copy", todo |-> v.approved,
                          approved |-> v.approved, checked |-> {}, next |-> "integrated"]
        BY <2>2
    <2>. QED  BY <2>3, <2>4, <2>5, <2>6
<1>. QED  BY <1>3, <1>4 DEF FinalizeResult

\* A comparison that finds a sibling's path or other content ends the integration;
\* otherwise it notes the content, which is that of the baseline.
LEMMA CompareEffect ==
    ASSUME WorkspaceInv, NEW p \in Paths, ComparePath(p)
    PROVE  /\ final.step = "copy" /\ p \in final.todo
           /\ UNCHANGED <<row, at, attemptOf, pending, marks, root>>
           /\ \/ /\ final'.step = "settle" /\ final'.next \in {"retrying", "failed"}
                 /\ final'.checked = {}
              \/ /\ final'.checked = {<<p, root[p]>>} /\ baseline[row.attempt][p] = root[p]
                 /\ final'.step = "copy" /\ final'.next = final.next
                 /\ final'.approved = final.approved /\ final'.todo = final.todo
<1>1. /\ final.step = "copy" /\ p \in final.todo
      /\ UNCHANGED <<row, at, attemptOf, pending, marks, root>>
    BY DEF ComparePath, Finalizer, First
<1>2. CASE final' = Settling("failed")
    BY <1>1, <1>2, SettlingType
<1>3. CASE /\ baseline[row.attempt][p] = root[p]
           /\ final' = [final EXCEPT !.checked = {<<p, root[p]>>}]
    BY <1>1, <1>3 DEF WorkspaceInv, TypeOK, FinTypes, FinalRecord
<1>. QED  BY <1>2, <1>3 DEF ComparePath

\* A path is copied only after a comparison of it.
LEMMA IntegrateEffect ==
    ASSUME WorkspaceInv, NEW p \in Paths, IntegratePath(p)
    PROVE  /\ final.step = "copy" /\ p \in final.todo
           /\ \E look \in final.checked : look[1] = p
           /\ UNCHANGED <<row, at, attemptOf, pending, marks>>
           /\ root' = [root EXCEPT ![p] = files[row.attempt][p]]
           /\ final'.step = "copy" /\ final'.next = final.next /\ final'.checked = {}
           /\ final'.approved = final.approved /\ final'.todo = final.todo \ {p}
<1>1. /\ final.step = "copy" /\ UNCHANGED <<row, at, attemptOf, pending, marks>>
      /\ root' = [root EXCEPT ![p] = files[row.attempt][p]]
      /\ final' = [final EXCEPT !.todo = @ \ {p}, !.checked = {}]
      /\ \E look \in final.checked : look[1] = p
    BY DEF IntegratePath, Finalizer
<1>2. p \in final.todo
    BY <1>1 DEF WorkspaceInv, FinalInv
<1>. QED  BY <1>1, <1>2 DEF WorkspaceInv, TypeOK, FinTypes, FinalRecord

\* The paths are marked only if every one of them has arrived.
LEMMA MarkEffect ==
    ASSUME WorkspaceInv, MarkIntegrated
    PROVE  /\ final.step = "copy" /\ final.todo = {} /\ final'.step = "settle"
           /\ UNCHANGED <<row, at, attemptOf, pending>> /\ final'.checked = {}
           /\ \/ UNCHANGED marks /\ final'.next \in {"retrying", "failed"}
              \/ /\ \A p \in final.approved : materializationProof(p)
                 /\ marks' = {m \in marks : m[1] \notin final.approved}
                               \cup {<<p, root[p]>> : p \in final.approved}
                 /\ final'.next = final.next
<1>1. final.step = "copy" /\ final.todo = {} /\ UNCHANGED <<row, at, attemptOf, pending>>
    BY DEF MarkIntegrated, Finalizer
<1>2. CASE final' = Settling("failed") /\ UNCHANGED marks
    BY <1>1, <1>2, SettlingType
<1>3. CASE /\ \A p \in final.approved : materializationProof(p)
           /\ marks' = {m \in marks : m[1] \notin final.approved}
                         \cup {<<p, root[p]>> : p \in final.approved}
           /\ final' = [final EXCEPT !.step = "settle"]
    BY <1>1, <1>3 DEF WorkspaceInv, TypeOK, FinTypes, FinalRecord, FinalInv
<1>. QED  BY <1>2, <1>3 DEF MarkIntegrated

-----------------------------------------------------------------------------
(* The control invariants.                                                   *)

\* The row and its execution go together.
LEMMA RowStep ==
    ASSUME WorkspaceInv, [Next]_vars
    PROVE  RowInv'
<1>. USE CurrentFacts, BoundsAssumption DEF WorkspaceInv, TypeOK
<1>1. CASE Dispatch
    BY <1>1 DEF Dispatch, RowInv, RowTypes, RowRecord, WorkTypes, Working
<1>2. CASE recoverExpiredExecutions
    BY <1>2 DEF recoverExpiredExecutions, RowInv, RowTypes, RowRecord, WorkTypes, Working
<1>3. ASSUME NEW e \in Executions, FinalizeResult(e) PROVE RowInv'
    BY <1>3, FinalizeEffect DEF RowInv, FinalInv, RowStays, FinalizeResult, Finalizer
<1>4. ASSUME NEW p \in Paths, IntegratePath(p) PROVE RowInv'
    BY <1>4 DEF IntegratePath, Finalizer, RowInv, RowTypes, RowRecord, WorkTypes, Working
<1>4a. ASSUME NEW p \in Paths, ComparePath(p) PROVE RowInv'
    BY <1>4a DEF ComparePath, Finalizer, RowInv, RowTypes, RowRecord, WorkTypes, Working
<1>5. CASE MarkIntegrated
    BY <1>5 DEF MarkIntegrated, Finalizer, RowInv, RowTypes, RowRecord, WorkTypes, Working
<1>6. CASE SettleTask
    BY <1>6, SettleEffect DEF RowInv, FinalInv, RowStays, SettleTask, Finalizer
<1>7. CASE scheduleCleanup
    BY <1>7 DEF scheduleCleanup, Finalizer, RowInv, RowTypes, RowRecord, WorkTypes, Working
<1>8. CASE PassEnds
    BY <1>8 DEF PassEnds, RowInv, RowTypes, RowRecord, WorkTypes, Working
<1>9. ASSUME NEW e \in Executions, claim_execution(e) PROVE RowInv'
    <2>1. UNCHANGED <<disk, attemptOf, captured, sweep, fin, cancel, odds>>
        BY <1>9, ClaimEffect
    <2>2. CASE /\ row.status = "queued" /\ Current = e /\ RowStays
               /\ row'.status = "running" /\ row'.lease = TRUE /\ Moves(e, "queued", "copy")
        BY <2>1, <2>2 DEF RowInv, FinalInv, RowStays, Moves
    <2>3. CASE /\ ~(row.status = "queued" /\ Current = e)
               /\ UNCHANGED row /\ Moves(e, "queued", "over")
        BY <2>1, <2>3 DEF RowInv, FinalInv, Moves
    <2>. QED  BY <1>9, <2>2, <2>3, ClaimEffect
<1>10. ASSUME NEW e \in Executions, copy_tree_with_baseline(e) PROVE RowInv'
    BY <1>10 DEF copy_tree_with_baseline, Worker, Reach, Mine, RowInv, RowTypes, RowRecord,
       WorkTypes, Working
<1>11. ASSUME NEW e \in Executions, write_baseline(e) PROVE RowInv'
    BY <1>11 DEF write_baseline, Worker, Reach, Mine, RowInv, RowTypes, RowRecord,
       WorkTypes, Working
<1>12. ASSUME NEW e \in Executions, prepare_restricted_model_agent(e) PROVE RowInv'
    BY <1>12 DEF prepare_restricted_model_agent, Worker, Reach, RowInv, RowTypes, RowRecord,
       WorkTypes, Working
<1>13. ASSUME NEW e \in Executions, Agent(e) PROVE RowInv'
    BY <1>13 DEF Agent, Reach, Mine, RowInv, RowTypes, RowRecord, WorkTypes, Working
<1>14. ASSUME NEW e \in Executions, terminate_process(e) PROVE RowInv'
    BY <1>14 DEF terminate_process, Worker, Reach, RowInv, RowTypes, RowRecord, WorkTypes,
       Working
<1>15. ASSUME NEW e \in Executions, collect_workspace_change_set(e) PROVE RowInv'
    BY <1>15 DEF collect_workspace_change_set, Worker, Reach, Mine, RowInv, RowTypes,
       RowRecord, WorkTypes, Working
<1>16. ASSUME NEW e \in Executions, persist_execution_result(e) PROVE RowInv'
    <2>1. /\ UNCHANGED <<disk, attemptOf, captured, sweep, final, marks, siblings, cancel, odds>>
          /\ Moves(e, "persist", "over")
        BY <1>16, PersistEffect
    <2>2. CASE /\ Current = e /\ RowStays /\ row'.status = row.status /\ row'.lease = FALSE
               /\ pending' = pending \cup {e}
        BY <2>1, <2>2 DEF RowInv, FinalInv, RowStays, Moves
    <2>3. CASE Current # e /\ UNCHANGED <<row, pending>>
        BY <2>1, <2>3 DEF RowInv, FinalInv, Moves
    <2>. QED  BY <1>16, <2>2, <2>3, PersistEffect
<1>17. ASSUME NEW e \in Executions, MaterializationFails(e) PROVE RowInv'
    BY <1>17 DEF MaterializationFails, Worker, Reach, RowInv, RowTypes, RowRecord,
       WorkTypes, Working
<1>18. CASE WorkerCrash
    BY <1>18 DEF WorkerCrash, RowInv, RowTypes, RowRecord, WorkTypes, Working
<1>19. ASSUME NEW e \in Executions, CleanupDelivered(e) PROVE RowInv'
    BY <1>19 DEF CleanupDelivered, Cleaner, SetJob, RowInv, RowTypes, RowRecord, WorkTypes,
       Working
<1>20. CASE CleanupRemoves
    BY <1>20 DEF CleanupRemoves, Cleaner, SetJob, RowInv, RowTypes, RowRecord, WorkTypes,
       Working
<1>21. CASE CleanupDone
    BY <1>21 DEF CleanupDone, Cleaner, SetJob, RowInv, RowTypes, RowRecord, WorkTypes,
       Working
<1>22. CASE CancelTask
    BY <1>22 DEF CancelTask, RowInv, RowTypes, RowRecord, WorkTypes, Working
<1>23. CASE CancelCleanup
    BY <1>23 DEF CancelCleanup, RowInv, RowTypes, RowRecord, WorkTypes, Working
<1>24. ASSUME NEW p \in Owned, DeveloperEdits(p) PROVE RowInv'
    BY <1>24 DEF DeveloperEdits, Others, RowInv, RowTypes, RowRecord, WorkTypes, Working
<1>25. ASSUME NEW p \in Owned \cap SiblingOwned, SiblingIntegrates(p) PROVE RowInv'
    BY <1>25 DEF SiblingIntegrates, Others, RowInv, RowTypes, RowRecord, WorkTypes, Working
<1>26. CASE UNCHANGED vars
    BY <1>26 DEF vars, RowInv, RowTypes, RowRecord, WorkTypes, Working
<1>. QED  BY <1>1, <1>2, <1>3, <1>4, <1>4a, <1>5, <1>6, <1>7, <1>8, <1>9, <1>10, <1>11,
             <1>12,
             <1>13, <1>14, <1>15, <1>16, <1>17, <1>18, <1>19, <1>20, <1>21, <1>22, <1>23,
             <1>24, <1>25, <1>26
          DEF Next, ControllerStep, WorkerStep, CleanerStep

\* The finalizer holds the result of the current execution.
LEMMA FinalStep ==
    ASSUME WorkspaceInv, [Next]_vars
    PROVE  FinalInv'
<1>. USE CurrentFacts, BoundsAssumption DEF WorkspaceInv, TypeOK
<1>1. CASE Dispatch
    BY <1>1 DEF Dispatch, RowInv, FinalInv, FinTypes, FinalRecord, RowTypes, RowRecord,
       WorkTypes, Working
<1>2. CASE recoverExpiredExecutions
    BY <1>2 DEF recoverExpiredExecutions, NotFinalizing, RowInv, FinalInv, FinTypes,
       FinalRecord, RowTypes,
       RowRecord, WorkTypes, Working
<1>3. ASSUME NEW e \in Executions, FinalizeResult(e) PROVE FinalInv'
    BY <1>3, FinalizeEffect DEF RowInv, FinalInv, FinTypes, RowStays, FinalizeResult,
       Finalizer
<1>4. ASSUME NEW p \in Paths, IntegratePath(p) PROVE FinalInv'
    BY <1>4, IntegrateEffect DEF RowInv, FinalInv, FinTypes, IntegratePath, Finalizer
<1>4a. ASSUME NEW p \in Paths, ComparePath(p) PROVE FinalInv'
    BY <1>4a, CompareEffect DEF RowInv, FinalInv, FinTypes, ComparePath, Finalizer
<1>5. CASE MarkIntegrated
    BY <1>5, MarkEffect DEF RowInv, FinalInv, FinTypes, MarkIntegrated, Finalizer
<1>6. CASE SettleTask
    BY <1>6, SettleEffect DEF RowInv, FinalInv, FinTypes, RowStays, SettleTask, Finalizer
<1>7. CASE scheduleCleanup
    BY <1>7 DEF scheduleCleanup, Finalizer, NotFinalizing, FinalInv
<1>8. CASE PassEnds
    BY <1>8 DEF PassEnds, RowInv, FinalInv, FinTypes, FinalRecord, RowTypes, RowRecord,
       WorkTypes, Working
<1>9. ASSUME NEW e \in Executions, claim_execution(e) PROVE FinalInv'
    <2>1. UNCHANGED <<disk, attemptOf, captured, sweep, fin, cancel, odds>>
        BY <1>9, ClaimEffect
    <2>2. CASE /\ row.status = "queued" /\ Current = e /\ RowStays
               /\ row'.status = "running" /\ row'.lease = TRUE /\ Moves(e, "queued", "copy")
        BY <2>1, <2>2 DEF RowInv, FinalInv, FinTypes, RowStays, Moves
    <2>3. CASE /\ ~(row.status = "queued" /\ Current = e)
               /\ UNCHANGED row /\ Moves(e, "queued", "over")
        BY <2>1, <2>3 DEF RowInv, FinalInv, FinTypes, Moves
    <2>. QED  BY <1>9, <2>2, <2>3, ClaimEffect
<1>10. ASSUME NEW e \in Executions, copy_tree_with_baseline(e) PROVE FinalInv'
    BY <1>10 DEF copy_tree_with_baseline, Worker, Reach, Mine, RowInv, FinalInv, FinTypes,
       FinalRecord, RowTypes, RowRecord, WorkTypes, Working
<1>11. ASSUME NEW e \in Executions, write_baseline(e) PROVE FinalInv'
    BY <1>11 DEF write_baseline, Worker, Reach, Mine, RowInv, FinalInv, FinTypes,
       FinalRecord, RowTypes, RowRecord, WorkTypes, Working
<1>12. ASSUME NEW e \in Executions, prepare_restricted_model_agent(e) PROVE FinalInv'
    BY <1>12 DEF prepare_restricted_model_agent, Worker, Reach, RowInv, FinalInv, FinTypes,
       FinalRecord, RowTypes, RowRecord, WorkTypes, Working
<1>13. ASSUME NEW e \in Executions, Agent(e) PROVE FinalInv'
    BY <1>13 DEF Agent, Reach, Mine, RowInv, FinalInv, FinTypes, FinalRecord, RowTypes,
       RowRecord, WorkTypes, Working
<1>14. ASSUME NEW e \in Executions, terminate_process(e) PROVE FinalInv'
    BY <1>14 DEF terminate_process, Worker, Reach, RowInv, FinalInv, FinTypes, FinalRecord,
       RowTypes, RowRecord, WorkTypes, Working
<1>15. ASSUME NEW e \in Executions, collect_workspace_change_set(e) PROVE FinalInv'
    BY <1>15 DEF collect_workspace_change_set, Worker, Reach, Mine, RowInv, FinalInv,
       FinTypes, FinalRecord, RowTypes, RowRecord, WorkTypes, Working
<1>16. ASSUME NEW e \in Executions, persist_execution_result(e) PROVE FinalInv'
    <2>1. /\ UNCHANGED <<disk, attemptOf, captured, sweep, final, marks, siblings, cancel, odds>>
          /\ Moves(e, "persist", "over")
        BY <1>16, PersistEffect
    <2>2. CASE /\ Current = e /\ RowStays /\ row'.status = row.status /\ row'.lease = FALSE
               /\ pending' = pending \cup {e}
        <3>1. row.status # "integrated" /\ final.step \notin {"copy", "settle"}
            BY <2>1, <2>2 DEF FinalInv, Moves
        <3>2. \A d \in pending' : at'[d] = "over" /\ d <= row'.execution
            BY <2>1, <2>2 DEF FinalInv, FinTypes, RowStays, Moves
        <3>. QED  BY <2>1, <2>2, <3>1, <3>2 DEF FinalInv, RowStays, Moves
    <2>3. CASE Current # e /\ UNCHANGED <<row, pending>>
        BY <2>1, <2>3 DEF RowInv, FinalInv, FinTypes, Moves
    <2>. QED  BY <1>16, <2>2, <2>3, PersistEffect
<1>17. ASSUME NEW e \in Executions, MaterializationFails(e) PROVE FinalInv'
    BY <1>17 DEF MaterializationFails, Worker, Reach, RowInv, FinalInv, FinTypes,
       FinalRecord, RowTypes, RowRecord, WorkTypes, Working
<1>18. CASE WorkerCrash
    BY <1>18 DEF WorkerCrash, RowInv, FinalInv, FinTypes, FinalRecord, RowTypes, RowRecord,
       WorkTypes, Working
<1>19. ASSUME NEW e \in Executions, CleanupDelivered(e) PROVE FinalInv'
    BY <1>19 DEF CleanupDelivered, Cleaner, SetJob, RowInv, FinalInv, FinTypes, FinalRecord,
       RowTypes, RowRecord, WorkTypes, Working
<1>20. CASE CleanupRemoves
    BY <1>20 DEF CleanupRemoves, Cleaner, SetJob, RowInv, FinalInv, FinTypes, FinalRecord,
       RowTypes, RowRecord, WorkTypes, Working
<1>21. CASE CleanupDone
    BY <1>21 DEF CleanupDone, Cleaner, SetJob, RowInv, FinalInv, FinTypes, FinalRecord,
       RowTypes, RowRecord, WorkTypes, Working
<1>22. CASE CancelTask
    BY <1>22 DEF CancelTask, RowInv, FinalInv, FinTypes, FinalRecord, RowTypes, RowRecord,
       WorkTypes, Working
<1>23. CASE CancelCleanup
    BY <1>23 DEF CancelCleanup, RowInv, FinalInv, FinTypes, FinalRecord, RowTypes,
       RowRecord, WorkTypes, Working
<1>24. ASSUME NEW p \in Owned, DeveloperEdits(p) PROVE FinalInv'
    BY <1>24 DEF DeveloperEdits, Others, RowInv, FinalInv, FinTypes, FinalRecord, RowTypes,
       RowRecord, WorkTypes, Working
<1>25. ASSUME NEW p \in Owned \cap SiblingOwned, SiblingIntegrates(p) PROVE FinalInv'
    BY <1>25 DEF SiblingIntegrates, Others, RowInv, FinalInv, FinTypes, FinalRecord,
       RowTypes, RowRecord, WorkTypes, Working
<1>26. CASE UNCHANGED vars
    BY <1>26 DEF vars, RowInv, FinalInv, FinTypes, FinalRecord, RowTypes, RowRecord,
       WorkTypes, Working
<1>. QED  BY <1>1, <1>2, <1>3, <1>4, <1>4a, <1>5, <1>6, <1>7, <1>8, <1>9, <1>10, <1>11,
             <1>12,
             <1>13, <1>14, <1>15, <1>16, <1>17, <1>18, <1>19, <1>20, <1>21, <1>22, <1>23,
             <1>24, <1>25, <1>26
          DEF Next, ControllerStep, WorkerStep, CleanerStep

\* While no worker has outlived its lease, the current one is alone.
LEMMA AloneStep ==
    ASSUME WorkspaceInv, [Next]_vars
    PROVE  AloneInv'
<1>. USE CurrentFacts, BoundsAssumption DEF WorkspaceInv, TypeOK
<1>1. CASE Dispatch
    BY <1>1 DEF Dispatch, RowInv, FinalInv, AloneInv, Ended, FinTypes, FinalRecord,
       RowTypes, RowRecord, WorkTypes, Working
<1>2. CASE recoverExpiredExecutions
    BY <1>2 DEF recoverExpiredExecutions, RowInv, FinalInv, AloneInv, Ended, FinTypes,
       FinalRecord, RowTypes, RowRecord, WorkTypes, Working
<1>3. ASSUME NEW e \in Executions, FinalizeResult(e) PROVE AloneInv'
    BY <1>3 DEF FinalizeResult, Finalizer, RowInv, FinalInv, AloneInv, Ended, FinTypes,
       FinalRecord, RowTypes, RowRecord, WorkTypes, Working
<1>4. ASSUME NEW p \in Paths, IntegratePath(p) PROVE AloneInv'
    BY <1>4 DEF IntegratePath, Finalizer, RowInv, FinalInv, AloneInv, Ended, FinTypes,
       FinalRecord, RowTypes, RowRecord, WorkTypes, Working
<1>4a. ASSUME NEW p \in Paths, ComparePath(p) PROVE AloneInv'
    BY <1>4a, CompareEffect DEF ComparePath, Finalizer, AloneInv
<1>5. CASE MarkIntegrated
    BY <1>5 DEF MarkIntegrated, Finalizer, RowInv, FinalInv, AloneInv, Ended, FinTypes,
       FinalRecord, RowTypes, RowRecord, WorkTypes, Working
<1>6. CASE SettleTask
    BY <1>6 DEF SettleTask, Finalizer, RowInv, FinalInv, AloneInv, Ended, FinTypes,
       FinalRecord, RowTypes, RowRecord, WorkTypes, Working
<1>7. CASE scheduleCleanup
    BY <1>7 DEF scheduleCleanup, Finalizer, RowInv, FinalInv, AloneInv, Ended, FinTypes,
       FinalRecord, RowTypes, RowRecord, WorkTypes, Working
<1>8. CASE PassEnds
    BY <1>8 DEF PassEnds, RowInv, FinalInv, AloneInv, Ended, FinTypes, FinalRecord,
       RowTypes, RowRecord, WorkTypes, Working
<1>9. ASSUME NEW e \in Executions, claim_execution(e) PROVE AloneInv'
    <2>1. UNCHANGED <<disk, attemptOf, captured, sweep, fin, cancel, odds>>
        BY <1>9, ClaimEffect
    <2>2. CASE /\ row.status = "queued" /\ Current = e /\ RowStays
               /\ row'.status = "running" /\ row'.lease = TRUE /\ Moves(e, "queued", "copy")
        BY <2>1, <2>2 DEF RowInv, FinalInv, AloneInv, Ended, RowStays, Moves
    <2>3. CASE /\ ~(row.status = "queued" /\ Current = e)
               /\ UNCHANGED row /\ Moves(e, "queued", "over")
        BY <2>1, <2>3 DEF RowInv, FinalInv, AloneInv, Ended, Moves
    <2>. QED  BY <1>9, <2>2, <2>3, ClaimEffect
<1>10. ASSUME NEW e \in Executions, copy_tree_with_baseline(e) PROVE AloneInv'
    BY <1>10 DEF copy_tree_with_baseline, Worker, Reach, Mine, RowInv, FinalInv, AloneInv,
       Ended, FinTypes, FinalRecord, RowTypes, RowRecord, WorkTypes, Working
<1>11. ASSUME NEW e \in Executions, write_baseline(e) PROVE AloneInv'
    BY <1>11 DEF write_baseline, Worker, Reach, Mine, RowInv, FinalInv, AloneInv, Ended,
       FinTypes, FinalRecord, RowTypes, RowRecord, WorkTypes, Working
<1>12. ASSUME NEW e \in Executions, prepare_restricted_model_agent(e) PROVE AloneInv'
    BY <1>12 DEF prepare_restricted_model_agent, Worker, Reach, RowInv, FinalInv, AloneInv,
       Ended, FinTypes, FinalRecord, RowTypes, RowRecord, WorkTypes, Working
<1>13. ASSUME NEW e \in Executions, Agent(e) PROVE AloneInv'
    BY <1>13 DEF Agent, Reach, Mine, RowInv, FinalInv, AloneInv, Ended, FinTypes,
       FinalRecord, RowTypes, RowRecord, WorkTypes, Working
<1>14. ASSUME NEW e \in Executions, terminate_process(e) PROVE AloneInv'
    BY <1>14 DEF terminate_process, Worker, Reach, RowInv, FinalInv, AloneInv, Ended,
       FinTypes, FinalRecord, RowTypes, RowRecord, WorkTypes, Working
<1>15. ASSUME NEW e \in Executions, collect_workspace_change_set(e) PROVE AloneInv'
    BY <1>15 DEF collect_workspace_change_set, Worker, Reach, Mine, RowInv, FinalInv,
       AloneInv, Ended, FinTypes, FinalRecord, RowTypes, RowRecord, WorkTypes, Working
<1>16. ASSUME NEW e \in Executions, persist_execution_result(e) PROVE AloneInv'
    <2>1. /\ UNCHANGED <<disk, attemptOf, captured, sweep, final, marks, siblings, cancel, odds>>
          /\ Moves(e, "persist", "over")
        BY <1>16, PersistEffect
    <2>2. CASE /\ Current = e /\ RowStays /\ row'.status = row.status /\ row'.lease = FALSE
               /\ pending' = pending \cup {e}
        BY <2>1, <2>2 DEF RowInv, FinalInv, AloneInv, Ended, RowStays, Moves
    <2>3. CASE Current # e /\ UNCHANGED <<row, pending>>
        BY <2>1, <2>3 DEF RowInv, FinalInv, AloneInv, Ended, Moves
    <2>. QED  BY <1>16, <2>2, <2>3, PersistEffect
<1>17. ASSUME NEW e \in Executions, MaterializationFails(e) PROVE AloneInv'
    BY <1>17 DEF MaterializationFails, Worker, Reach, RowInv, FinalInv, AloneInv, Ended,
       FinTypes, FinalRecord, RowTypes, RowRecord, WorkTypes, Working
<1>18. CASE WorkerCrash
    BY <1>18 DEF WorkerCrash, RowInv, FinalInv, AloneInv, Ended, FinTypes, FinalRecord,
       RowTypes, RowRecord, WorkTypes, Working
<1>19. ASSUME NEW e \in Executions, CleanupDelivered(e) PROVE AloneInv'
    BY <1>19 DEF CleanupDelivered, Cleaner, SetJob, RowInv, FinalInv, AloneInv, Ended,
       FinTypes, FinalRecord, RowTypes, RowRecord, WorkTypes, Working
<1>20. CASE CleanupRemoves
    BY <1>20 DEF CleanupRemoves, Cleaner, SetJob, RowInv, FinalInv, AloneInv, Ended,
       FinTypes, FinalRecord, RowTypes, RowRecord, WorkTypes, Working
<1>21. CASE CleanupDone
    BY <1>21 DEF CleanupDone, Cleaner, SetJob, RowInv, FinalInv, AloneInv, Ended, FinTypes,
       FinalRecord, RowTypes, RowRecord, WorkTypes, Working
<1>22. CASE CancelTask
    BY <1>22 DEF CancelTask, RowInv, FinalInv, AloneInv, Ended, FinTypes, FinalRecord,
       RowTypes, RowRecord, WorkTypes, Working
<1>23. CASE CancelCleanup
    BY <1>23 DEF CancelCleanup, RowInv, FinalInv, AloneInv, Ended, FinTypes, FinalRecord,
       RowTypes, RowRecord, WorkTypes, Working
<1>24. ASSUME NEW p \in Owned, DeveloperEdits(p) PROVE AloneInv'
    BY <1>24 DEF DeveloperEdits, Others, RowInv, FinalInv, AloneInv, Ended, FinTypes,
       FinalRecord, RowTypes, RowRecord, WorkTypes, Working
<1>25. ASSUME NEW p \in Owned \cap SiblingOwned, SiblingIntegrates(p) PROVE AloneInv'
    BY <1>25 DEF SiblingIntegrates, Others, RowInv, FinalInv, AloneInv, Ended, FinTypes,
       FinalRecord, RowTypes, RowRecord, WorkTypes, Working
<1>26. CASE UNCHANGED vars
    BY <1>26 DEF vars, RowInv, FinalInv, AloneInv, Ended, FinTypes, FinalRecord, RowTypes,
       RowRecord, WorkTypes, Working
<1>. QED  BY <1>1, <1>2, <1>3, <1>4, <1>4a, <1>5, <1>6, <1>7, <1>8, <1>9, <1>10, <1>11,
             <1>12,
             <1>13, <1>14, <1>15, <1>16, <1>17, <1>18, <1>19, <1>20, <1>21, <1>22, <1>23,
             <1>24, <1>25, <1>26
          DEF Next, ControllerStep, WorkerStep, CleanerStep

\* Cleanup is asked for only when the lease is gone, or in a cancellation.
LEMMA CleanupStep ==
    ASSUME WorkspaceInv, [Next]_vars
    PROVE  CleanupInv'
<1>. USE CurrentFacts, BoundsAssumption DEF WorkspaceInv, TypeOK
<1>1. CASE Dispatch
    BY <1>1 DEF Dispatch, RowInv, FinalInv, CleanupInv, SweepTypes, CleanerRecord, RowTypes,
       RowRecord, WorkTypes, Working
<1>2. CASE recoverExpiredExecutions
    BY <1>2 DEF recoverExpiredExecutions, RowInv, FinalInv, CleanupInv, SweepTypes,
       CleanerRecord, RowTypes, RowRecord, WorkTypes, Working
<1>3. ASSUME NEW e \in Executions, FinalizeResult(e) PROVE CleanupInv'
    BY <1>3 DEF FinalizeResult, Finalizer, RowInv, FinalInv, CleanupInv, SweepTypes,
       CleanerRecord, RowTypes, RowRecord, WorkTypes, Working
<1>4. ASSUME NEW p \in Paths, IntegratePath(p) PROVE CleanupInv'
    BY <1>4 DEF IntegratePath, Finalizer, RowInv, FinalInv, CleanupInv, SweepTypes,
       CleanerRecord, RowTypes, RowRecord, WorkTypes, Working
<1>4a. ASSUME NEW p \in Paths, ComparePath(p) PROVE CleanupInv'
    BY <1>4a DEF ComparePath, Finalizer, CleanupInv
<1>5. CASE MarkIntegrated
    BY <1>5 DEF MarkIntegrated, Finalizer, RowInv, FinalInv, CleanupInv, SweepTypes,
       CleanerRecord, RowTypes, RowRecord, WorkTypes, Working
<1>6. CASE SettleTask
    BY <1>6 DEF SettleTask, Finalizer, RowInv, FinalInv, CleanupInv, SweepTypes,
       CleanerRecord, RowTypes, RowRecord, WorkTypes, Working
<1>7. CASE scheduleCleanup
    <2>1. CASE requestWorkspaceCleanup
        <3>1. sent' = sent \cup {Current} /\ cleaner' = cleaner
            BY <1>7, <2>1, RequestTypes DEF scheduleCleanup
        <3>. QED  BY <1>7, <3>1 DEF scheduleCleanup, Finalizer, FinalInv, CleanupInv
    <2>2. CASE UNCHANGED sweep
        BY <1>7, <2>2 DEF scheduleCleanup, Finalizer, CleanupInv
    <2>. QED  BY <1>7, <2>1, <2>2 DEF scheduleCleanup
<1>8. CASE PassEnds
    BY <1>8 DEF PassEnds, RowInv, FinalInv, CleanupInv, SweepTypes, CleanerRecord, RowTypes,
       RowRecord, WorkTypes, Working
<1>9. ASSUME NEW e \in Executions, claim_execution(e) PROVE CleanupInv'
    <2>1. UNCHANGED <<disk, attemptOf, captured, sweep, fin, cancel, odds>>
        BY <1>9, ClaimEffect
    <2>2. CASE /\ row.status = "queued" /\ Current = e /\ RowStays
               /\ row'.status = "running" /\ row'.lease = TRUE /\ Moves(e, "queued", "copy")
        BY <2>1, <2>2 DEF RowInv, FinalInv, CleanupInv, FinTypes, RowStays, Moves
    <2>3. CASE /\ ~(row.status = "queued" /\ Current = e)
               /\ UNCHANGED row /\ Moves(e, "queued", "over")
        BY <2>1, <2>3 DEF RowInv, FinalInv, CleanupInv, FinTypes, Moves
    <2>. QED  BY <1>9, <2>2, <2>3, ClaimEffect
<1>10. ASSUME NEW e \in Executions, copy_tree_with_baseline(e) PROVE CleanupInv'
    BY <1>10 DEF copy_tree_with_baseline, Worker, Reach, Mine, RowInv, FinalInv, CleanupInv,
       SweepTypes, CleanerRecord, RowTypes, RowRecord, WorkTypes, Working
<1>11. ASSUME NEW e \in Executions, write_baseline(e) PROVE CleanupInv'
    BY <1>11 DEF write_baseline, Worker, Reach, Mine, RowInv, FinalInv, CleanupInv,
       SweepTypes, CleanerRecord, RowTypes, RowRecord, WorkTypes, Working
<1>12. ASSUME NEW e \in Executions, prepare_restricted_model_agent(e) PROVE CleanupInv'
    BY <1>12 DEF prepare_restricted_model_agent, Worker, Reach, RowInv, FinalInv,
       CleanupInv, SweepTypes, CleanerRecord, RowTypes, RowRecord, WorkTypes, Working
<1>13. ASSUME NEW e \in Executions, Agent(e) PROVE CleanupInv'
    BY <1>13 DEF Agent, Reach, Mine, RowInv, FinalInv, CleanupInv, SweepTypes,
       CleanerRecord, RowTypes, RowRecord, WorkTypes, Working
<1>14. ASSUME NEW e \in Executions, terminate_process(e) PROVE CleanupInv'
    BY <1>14 DEF terminate_process, Worker, Reach, RowInv, FinalInv, CleanupInv, SweepTypes,
       CleanerRecord, RowTypes, RowRecord, WorkTypes, Working
<1>15. ASSUME NEW e \in Executions, collect_workspace_change_set(e) PROVE CleanupInv'
    BY <1>15 DEF collect_workspace_change_set, Worker, Reach, Mine, RowInv, FinalInv,
       CleanupInv, SweepTypes, CleanerRecord, RowTypes, RowRecord, WorkTypes, Working
<1>16. ASSUME NEW e \in Executions, persist_execution_result(e) PROVE CleanupInv'
    <2>1. /\ UNCHANGED <<disk, attemptOf, captured, sweep, final, marks, siblings, cancel, odds>>
          /\ Moves(e, "persist", "over")
        BY <1>16, PersistEffect
    <2>2. CASE /\ Current = e /\ RowStays /\ row'.status = row.status /\ row'.lease = FALSE
               /\ pending' = pending \cup {e}
        BY <2>1, <2>2 DEF RowInv, FinalInv, CleanupInv, FinTypes, RowStays, Moves
    <2>3. CASE Current # e /\ UNCHANGED <<row, pending>>
        BY <2>1, <2>3 DEF RowInv, FinalInv, CleanupInv, FinTypes, Moves
    <2>. QED  BY <1>16, <2>2, <2>3, PersistEffect
<1>17. ASSUME NEW e \in Executions, MaterializationFails(e) PROVE CleanupInv'
    BY <1>17 DEF MaterializationFails, Worker, Reach, RowInv, FinalInv, CleanupInv,
       SweepTypes, CleanerRecord, RowTypes, RowRecord, WorkTypes, Working
<1>18. CASE WorkerCrash
    BY <1>18 DEF WorkerCrash, Idle, Working, RowInv, CleanupInv, WorkTypes, SweepTypes
<1>19. ASSUME NEW e \in Executions, CleanupDelivered(e) PROVE CleanupInv'
    BY <1>19 DEF CleanupDelivered, Cleaner, SetJob, RowInv, FinalInv, CleanupInv,
       SweepTypes, CleanerRecord, RowTypes, RowRecord, WorkTypes, Working
<1>20. CASE CleanupRemoves
    <2>1. \/ cleaner'.step = "idle"
          \/ cleaner'.step = "report" /\ cleaner'.job = cleaner.job /\ cleaner'.seen = cleaner.seen
        BY <1>20 DEF CleanupRemoves, Idle, SweepTypes, CleanerRecord
    <2>. QED  BY <1>20, <2>1 DEF CleanupRemoves, Cleaner, CleanupInv
<1>21. CASE CleanupDone
    BY <1>21 DEF CleanupDone, Cleaner, Idle, CleanupInv
<1>22. CASE CancelTask
    BY <1>22 DEF CancelTask, RowInv, FinalInv, CleanupInv, SweepTypes, CleanerRecord,
       RowTypes, RowRecord, WorkTypes, Working
<1>23. CASE CancelCleanup
    <2>1. sent' = sent \cup {Current} /\ cleaner' = cleaner
        BY <1>23, RequestTypes DEF CancelCleanup, CleanupInv
    <2>. QED  BY <1>23, <2>1 DEF CancelCleanup, CleanupInv
<1>24. ASSUME NEW p \in Owned, DeveloperEdits(p) PROVE CleanupInv'
    BY <1>24 DEF DeveloperEdits, Others, RowInv, FinalInv, CleanupInv, SweepTypes,
       CleanerRecord, RowTypes, RowRecord, WorkTypes, Working
<1>25. ASSUME NEW p \in Owned \cap SiblingOwned, SiblingIntegrates(p) PROVE CleanupInv'
    BY <1>25 DEF SiblingIntegrates, Others, RowInv, FinalInv, CleanupInv, SweepTypes,
       CleanerRecord, RowTypes, RowRecord, WorkTypes, Working
<1>26. CASE UNCHANGED vars
    BY <1>26 DEF vars, RowInv, FinalInv, CleanupInv, SweepTypes, CleanerRecord, RowTypes,
       RowRecord, WorkTypes, Working
<1>. QED  BY <1>1, <1>2, <1>3, <1>4, <1>4a, <1>5, <1>6, <1>7, <1>8, <1>9, <1>10, <1>11,
             <1>12,
             <1>13, <1>14, <1>15, <1>16, <1>17, <1>18, <1>19, <1>20, <1>21, <1>22, <1>23,
             <1>24, <1>25, <1>26
          DEF Next, ControllerStep, WorkerStep, CleanerStep

-----------------------------------------------------------------------------
(* The contents.                                                             *)

\* An execution whose agent has run, or that has ended, does not start again.
LEMMA UnstartedStays ==
    ASSUME WorkspaceInv, [Next]_vars
    PROVE  \A d \in Executions : at'[d] \in Unstarted => at[d] \in Unstarted
<1>. USE CurrentFacts, BoundsAssumption DEF WorkspaceInv, TypeOK
<1>1. CASE Dispatch
    BY <1>1 DEF Dispatch, Unstarted, RowInv, WorkTypes
<1>2. CASE recoverExpiredExecutions
    BY <1>2 DEF recoverExpiredExecutions, Unstarted, WorkTypes, Working
<1>3. ASSUME NEW e \in Executions, FinalizeResult(e)
      PROVE  \A d \in Executions : at'[d] \in Unstarted => at[d] \in Unstarted
    BY <1>3 DEF FinalizeResult, Finalizer, Unstarted, WorkTypes, Working
<1>4. ASSUME NEW p \in Paths, IntegratePath(p)
      PROVE  \A d \in Executions : at'[d] \in Unstarted => at[d] \in Unstarted
    BY <1>4 DEF IntegratePath, Finalizer, Unstarted, WorkTypes, Working
<1>4a. ASSUME NEW p \in Paths, ComparePath(p)
      PROVE  \A d \in Executions : at'[d] \in Unstarted => at[d] \in Unstarted
    BY <1>4a DEF ComparePath, Finalizer
<1>5. CASE MarkIntegrated
    BY <1>5 DEF MarkIntegrated, Finalizer, Unstarted, WorkTypes, Working
<1>6. CASE SettleTask
    BY <1>6 DEF SettleTask, Finalizer, Unstarted, WorkTypes, Working
<1>7. CASE scheduleCleanup
    BY <1>7 DEF scheduleCleanup, Finalizer, Unstarted, WorkTypes, Working
<1>8. CASE PassEnds
    BY <1>8 DEF PassEnds, Unstarted, WorkTypes, Working
<1>9. ASSUME NEW e \in Executions, claim_execution(e)
      PROVE  \A d \in Executions : at'[d] \in Unstarted => at[d] \in Unstarted
    BY <1>9 DEF claim_execution, Worker, Reach, Unstarted, WorkTypes, Working
<1>10. ASSUME NEW e \in Executions, copy_tree_with_baseline(e)
       PROVE  \A d \in Executions : at'[d] \in Unstarted => at[d] \in Unstarted
    BY <1>10 DEF copy_tree_with_baseline, Worker, Reach, Mine, Unstarted, WorkTypes, Working
<1>11. ASSUME NEW e \in Executions, write_baseline(e)
       PROVE  \A d \in Executions : at'[d] \in Unstarted => at[d] \in Unstarted
    BY <1>11 DEF write_baseline, Worker, Reach, Mine, Unstarted, WorkTypes, Working
<1>12. ASSUME NEW e \in Executions, prepare_restricted_model_agent(e)
       PROVE  \A d \in Executions : at'[d] \in Unstarted => at[d] \in Unstarted
    BY <1>12 DEF prepare_restricted_model_agent, Worker, Reach, Unstarted, WorkTypes,
       Working
<1>13. ASSUME NEW e \in Executions, Agent(e)
       PROVE  \A d \in Executions : at'[d] \in Unstarted => at[d] \in Unstarted
    BY <1>13 DEF Agent, Reach, Mine, Unstarted, WorkTypes, Working
<1>14. ASSUME NEW e \in Executions, terminate_process(e)
       PROVE  \A d \in Executions : at'[d] \in Unstarted => at[d] \in Unstarted
    BY <1>14 DEF terminate_process, Worker, Reach, Unstarted, WorkTypes, Working
<1>15. ASSUME NEW e \in Executions, collect_workspace_change_set(e)
       PROVE  \A d \in Executions : at'[d] \in Unstarted => at[d] \in Unstarted
    BY <1>15 DEF collect_workspace_change_set, Worker, Reach, Mine, Unstarted, WorkTypes,
       Working
<1>16. ASSUME NEW e \in Executions, persist_execution_result(e)
       PROVE  \A d \in Executions : at'[d] \in Unstarted => at[d] \in Unstarted
    BY <1>16 DEF persist_execution_result, Worker, Reach, Unstarted, WorkTypes, Working
<1>17. ASSUME NEW e \in Executions, MaterializationFails(e)
       PROVE  \A d \in Executions : at'[d] \in Unstarted => at[d] \in Unstarted
    BY <1>17 DEF MaterializationFails, Worker, Reach, Unstarted, WorkTypes, Working
<1>18. CASE WorkerCrash
    BY <1>18 DEF WorkerCrash, Unstarted, WorkTypes, Working
<1>19. ASSUME NEW e \in Executions, CleanupDelivered(e)
       PROVE  \A d \in Executions : at'[d] \in Unstarted => at[d] \in Unstarted
    BY <1>19 DEF CleanupDelivered, Cleaner, SetJob, Unstarted, WorkTypes, Working
<1>20. CASE CleanupRemoves
    BY <1>20 DEF CleanupRemoves, Cleaner, SetJob, Unstarted, WorkTypes, Working
<1>21. CASE CleanupDone
    BY <1>21 DEF CleanupDone, Cleaner, SetJob, Unstarted, WorkTypes, Working
<1>22. CASE CancelTask
    BY <1>22 DEF CancelTask, Unstarted, WorkTypes, Working
<1>23. CASE CancelCleanup
    BY <1>23 DEF CancelCleanup, Unstarted, WorkTypes, Working
<1>24. ASSUME NEW p \in Owned, DeveloperEdits(p)
       PROVE  \A d \in Executions : at'[d] \in Unstarted => at[d] \in Unstarted
    BY <1>24 DEF DeveloperEdits, Others, Unstarted, WorkTypes, Working
<1>25. ASSUME NEW p \in Owned \cap SiblingOwned, SiblingIntegrates(p)
       PROVE  \A d \in Executions : at'[d] \in Unstarted => at[d] \in Unstarted
    BY <1>25 DEF SiblingIntegrates, Others, Unstarted, WorkTypes, Working
<1>26. CASE UNCHANGED vars
    BY <1>26 DEF vars, Unstarted, WorkTypes, Working
<1>. QED  BY <1>1, <1>2, <1>3, <1>4, <1>4a, <1>5, <1>6, <1>7, <1>8, <1>9, <1>10, <1>11,
             <1>12,
             <1>13, <1>14, <1>15, <1>16, <1>17, <1>18, <1>19, <1>20, <1>21, <1>22, <1>23,
             <1>24, <1>25, <1>26
          DEF Next, ControllerStep, WorkerStep, CleanerStep

\* What an execution writes is nowhere before its agent has run.
LEMMA FreshStep ==
    ASSUME WorkspaceInv, [Next]_vars
    PROVE  FreshInv'
<1>. USE CurrentFacts, BoundsAssumption, UnstartedStays DEF WorkspaceInv, TypeOK
<1>1. CASE Dispatch
    BY <1>1 DEF Dispatch, FreshInv
<1>2. CASE recoverExpiredExecutions
    BY <1>2 DEF recoverExpiredExecutions, FreshInv
<1>3. ASSUME NEW e \in Executions, FinalizeResult(e) PROVE FreshInv'
    BY <1>3 DEF FinalizeResult, Finalizer, FreshInv
<1>4. ASSUME NEW p \in Paths, IntegratePath(p) PROVE FreshInv'
    <2>1. row.attempt \in Attempts
        BY <1>4, IntegrateEffect
    <2>2. root' = root \/ root' = [root EXCEPT ![p] = files[row.attempt][p]]
        BY <1>4, IntegrateEffect
    <2>3. root \in [Paths -> Contents]
        BY DEF DiskTypes, Trees
    <2>4. \A e \in Executions : at[e] \in Unstarted => \A q \in Paths : root'[q] # By(e)
        BY <2>1, <2>2, <2>3 DEF FreshInv
    <2>. QED  BY <1>4, <2>4 DEF IntegratePath, Finalizer, FreshInv
<1>4a. ASSUME NEW p \in Paths, ComparePath(p) PROVE FreshInv'
    BY <1>4a DEF ComparePath, Finalizer, FreshInv
<1>5. CASE MarkIntegrated
    BY <1>5 DEF MarkIntegrated, Finalizer, FreshInv
<1>6. CASE SettleTask
    BY <1>6 DEF SettleTask, Finalizer, FreshInv
<1>7. CASE scheduleCleanup
    BY <1>7 DEF scheduleCleanup, Finalizer, FreshInv
<1>8. CASE PassEnds
    BY <1>8 DEF PassEnds, FreshInv
<1>9. ASSUME NEW e \in Executions, claim_execution(e) PROVE FreshInv'
    BY <1>9 DEF claim_execution, Worker, Reach, FreshInv
<1>10. ASSUME NEW e \in Executions, copy_tree_with_baseline(e) PROVE FreshInv'
    <2>. DEFINE tree == snapshot_tree(root)
    <2>1. /\ tree \in Trees
          /\ \A q \in Paths : tree[q] \in {Missing, root[q]} /\ (q \in Skipped => tree[q] = Missing)
        BY SnapshotFacts DEF DiskTypes
    <2>2. /\ files' = [files EXCEPT ![attemptOf[e]] = tree]
          /\ captured' = [captured EXCEPT ![e] = tree]
          /\ UNCHANGED <<root, baseline, handoff>> /\ at[e] \in Unstarted
        BY <1>10 DEF copy_tree_with_baseline, Worker, Reach, Mine, Unstarted
    <2>. HIDE DEF tree
    <2>3. \A d \in Executions : at[d] \in Unstarted =>
             \A a \in Attempts, q \in Paths : files'[a][q] # By(d)
        <3>1. \A a \in Attempts : files'[a] \in {tree, files[a]}
            BY <2>2 DEF DiskTypes
        <3>2. \A d \in Executions : at[d] \in Unstarted => \A q \in Paths : tree[q] # By(d)
            BY <2>1, ContentFacts DEF FreshInv
        <3>. QED  BY <3>1, <3>2 DEF FreshInv
    <2>4. \A d \in Executions, q \in Paths :
             captured'[d][q] # By(d) /\ (q \in Skipped => captured'[d][q] = Missing)
        BY <2>1, <2>2, ContentFacts DEF FreshInv, WorkTypes
    <2>. QED  BY <2>2, <2>3, <2>4 DEF FreshInv
<1>11. ASSUME NEW e \in Executions, write_baseline(e) PROVE FreshInv'
    <2>1. \A a \in Attempts, q \in Skipped : baseline'[a][q] = Missing
        BY <1>11, PathsAssumption DEF write_baseline, Worker, Reach, Mine, FreshInv,
           DiskTypes
    <2>. QED  BY <1>11, <2>1 DEF write_baseline, Worker, Reach, Mine, FreshInv
<1>12. ASSUME NEW e \in Executions, prepare_restricted_model_agent(e) PROVE FreshInv'
    BY <1>12 DEF prepare_restricted_model_agent, Worker, Reach, FreshInv
<1>13. ASSUME NEW e \in Executions, Agent(e) PROVE FreshInv'
    <2>1. at'[e] = "collect" /\ UNCHANGED <<root, captured, baseline>>
        BY <1>13 DEF Agent, Reach, Mine, WorkTypes
    <2>2. CASE UNCHANGED <<files, handoff>>
        BY <2>1, <2>2 DEF FreshInv
    <2>3. CASE attemptOf[e] \in dirs
        <3>. DEFINE a == attemptOf[e]
        <3>1. a \in Attempts
            BY <2>3 DEF DiskTypes
        <3>2. PICK h \in Choices(e) : AgentLeaves(e, a, h)
            BY <1>13, <2>3, AgentSteps
        <3>3. /\ files' = [files EXCEPT ![a] = files'[a]]
              /\ handoff' = [handoff EXCEPT ![a] = handoff'[a]] /\ handoff'[a].of = e
              /\ \A q \in Paths : files'[a][q] \in {By(e), Missing, files[a][q]}
            BY <3>1, <3>2, AgentTypes
        <3>. HIDE DEF a
        <3>4. ASSUME NEW d \in Executions, at'[d] \in Unstarted
              PROVE  /\ \A b \in Attempts, q \in Paths : files'[b][q] # By(d)
                     /\ \A b \in Attempts : handoff'[b].of # d
            <4>1. d # e /\ at[d] \in Unstarted
                BY <2>1, <3>4 DEF Unstarted
            <4>2. By(d) # By(e) /\ By(d) # Missing
                BY <4>1, ContentFacts
            <4>3. \A b \in Attempts \ {a} : files'[b] = files[b] /\ handoff'[b] = handoff[b]
                BY <3>3 DEF DiskTypes
            <4>4. \A b \in Attempts \ {a} :
                    handoff'[b].of # d /\ \A q \in Paths : files'[b][q] # By(d)
                BY <4>1, <4>3 DEF FreshInv
            <4>5. handoff'[a].of # d /\ \A q \in Paths : files'[a][q] # By(d)
                BY <3>1, <3>3, <4>1, <4>2 DEF FreshInv
            <4>. QED  BY <4>4, <4>5
        <3>. QED  BY <2>1, <3>4 DEF FreshInv
    <2>. QED  BY <1>13, <2>2, <2>3 DEF Agent, Mine
<1>14. ASSUME NEW e \in Executions, terminate_process(e) PROVE FreshInv'
    BY <1>14 DEF terminate_process, Worker, Reach, FreshInv
<1>15. ASSUME NEW e \in Executions, collect_workspace_change_set(e) PROVE FreshInv'
    BY <1>15 DEF collect_workspace_change_set, Worker, Reach, Mine, FreshInv
<1>16. ASSUME NEW e \in Executions, persist_execution_result(e) PROVE FreshInv'
    BY <1>16 DEF persist_execution_result, Worker, Reach, FreshInv
<1>17. ASSUME NEW e \in Executions, MaterializationFails(e) PROVE FreshInv'
    BY <1>17 DEF MaterializationFails, Worker, Reach, FreshInv
<1>18. CASE WorkerCrash
    BY <1>18 DEF WorkerCrash, FreshInv
<1>19. ASSUME NEW e \in Executions, CleanupDelivered(e) PROVE FreshInv'
    BY <1>19 DEF CleanupDelivered, Cleaner, SetJob, FreshInv
<1>20. CASE CleanupRemoves
    <2>1. \/ UNCHANGED files
          \/ files' = [files EXCEPT ![jobs[cleaner.job].attempt] = Empty]
        BY <1>20 DEF CleanupRemoves, remove_workspace_robust
    <2>2. \A d \in Executions : at[d] \in Unstarted =>
             \A a \in Attempts, q \in Paths : files'[a][q] # By(d)
        <3>1. \A a \in Attempts : files'[a] \in {Empty, files[a]}
            BY <2>1 DEF DiskTypes
        <3>2. \A d \in Executions, q \in Paths : Empty[q] # By(d)
            BY ContentFacts DEF Empty
        <3>. QED  BY <3>1, <3>2 DEF FreshInv
    <2>. QED  BY <1>20, <2>2 DEF CleanupRemoves, Cleaner, FreshInv
<1>21. CASE CleanupDone
    BY <1>21 DEF CleanupDone, Cleaner, SetJob, FreshInv
<1>22. CASE CancelTask
    BY <1>22 DEF CancelTask, FreshInv
<1>23. CASE CancelCleanup
    BY <1>23 DEF CancelCleanup, FreshInv
<1>24. ASSUME NEW p \in Owned, DeveloperEdits(p) PROVE FreshInv'
    <2>1. root' = [root EXCEPT ![p] = Edit(edits + 1)] /\ edits + 1 \in 1 .. MaxEdits
        BY <1>24 DEF DeveloperEdits, OddsTypes
    <2>2. \A d \in Executions : at[d] \in Unstarted => \A q \in Paths : root'[q] # By(d)
        BY <2>1, ContentFacts DEF FreshInv, DiskTypes, Trees
    <2>. QED  BY <1>24, <2>2 DEF DeveloperEdits, Others, FreshInv
<1>25. ASSUME NEW p \in Owned \cap SiblingOwned, SiblingIntegrates(p) PROVE FreshInv'
    <2>1. root' = [root EXCEPT ![p] = Edit(edits + 1)] /\ edits + 1 \in 1 .. MaxEdits
        BY <1>25 DEF SiblingIntegrates, OddsTypes
    <2>2. \A d \in Executions : at[d] \in Unstarted => \A q \in Paths : root'[q] # By(d)
        BY <2>1, ContentFacts DEF FreshInv, DiskTypes, Trees
    <2>. QED  BY <1>25, <2>2 DEF SiblingIntegrates, Others, FreshInv
<1>26. CASE UNCHANGED vars
    BY <1>26 DEF vars, FreshInv
<1>. QED  BY <1>1, <1>2, <1>3, <1>4, <1>4a, <1>5, <1>6, <1>7, <1>8, <1>9, <1>10, <1>11,
             <1>12,
             <1>13, <1>14, <1>15, <1>16, <1>17, <1>18, <1>19, <1>20, <1>21, <1>22, <1>23,
             <1>24, <1>25, <1>26
          DEF Next, ControllerStep, WorkerStep, CleanerStep

\* While no worker has outlived its lease, whoever works is the current execution.
LEMMA WorkingIsCurrent ==
    ASSUME WorkspaceInv, ~cutOff, NEW e \in Executions, at[e] \in Working \cup {"queued"}
    PROVE  e = Current /\ attemptOf[e] = row.attempt /\ row.attempt \in Attempts
<1>1. e = Current
    BY DEF WorkspaceInv, AloneInv, Ended, Working
<1>. QED  BY <1>1, CurrentFacts DEF WorkspaceInv, RowInv

\* What Dispatch makes current is new.
LEMMA DispatchEffect ==
    ASSUME WorkspaceInv, Dispatch
    PROVE  /\ row'.execution \in Executions /\ row'.execution = Current + 1
           /\ row'.attempt \in Attempts /\ row'.status = "queued"
           /\ at[row'.execution] = "none" /\ at'[row'.execution] = "queued"
           /\ \A a \in Attempts : handoff[a].of # row'.execution
           /\ final.step = "idle"
           /\ UNCHANGED <<disk, captured, sweep, fin, odds>>
<1>. DEFINE e == row.execution + 1
<1>1. PICK a \in Attempts :
        /\ row' = [row EXCEPT !.status = "queued", !.attempt = a, !.execution = e]
        /\ at' = [at EXCEPT ![e] = "queued"]
    BY DEF Dispatch
<1>2. e \in Executions /\ row.execution < MaxExecutions
    BY CurrentFacts, BoundsAssumption DEF Dispatch
<1>3. row'.execution = e /\ row'.attempt = a /\ row'.status = "queued" /\ at'[e] = "queued"
    BY <1>1, <1>2 DEF WorkspaceInv, TypeOK, RowTypes, RowRecord, WorkTypes
<1>4. at[e] = "none"
    BY <1>2, CurrentFacts DEF WorkspaceInv, RowInv
<1>5. \A b \in Attempts : handoff[b].of # e
    BY <1>2, <1>4 DEF WorkspaceInv, FreshInv, Unstarted
<1>6. final.step = "idle" /\ UNCHANGED <<disk, captured, sweep, fin, odds>>
    BY DEF Dispatch
<1>. QED  BY <1>2, <1>3, <1>4, <1>5, <1>6

\* The baseline file is what the current execution copied.
LEMMA BaselineStep ==
    ASSUME WorkspaceInv, [Next]_vars
    PROVE  BaselineInv'
<1>. USE CurrentFacts, BoundsAssumption DEF WorkspaceInv, TypeOK
<1>1. CASE Dispatch
    BY <1>1, DispatchEffect DEF BaselineInv, FinalInv, Work
<1>2. CASE recoverExpiredExecutions
    <2>1. /\ RowStays /\ final'.step = "cleanup" /\ final'.checked = {}
          /\ ~cutOff' => ~cutOff
        BY <1>2 DEF recoverExpiredExecutions, RowStays, RowTypes, RowRecord, NotFinalizing
    <2>. QED  BY <1>2, <2>1 DEF recoverExpiredExecutions, BaselineInv, Work, RowStays
<1>3. ASSUME NEW e \in Executions, FinalizeResult(e) PROVE BaselineInv'
    <2>1. UNCHANGED <<at, attemptOf, handoff, baseline, captured, cutOff>> /\ RowStays
        BY <1>3, FinalizeEffect DEF FinalizeResult, Finalizer
    <2>2. final'.step = "copy" => Work.of = Current
        <3>1. row.attempt \in Attempts
            BY <1>3 DEF FinalizeResult
        <3>2. Verdict(row.attempt).to = "integrated" => Work.of = Current
            BY <3>1, VerdictFacts, Zenon DEF Work
        <3>. QED  BY <1>3, <3>2, FinalizeEffect
    <2>3. final'.checked = {}
        BY <1>3, FinalizeEffect DEF FinalInv
    <2>. QED  BY <2>1, <2>2, <2>3 DEF BaselineInv, Work, RowStays
<1>4. ASSUME NEW p \in Paths, IntegratePath(p) PROVE BaselineInv'
    BY <1>4, IntegrateEffect DEF IntegratePath, Finalizer, BaselineInv, Work
<1>4a. ASSUME NEW p \in Paths, ComparePath(p) PROVE BaselineInv'
    BY <1>4a, CompareEffect DEF ComparePath, Finalizer, BaselineInv, Work
<1>5. CASE MarkIntegrated
    BY <1>5, MarkEffect DEF MarkIntegrated, Finalizer, BaselineInv, Work
<1>6. CASE SettleTask
    BY <1>6, SettleEffect DEF SettleTask, Finalizer, BaselineInv, Work, RowStays
<1>7. CASE scheduleCleanup
    BY <1>7 DEF scheduleCleanup, Finalizer, NotFinalizing, BaselineInv, Work
<1>8. CASE PassEnds
    BY <1>8 DEF PassEnds, BaselineInv, Work, RowInv, FinalInv, RowTypes, RowRecord,
       WorkTypes, Working, FinTypes, FinalRecord
<1>9. ASSUME NEW e \in Executions, claim_execution(e) PROVE BaselineInv'
    <2>1. UNCHANGED <<disk, attemptOf, captured, sweep, fin, cancel, odds>> /\ RowStays
        BY <1>9, ClaimEffect DEF RowStays
    <2>2. /\ at'[e] \notin {"agent", "run"}
          /\ \A f \in Executions \ {e} : at'[f] = at[f]
        BY <1>9, ClaimEffect DEF Moves
    <2>. QED  BY <2>1, <2>2 DEF BaselineInv, Work, RowStays
<1>10. ASSUME NEW e \in Executions, copy_tree_with_baseline(e) PROVE BaselineInv'
    <2>1. /\ UNCHANGED <<row, baseline, handoff, final, cutOff>> /\ at[e] = "copy"
          /\ \A f \in Executions \ {e} : at'[f] = at[f] /\ captured'[f] = captured[f]
          /\ at'[e] = "baseline"
        BY <1>10 DEF copy_tree_with_baseline, Worker, Reach, Mine, WorkTypes
    <2>2. \A a \in Attempts : handoff[a].of # e
        BY <2>1 DEF FreshInv, Unstarted
    <2>3. e = Current => final.checked = {}
        BY <2>1 DEF FinalInv
    <2>. QED  BY <2>1, <2>2, <2>3 DEF BaselineInv, Work
<1>11. ASSUME NEW e \in Executions, write_baseline(e) PROVE BaselineInv'
    <2>1. /\ UNCHANGED <<row, captured, handoff, final, cutOff>> /\ at[e] = "baseline"
          /\ \A f \in Executions \ {e} : at'[f] = at[f] /\ at'[e] = "agent"
          /\ baseline' = [baseline EXCEPT ![attemptOf[e]] = captured[e]]
        BY <1>11 DEF write_baseline, Worker, Reach, Mine, WorkTypes
    <2>2. ~cutOff => e = Current /\ attemptOf[e] = row.attempt
        BY <2>1, WorkingIsCurrent DEF Working
    <2>. QED  BY <2>1, <2>2 DEF BaselineInv, Work, DiskTypes
<1>12. ASSUME NEW e \in Executions, prepare_restricted_model_agent(e) PROVE BaselineInv'
    BY <1>12 DEF prepare_restricted_model_agent, Worker, Reach, BaselineInv, Work, RowInv,
       FinalInv, RowTypes, RowRecord, WorkTypes, Working, FinTypes, FinalRecord
<1>13. ASSUME NEW e \in Executions, Agent(e) PROVE BaselineInv'
    <2>1. /\ UNCHANGED <<row, captured, baseline, final, cutOff>> /\ at[e] = "run"
          /\ \A f \in Executions \ {e} : at'[f] = at[f] /\ at'[e] = "collect"
        BY <1>13 DEF Agent, Reach, Mine, WorkTypes
    <2>2. ~cutOff => e = Current /\ baseline[row.attempt] = captured[Current]
        BY <2>1, WorkingIsCurrent DEF Working, BaselineInv
    <2>3. ~cutOff => final.step # "copy"
        BY <2>1, <2>2 DEF FinalInv
    <2>. QED  BY <2>1, <2>2, <2>3 DEF BaselineInv, Work
<1>14. ASSUME NEW e \in Executions, terminate_process(e) PROVE BaselineInv'
    BY <1>14 DEF terminate_process, Worker, Reach, BaselineInv, Work, RowInv, FinalInv,
       RowTypes, RowRecord, WorkTypes, Working, FinTypes, FinalRecord
<1>15. ASSUME NEW e \in Executions, collect_workspace_change_set(e) PROVE BaselineInv'
    BY <1>15 DEF collect_workspace_change_set, Worker, Reach, Mine, BaselineInv, Work,
       RowInv, FinalInv, RowTypes, RowRecord, WorkTypes, Working, FinTypes, FinalRecord
<1>16. ASSUME NEW e \in Executions, persist_execution_result(e) PROVE BaselineInv'
    <2>1. UNCHANGED <<disk, attemptOf, captured, final, odds>> /\ RowStays
        BY <1>16, PersistEffect DEF RowStays
    <2>2. /\ at'[e] \notin {"agent", "run"}
          /\ \A f \in Executions \ {e} : at'[f] = at[f]
        BY <1>16, PersistEffect DEF Moves
    <2>. QED  BY <2>1, <2>2 DEF BaselineInv, Work, RowStays
<1>17. ASSUME NEW e \in Executions, MaterializationFails(e) PROVE BaselineInv'
    BY <1>17 DEF MaterializationFails, Worker, Reach, BaselineInv, Work, RowInv, FinalInv,
       RowTypes, RowRecord, WorkTypes, Working, FinTypes, FinalRecord
<1>18. CASE WorkerCrash
    BY <1>18 DEF WorkerCrash, BaselineInv, Work, RowInv, FinalInv, RowTypes, RowRecord,
       WorkTypes, Working, FinTypes, FinalRecord
<1>19. ASSUME NEW e \in Executions, CleanupDelivered(e) PROVE BaselineInv'
    BY <1>19 DEF CleanupDelivered, Cleaner, SetJob, BaselineInv, Work, RowInv, FinalInv,
       RowTypes, RowRecord, WorkTypes, Working, FinTypes, FinalRecord
<1>20. CASE CleanupRemoves
    BY <1>20 DEF CleanupRemoves, Cleaner, SetJob, BaselineInv, Work, RowInv, FinalInv,
       RowTypes, RowRecord, WorkTypes, Working, FinTypes, FinalRecord
<1>21. CASE CleanupDone
    BY <1>21 DEF CleanupDone, Cleaner, SetJob, BaselineInv, Work, RowInv, FinalInv,
       RowTypes, RowRecord, WorkTypes, Working, FinTypes, FinalRecord
<1>22. CASE CancelTask
    BY <1>22 DEF CancelTask, BaselineInv, Work, RowInv, FinalInv, RowTypes, RowRecord,
       WorkTypes, Working, FinTypes, FinalRecord
<1>23. CASE CancelCleanup
    BY <1>23 DEF CancelCleanup, BaselineInv, Work, RowInv, FinalInv, RowTypes, RowRecord,
       WorkTypes, Working, FinTypes, FinalRecord
<1>24. ASSUME NEW p \in Owned, DeveloperEdits(p) PROVE BaselineInv'
    BY <1>24 DEF DeveloperEdits, Others, BaselineInv, Work, RowInv, FinalInv, RowTypes,
       RowRecord, WorkTypes, Working, FinTypes, FinalRecord
<1>25. ASSUME NEW p \in Owned \cap SiblingOwned, SiblingIntegrates(p) PROVE BaselineInv'
    BY <1>25 DEF SiblingIntegrates, Others, BaselineInv, Work, RowInv, FinalInv, RowTypes,
       RowRecord, WorkTypes, Working, FinTypes, FinalRecord
<1>26. CASE UNCHANGED vars
    BY <1>26 DEF vars, BaselineInv, Work, RowInv, FinalInv, RowTypes, RowRecord, WorkTypes,
       Working, FinTypes, FinalRecord
<1>. QED  BY <1>1, <1>2, <1>3, <1>4, <1>4a, <1>5, <1>6, <1>7, <1>8, <1>9, <1>10, <1>11,
             <1>12,
             <1>13, <1>14, <1>15, <1>16, <1>17, <1>18, <1>19, <1>20, <1>21, <1>22, <1>23,
             <1>24, <1>25, <1>26
          DEF Next, ControllerStep, WorkerStep, CleanerStep

\* A step that leaves the files of the current attempt alone, and its worker where
\* it is or dead, keeps what is known of them.
LEMMA FilesFrame ==
    ASSUME WorkspaceInv, RowStays, UNCHANGED <<dirs, files, captured, changeSet, handoff>>,
           ~cutOff' => ~cutOff, ~pulled' => ~pulled,
           Current > 0 => at'[Current] \in {at[Current], "dead"},
           Current \in pending' => Current \in pending
    PROVE  FilesInv'
BY DEF WorkspaceInv, FilesInv, Files, Work, RowStays

\* The current worker moves on before its agent has run, with the files it copied.
LEMMA NotYet ==
    ASSUME WorkspaceInv, NEW e \in Executions, at[e] \in Unstarted
    PROVE  \A a \in Attempts : handoff[a].of # e
BY DEF WorkspaceInv, FreshInv

\* The files and the change set are what the current execution made of them.
LEMMA FilesStep ==
    ASSUME WorkspaceInv, [Next]_vars
    PROVE  FilesInv'
<1>. USE CurrentFacts, BoundsAssumption DEF WorkspaceInv, TypeOK
<1>1. CASE Dispatch
    BY <1>1, DispatchEffect DEF FilesInv, Files, Work, FinTypes
<1>2. CASE recoverExpiredExecutions
    <2>1. /\ RowStays /\ UNCHANGED <<dirs, files, captured, changeSet, handoff>>
          /\ (~cutOff' => ~cutOff) /\ (~pulled' => ~pulled)
          /\ (Current > 0 => at'[Current] \in {at[Current], "dead"})
          /\ (Current \in pending' => Current \in pending)
        BY <1>2 DEF recoverExpiredExecutions, RowStays, RowTypes, RowRecord
    <2>. QED  BY <2>1, FilesFrame
<1>3. ASSUME NEW e \in Executions, FinalizeResult(e) PROVE FilesInv'
    <2>1. /\ RowStays /\ UNCHANGED <<dirs, files, captured, changeSet, handoff>>
          /\ (~cutOff' => ~cutOff) /\ (~pulled' => ~pulled)
          /\ (Current > 0 => at'[Current] \in {at[Current], "dead"})
          /\ (Current \in pending' => Current \in pending)
        BY <1>3, FinalizeEffect DEF FinalizeResult, Finalizer, RowStays
    <2>. QED  BY <2>1, FilesFrame
<1>4. ASSUME NEW p \in Paths, IntegratePath(p) PROVE FilesInv'
    <2>1. /\ RowStays /\ UNCHANGED <<dirs, files, captured, changeSet, handoff>>
          /\ (~cutOff' => ~cutOff) /\ (~pulled' => ~pulled)
          /\ (Current > 0 => at'[Current] \in {at[Current], "dead"})
          /\ (Current \in pending' => Current \in pending)
        BY <1>4 DEF IntegratePath, Finalizer, RowStays
    <2>. QED  BY <2>1, FilesFrame
<1>4a. ASSUME NEW p \in Paths, ComparePath(p) PROVE FilesInv'
    <2>1. /\ RowStays /\ UNCHANGED <<dirs, files, captured, changeSet, handoff>>
          /\ (~cutOff' => ~cutOff) /\ (~pulled' => ~pulled)
          /\ (Current > 0 => at'[Current] \in {at[Current], "dead"})
          /\ (Current \in pending' => Current \in pending)
        BY <1>4a DEF ComparePath, Finalizer, RowStays
    <2>. QED  BY <2>1, FilesFrame
<1>5. CASE MarkIntegrated
    <2>1. /\ RowStays /\ UNCHANGED <<dirs, files, captured, changeSet, handoff>>
          /\ (~cutOff' => ~cutOff) /\ (~pulled' => ~pulled)
          /\ (Current > 0 => at'[Current] \in {at[Current], "dead"})
          /\ (Current \in pending' => Current \in pending)
        BY <1>5 DEF MarkIntegrated, Finalizer, RowStays
    <2>. QED  BY <2>1, FilesFrame
<1>6. CASE SettleTask
    <2>1. /\ RowStays /\ UNCHANGED <<dirs, files, captured, changeSet, handoff>>
          /\ (~cutOff' => ~cutOff) /\ (~pulled' => ~pulled)
          /\ (Current > 0 => at'[Current] \in {at[Current], "dead"})
          /\ (Current \in pending' => Current \in pending)
        BY <1>6, SettleEffect DEF SettleTask, Finalizer, RowStays
    <2>. QED  BY <2>1, FilesFrame
<1>7. CASE scheduleCleanup
    <2>1. /\ RowStays /\ UNCHANGED <<dirs, files, captured, changeSet, handoff>>
          /\ (~cutOff' => ~cutOff) /\ (~pulled' => ~pulled)
          /\ (Current > 0 => at'[Current] \in {at[Current], "dead"})
          /\ (Current \in pending' => Current \in pending)
        BY <1>7 DEF scheduleCleanup, Finalizer, RowStays
    <2>. QED  BY <2>1, FilesFrame
<1>8. CASE PassEnds
    <2>1. /\ RowStays /\ UNCHANGED <<dirs, files, captured, changeSet, handoff>>
          /\ (~cutOff' => ~cutOff) /\ (~pulled' => ~pulled)
          /\ (Current > 0 => at'[Current] \in {at[Current], "dead"})
          /\ (Current \in pending' => Current \in pending)
        BY <1>8 DEF PassEnds, RowStays
    <2>. QED  BY <2>1, FilesFrame
<1>9. ASSUME NEW e \in Executions, claim_execution(e) PROVE FilesInv'
    <2>1. UNCHANGED <<disk, captured, fin, odds>> /\ RowStays
        BY <1>9, ClaimEffect DEF RowStays
    <2>2. /\ at'[e] \in {"copy", "over"} /\ at[e] = "queued"
          /\ \A f \in Executions \ {e} : at'[f] = at[f]
        BY <1>9, ClaimEffect DEF Moves
    <2>3. \A a \in Attempts : handoff[a].of # e
        BY <2>2, NotYet DEF Unstarted
    <2>. QED  BY <2>1, <2>2, <2>3 DEF FilesInv, Files, Work, RowStays
<1>10. ASSUME NEW e \in Executions, copy_tree_with_baseline(e) PROVE FilesInv'
    <2>. DEFINE tree == snapshot_tree(root)
    <2>. HIDE DEF tree
    <2>1. /\ UNCHANGED <<row, changeSet, handoff, pending, cutOff, pulled>> /\ at[e] = "copy"
          /\ \A f \in Executions \ {e} : at'[f] = at[f] /\ captured'[f] = captured[f]
          /\ at'[e] = "baseline" /\ captured'[e] = tree
          /\ dirs' = dirs \cup {attemptOf[e]} /\ files' = [files EXCEPT ![attemptOf[e]] = tree]
        BY <1>10 DEF copy_tree_with_baseline, Worker, Reach, Mine, WorkTypes, tree
    <2>2. \A a \in Attempts : handoff[a].of # e
        BY <2>1, NotYet DEF Unstarted
    <2>3. ~cutOff => e = Current /\ attemptOf[e] = row.attempt /\ row.attempt \in Attempts
        BY <2>1, WorkingIsCurrent DEF Working
    <2>4. ~cutOff => files'[row.attempt] = tree
        BY <2>1, <2>3 DEF DiskTypes
    <2>. QED  BY <2>1, <2>2, <2>3, <2>4 DEF FilesInv, Files, Work
<1>11. ASSUME NEW e \in Executions, write_baseline(e) PROVE FilesInv'
    <2>1. /\ UNCHANGED <<row, dirs, files, captured, changeSet, handoff, pending, cutOff, pulled>>
          /\ at[e] \in {"baseline"} /\ at'[e] = "agent"
          /\ \A f \in Executions \ {e} : at'[f] = at[f]
        BY <1>11 DEF write_baseline, Worker, Reach, Mine, WorkTypes
    <2>2. \A a \in Attempts : handoff[a].of # e
        BY <2>1, NotYet DEF Unstarted
    <2>. QED  BY <2>1, <2>2 DEF FilesInv, Files, Work
<1>12. ASSUME NEW e \in Executions, prepare_restricted_model_agent(e) PROVE FilesInv'
    <2>1. /\ UNCHANGED <<row, dirs, files, captured, changeSet, handoff, pending, cutOff, pulled>>
          /\ at[e] \in {"agent"} /\ at'[e] = "run"
          /\ \A f \in Executions \ {e} : at'[f] = at[f]
        BY <1>12 DEF prepare_restricted_model_agent, Worker, Reach, WorkTypes
    <2>2. \A a \in Attempts : handoff[a].of # e
        BY <2>1, NotYet DEF Unstarted
    <2>. QED  BY <2>1, <2>2 DEF FilesInv, Files, Work
<1>13. ASSUME NEW e \in Executions, Agent(e) PROVE FilesInv'
    <2>1. /\ UNCHANGED <<row, dirs, captured, changeSet, pending, cutOff, pulled>> /\ at[e] = "run"
          /\ \A f \in Executions \ {e} : at'[f] = at[f]
          /\ at'[e] = "collect"
        BY <1>13 DEF Agent, Reach, Mine, WorkTypes
    <2>. SUFFICES ASSUME ~cutOff, ~pulled PROVE FilesInv'
        BY <2>1 DEF FilesInv
    <2>. DEFINE a == row.attempt
    <2>2. e = Current /\ attemptOf[e] = a /\ a \in Attempts
        BY <2>1, WorkingIsCurrent DEF Working
    <2>3. a \in dirs /\ files[a] = captured[e]
        BY <2>1, <2>2 DEF FilesInv, Files
    <2>4. PICK h \in Choices(e) : AgentLeaves(e, a, h)
        BY <1>13, <2>2, <2>3, AgentSteps
    <2>. DEFINE w == handoff'[a]
                f == files'[a]
    <2>5. /\ w.of = e /\ w.writes = h.writes
          /\ w.deletes = {p \in h.deletes : files[a][p] # Missing}
          /\ \A p \in Paths : f[p] = IF p \in h.writes THEN By(e)
                                     ELSE IF p \in h.deletes THEN Missing ELSE files[a][p]
        BY <2>2, <2>4, AgentTypes
    <2>. HIDE DEF w, f
    <2>6. /\ \A p \in w.deletes : captured[e][p] # Missing
          /\ \A p \in Paths : f[p] = IF p \in w.writes THEN By(e)
                                     ELSE IF p \in w.deletes THEN Missing ELSE captured[e][p]
        BY <2>3, <2>5
    <2>. QED  BY <2>1, <2>2, <2>3, <2>6 DEF FilesInv, Files, Work, w, f
<1>14. ASSUME NEW e \in Executions, terminate_process(e) PROVE FilesInv'
    <2>1. /\ UNCHANGED <<row, dirs, files, captured, changeSet, handoff, pending, cutOff, pulled>>
          /\ at[e] \in {"run"} /\ at'[e] = "collect"
          /\ \A f \in Executions \ {e} : at'[f] = at[f]
        BY <1>14 DEF terminate_process, Worker, Reach, WorkTypes
    <2>2. \A a \in Attempts : handoff[a].of # e
        BY <2>1, NotYet DEF Unstarted
    <2>. QED  BY <2>1, <2>2 DEF FilesInv, Files, Work
<1>15. ASSUME NEW e \in Executions, collect_workspace_change_set(e) PROVE FilesInv'
    <2>1. /\ UNCHANGED <<row, dirs, files, handoff, captured, pending, cutOff, pulled>>
          /\ \A f \in Executions \ {e} : at'[f] = at[f]
          /\ at[e] = "collect" /\ at'[e] = "persist"
        BY <1>15 DEF collect_workspace_change_set, Worker, Reach, Mine, WorkTypes
    <2>. SUFFICES ASSUME ~cutOff, ~pulled PROVE FilesInv'
        BY <2>1 DEF FilesInv
    <2>. DEFINE a == row.attempt
                h == handoff[a]
    <2>2. e = Current /\ attemptOf[e] = a /\ a \in Attempts
        BY <2>1, WorkingIsCurrent DEF Working
    <2>3. CASE h.of = e
        <3>1. /\ a \in dirs /\ \A p \in h.deletes : captured[e][p] # Missing
              /\ \A p \in Paths : files[a][p] = IF p \in h.writes THEN By(e)
                                                ELSE IF p \in h.deletes THEN Missing
                                                ELSE captured[e][p]
            BY <2>1, <2>2, <2>3 DEF FilesInv, Files, Work
        <3>2. baseline[a] = captured[e]
            BY <2>2, <2>3 DEF BaselineInv, Work
        <3>3. Differing(a) = (h.writes \cup h.deletes) \ Skipped
            <4>1. h.writes \cup h.deletes \subseteq Paths /\ files[a] \in Trees
                BY <2>2 DEF DiskTypes, HandoffRecord
            <4>2. \A p \in Paths : captured[e][p] # By(e)
                                   /\ (p \in Skipped => captured[e][p] = Missing)
                BY DEF FreshInv
            <4>3. ASSUME NEW p \in Paths
                  PROVE  snapshot_tree(files[a])[p] # baseline[a][p]
                           <=> p \in (h.writes \cup h.deletes) \ Skipped
                <5>1. CASE p \in Skipped
                    BY <3>2, <4>1, <4>2, <5>1, SnapshotFacts
                <5>2. CASE p \notin Skipped
                    BY <3>1, <3>2, <4>1, <4>2, <5>2, SnapshotFacts
                <5>. QED  BY <5>1, <5>2
            <4>. QED  BY <4>1, <4>3 DEF Differing
        <3>4. changeSet'[a] = [of |-> e, paths |-> Differing(a)]
            BY <1>15, <2>2, <3>1 DEF collect_workspace_change_set, Mine, DiskTypes
        <3>. HIDE DEF h
        <3>. QED  BY <2>1, <2>2, <3>1, <3>3, <3>4 DEF FilesInv, Files, Work, h
    <2>4. CASE h.of # e
        BY <2>1, <2>2, <2>4 DEF FilesInv, Files, Work
    <2>. QED  BY <2>3, <2>4
<1>16. ASSUME NEW e \in Executions, persist_execution_result(e) PROVE FilesInv'
    <2>1. UNCHANGED <<disk, captured, odds>> /\ RowStays /\ Moves(e, "persist", "over")
          /\ pending' \in {pending, pending \cup {e}}
        BY <1>16, PersistEffect DEF RowStays
    <2>. QED  BY <2>1 DEF FilesInv, Files, Work, RowStays, Moves
<1>17. ASSUME NEW e \in Executions, MaterializationFails(e) PROVE FilesInv'
    <2>1. /\ UNCHANGED <<row, dirs, files, captured, changeSet, handoff, pending, cutOff, pulled>>
          /\ at[e] \in {"copy", "baseline", "agent"} /\ at'[e] = "persist"
          /\ \A f \in Executions \ {e} : at'[f] = at[f]
        BY <1>17 DEF MaterializationFails, Worker, Reach, WorkTypes
    <2>2. \A a \in Attempts : handoff[a].of # e
        BY <2>1, NotYet DEF Unstarted
    <2>. QED  BY <2>1, <2>2 DEF FilesInv, Files, Work
<1>18. CASE WorkerCrash
    <2>1. /\ RowStays /\ UNCHANGED <<dirs, files, captured, changeSet, handoff>>
          /\ (~cutOff' => ~cutOff) /\ (~pulled' => ~pulled)
          /\ (Current > 0 => at'[Current] \in {at[Current], "dead"})
          /\ (Current \in pending' => Current \in pending)
        BY <1>18 DEF WorkerCrash, RowStays, Working, WorkTypes
    <2>. QED  BY <2>1, FilesFrame
<1>19. ASSUME NEW e \in Executions, CleanupDelivered(e) PROVE FilesInv'
    <2>1. /\ RowStays /\ UNCHANGED <<dirs, files, captured, changeSet, handoff>>
          /\ (~cutOff' => ~cutOff) /\ (~pulled' => ~pulled)
          /\ (Current > 0 => at'[Current] \in {at[Current], "dead"})
          /\ (Current \in pending' => Current \in pending)
        BY <1>19 DEF CleanupDelivered, Cleaner, SetJob, RowStays
    <2>. QED  BY <2>1, FilesFrame
<1>20. CASE CleanupRemoves
    <2>1. UNCHANGED <<row, captured, changeSet, handoff, baseline, at, pending, cutOff>>
        BY <1>20 DEF CleanupRemoves, Cleaner
    <2>2. CASE UNCHANGED <<dirs, files, pulled>>
        BY <2>1, <2>2, FilesFrame DEF RowStays
    <2>3. CASE remove_workspace_robust(jobs[cleaner.job].attempt)
        <3>. DEFINE a == jobs[cleaner.job].attempt
        <3>1. dirs' = dirs \ {a} /\ files' = [files EXCEPT ![a] = Empty]
            BY <2>3 DEF remove_workspace_robust
        <3>2. ~pulled' => /\ ~pulled
                          /\ a = row.attempt => at[Current] \notin Working /\ Current \notin pending
            BY <2>3 DEF remove_workspace_robust
        <3>. HIDE DEF a
        <3>3. CASE a = row.attempt
            BY <2>1, <3>2, <3>3 DEF FilesInv, Files, Work, Working
        <3>4. CASE a # row.attempt
            <4>1. Current > 0 => files'[row.attempt] = files[row.attempt]
                BY <3>1, <3>4 DEF DiskTypes
            <4>. QED  BY <2>1, <3>1, <3>2, <3>4, <4>1 DEF FilesInv, Files, Work
        <3>. QED  BY <3>3, <3>4
    <2>. QED  BY <1>20, <2>2, <2>3 DEF CleanupRemoves
<1>21. CASE CleanupDone
    <2>1. /\ RowStays /\ UNCHANGED <<dirs, files, captured, changeSet, handoff>>
          /\ (~cutOff' => ~cutOff) /\ (~pulled' => ~pulled)
          /\ (Current > 0 => at'[Current] \in {at[Current], "dead"})
          /\ (Current \in pending' => Current \in pending)
        BY <1>21 DEF CleanupDone, Cleaner, SetJob, RowStays
    <2>. QED  BY <2>1, FilesFrame
<1>22. CASE CancelTask
    <2>1. /\ RowStays /\ UNCHANGED <<dirs, files, captured, changeSet, handoff>>
          /\ (~cutOff' => ~cutOff) /\ (~pulled' => ~pulled)
          /\ (Current > 0 => at'[Current] \in {at[Current], "dead"})
          /\ (Current \in pending' => Current \in pending)
        BY <1>22 DEF CancelTask, RowStays, RowTypes, RowRecord
    <2>. QED  BY <2>1, FilesFrame
<1>23. CASE CancelCleanup
    <2>1. /\ RowStays /\ UNCHANGED <<dirs, files, captured, changeSet, handoff>>
          /\ (~cutOff' => ~cutOff) /\ (~pulled' => ~pulled)
          /\ (Current > 0 => at'[Current] \in {at[Current], "dead"})
          /\ (Current \in pending' => Current \in pending)
        BY <1>23 DEF CancelCleanup, RowStays
    <2>. QED  BY <2>1, FilesFrame
<1>24. ASSUME NEW p \in Owned, DeveloperEdits(p) PROVE FilesInv'
    <2>1. /\ RowStays /\ UNCHANGED <<dirs, files, captured, changeSet, handoff>>
          /\ (~cutOff' => ~cutOff) /\ (~pulled' => ~pulled)
          /\ (Current > 0 => at'[Current] \in {at[Current], "dead"})
          /\ (Current \in pending' => Current \in pending)
        BY <1>24 DEF DeveloperEdits, Others, RowStays
    <2>. QED  BY <2>1, FilesFrame
<1>25. ASSUME NEW p \in Owned \cap SiblingOwned, SiblingIntegrates(p) PROVE FilesInv'
    <2>1. /\ RowStays /\ UNCHANGED <<dirs, files, captured, changeSet, handoff>>
          /\ (~cutOff' => ~cutOff) /\ (~pulled' => ~pulled)
          /\ (Current > 0 => at'[Current] \in {at[Current], "dead"})
          /\ (Current \in pending' => Current \in pending)
        BY <1>25 DEF SiblingIntegrates, Others, RowStays
    <2>. QED  BY <2>1, FilesFrame
<1>26. CASE UNCHANGED vars
    BY <1>26 DEF vars, FilesInv, Files, Work
<1>. QED  BY <1>1, <1>2, <1>3, <1>4, <1>4a, <1>5, <1>6, <1>7, <1>8, <1>9, <1>10, <1>11,
             <1>12,
             <1>13, <1>14, <1>15, <1>16, <1>17, <1>18, <1>19, <1>20, <1>21, <1>22, <1>23,
             <1>24, <1>25, <1>26
          DEF Next, ControllerStep, WorkerStep, CleanerStep

-----------------------------------------------------------------------------
(* What is approved and marked.                                              *)

\* The change set of a result that is to be integrated is what its agent did,
\* less what the tooling wrote.
LEMMA ActualIsReportable ==
    ASSUME WorkspaceInv, ~cutOff, ~pulled, Current \in pending, Work.of = Current
    PROVE  classifyWorkspaceChanges(changeSet[row.attempt].paths) = Reportable
<1>1. at[Current] = "over" /\ Current > 0
    BY CurrentFacts DEF WorkspaceInv, FinalInv
<1>2. changeSet[row.attempt] =
        [of |-> Current, paths |-> (Work.writes \cup Work.deletes) \ Skipped]
    BY <1>1 DEF WorkspaceInv, FilesInv
<1>. QED  BY <1>2 DEF classifyWorkspaceChanges, Reportable

\* No path the handoff names beside the change set differs from the baseline.
LEMMA NothingElseChanged ==
    ASSUME WorkspaceInv, ~cutOff, ~pulled, Current \in pending, Work.of = Current,
           NEW p \in Owned \ (Reportable \cup Tooling), NEW S, p \notin S
    PROVE  verifyReusablePath(row.attempt, p, S) # "changed_in_attempt"
<1>. DEFINE a == row.attempt
<1>1. Current > 0 /\ p \in Paths
    BY CurrentFacts, PathsAssumption
<1>2. baseline[a] = captured[Current]
    BY <1>1 DEF WorkspaceInv, BaselineInv
<1>3. /\ p \in Work.writes \/ p \in Work.deletes => p \in Skipped
      /\ files[a][p] = IF p \in Work.writes THEN By(Current)
                       ELSE IF p \in Work.deletes THEN Missing ELSE captured[Current][p]
    BY <1>1 DEF WorkspaceInv, FilesInv, Files, Reportable
<1>4. p \in Skipped => baseline[a][p] = Missing
    BY <1>1, <1>2, CurrentFacts DEF WorkspaceInv, FreshInv
<1>5. BaselineVerdict(a, p) # "changed_in_attempt"
    BY <1>2, <1>3, <1>4 DEF BaselineVerdict
<1>. QED  BY <1>5, PathsAssumption DEF verifyReusablePath

\* What is approved of such a result is what its agent changed, whatever the
\* handoff says of it.
LEMMA ApprovedIsReportable ==
    ASSUME WorkspaceInv, ~cutOff, ~pulled, Current \in pending,
           Verdict(row.attempt).to = "integrated"
    PROVE  Verdict(row.attempt).approved = Reportable /\ Reportable \subseteq Owned
<1>. DEFINE a == row.attempt
            actual == classifyWorkspaceChanges(changeSet[a].paths)
            d == reconcileHandoffPathDisposition(a, Work, actual)
<1>1. a \in Attempts
    BY CurrentFacts
<1>2. /\ Work.of = Current /\ Verdict(a).approved = d.changed /\ actual \subseteq d.changed
      /\ Verdict(a).approved \in SUBSET Owned
    <2>. USE <1>1 DEF WorkspaceInv, Work
    <2>. HIDE DEF actual, d
    <2>1. LET h == handoff[a]
              b == classifyWorkspaceChanges(changeSet[a].paths)
              c == reconcileHandoffPathDisposition(a, h, b)
          IN h.of = row.execution /\ Verdict(a).approved = c.changed /\ b \subseteq c.changed
             /\ Verdict(a).approved \in SUBSET Owned
        BY VerdictFacts, Zenon
    <2>. QED  BY <2>1, Zenon DEF actual, d, Current
<1>3. actual = Reportable
    BY <1>2, ActualIsReportable
<1>4. d.changed \subseteq actual
    <2>. DEFINE h == Work
                ghosts     == h.changed \ actual
                candidates == (h.reused \ actual) \cup ghosts
                context    == {p \in candidates : p \notin Owned /\ p \in Context}
                verdict    == [p \in candidates |->
                                 IF p \in context THEN verifyReadOnlyContextPath(a, p, actual)
                                 ELSE verifyReusablePath(a, p, actual)]
                gaps       == {p \in candidates \ context :
                                 p \in Owned /\ verdict[p] = "changed_in_attempt"}
    <2>1. d.changed = (h.changed \cap actual) \cup (h.reused \cap actual \cap Owned) \cup gaps
        BY DEF reconcileHandoffPathDisposition
    <2>2. ASSUME NEW p \in gaps PROVE FALSE
        <3>1. p \in Owned /\ p \notin actual /\ p \in candidates \ context
            OBVIOUS
        <3>2. verifyReusablePath(a, p, actual) = "changed_in_attempt"
            <4>1. verdict[p] = verifyReusablePath(a, p, actual)
                <5>. HIDE DEF actual, context, candidates
                <5>. QED  BY <3>1
            <4>. QED  BY <4>1
        <3>3. p \notin Tooling
            <4>. HIDE DEF actual
            <4>. QED  BY <3>2 DEF verifyReusablePath
        <3>4. p \in Owned \ (Reportable \cup Tooling)
            BY <1>3, <3>1, <3>3
        <3>. HIDE DEF actual
        <3>. QED  BY <1>2, <3>1, <3>2, <3>4, NothingElseChanged
    <2>. HIDE DEF actual, gaps, d, h
    <2>. QED  BY <2>1, <2>2
<1>. HIDE DEF actual, d
<1>. QED  BY <1>2, <1>3, <1>4

\* A step that leaves the handoff and the marks alone, and enters neither the
\* integration nor its success, keeps what is known of them.
LEMMA MarksFrame ==
    ASSUME WorkspaceInv, RowStays, UNCHANGED <<handoff, marks>>,
           ~cutOff' => ~cutOff, ~pulled' => ~pulled,
           final'.step = "copy" => final.step = "copy" /\ final'.approved = final.approved,
           (final'.step = "settle" /\ final'.next = "integrated") \/ row'.status = "integrated"
             => (final.step = "settle" /\ final.next = "integrated")
                 \/ row.status = "integrated"
    PROVE  MarksInv'
<1>1. Current' = Current /\ Work' = Work /\ Reportable' = Reportable
    BY DEF RowStays, Work, Reportable
<1>. QED  BY <1>1 DEF WorkspaceInv, MarksInv

\* What is approved and marked is what the current agent changed.
LEMMA MarksStep ==
    ASSUME WorkspaceInv, [Next]_vars
    PROVE  MarksInv'
<1>. USE CurrentFacts, BoundsAssumption DEF WorkspaceInv, TypeOK
<1>1. CASE Dispatch
    <2>1. final'.step = "idle" /\ row'.status = "queued"
        BY <1>1, DispatchEffect DEF fin
    <2>. QED  BY <2>1 DEF MarksInv
<1>2. CASE recoverExpiredExecutions
    <2>1. /\ RowStays /\ UNCHANGED <<handoff, marks>>
          /\ (~cutOff' => ~cutOff) /\ (~pulled' => ~pulled)
          /\ (final'.step = "copy" => final.step = "copy" /\ final'.approved = final.approved)
          /\ ((final'.step = "settle" /\ final'.next = "integrated") \/ row'.status = "integrated"
                => (final.step = "settle" /\ final.next = "integrated")
                    \/ row.status = "integrated")
        BY <1>2 DEF recoverExpiredExecutions, NotFinalizing, RowStays, RowTypes, RowRecord
    <2>. QED  BY <2>1, MarksFrame
<1>3. ASSUME NEW e \in Executions, FinalizeResult(e) PROVE MarksInv'
    <2>1. /\ UNCHANGED <<handoff, cutOff, pulled>> /\ final.step = "idle" /\ e \in pending
          /\ RowStays /\ UNCHANGED marks
        BY <1>3, FinalizeEffect DEF FinalizeResult, Finalizer
    <2>2. Current' = Current /\ Work' = Work /\ Reportable' = Reportable
        BY <2>1 DEF RowStays, Work, Reportable
    <2>3. CASE UNCHANGED <<row, final>>
        BY <2>1, <2>3, MarksFrame
    <2>4. CASE row'.status = "running" /\ UNCHANGED final
        BY <2>1, <2>4, MarksFrame
    <2>5. CASE row'.status = "running" /\ final'.step = "settle" /\ final'.next # "integrated"
        BY <2>1, <2>5, MarksFrame
    <2>6. CASE /\ Current = e /\ Verdict(row.attempt).to = "integrated"
               /\ row'.status = "running" /\ final'.step = "copy"
               /\ final'.approved = Verdict(row.attempt).approved
        <3>1. ~cutOff /\ ~pulled => final'.approved = Reportable /\ Reportable \subseteq Owned
            BY <2>1, <2>6, ApprovedIsReportable
        <3>. QED  BY <2>1, <2>2, <2>6, <3>1 DEF MarksInv
    <2>. QED  BY <1>3, FinalizeEffect, <2>3, <2>4, <2>5, <2>6
<1>4. ASSUME NEW p \in Paths, IntegratePath(p) PROVE MarksInv'
    <2>1. UNCHANGED <<handoff, cutOff, pulled, row, marks>> /\ RowStays
        BY <1>4 DEF IntegratePath, Finalizer, RowStays
    <2>. QED  BY <1>4, <2>1, IntegrateEffect, MarksFrame
<1>4a. ASSUME NEW p \in Paths, ComparePath(p) PROVE MarksInv'
    <2>1. UNCHANGED <<handoff, cutOff, pulled, row, marks>> /\ RowStays
        BY <1>4a DEF ComparePath, Finalizer, RowStays
    <2>. QED  BY <1>4a, <2>1, CompareEffect, MarksFrame
<1>5. CASE MarkIntegrated
    <2>1. UNCHANGED <<handoff, cutOff, pulled, row>> /\ RowStays
        BY <1>5 DEF MarkIntegrated, Finalizer, RowStays
    <2>2. Current' = Current /\ Work' = Work /\ Reportable' = Reportable
        BY <2>1 DEF RowStays, Work, Reportable
    <2>3. CASE UNCHANGED marks /\ final'.next # "integrated"
        BY <1>5, <2>1, <2>3, MarkEffect, MarksFrame
    <2>4. CASE /\ \A p \in final.approved : materializationProof(p)
               /\ marks' = {m \in marks : m[1] \notin final.approved}
                             \cup {<<p, root[p]>> : p \in final.approved}
        <3>. SUFFICES ASSUME ~cutOff, ~pulled PROVE MarksInv'
            BY <2>1 DEF MarksInv
        <3>1. /\ final.step = "copy" /\ final'.step = "settle"
              /\ final.approved = Reportable /\ Reportable \subseteq Owned
            BY <1>5, MarkEffect DEF MarksInv
        <3>2. Current \in pending /\ row.status # "integrated" /\ marks = {}
            BY <3>1 DEF FinalInv
        <3>3. Work.of = Current /\ Current > 0
            BY <3>1 DEF BaselineInv
        <3>4. ASSUME NEW p \in Reportable
              PROVE  root[p] = IF p \in Work.writes THEN By(Current) ELSE Missing
            <4>1. p \in Paths /\ (p \in Work.writes \/ p \in Work.deletes)
                BY <3>1, PathsAssumption DEF Reportable
            <4>2. files[row.attempt][p] = IF p \in Work.writes THEN By(Current) ELSE Missing
                BY <3>2, <3>3, <4>1 DEF FilesInv, Files
            <4>. QED  BY <2>4, <3>1, <4>2 DEF materializationProof
        <3>5. marks' = {<<p, root[p]>> : p \in Reportable}
            BY <2>4, <3>1, <3>2
        <3>6. {<<p, root[p]>> : p \in Reportable} =
                {<<p, IF p \in Work.writes THEN By(Current) ELSE Missing>> : p \in Reportable}
            BY <3>4
        <3>. QED  BY <2>2, <3>1, <3>5, <3>6 DEF MarksInv
    <2>. QED  BY <1>5, MarkEffect, <2>3, <2>4
<1>6. CASE SettleTask
    <2>1. /\ RowStays /\ UNCHANGED <<handoff, marks>>
          /\ (~cutOff' => ~cutOff) /\ (~pulled' => ~pulled)
          /\ (final'.step = "copy" => final.step = "copy" /\ final'.approved = final.approved)
          /\ ((final'.step = "settle" /\ final'.next = "integrated") \/ row'.status = "integrated"
                => (final.step = "settle" /\ final.next = "integrated")
                    \/ row.status = "integrated")
        BY <1>6, SettleEffect DEF SettleTask, Finalizer, RowStays
    <2>. QED  BY <2>1, MarksFrame
<1>7. CASE scheduleCleanup
    <2>1. /\ RowStays /\ UNCHANGED <<handoff, marks>>
          /\ (~cutOff' => ~cutOff) /\ (~pulled' => ~pulled)
          /\ (final'.step = "copy" => final.step = "copy" /\ final'.approved = final.approved)
          /\ ((final'.step = "settle" /\ final'.next = "integrated") \/ row'.status = "integrated"
                => (final.step = "settle" /\ final.next = "integrated")
                    \/ row.status = "integrated")
        BY <1>7 DEF scheduleCleanup, Finalizer, NotFinalizing, RowStays
    <2>. QED  BY <2>1, MarksFrame
<1>8. CASE PassEnds
    <2>1. /\ RowStays /\ UNCHANGED <<handoff, marks>>
          /\ (~cutOff' => ~cutOff) /\ (~pulled' => ~pulled)
          /\ (final'.step = "copy" => final.step = "copy" /\ final'.approved = final.approved)
          /\ ((final'.step = "settle" /\ final'.next = "integrated") \/ row'.status = "integrated"
                => (final.step = "settle" /\ final.next = "integrated")
                    \/ row.status = "integrated")
        BY <1>8 DEF PassEnds, RowStays
    <2>. QED  BY <2>1, MarksFrame
<1>9. ASSUME NEW e \in Executions, claim_execution(e) PROVE MarksInv'
    <2>1. /\ RowStays /\ UNCHANGED <<handoff, marks>>
          /\ (~cutOff' => ~cutOff) /\ (~pulled' => ~pulled)
          /\ (final'.step = "copy" => final.step = "copy" /\ final'.approved = final.approved)
          /\ ((final'.step = "settle" /\ final'.next = "integrated") \/ row'.status = "integrated"
                => (final.step = "settle" /\ final.next = "integrated")
                    \/ row.status = "integrated")
        BY <1>9, ClaimEffect DEF disk, fin, odds, RowStays
    <2>. QED  BY <2>1, MarksFrame
<1>10. ASSUME NEW e \in Executions, copy_tree_with_baseline(e) PROVE MarksInv'
    <2>1. /\ RowStays /\ UNCHANGED <<handoff, marks>>
          /\ (~cutOff' => ~cutOff) /\ (~pulled' => ~pulled)
          /\ (final'.step = "copy" => final.step = "copy" /\ final'.approved = final.approved)
          /\ ((final'.step = "settle" /\ final'.next = "integrated") \/ row'.status = "integrated"
                => (final.step = "settle" /\ final.next = "integrated")
                    \/ row.status = "integrated")
        BY <1>10 DEF copy_tree_with_baseline, Worker, Reach, Mine, RowStays
    <2>. QED  BY <2>1, MarksFrame
<1>11. ASSUME NEW e \in Executions, write_baseline(e) PROVE MarksInv'
    <2>1. /\ RowStays /\ UNCHANGED <<handoff, marks>>
          /\ (~cutOff' => ~cutOff) /\ (~pulled' => ~pulled)
          /\ (final'.step = "copy" => final.step = "copy" /\ final'.approved = final.approved)
          /\ ((final'.step = "settle" /\ final'.next = "integrated") \/ row'.status = "integrated"
                => (final.step = "settle" /\ final.next = "integrated")
                    \/ row.status = "integrated")
        BY <1>11 DEF write_baseline, Worker, Reach, Mine, RowStays
    <2>. QED  BY <2>1, MarksFrame
<1>12. ASSUME NEW e \in Executions, prepare_restricted_model_agent(e) PROVE MarksInv'
    <2>1. /\ RowStays /\ UNCHANGED <<handoff, marks>>
          /\ (~cutOff' => ~cutOff) /\ (~pulled' => ~pulled)
          /\ (final'.step = "copy" => final.step = "copy" /\ final'.approved = final.approved)
          /\ ((final'.step = "settle" /\ final'.next = "integrated") \/ row'.status = "integrated"
                => (final.step = "settle" /\ final.next = "integrated")
                    \/ row.status = "integrated")
        BY <1>12 DEF prepare_restricted_model_agent, Worker, Reach, RowStays
    <2>. QED  BY <2>1, MarksFrame
<1>13. ASSUME NEW e \in Executions, Agent(e) PROVE MarksInv'
    <2>1. UNCHANGED <<row, final, pending, cutOff, pulled>> /\ at[e] = "run"
        BY <1>13 DEF Agent, fin
    <2>. SUFFICES ASSUME ~cutOff PROVE MarksInv'
        BY <2>1 DEF MarksInv
    <2>2. e = Current
        BY <2>1, WorkingIsCurrent DEF Working
    <2>3. final.step \notin {"copy", "settle"} /\ row.status # "integrated"
        BY <2>1, <2>2 DEF FinalInv
    <2>. QED  BY <2>1, <2>3 DEF MarksInv
<1>14. ASSUME NEW e \in Executions, terminate_process(e) PROVE MarksInv'
    <2>1. /\ RowStays /\ UNCHANGED <<handoff, marks>>
          /\ (~cutOff' => ~cutOff) /\ (~pulled' => ~pulled)
          /\ (final'.step = "copy" => final.step = "copy" /\ final'.approved = final.approved)
          /\ ((final'.step = "settle" /\ final'.next = "integrated") \/ row'.status = "integrated"
                => (final.step = "settle" /\ final.next = "integrated")
                    \/ row.status = "integrated")
        BY <1>14 DEF terminate_process, Worker, Reach, RowStays
    <2>. QED  BY <2>1, MarksFrame
<1>15. ASSUME NEW e \in Executions, collect_workspace_change_set(e) PROVE MarksInv'
    <2>1. /\ RowStays /\ UNCHANGED <<handoff, marks>>
          /\ (~cutOff' => ~cutOff) /\ (~pulled' => ~pulled)
          /\ (final'.step = "copy" => final.step = "copy" /\ final'.approved = final.approved)
          /\ ((final'.step = "settle" /\ final'.next = "integrated") \/ row'.status = "integrated"
                => (final.step = "settle" /\ final.next = "integrated")
                    \/ row.status = "integrated")
        BY <1>15 DEF collect_workspace_change_set, Worker, Reach, Mine, RowStays
    <2>. QED  BY <2>1, MarksFrame
<1>16. ASSUME NEW e \in Executions, persist_execution_result(e) PROVE MarksInv'
    <2>1. /\ RowStays /\ UNCHANGED <<handoff, marks>>
          /\ (~cutOff' => ~cutOff) /\ (~pulled' => ~pulled)
          /\ (final'.step = "copy" => final.step = "copy" /\ final'.approved = final.approved)
          /\ ((final'.step = "settle" /\ final'.next = "integrated") \/ row'.status = "integrated"
                => (final.step = "settle" /\ final.next = "integrated")
                    \/ row.status = "integrated")
        BY <1>16, PersistEffect DEF disk, fin, odds, RowStays
    <2>. QED  BY <2>1, MarksFrame
<1>17. ASSUME NEW e \in Executions, MaterializationFails(e) PROVE MarksInv'
    <2>1. /\ RowStays /\ UNCHANGED <<handoff, marks>>
          /\ (~cutOff' => ~cutOff) /\ (~pulled' => ~pulled)
          /\ (final'.step = "copy" => final.step = "copy" /\ final'.approved = final.approved)
          /\ ((final'.step = "settle" /\ final'.next = "integrated") \/ row'.status = "integrated"
                => (final.step = "settle" /\ final.next = "integrated")
                    \/ row.status = "integrated")
        BY <1>17 DEF MaterializationFails, Worker, Reach, RowStays
    <2>. QED  BY <2>1, MarksFrame
<1>18. CASE WorkerCrash
    <2>1. /\ RowStays /\ UNCHANGED <<handoff, marks>>
          /\ (~cutOff' => ~cutOff) /\ (~pulled' => ~pulled)
          /\ (final'.step = "copy" => final.step = "copy" /\ final'.approved = final.approved)
          /\ ((final'.step = "settle" /\ final'.next = "integrated") \/ row'.status = "integrated"
                => (final.step = "settle" /\ final.next = "integrated")
                    \/ row.status = "integrated")
        BY <1>18 DEF WorkerCrash, RowStays
    <2>. QED  BY <2>1, MarksFrame
<1>19. ASSUME NEW e \in Executions, CleanupDelivered(e) PROVE MarksInv'
    <2>1. /\ RowStays /\ UNCHANGED <<handoff, marks>>
          /\ (~cutOff' => ~cutOff) /\ (~pulled' => ~pulled)
          /\ (final'.step = "copy" => final.step = "copy" /\ final'.approved = final.approved)
          /\ ((final'.step = "settle" /\ final'.next = "integrated") \/ row'.status = "integrated"
                => (final.step = "settle" /\ final.next = "integrated")
                    \/ row.status = "integrated")
        BY <1>19 DEF CleanupDelivered, Cleaner, SetJob, RowStays
    <2>. QED  BY <2>1, MarksFrame
<1>20. CASE CleanupRemoves
    <2>1. UNCHANGED <<row, handoff, marks, final, cutOff>> /\ RowStays
        BY <1>20 DEF CleanupRemoves, Cleaner, RowStays
    <2>2. ~pulled' => ~pulled
        <3>1. CASE UNCHANGED pulled
            BY <3>1
        <3>2. CASE remove_workspace_robust(jobs[cleaner.job].attempt)
            BY <3>2 DEF remove_workspace_robust
        <3>. QED  BY <1>20, <3>1, <3>2 DEF CleanupRemoves
    <2>. QED  BY <2>1, <2>2, MarksFrame
<1>21. CASE CleanupDone
    <2>1. /\ RowStays /\ UNCHANGED <<handoff, marks>>
          /\ (~cutOff' => ~cutOff) /\ (~pulled' => ~pulled)
          /\ (final'.step = "copy" => final.step = "copy" /\ final'.approved = final.approved)
          /\ ((final'.step = "settle" /\ final'.next = "integrated") \/ row'.status = "integrated"
                => (final.step = "settle" /\ final.next = "integrated")
                    \/ row.status = "integrated")
        BY <1>21 DEF CleanupDone, Cleaner, SetJob, RowStays
    <2>. QED  BY <2>1, MarksFrame
<1>22. CASE CancelTask
    <2>1. /\ RowStays /\ UNCHANGED <<handoff, marks>>
          /\ (~cutOff' => ~cutOff) /\ (~pulled' => ~pulled)
          /\ (final'.step = "copy" => final.step = "copy" /\ final'.approved = final.approved)
          /\ ((final'.step = "settle" /\ final'.next = "integrated") \/ row'.status = "integrated"
                => (final.step = "settle" /\ final.next = "integrated")
                    \/ row.status = "integrated")
        BY <1>22 DEF CancelTask, RowStays, RowTypes, RowRecord
    <2>. QED  BY <2>1, MarksFrame
<1>23. CASE CancelCleanup
    <2>1. /\ RowStays /\ UNCHANGED <<handoff, marks>>
          /\ (~cutOff' => ~cutOff) /\ (~pulled' => ~pulled)
          /\ (final'.step = "copy" => final.step = "copy" /\ final'.approved = final.approved)
          /\ ((final'.step = "settle" /\ final'.next = "integrated") \/ row'.status = "integrated"
                => (final.step = "settle" /\ final.next = "integrated")
                    \/ row.status = "integrated")
        BY <1>23 DEF CancelCleanup, RowStays
    <2>. QED  BY <2>1, MarksFrame
<1>24. ASSUME NEW p \in Owned, DeveloperEdits(p) PROVE MarksInv'
    <2>1. /\ RowStays /\ UNCHANGED <<handoff, marks>>
          /\ (~cutOff' => ~cutOff) /\ (~pulled' => ~pulled)
          /\ (final'.step = "copy" => final.step = "copy" /\ final'.approved = final.approved)
          /\ ((final'.step = "settle" /\ final'.next = "integrated") \/ row'.status = "integrated"
                => (final.step = "settle" /\ final.next = "integrated")
                    \/ row.status = "integrated")
        BY <1>24 DEF DeveloperEdits, Others, RowStays
    <2>. QED  BY <2>1, MarksFrame
<1>25. ASSUME NEW p \in Owned \cap SiblingOwned, SiblingIntegrates(p) PROVE MarksInv'
    <2>1. /\ RowStays /\ UNCHANGED <<handoff, marks>>
          /\ (~cutOff' => ~cutOff) /\ (~pulled' => ~pulled)
          /\ (final'.step = "copy" => final.step = "copy" /\ final'.approved = final.approved)
          /\ ((final'.step = "settle" /\ final'.next = "integrated") \/ row'.status = "integrated"
                => (final.step = "settle" /\ final.next = "integrated")
                    \/ row.status = "integrated")
        BY <1>25 DEF SiblingIntegrates, Others, RowStays
    <2>. QED  BY <2>1, MarksFrame
<1>26. CASE UNCHANGED vars
    BY <1>26 DEF vars, MarksInv, Work, Reportable
<1>. QED  BY <1>1, <1>2, <1>3, <1>4, <1>4a, <1>5, <1>6, <1>7, <1>8, <1>9, <1>10, <1>11,
             <1>12,
             <1>13, <1>14, <1>15, <1>16, <1>17, <1>18, <1>19, <1>20, <1>21, <1>22, <1>23,
             <1>24, <1>25, <1>26
          DEF Next, ControllerStep, WorkerStep, CleanerStep

-----------------------------------------------------------------------------
(* The theorems.                                                             *)

\* The invariant holds at first: nothing has been dispatched or written.
LEMMA InitInv ==
    ASSUME Init
    PROVE  WorkspaceInv
<1>. USE BoundsAssumption
<1>1. /\ RowTypes /\ FinTypes /\ SweepTypes /\ OddsTypes
    <2>1. RowTypes
        BY DEF Init, RowTypes, RowRecord
    <2>2. FinTypes
        BY DEF Init, FinTypes, FinalRecord, NotFinalizing
    <2>3. SweepTypes
        <3>1. NoJob \in JobRecord /\ Idle \in CleanerRecord
            BY DEF JobRecord, NoJob, CleanerRecord, Idle
        <3>. QED  BY <3>1 DEF Init, SweepTypes
    <2>4. OddsTypes
        <3>1. edits \in 0 .. MaxEdits /\ faults \in 0 .. MaxFaults
            BY DEF Init
        <3>. QED  BY <3>1, Zenon DEF Init, OddsTypes
    <2>. QED  BY <2>1, <2>2, <2>3, <2>4
<1>2. DiskTypes
    <2>1. NoChangeSet \in ChangeSet /\ NoHandoff \in HandoffRecord
        BY BoundsAssumption DEF NoChangeSet, ChangeSet, NoHandoff, HandoffRecord
    <2>2. root \in Trees
        BY ContentFacts DEF Init, Trees
    <2>. QED  BY <2>1, <2>2, ContentFacts DEF Init, DiskTypes
<1>3. WorkTypes
    BY ContentFacts, BoundsAssumption DEF Init, WorkTypes
<1>4. RowInv /\ FinalInv /\ AloneInv /\ CleanupInv
    BY BoundsAssumption
       DEF Init, RowInv, FinalInv, AloneInv, CleanupInv, Current, NotFinalizing, Idle
<1>5. FreshInv
    <2>1. \A p \in Paths : Empty[p] = Missing /\ root[p] \in {Original, Missing}
        BY DEF Init, Empty
    <2>2. \A a \in Attempts : /\ files[a] = Empty /\ baseline[a] = Empty
                              /\ handoff[a].of = 0
        BY DEF Init, NoHandoff
    <2>3. \A e \in Executions : captured[e] = Empty /\ e # 0
        BY BoundsAssumption DEF Init, Executions
    <2>4. \A e \in Executions : By(e) # Missing /\ By(e) # Original
        BY ContentFacts
    <2>. QED  BY <2>1, <2>2, <2>3, <2>4, PathsAssumption DEF FreshInv
<1>6. BaselineInv /\ FilesInv /\ MarksInv
    BY DEF Init, BaselineInv, FilesInv, MarksInv, Current, NotFinalizing
<1>. QED  BY <1>1, <1>2, <1>3, <1>4, <1>5, <1>6 DEF WorkspaceInv, TypeOK

\* The inductive invariant of the workspace, whatever the paths, the handoffs, the
\* number of attempts, crashes and edits: who owns an attempt's files, what they
\* hold and what the change set, the finalizer and the cleanup know of them.
THEOREM WorkspaceInvariant == Spec => []WorkspaceInv
<1>1. Init => WorkspaceInv
    BY InitInv
<1>2. WorkspaceInv /\ [Next]_vars => WorkspaceInv'
    <2>. SUFFICES ASSUME WorkspaceInv, [Next]_vars PROVE WorkspaceInv'
        OBVIOUS
    <2>. QED  BY TypeStep, RowStep, FinalStep, FreshStep, AloneStep, BaselineStep,
                 FilesStep,
                 MarksStep, CleanupStep DEF WorkspaceInv
<1>. QED  BY <1>1, <1>2, PTL DEF Spec

\* Type correctness: every variable of the workspace keeps its type, and an attempt
\* without a directory has no files.
THEOREM TypeCorrect == Spec => []TypeOK
<1>1. WorkspaceInv => TypeOK
    BY DEF WorkspaceInv
<1>. QED  BY <1>1, WorkspaceInvariant, PTL

\* An integrated task has brought back exactly what its agent changed, and only paths
\* of its own (reconcileHandoffPathDisposition, integrateWorkspace,
\* materializationProof).
THEOREM IntegratedExact == Spec => []IntegratedIsExact
<1>1. WorkspaceInv => IntegratedIsExact
    BY DEF WorkspaceInv, MarksInv, Work, Reportable, Current, IntegratedIsExact
<1>. QED  BY <1>1, WorkspaceInvariant, PTL

\* Integration replaces a file only after it has found there the file the work began
\* with: the comparison of integrateWorkspace with the baseline of
\* copy_tree_with_baseline leaves no way but an edit between it and the copy.
THEOREM OthersWorkSurvive == Spec => OthersWorkSurvives
<1>. DEFINE Kept == \A p \in Paths : root'[p] # root[p] /\ edits' = edits =>
                       <<p, captured[row.execution][p]>> \in final.checked \/ cutOff
<1>1. ASSUME WorkspaceInv, [Next]_vars PROVE Kept
    <2>1. ASSUME NEW q \in Paths, IntegratePath(q) PROVE Kept
        <3>1. /\ final.step = "copy" /\ root \in Trees /\ Current > 0
              /\ root' = [root EXCEPT ![q] = files[row.attempt][q]]
            BY <1>1, <2>1, IntegrateEffect, CurrentFacts DEF WorkspaceInv, TypeOK, DiskTypes
        <3>2. PICK look \in final.checked : look[1] = q
            BY <1>1, <2>1, IntegrateEffect
        <3>3. look = <<q, look[2]>>
            BY <1>1, <3>2 DEF WorkspaceInv, TypeOK, FinTypes, FinalRecord
        <3>4. ~cutOff => look[2] = captured[row.execution][q]
            BY <1>1, <3>1, <3>2 DEF WorkspaceInv, BaselineInv, Current
        <3>5. \A p \in Paths : p # q => root'[p] = root[p]
            BY <3>1 DEF Trees
        <3>. QED  BY <3>2, <3>3, <3>4, <3>5
    <2>2. ASSUME NEW q \in Paths, edits < MaxEdits /\ edits' = edits + 1 PROVE Kept
        BY <1>1, <2>2, BoundsAssumption DEF WorkspaceInv, TypeOK, OddsTypes
    <2>3. CASE UNCHANGED root
        BY <2>3
    <2>4. \/ UNCHANGED root \/ (edits < MaxEdits /\ edits' = edits + 1 /\ \E q \in Paths : TRUE)
          \/ \E q \in Paths : IntegratePath(q)
        BY <1>1, PathsAssumption
           DEF Next, ControllerStep, WorkerStep, CleanerStep, vars, disk, Dispatch,
               recoverExpiredExecutions, FinalizeResult, ComparePath, MarkIntegrated, SettleTask,
               scheduleCleanup, PassEnds, claim_execution, copy_tree_with_baseline,
               write_baseline, prepare_restricted_model_agent, Agent, terminate_process,
               collect_workspace_change_set, persist_execution_result, MaterializationFails,
               WorkerCrash, CleanupDelivered, CleanupRemoves, CleanupDone, CancelTask,
               CancelCleanup, DeveloperEdits, SiblingIntegrates, Worker, Cleaner
    <2>. QED  BY <2>1, <2>2, <2>3, <2>4
<1>2. Spec => [][Kept]_vars
    BY <1>1, WorkspaceInvariant, PTL DEF Spec
<1>. QED  BY <1>2 DEF OthersWorkSurvives

\* A cleanup job that was picked up for the current execution found it without a
\* lease, and it never gets one again: nothing is removed under a leased worker
\* before the run is cancelled (consume_cleanup).
THEOREM CleanupSpares == Spec => CleanupSparesTheLiving
<1>. DEFINE Spared == \A e \in Executions :
              /\ e = row.execution /\ row.lease /\ at[e] \in Working /\ cancel = "none"
              /\ Mine(e) \in dirs \ dirs'
              => cleaner.seen # e
<1>1. ASSUME WorkspaceInv, [Next]_vars PROVE Spared
    <2>1. CASE CleanupRemoves
        BY <1>1, <2>1 DEF CleanupRemoves, WorkspaceInv, CleanupInv, Current
    <2>2. CASE dirs \subseteq dirs'
        BY <2>2
    <2>3. CleanupRemoves \/ dirs \subseteq dirs'
        BY <1>1 DEF Next, ControllerStep, WorkerStep, CleanerStep, vars, disk, Dispatch,
               recoverExpiredExecutions, FinalizeResult, ComparePath, IntegratePath, MarkIntegrated,
               SettleTask, scheduleCleanup, PassEnds, Finalizer, claim_execution,
               copy_tree_with_baseline, write_baseline, prepare_restricted_model_agent, Agent,
               terminate_process, collect_workspace_change_set, persist_execution_result,
               MaterializationFails, WorkerCrash, CleanupDelivered, CleanupDone, CancelTask,
               CancelCleanup, DeveloperEdits, SiblingIntegrates, Others
    <2>. QED  BY <2>1, <2>2, <2>3
<1>2. Spec => [][Spared]_vars
    BY <1>1, WorkspaceInvariant, PTL DEF Spec
<1>. QED  BY <1>2 DEF CleanupSparesTheLiving
=============================================================================
