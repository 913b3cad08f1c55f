------------------------ MODULE ExecutorSession_proofs ------------------------
(***************************************************************************)
(* What a task executor hands over, for every number of models, requests,  *)
(* repair passes and attempts, and however often the process is lost.      *)
(***************************************************************************)
EXTENDS ExecutorSession, TLAPS

-----------------------------------------------------------------------------
(* Handoffs. *)

\* What every step may assume of the parts of a handoff.
LEMMA HandoffParts ==
    ASSUME NEW g \in Handoff
    PROVE  /\ g.plan \in Plan /\ g.plan.v \in Nat
           /\ g.plan.issues \in SUBSET (Issues \cup {"missing"})
           /\ g.review \in ReviewRecord /\ g.review.deltas \in SUBSET Deltas
           /\ g.review.decision \in Negative \cup {"none", "approved", "bogus"}
<1>1. g.plan \in Plan /\ g.review \in ReviewRecord
    BY DEF Handoff
<1>2. \A p \in Plan : p.v \in Nat /\ p.issues \in SUBSET (Issues \cup {"missing"})
    BY DEF Plan
<1>3. \A r \in ReviewRecord : /\ r.deltas \in SUBSET Deltas
                              /\ r.decision \in Negative \cup {"none", "approved", "bogus"}
    BY DEF ReviewRecord
<1>. QED  BY <1>1, <1>2, <1>3

\* A plan or a review that is given to a handoff leaves its other parts alone.
LEMMA HandoffGiven ==
    ASSUME NEW g \in Handoff
    PROVE  /\ \A p \in Plan :
                LET y == [g EXCEPT !.plan = p] IN
                /\ y \in Handoff /\ y.plan = p /\ y.review = g.review
                /\ y.tests = g.tests /\ y.by = g.by /\ y.status = g.status
                /\ y.valid = g.valid
           /\ \A r \in ReviewRecord :
                LET y == [g EXCEPT !.review = r] IN
                /\ y \in Handoff /\ y.plan = g.plan /\ y.review = r
                /\ y.tests = g.tests /\ y.by = g.by /\ y.status = g.status
                /\ y.valid = g.valid
           /\ \A p \in Plan, r \in ReviewRecord :
                LET y == [g EXCEPT !.plan = p, !.review = r] IN
                /\ y \in Handoff /\ y.plan = p /\ y.review = r
                /\ y.tests = g.tests /\ y.by = g.by /\ y.status = g.status
                /\ y.valid = g.valid
BY DEF Handoff

\* The handoff of a process that has none yet.
LEMMA Nothing ==
    /\ NoHandoff \in Handoff /\ NoPlan \in Plan /\ NoReview \in ReviewRecord
    /\ NoPass \in Passes
    /\ NoHandoff.review = NoReview /\ NoHandoff.plan = NoPlan
    /\ NoHandoff.tests = "none" /\ NoHandoff.status = "none"
    /\ NoReview.deltas = {} /\ NoReview.decision = "none"
    /\ NoPlan.issues # {} /\ Sound(NoHandoff)
<1>1. NoPlan \in Plan
    BY DEF NoPlan, Plan
<1>2. NoReview \in ReviewRecord
    BY DEF NoReview, ReviewRecord, Deltas
<1>3. NoPass \in Passes
    BY DEF NoPass, Passes
<1>4. NoHandoff \in Handoff
    BY <1>1, <1>2 DEF NoHandoff, Handoff, Results
<1>5. /\ NoHandoff.review = NoReview /\ NoHandoff.plan = NoPlan
      /\ NoHandoff.tests = "none" /\ NoHandoff.status = "none"
    BY DEF NoHandoff
<1>6. NoReview.deltas = {} /\ NoReview.decision = "none" /\ NoPlan.issues # {}
    BY DEF NoReview, NoPlan
<1>. QED  BY <1>1, <1>2, <1>3, <1>4, <1>5, <1>6 DEF Sound

\* Mechanics leave a plan a plan, and a plan that exists does not go away.
LEMMA MechanicsKeep ==
    ASSUME NEW p \in Plan
    PROVE  /\ normalizeTechnicalPlanMechanics(p) \in Plan
           /\ p.v # 0 => normalizeTechnicalPlanMechanics(p).v # 0
BY DEF normalizeTechnicalPlanMechanics, Plan

\* A synthesized plan is sound and has no review.
LEMMA SynthesizedFacts ==
    ASSUME NEW g \in Handoff
    PROVE  LET y == Synthesized(g) IN
           /\ y \in Handoff /\ y.review = NoReview
           /\ y.plan.v # 0 /\ y.plan.issues = {}
           /\ y.tests = g.tests
<1>. DEFINE p == [v |-> g.plan.v + 1, issues |-> {}]
<1>1. p \in Plan /\ p.v # 0 /\ p.issues = {}
    BY HandoffParts DEF Plan
<1>2. NoReview \in ReviewRecord
    BY Nothing
<1>3. Synthesized(g) = [g EXCEPT !.plan = p, !.review = NoReview]
    BY DEF Synthesized
<1>. HIDE DEF p
<1>. QED  BY <1>1, <1>2, <1>3 DEF Handoff

-----------------------------------------------------------------------------
(* Steps that leave the handoff, the checkpoint and the file alone. *)

\* The agent runs, or fails, and its answer is looked for.
LEMMA AgentSteps ==
    ASSUME SessionInv,
           \/ ManifestInvalid \/ AgentFails \/ exportOpenCodeSession
           \/ NoAuthority \/ BoundaryDeadline
    PROVE  SessionInv'
<1>. USE DEF ManifestInvalid, AgentFails, exportOpenCodeSession, NoAuthority,
             BoundaryDeadline, Goto, Exit, task, life, past, locals, runner
<1>1. TypeOK'
    BY DEF SessionInv, TypeOK, Labels
<1>2. AgentInv'
    BY DEF SessionInv, AgentInv, AgentRunsOncePerAttempt
<1>3. HandoffInv'
    BY DEF SessionInv, HandoffInv, AfterTests, Repairing, Working, Sound, Fresh
<1>4. DeltasInv'
    BY DEF SessionInv, DeltasInv, Written
<1>5. RepairInv'
    BY DEF SessionInv, RepairInv, Repairing, Working, Authoring, Synthesizing, Settled, Written, Refines
<1>. QED  BY <1>1, <1>2, <1>3, <1>4, <1>5 DEF SessionInv

\* A model is asked: the server comes and goes beneath main().
LEMMA RunnerSteps ==
    ASSUME SessionInv,
           \/ runOpenCodeStructuredOutput \/ waitForHealth
           \/ requestStructuredOutputWithRetries \/ stopStructuredProcess
    PROVE  SessionInv'
<1>. USE DEF runOpenCodeStructuredOutput, waitForHealth, stopStructuredProcess,
             requestStructuredOutputWithRetries, task, life, past, locals
<1>1. TypeOK'
    <2>1. /\ server' \in {"none", "starting", "up", "stopping"}
          /\ tries' \in 0 .. (IF server' = "stopping" THEN Requests + 1 ELSE Requests)
          /\ reply' \in {"none", "value", "failed"}
        BY ExecutorAssumption DEF SessionInv, TypeOK
    <2>. QED  BY <2>1 DEF SessionInv, TypeOK, AtMostOne
<1>2. AgentInv'
    BY DEF SessionInv, AgentInv, AgentRunsOncePerAttempt
<1>3. HandoffInv'
    BY DEF SessionInv, HandoffInv, Sound, Fresh
<1>4. DeltasInv'
    BY DEF SessionInv, DeltasInv, Written
<1>5. RepairInv'
    BY DEF SessionInv, RepairInv, Settled, Written, Refines
<1>. QED  BY <1>1, <1>2, <1>3, <1>4, <1>5 DEF SessionInv

\* main() decides what to repair next.
LEMMA CheckSteps ==
    ASSUME SessionInv,
           \/ CheckScope \/ buildValidationCommandCatalog \/ CheckAssignment
           \/ CheckPlan \/ CheckResults \/ CheckReview \/ EnterRepairLoop
    PROVE  SessionInv'
<1>. USE DEF CheckScope, buildValidationCommandCatalog, CheckAssignment, CheckPlan,
             CheckResults, CheckReview, EnterRepairLoop, Goto, Step, task, life, past,
             locals, runner
<1>1. TypeOK'
    <2>1. work' \in Plan
        BY MechanicsKeep, HandoffParts DEF SessionInv, TypeOK
    <2>2. pass' \in Passes
        <3>1. resumeRepairPass \in Nat
            BY DEF SessionInv, TypeOK, resumeRepairPass
        <3>2. /\ [pass EXCEPT !.synthesis = 1, !.model = 1, !.produced = FALSE] \in Passes
              /\ [pass EXCEPT !.repair = resumeRepairPass] \in Passes
            BY <3>1 DEF SessionInv, TypeOK, Passes
        <3>. QED  BY <3>2 DEF SessionInv, TypeOK
    <2>. QED  BY <2>1, <2>2 DEF SessionInv, TypeOK, Labels, Asking
<1>2. AgentInv'
    BY DEF SessionInv, AgentInv, AgentRunsOncePerAttempt
<1>3. HandoffInv'
    BY DEF SessionInv, HandoffInv, AfterTests, Repairing, Working, Sound, Fresh
<1>4. DeltasInv'
    BY DEF SessionInv, DeltasInv, Written
<1>5. RepairInv'
    BY DEF SessionInv, RepairInv, Repairing, Working, Authoring, Synthesizing, Settled,
           Written, Refines, Negative, shouldSynthesizeTechnicalPlan
<1>. QED  BY <1>1, <1>2, <1>3, <1>4, <1>5 DEF SessionInv

-----------------------------------------------------------------------------
(* Steps that repair the handoff and leave checkpoint and file alone. *)

\* Product discovery: scope and assessment.
LEMMA ProductSteps ==
    ASSUME SessionInv,
           \/ repairProductDiscoveryScopeBlock \/ CheckAssessment
           \/ projectMissingProductDiscoveryBootstrapAssessment
    PROVE  SessionInv'
<1>. USE DEF repairProductDiscoveryScopeBlock, CheckAssessment,
             projectMissingProductDiscoveryBootstrapAssessment,
             Goto, Step, Answered, task, life, past, locals, runner
<1>1. /\ h' \in Handoff /\ h'.plan = h.plan /\ h'.review = h.review
      /\ h'.tests = h.tests /\ h'.valid = h.valid
    <2>1. h \in Handoff
        BY DEF SessionInv, TypeOK
    <2>. QED  BY <2>1 DEF Handoff
<1>2. TypeOK'
    BY <1>1 DEF SessionInv, TypeOK, AtMostOne, Labels, Asking
<1>3. AgentInv'
    BY DEF SessionInv, AgentInv, AgentRunsOncePerAttempt
<1>4. HandoffInv'
    BY <1>1 DEF SessionInv, HandoffInv, AfterTests, Repairing, Working, Sound, Fresh
<1>5. DeltasInv'
    BY <1>1 DEF SessionInv, DeltasInv, Written
<1>6. RepairInv'
    BY <1>1 DEF SessionInv, RepairInv, Repairing, Working, Authoring, Synthesizing,
                Settled, Written, Refines
<1>. QED  BY <1>2, <1>3, <1>4, <1>5, <1>6 DEF SessionInv

\* Synthesis goes on to a model and a pass.
LEMMA NextPass ==
    ASSUME pass \in Passes, NEW b \in BOOLEAN
    PROVE  NextSynthesis(b) \in Passes
<1>. DEFINE next == IF b THEN pass.synthesis + 1 ELSE SynthesisPasses + 1
<1>1. pass.model \in Nat /\ next \in Nat
    BY ExecutorAssumption DEF Passes
<1>2. NextSynthesis(b) \in
        {[pass EXCEPT !.model = @ + 1, !.produced = b],
         [pass EXCEPT !.model = 1, !.produced = FALSE, !.synthesis = next]}
    BY DEF NextSynthesis
<1>. HIDE DEF next
<1>3. [pass EXCEPT !.model = @ + 1, !.produced = b] \in Passes
    <2>1. [pass EXCEPT !.model = @ + 1] \in Passes
        BY <1>1 DEF Passes
    <2>2. \A x \in Passes : [x EXCEPT !.produced = b] \in Passes
        BY DEF Passes
    <2>3. [pass EXCEPT !.model = @ + 1, !.produced = b]
            = [[pass EXCEPT !.model = @ + 1] EXCEPT !.produced = b]
        BY DEF Passes
    <2>. QED  BY <2>1, <2>2, <2>3
<1>4. [pass EXCEPT !.model = 1, !.produced = FALSE, !.synthesis = next] \in Passes
    BY <1>1 DEF Passes
<1>. QED  BY <1>2, <1>3, <1>4

\* A technical plan is repaired: the handoff takes the new plan without a
\* review, or stays as it was.
LEMMA PlanSteps ==
    ASSUME SessionInv,
           \/ returnBoundedRepair \/ RepairCommands \/ applyCriterionAssignments
           \/ synthesizeMissingImplementationPlan
    PROVE  SessionInv'
<1>. USE DEF returnBoundedRepair, RepairCommands, applyCriterionAssignments,
             synthesizeMissingImplementationPlan, Goto, Step, Answered, task, life,
             past, locals, runner
<1>1. /\ pc \in Synthesizing
      /\ pc' \in {"tests", "commands", "assign?", "assign", "synthesis"}
      /\ h' = h \/ h' = Synthesized(h)
    BY DEF Synthesizing, AfterMechanics
<1>2. /\ UNCHANGED <<stage, commands, attempt, exec, verdict, agentRuns, crashes>>
      /\ UNCHANGED <<asked, repairs, resume, source, checkpoint, file>>
      /\ server' \in {"none", server} /\ tries' = tries /\ reply' \in {"none", reply}
      /\ server' = server
    OBVIOUS
<1>3. h \in Handoff /\ work \in Plan /\ pass \in Passes
    BY DEF SessionInv, TypeOK
<1>4. work' \in Plan
    <2>. DEFINE Sets == SUBSET (Issues \cup {"missing"})
    <2>1. /\ \A I \in Sets : [work EXCEPT !.issues = I] \in Plan
          /\ \A I \in Sets : [v |-> work.v, issues |-> I] \in Plan
          /\ work.issues \in Sets
        BY <1>3 DEF Plan
    <2>2. /\ {} \in Sets /\ {"other"} \in Sets /\ {"coverage"} \in Sets
          /\ SUBSET {"coverage", "commands"} \subseteq Sets
          /\ \A L \in {{}, {"commands"}} : (work.issues \ {"commands"}) \cup L \in Sets
        BY <2>1 DEF Issues
    <2>. HIDE DEF Sets
    <2>3. CASE returnBoundedRepair
        BY <2>3, <1>3
    <2>4. CASE RepairCommands
        BY <2>1, <2>2, <2>4, <1>3
    <2>5. CASE applyCriterionAssignments
        BY <2>1, <2>2, <2>5, <1>3
    <2>6. CASE synthesizeMissingImplementationPlan
        BY <2>1, <2>2, <2>6, <1>3
    <2>. QED  BY <2>3, <2>4, <2>5, <2>6
<1>5. pass' \in Passes
    <2>1. /\ [pass EXCEPT !.synthesis = 1, !.model = 1, !.produced = FALSE] \in Passes
          /\ pass.produced \in BOOLEAN
        BY <1>3 DEF Passes
    <2>2. \A b \in BOOLEAN : NextSynthesis(b) \in Passes
        BY <1>3, NextPass
    <2>. QED  BY <2>1, <2>2, <1>3
<1>6. /\ h' \in Handoff /\ h'.tests = h.tests
      /\ h' = h \/ (h'.review = NoReview /\ h'.plan.v # 0 /\ h'.plan.issues = {})
    BY <1>1, <1>3, SynthesizedFacts
<1>. HIDE DEF returnBoundedRepair, RepairCommands, applyCriterionAssignments,
              synthesizeMissingImplementationPlan
<1>7. TypeOK'
    BY <1>1, <1>2, <1>4, <1>5, <1>6 DEF SessionInv, TypeOK, AtMostOne, Labels, Asking
<1>8. AgentInv'
    BY <1>1, <1>2 DEF SessionInv, AgentInv, AgentRunsOncePerAttempt
<1>9. HandoffInv'
    BY <1>1, <1>2, <1>6, Nothing
    DEF SessionInv, HandoffInv, AfterTests, Repairing, Working, Sound, Fresh, Synthesizing
<1>10. DeltasInv'
    BY <1>1, <1>2, <1>6, Nothing DEF SessionInv, DeltasInv, Written, Synthesizing
<1>11. RepairInv'
    BY <1>1, <1>2 DEF SessionInv, RepairInv, Repairing, Working, Authoring, Synthesizing,
                      Settled, Written, Refines
<1>. QED  BY <1>7, <1>8, <1>9, <1>10, <1>11 DEF SessionInv

\* Receipts and results: from here on the receipts are of this process.
LEMMA EvidenceSteps ==
    ASSUME SessionInv,
           synthesizeRequiredValidationEvidence \/ synthesizeMissingCriterionResults
    PROVE  SessionInv'
<1>. USE DEF synthesizeRequiredValidationEvidence, synthesizeMissingCriterionResults,
             RunsValidation, Goto, Step, Answered, task, life, past, locals, runner
<1>1. /\ h' \in Handoff /\ h'.plan = h.plan /\ h'.review = h.review
      /\ h'.valid = h.valid /\ h'.status = h.status
      /\ commands # "good" => h'.tests = h.tests
      /\ pc = "tests" => Fresh(h')
      /\ pc = "results" => h'.by = h.by
    <2>1. h \in Handoff /\ exec \in Nat
        BY DEF SessionInv, TypeOK
    <2>. QED  BY <2>1 DEF Handoff, Results, Fresh
<1>2. TypeOK'
    BY <1>1, Nothing DEF SessionInv, TypeOK, AtMostOne, Labels, Asking
<1>3. AgentInv'
    BY DEF SessionInv, AgentInv, AgentRunsOncePerAttempt
<1>4. HandoffInv'
    BY <1>1 DEF SessionInv, HandoffInv, AfterTests, Repairing, Working, Sound, Fresh
<1>5. DeltasInv'
    BY <1>1 DEF SessionInv, DeltasInv, Written
<1>6. RepairInv'
    BY <1>1 DEF SessionInv, RepairInv, Repairing, Working, Authoring, Synthesizing,
                Settled, Written, Refines
<1>. QED  BY <1>2, <1>3, <1>4, <1>5, <1>6 DEF SessionInv

-----------------------------------------------------------------------------
(* The review, and its repair. *)

\* The stage boundary keeps what a review is of, drops deltas at most, and
\* changes a decision only to an approval.
LEMMA BoundaryFacts ==
    ASSUME NEW g, NEW r \in ReviewRecord
    PROVE  LET c == canonicalizeTechnicalRefinementStageBoundary(g, r) IN
           /\ c \in ReviewRecord /\ c.of = r.of
           /\ c.decision \in {r.decision, "approved"}
<1>. DEFINE rest == r.deltas \ technicalRefinementOutOfStageCoverageDeltas(r)
<1>1. rest \in SUBSET Deltas
    BY DEF ReviewRecord
<1>. HIDE DEF rest
<1>2. /\ [r EXCEPT !.deltas = rest] \in ReviewRecord
      /\ [r EXCEPT !.deltas = rest].of = r.of
      /\ [r EXCEPT !.deltas = rest].decision = r.decision
      /\ [r EXCEPT !.decision = "approved", !.deltas = {}] \in ReviewRecord
      /\ [r EXCEPT !.decision = "approved", !.deltas = {}].of = r.of
      /\ [r EXCEPT !.decision = "approved", !.deltas = {}].decision = "approved"
    BY <1>1 DEF ReviewRecord
<1>3. canonicalizeTechnicalRefinementStageBoundary(g, r) \in
        {r, [r EXCEPT !.deltas = rest], [r EXCEPT !.decision = "approved", !.deltas = {}]}
    BY DEF canonicalizeTechnicalRefinementStageBoundary, rest
<1>. QED  BY <1>2, <1>3

\* The projection of a review: taken only for the plan at hand.
LEMMA ReviewStep ==
    ASSUME SessionInv, finalizeHandoffStructured
    PROVE  SessionInv'
<1>1. /\ pc = "review" /\ pc' = "loop?" /\ server' = server /\ tries' = tries
      /\ reply' = "none"
      /\ UNCHANGED <<stage, commands, attempt, exec, verdict, agentRuns, crashes>>
      /\ UNCHANGED <<repairs, resume, pass, source, work, checkpoint, file>>
    BY DEF finalizeHandoffStructured, Answered, Goto, task, life, locals
<1>2. h \in Handoff /\ h.plan.v \in Nat
    BY HandoffParts DEF SessionInv, TypeOK
<1>3. \/ UNCHANGED <<h, asked>>
      \/ \E r \in ReviewRecord :
           /\ r.of = h.plan.v /\ r.decision \in Negative \cup {"approved"} /\ h.valid
           /\ h' = [h EXCEPT !.review = r] /\ asked' = r.deltas
    <2>1. SUFFICES ASSUME ~UNCHANGED <<h, asked>>
                   PROVE  \E r \in ReviewRecord :
                            /\ r.of = h.plan.v /\ r.decision \in Negative \cup {"approved"}
                            /\ h.valid /\ h' = [h EXCEPT !.review = r]
                            /\ asked' = r.deltas
        OBVIOUS
    <2>2. PICK d \in buildHandoffFinalizationSchema(h), ds \in SUBSET Deltas :
            LET r == canonicalizeTechnicalRefinementStageBoundary(h,
                       [decision |-> d, of |-> h.plan.v, deltas |-> ds])
            IN /\ reviewProjectionIsConsistent(h, r) /\ h.valid
               /\ h' = [h EXCEPT !.review = r] /\ asked' = r.deltas
        BY <2>1 DEF finalizeHandoffStructured
    <2>. DEFINE said == [decision |-> d, of |-> h.plan.v, deltas |-> ds]
                r == canonicalizeTechnicalRefinementStageBoundary(h, said)
    <2>3. said \in ReviewRecord /\ said.of = h.plan.v
        BY <1>2 DEF buildHandoffFinalizationSchema, ReviewRecord, Negative
    <2>4. r \in ReviewRecord /\ r.of = said.of
        BY <2>3, BoundaryFacts
    <2>5. r.decision \in Negative \cup {"approved"}
        BY <2>2 DEF reviewProjectionIsConsistent
    <2>. QED  BY <2>2, <2>3, <2>4, <2>5
<1>4. /\ h' \in Handoff /\ h'.plan = h.plan /\ h'.tests = h.tests /\ h'.by = h.by
      /\ h'.status = h.status /\ h'.valid = h.valid
      /\ asked' \in SUBSET Deltas
      /\ \/ h' = h /\ asked' = asked
         \/ /\ h'.review.of = h'.plan.v /\ h'.review.decision \in Negative \cup {"approved"}
            /\ h.valid /\ asked' = h'.review.deltas
    <2>1. CASE UNCHANGED <<h, asked>>
        BY <1>2, <2>1 DEF SessionInv, TypeOK
    <2>2. CASE ~UNCHANGED <<h, asked>>
        <3>1. PICK r \in ReviewRecord :
                /\ r.of = h.plan.v /\ r.decision \in Negative \cup {"approved"} /\ h.valid
                /\ h' = [h EXCEPT !.review = r] /\ asked' = r.deltas
            BY <1>3, <2>2
        <3>2. r.deltas \in SUBSET Deltas
            BY DEF ReviewRecord
        <3>. QED  BY <1>2, <3>1, <3>2 DEF Handoff
    <2>. QED  BY <2>1, <2>2
<1>5. TypeOK'
    BY <1>1, <1>4 DEF SessionInv, TypeOK, AtMostOne, Labels
<1>6. AgentInv'
    BY <1>1 DEF SessionInv, AgentInv, AgentRunsOncePerAttempt
<1>7. HandoffInv'
    BY <1>1, <1>4 DEF SessionInv, HandoffInv, AfterTests, Repairing, Working, Sound, Fresh
<1>8. DeltasInv'
    BY <1>1, <1>4 DEF SessionInv, DeltasInv, Written
<1>9. RepairInv'
    BY <1>1, <1>4 DEF SessionInv, RepairInv, Repairing, Working, Authoring, Synthesizing,
                      Settled, Written, Refines, Negative
<1>. QED  BY <1>5, <1>6, <1>7, <1>8, <1>9 DEF SessionInv

\* What is kept in a checkpoint.
LEMMA Kept ==
    ASSUME TypeOK, NEW kind \in Kinds, NEW p \in Nat, NEW status \in Statuses,
           NEW g \in Handoff
    PROVE  LET C == Checkpoint(kind, p, status, g) IN
           /\ C \subseteq CheckpointRecord /\ AtMostOne(C) /\ C # {}
           /\ \A c \in C : c.attempt = attempt /\ c.h = g /\ c.asked = asked
<1>1. attempt \in Nat /\ asked \in SUBSET Deltas
    BY ExecutorAssumption DEF TypeOK
<1>. QED  BY <1>1 DEF Checkpoint, CheckpointRecord, AtMostOne

\* A repair pass begins with a checkpoint of the review it starts from.
LEMMA BeginStep ==
    ASSUME SessionInv, BeginRepairPass
    PROVE  SessionInv'
<1>1. /\ pc = "pass?" /\ pc' \in {"pass?", "repair"} /\ pass.repair <= RepairPasses
      /\ pc' = "repair" => h.plan.v # 0
      /\ source' = h.review /\ repairs' = repairs + 1
      /\ checkpoint' = Checkpoint(reviewKind, pass.repair, "repair-started", h)
      /\ pass' \in {pass, [pass EXCEPT !.repair = @ + 1]}
      /\ \/ h' = h
         \/ /\ h.plan.v # 0
            /\ h' = [h EXCEPT !.plan = normalizeTechnicalPlanMechanics(@)]
      /\ UNCHANGED <<stage, commands, attempt, exec, verdict, agentRuns, crashes>>
      /\ UNCHANGED <<asked, resume, work, file, server, tries, reply>>
    BY DEF BeginRepairPass, Step, Goto, task, life, runner, writeRepairCheckpoint
<1>2. h \in Handoff /\ h.plan \in Plan /\ h.review \in ReviewRecord /\ pass \in Passes
    BY HandoffParts DEF SessionInv, TypeOK
<1>3. pass' \in Passes /\ pass.repair \in Nat
    BY <1>1, <1>2 DEF Passes
<1>4. /\ h' \in Handoff /\ h'.review = h.review /\ h'.tests = h.tests /\ h'.by = h.by
      /\ h'.status = h.status /\ h'.valid = h.valid
      /\ h'.plan = h.plan \/ h'.plan.v # 0
      /\ h.plan.v # 0 => h'.plan.v # 0
    <2>1. /\ normalizeTechnicalPlanMechanics(h.plan) \in Plan
          /\ h.plan.v # 0 => normalizeTechnicalPlanMechanics(h.plan).v # 0
        BY <1>2, MechanicsKeep
    <2>. QED  BY <1>1, <1>2, <2>1 DEF Handoff
<1>5. /\ checkpoint' \subseteq CheckpointRecord /\ AtMostOne(checkpoint')
      /\ checkpoint' # {}
      /\ \A c \in checkpoint' : c.attempt = attempt /\ c.h = h /\ c.asked = asked
    <2>1. reviewKind \in Kinds /\ "repair-started" \in Statuses
        BY DEF Kinds, Statuses
    <2>. QED  BY <1>1, <1>2, <1>3, <2>1, Kept DEF SessionInv
<1>6. TypeOK'
    BY <1>1, <1>2, <1>3, <1>4, <1>5 DEF SessionInv, TypeOK, AtMostOne, Labels, Asking
<1>7. AgentInv'
    BY <1>1, <1>5 DEF SessionInv, AgentInv, AgentRunsOncePerAttempt
<1>8. h.review.decision = "changes_requested" /\ Refines
    BY <1>1 DEF SessionInv, RepairInv, Repairing, Working
<1>9. HandoffInv'
    BY <1>1, <1>4, <1>5, <1>8
    DEF SessionInv, HandoffInv, AfterTests, Repairing, Working, Sound, Fresh
<1>10. DeltasInv'
    BY <1>1, <1>4, <1>5 DEF SessionInv, DeltasInv, Written
<1>11. RepairInv'
    BY <1>1, <1>4, <1>5, <1>8
    DEF SessionInv, RepairInv, Repairing, Working, Authoring, Synthesizing, Settled,
        Written, Refines, Negative
<1>. QED  BY <1>6, <1>7, <1>9, <1>10, <1>11 DEF SessionInv

\* The plan is rewritten and its review deleted, or the pass fails.
LEMMA RewriteStep ==
    ASSUME SessionInv, repairImplementationPlanFromReview
    PROVE  SessionInv'
<1>1. /\ pc = "repair" /\ server' = server /\ tries' = tries /\ reply' = "none"
      /\ UNCHANGED <<stage, commands, attempt, exec, verdict, agentRuns, crashes>>
      /\ UNCHANGED <<asked, repairs, resume, source, work, checkpoint, file>>
      /\ pass' \in {pass, [pass EXCEPT !.repair = @ + 1]}
      /\ \/ /\ pc' = "rereview"
            /\ h' = [h EXCEPT !.plan = [v |-> h.plan.v + 1, issues |-> {}],
                              !.review = NoReview]
         \/ pc' = "pass?" /\ h' = RestoredReview(h)
    BY DEF repairImplementationPlanFromReview, Answered, Goto, task, life, past
<1>2. h \in Handoff /\ pass \in Passes
    BY DEF SessionInv, TypeOK
<1>3. pass' \in Passes
    BY <1>1, <1>2 DEF Passes
<1>4. h.review.decision = "changes_requested" /\ h.plan.v # 0 /\ Refines
    BY <1>1 DEF SessionInv, RepairInv, Repairing, Working
<1>5. \/ pc' = "pass?" /\ h' = h
      \/ /\ pc' = "rereview" /\ h' \in Handoff /\ h'.review = NoReview
         /\ h'.plan.v # 0 /\ h'.plan.issues = {} /\ h'.tests = h.tests
         /\ h'.by = h.by /\ h'.status = h.status
    <2>1. CASE pc' = "rereview"
        <3>. DEFINE p == [v |-> h.plan.v + 1, issues |-> {}]
        <3>1. p \in Plan /\ p.v # 0 /\ p.issues = {}
            BY <1>2, HandoffParts DEF Plan
        <3>2. h' = [h EXCEPT !.plan = p, !.review = NoReview]
            BY <1>1, <2>1
        <3>. HIDE DEF p
        <3>. QED  BY <1>2, <2>1, <3>1, <3>2, Nothing DEF Handoff
    <2>2. CASE pc' = "pass?"
        BY <1>1, <1>4, <2>2 DEF RestoredReview
    <2>. QED  BY <1>1, <2>1, <2>2
<1>6. TypeOK'
    BY <1>1, <1>2, <1>3, <1>5 DEF SessionInv, TypeOK, AtMostOne, Labels, Asking
<1>7. AgentInv'
    BY <1>1, <1>5 DEF SessionInv, AgentInv, AgentRunsOncePerAttempt
<1>8. HandoffInv'
    BY <1>1, <1>5, Nothing
    DEF SessionInv, HandoffInv, AfterTests, Repairing, Working, Sound, Fresh
<1>9. DeltasInv'
    BY <1>1, <1>5, Nothing DEF SessionInv, DeltasInv, Written
<1>10. RepairInv'
    BY <1>1, <1>4, <1>5, Nothing
    DEF SessionInv, RepairInv, Repairing, Working, Authoring, Synthesizing, Settled,
        Written, Refines, Negative
<1>. QED  BY <1>6, <1>7, <1>8, <1>9, <1>10 DEF SessionInv

\* The re-review: an approval is checkpointed with the plan it approves, any
\* other answer leads to the next pass with a review.
LEMMA ReReviewStep ==
    ASSUME SessionInv, finalizeTechnicalReviewRepair
    PROVE  SessionInv'
<1>1. /\ pc = "rereview" /\ server' = server /\ tries' = tries /\ reply' = "none"
      /\ UNCHANGED <<stage, commands, attempt, exec, verdict, agentRuns, crashes>>
      /\ UNCHANGED <<asked, repairs, resume, source, work, file>>
      /\ pass' \in {pass, [pass EXCEPT !.repair = @ + 1]}
    BY DEF finalizeTechnicalReviewRepair, TakeReReview, Answered, Goto, task, life, past
<1>2. /\ h \in Handoff /\ h.plan.v \in Nat /\ source \in ReviewRecord
      /\ pass \in Passes /\ pass.repair \in Nat
    BY HandoffParts DEF SessionInv, TypeOK, Passes
<1>3. pass' \in Passes
    BY <1>1, <1>2 DEF Passes
<1>4. /\ source.decision = "changes_requested" /\ source.deltas \subseteq asked
      /\ h.review = NoReview /\ h.plan.issues = {} /\ Refines
    BY <1>1 DEF SessionInv, RepairInv, DeltasInv, Repairing, Working
<1>5. \/ /\ pc' = "pass?" /\ h' = RestoredReview(h) /\ checkpoint' = checkpoint
      \/ \E b \in BOOLEAN, r \in ReviewRecord :
           /\ h.valid /\ r.of = h.plan.v /\ r.deltas \subseteq source.deltas
           /\ r.decision \in {"approved", "changes_requested"}
           /\ TakeReReview([[h EXCEPT !.risk = b] EXCEPT !.review = r])
    <2>1. SUFFICES ASSUME ~(/\ pc' = "pass?" /\ h' = RestoredReview(h)
                            /\ checkpoint' = checkpoint)
                   PROVE  \E b \in BOOLEAN, r \in ReviewRecord :
                            /\ h.valid /\ r.of = h.plan.v /\ r.deltas \subseteq source.deltas
                            /\ r.decision \in {"approved", "changes_requested"}
                            /\ TakeReReview([[h EXCEPT !.risk = b] EXCEPT !.review = r])
        OBVIOUS
    <2>2. PICK d \in buildTechnicalReviewRepairProjectionSchema(h),
               ds \in SUBSET Deltas, closes \in BOOLEAN :
            LET g == [h EXCEPT !.risk = @ /\ ~closes]
                r == canonicalizeTechnicalRefinementStageBoundary(g,
                       [decision |-> d, of |-> h.plan.v, deltas |-> ds])
            IN /\ WithinScope(r) /\ h.valid
               /\ TakeReReview([g EXCEPT !.review = r])
        BY <2>1 DEF finalizeTechnicalReviewRepair, Goto
    <2>. DEFINE b == h.risk /\ ~closes
                g == [h EXCEPT !.risk = @ /\ ~closes]
                said == [decision |-> d, of |-> h.plan.v, deltas |-> ds]
                r == canonicalizeTechnicalRefinementStageBoundary(g, said)
    <2>3. /\ said \in ReviewRecord /\ said.of = h.plan.v
          /\ said.decision \in {"approved", "changes_requested"}
        BY <1>2 DEF buildTechnicalReviewRepairProjectionSchema, ReviewRecord, Negative
    <2>4. /\ r \in ReviewRecord /\ r.of = said.of
          /\ r.decision \in {said.decision, "approved"}
        BY <2>3, BoundaryFacts
    <2>5. g = [h EXCEPT !.risk = b] /\ b \in BOOLEAN
        BY <1>2 DEF Handoff
    <2>6. TakeReReview([[h EXCEPT !.risk = b] EXCEPT !.review = r])
        BY <2>2, <2>5
    <2>7. h.valid /\ r.deltas \subseteq source.deltas
        BY <2>2 DEF WithinScope
    <2>. HIDE DEF b, r, said, g
    <2>. QED  BY <2>3, <2>4, <2>5, <2>6, <2>7
<1>6. /\ h' \in Handoff /\ h'.plan = h.plan /\ h'.tests = h.tests /\ h'.by = h.by
      /\ h'.status = h.status /\ h'.valid = h.valid
      /\ h'.review.deltas \subseteq source.deltas
      /\ \/ /\ pc' = "pass?" /\ checkpoint' = checkpoint
            /\ h'.review.decision = "changes_requested"
         \/ /\ pc' = "final" /\ h.valid
            /\ h'.review.decision = "approved" /\ h'.review.of = h.plan.v
            /\ checkpoint' = Checkpoint(reviewKind, pass.repair, "repair-completed", h')
    <2>1. ASSUME NEW r \in ReviewRecord, NEW b \in BOOLEAN
          PROVE  LET y == [[h EXCEPT !.risk = b] EXCEPT !.review = r] IN
                 /\ y \in Handoff /\ y.plan = h.plan /\ y.tests = h.tests /\ y.by = h.by
                 /\ y.status = h.status /\ y.valid = h.valid /\ y.review = r
        BY <1>2 DEF Handoff
    <2>2. CASE \E b \in BOOLEAN, r \in ReviewRecord :
                 /\ h.valid /\ r.of = h.plan.v /\ r.deltas \subseteq source.deltas
                 /\ r.decision \in {"approved", "changes_requested"}
                 /\ TakeReReview([[h EXCEPT !.risk = b] EXCEPT !.review = r])
        <3>1. PICK b \in BOOLEAN, r \in ReviewRecord :
                 /\ h.valid /\ r.of = h.plan.v /\ r.deltas \subseteq source.deltas
                 /\ r.decision \in {"approved", "changes_requested"}
                 /\ TakeReReview([[h EXCEPT !.risk = b] EXCEPT !.review = r])
            BY <2>2
        <3>. DEFINE y == [[h EXCEPT !.risk = b] EXCEPT !.review = r]
        <3>2. /\ y \in Handoff /\ y.plan = h.plan /\ y.tests = h.tests /\ y.by = h.by
              /\ y.status = h.status /\ y.valid = h.valid /\ y.review = r
            BY <2>1
        <3>3. TakeReReview(y)
            BY <3>1
        <3>. HIDE DEF y
        <3>. QED  BY <3>1, <3>2, <3>3 DEF TakeReReview, Goto, writeRepairCheckpoint
    <2>3. CASE pc' = "pass?" /\ h' = RestoredReview(h) /\ checkpoint' = checkpoint
        <3>1. h' = [h EXCEPT !.review = source]
            BY <1>4, <2>3, Nothing DEF RestoredReview
        <3>. QED  BY <1>2, <1>4, <2>3, <3>1 DEF Handoff
    <2>. QED  BY <1>5, <2>2, <2>3
<1>7. \/ pc' = "pass?" /\ checkpoint' = checkpoint
      \/ /\ pc' = "final"
         /\ checkpoint' \subseteq CheckpointRecord /\ AtMostOne(checkpoint')
         /\ checkpoint' # {}
         /\ \A c \in checkpoint' : c.attempt = attempt /\ c.h = h' /\ c.asked = asked
    <2>1. reviewKind \in Kinds /\ "repair-completed" \in Statuses
        BY DEF Kinds, Statuses
    <2>. QED  BY <1>2, <1>6, <2>1, Kept DEF SessionInv
<1>8. TypeOK'
    BY <1>1, <1>3, <1>6, <1>7 DEF SessionInv, TypeOK, AtMostOne, Labels
<1>9. AgentInv'
    BY <1>1, <1>7 DEF SessionInv, AgentInv, AgentRunsOncePerAttempt
<1>10. HandoffInv'
    BY <1>1, <1>6, <1>7
    DEF SessionInv, HandoffInv, AfterTests, Repairing, Working, Sound, Fresh
<1>11. DeltasInv'
    BY <1>1, <1>4, <1>6, <1>7 DEF SessionInv, DeltasInv, Written
<1>12. RepairInv'
    BY <1>1, <1>4, <1>6, <1>7
    DEF SessionInv, RepairInv, Repairing, Working, Authoring, Synthesizing, Settled,
        Written, Refines, Negative
<1>. QED  BY <1>8, <1>9, <1>10, <1>11, <1>12 DEF SessionInv

\* No pass is left.
LEMMA ExhaustStep ==
    ASSUME SessionInv, ExhaustRepair
    PROVE  SessionInv'
<1>1. /\ pc = "pass?" /\ pc' = "final"
      /\ checkpoint' = Checkpoint(reviewKind, RepairPasses, "repair-exhausted", h)
      /\ UNCHANGED <<stage, commands, attempt, exec, verdict, agentRuns, crashes>>
      /\ UNCHANGED <<asked, repairs, h, resume, pass, source, work, file>>
      /\ UNCHANGED <<server, tries, reply>>
    BY DEF ExhaustRepair, Step, Goto, task, life, past, locals, runner,
           writeRepairCheckpoint
<1>2. h \in Handoff /\ RepairPasses \in Nat
    BY ExecutorAssumption DEF SessionInv, TypeOK
<1>3. /\ checkpoint' \subseteq CheckpointRecord /\ AtMostOne(checkpoint')
      /\ checkpoint' # {}
      /\ \A c \in checkpoint' : c.attempt = attempt /\ c.h = h /\ c.asked = asked
    <2>1. reviewKind \in Kinds /\ "repair-exhausted" \in Statuses
        BY DEF Kinds, Statuses
    <2>. QED  BY <1>1, <1>2, <2>1, Kept DEF SessionInv
<1>4. h.review.decision = "changes_requested" /\ Refines
    BY <1>1 DEF SessionInv, RepairInv, Repairing, Working
<1>5. TypeOK'
    BY <1>1, <1>3 DEF SessionInv, TypeOK, AtMostOne, Labels
<1>6. AgentInv'
    BY <1>1, <1>3 DEF SessionInv, AgentInv, AgentRunsOncePerAttempt
<1>7. HandoffInv'
    BY <1>1, <1>3
    DEF SessionInv, HandoffInv, AfterTests, Repairing, Working, Sound, Fresh
<1>8. DeltasInv'
    BY <1>1, <1>3 DEF SessionInv, DeltasInv, Written
<1>9. RepairInv'
    BY <1>1, <1>3, <1>4
    DEF SessionInv, RepairInv, Repairing, Working, Authoring, Synthesizing, Settled,
        Written, Refines, Negative
<1>. QED  BY <1>5, <1>6, <1>7, <1>8, <1>9 DEF SessionInv

-----------------------------------------------------------------------------
(* The other checkpoints. *)

\* A checkpoint before repair has begun, of the handoff as it is or as it was
\* just completed.
LEMMA EarlyCheckpoints ==
    ASSUME SessionInv,
           \/ armQualificationProcessLossBoundary \/ normalizeModelHandoffContract
           \/ CheckCriteria \/ projectProductDiscoveryAcceptanceCriteria
    PROVE  SessionInv'
<1>. USE DEF armQualificationProcessLossBoundary, normalizeModelHandoffContract,
             CheckCriteria, projectProductDiscoveryAcceptanceCriteria, CriteriaRepaired,
             MechanicalRepair, Step, Answered, Goto, task, life, past, locals, runner,
             writeRepairCheckpoint
<1>1. /\ pc \in {"boundary", "normalize", "criteria?", "criteria"}
      /\ pc' \in {"wait", "normalize", "criteria?", "criteria", "scope?"}
      /\ pc' \in {"wait", "normalize"} => pc = "boundary"
      /\ pc' = "criteria?" => pc = "normalize"
      /\ UNCHANGED <<stage, commands, attempt, exec, verdict, agentRuns, crashes>>
      /\ UNCHANGED <<asked, repairs, resume, pass, source, work, file>>
      /\ server' = server /\ tries' = tries /\ reply' \in {"none", reply}
    OBVIOUS
<1>2. /\ h' \in Handoff /\ h'.plan = h.plan /\ h'.review = h.review
      /\ h'.tests = h.tests
    <2>1. h \in Handoff
        BY DEF SessionInv, TypeOK
    <2>. QED  BY <2>1 DEF Handoff
<1>3. \/ checkpoint' = checkpoint
      \/ \E kind \in Kinds, status \in Statuses :
           checkpoint' = Checkpoint(kind, 1, status, h')
    BY DEF Kinds, Statuses
<1>. HIDE DEF armQualificationProcessLossBoundary, normalizeModelHandoffContract,
              CheckCriteria, projectProductDiscoveryAcceptanceCriteria
<1>4. \/ checkpoint' = checkpoint
      \/ /\ checkpoint' \subseteq CheckpointRecord /\ AtMostOne(checkpoint')
         /\ checkpoint' # {}
         /\ \A c \in checkpoint' : c.attempt = attempt /\ c.h = h' /\ c.asked = asked
    BY <1>2, <1>3, Kept DEF SessionInv
<1>5. TypeOK'
    BY <1>1, <1>2, <1>4 DEF SessionInv, TypeOK, AtMostOne, Labels, Asking
<1>6. AgentInv'
    BY <1>1, <1>4 DEF SessionInv, AgentInv, AgentRunsOncePerAttempt
<1>7. HandoffInv'
    BY <1>1, <1>2, <1>4
    DEF SessionInv, HandoffInv, AfterTests, Repairing, Working, Sound, Fresh
<1>8. DeltasInv'
    BY <1>1, <1>2, <1>4 DEF SessionInv, DeltasInv, Written
<1>9. RepairInv'
    BY <1>1, <1>2, <1>4
    DEF SessionInv, RepairInv, Repairing, Working, Authoring, Synthesizing, Settled,
        Written, Refines, Negative
<1>. QED  BY <1>5, <1>6, <1>7, <1>8, <1>9 DEF SessionInv

\* The handoff is written, or kept because it is invalid.
LEMMA WriteStep ==
    ASSUME SessionInv, WriteHandoff
    PROVE  SessionInv'
<1>1. /\ pc = "final" /\ h' = NoHandoff /\ resume' = {} /\ pass' = NoPass
      /\ source' = NoReview
      /\ UNCHANGED <<stage, commands, attempt, exec, verdict, agentRuns, crashes>>
      /\ UNCHANGED <<asked, repairs, work, server, tries, reply>>
      /\ \/ h.valid /\ file' = {h} /\ checkpoint' = checkpoint /\ pc' = "exit0"
         \/ /\ ~h.valid /\ file' = file /\ pc' = "exit1"
            /\ checkpoint' = Checkpoint("handoff-schema", 1, "repair-exhausted", h)
    BY DEF WriteHandoff, Exit, Step, Goto, task, life, past, runner,
           writeRepairCheckpoint
<1>2. h \in Handoff
    BY DEF SessionInv, TypeOK
<1>3. \/ checkpoint' = checkpoint
      \/ /\ checkpoint' \subseteq CheckpointRecord /\ AtMostOne(checkpoint')
         /\ checkpoint' # {} /\ ~h.valid
         /\ \A c \in checkpoint' : c.attempt = attempt /\ c.h = h /\ c.asked = asked
    <2>1. "handoff-schema" \in Kinds /\ "repair-exhausted" \in Statuses
        BY DEF Kinds, Statuses
    <2>. QED  BY <1>1, <1>2, <2>1, Kept DEF SessionInv
<1>4. TypeOK'
    BY <1>1, <1>2, <1>3, Nothing DEF SessionInv, TypeOK, AtMostOne, Labels
<1>5. AgentInv'
    BY <1>1, <1>3 DEF SessionInv, AgentInv, AgentRunsOncePerAttempt
<1>6. HandoffInv'
    BY <1>1, <1>3, Nothing
    DEF SessionInv, HandoffInv, AfterTests, Repairing, Working, Sound, Fresh
<1>7. DeltasInv'
    BY <1>1, <1>3, Nothing DEF SessionInv, DeltasInv, Written
<1>8. RepairInv'
    BY <1>1, <1>3
    DEF SessionInv, RepairInv, Repairing, Working, Authoring, Synthesizing, Settled,
        Written, Refines, Negative
<1>. QED  BY <1>4, <1>5, <1>6, <1>7, <1>8 DEF SessionInv

-----------------------------------------------------------------------------
(* The beginning of a process and what becomes of it. *)

\* What an agent leaves behind is a handoff whose review, if it approves, is
\* of the plan beside it, and which has no receipts.
LEMMA AuthoredFacts ==
    ASSUME NEW g \in Authored
    PROVE  g \in Handoff /\ Sound(g)
<1>1. \A p \in Plans : /\ p \in Plan /\ (p.v = 0 => p.issues # {})
                       /\ p.v # 0 => p.v = 1
    BY Nothing DEF Plans, Plan, Issues, NoPlan
<1>2. \A r \in Reviews : /\ r \in ReviewRecord
                         /\ r.decision = "approved" => r.of = 1
    <2>1. ASSUME NEW d \in Negative \cup {"approved", "bogus"}, NEW ds \in SUBSET Deltas
          PROVE  Says(d, ds) \in ReviewRecord /\ Says(d, ds).of = 1
        BY DEF Says, ReviewRecord
    <2>2. /\ {} \in SUBSET Deltas /\ {"delta"} \in SUBSET Deltas
          /\ "changes_requested" \in Negative /\ "blocked" \in Negative
        BY DEF Deltas, Negative
    <2>3. ASSUME NEW r \in Reviews
          PROVE  \/ r = NoReview
                 \/ \E d \in Negative \cup {"approved", "bogus"}, ds \in SUBSET Deltas :
                      r = Says(d, ds)
        BY <2>2 DEF Reviews
    <2>. QED  BY <2>1, <2>3, Nothing
<1>3. /\ SoundPlan \in Plan /\ (SoundPlan.v = 0 => SoundPlan.issues # {})
      /\ SoundPlan.v # 0 => SoundPlan.v = 1
    BY DEF SoundPlan, Plan
<1>4. /\ NoHandoff \in Handoff /\ NoHandoff.plan = NoPlan
      /\ NoHandoff.review = NoReview /\ NoHandoff.tests = "none"
      /\ NoPlan.v = 0 /\ NoPlan.issues # {} /\ NoReview.decision = "none"
    BY Nothing DEF NoPlan
<1>5. /\ Complete \in Handoff /\ Complete.plan = NoPlan
      /\ Complete.review = NoReview /\ Complete.tests = "none"
    BY <1>4 DEF Handoff, Complete
<1>6. /\ Proved \in Handoff /\ Proved.plan = NoPlan
      /\ Proved.review = NoReview /\ Proved.tests = "none"
    BY <1>5 DEF Handoff, Proved, Results
<1>7. ASSUME g \in ProductHandoffs PROVE g \in Handoff /\ Sound(g)
    <2>1. PICK x \in {"complete", "blocked"} \X BOOLEAN \X BOOLEAN
                       \X {"good", "fixable", "bad"} :
            g = [Proved EXCEPT !.status = x[1], !.scoped = x[2], !.criteria = x[3],
                               !.assessment = x[4]]
        BY <1>7 DEF ProductHandoffs
    <2>2. g \in Handoff /\ g.plan = NoPlan /\ g.review = NoReview /\ g.tests = "none"
        BY <1>6, <2>1 DEF Handoff
    <2>. QED  BY <1>4, <2>2 DEF Sound
<1>8. ASSUME g \in TechnicalHandoffs PROVE g \in Handoff /\ Sound(g)
    <2>1. PICK p \in Plan, r \in ReviewRecord :
            /\ p.v = 0 => p.issues # {}
            /\ p.v # 0 => p.v = 1
            /\ r.decision = "approved" => r.of = 1
            /\ \/ g = [Proved EXCEPT !.plan = p, !.review = r]
               \/ g = [Proved EXCEPT !.plan = p, !.review = r, !.risk = TRUE]
               \/ g = [Proved EXCEPT !.plan = p, !.review = r, !.valid = FALSE]
        <3>1. \/ \E x \in Plans \X Reviews : g = [Proved EXCEPT !.plan = x[1], !.review = x[2]]
              \/ \E r \in Reviews :
                   g = [Proved EXCEPT !.plan = SoundPlan, !.review = r, !.risk = TRUE]
              \/ \E r \in Reviews :
                   g = [Proved EXCEPT !.plan = SoundPlan, !.review = r, !.valid = FALSE]
            BY <1>8 DEF TechnicalHandoffs
        <3>2. CASE \E x \in Plans \X Reviews :
                     g = [Proved EXCEPT !.plan = x[1], !.review = x[2]]
            <4>1. PICK x \in Plans \X Reviews :
                     g = [Proved EXCEPT !.plan = x[1], !.review = x[2]]
                BY <3>2
            <4>2. x[1] \in Plans /\ x[2] \in Reviews
                OBVIOUS
            <4>. QED  BY <1>1, <1>2, <4>1, <4>2
        <3>3. CASE \E r \in Reviews :
                     g = [Proved EXCEPT !.plan = SoundPlan, !.review = r, !.risk = TRUE]
            <4>1. PICK r \in Reviews :
                     g = [Proved EXCEPT !.plan = SoundPlan, !.review = r, !.risk = TRUE]
                BY <3>3
            <4>2. r \in ReviewRecord /\ (r.decision = "approved" => r.of = 1)
                BY <1>2
            <4>. QED  BY <1>3, <4>1, <4>2, Zenon
        <3>4. CASE \E r \in Reviews :
                     g = [Proved EXCEPT !.plan = SoundPlan, !.review = r, !.valid = FALSE]
            <4>1. PICK r \in Reviews :
                     g = [Proved EXCEPT !.plan = SoundPlan, !.review = r, !.valid = FALSE]
                BY <3>4
            <4>2. r \in ReviewRecord /\ (r.decision = "approved" => r.of = 1)
                BY <1>2
            <4>. QED  BY <1>3, <4>1, <4>2, Zenon
        <3>. QED  BY <3>1, <3>2, <3>3, <3>4
    <2>2. g \in Handoff /\ g.plan = p /\ g.review = r /\ g.tests = "none"
        BY <1>6, <2>1 DEF Handoff
    <2>. QED  BY <2>1, <2>2 DEF Sound
<1>9. ASSUME g \in QualityHandoffs PROVE g \in Handoff /\ Sound(g)
    <2>1. PICK x \in Reviews \X Results \X BOOLEAN :
            g = [Complete EXCEPT !.review = x[1], !.results = x[2], !.valid = x[3]]
        BY <1>9 DEF QualityHandoffs
    <2>2. g \in Handoff /\ g.plan = NoPlan /\ g.tests = "none"
        BY <1>2, <1>5, <2>1 DEF Handoff
    <2>. QED  BY <1>4, <2>2 DEF Sound
<1>10. ASSUME g \in OtherHandoffs PROVE g \in Handoff /\ Sound(g)
    <2>1. PICK x \in {"complete", "blocked"} \X Results \X BOOLEAN :
            g = [Complete EXCEPT !.status = x[1], !.results = x[2], !.valid = x[3]]
        BY <1>10 DEF OtherHandoffs
    <2>2. g \in Handoff /\ g.plan = NoPlan /\ g.review = NoReview /\ g.tests = "none"
        BY <1>5, <2>1 DEF Handoff
    <2>. QED  BY <1>4, <2>2 DEF Sound
<1>. QED  BY <1>7, <1>8, <1>9, <1>10 DEF Authored

\* The handoff of the agent is found.
LEMMA AuthorityStep ==
    ASSUME SessionInv, resolveAuthoritativeHandoff
    PROVE  SessionInv'
<1>1. PICK g \in Authored : h' = g /\ asked' = g.review.deltas
    BY DEF resolveAuthoritativeHandoff
<1>2. /\ pc = "authority" /\ pc' = "boundary"
      /\ UNCHANGED <<stage, commands, attempt, exec, verdict, agentRuns, crashes>>
      /\ UNCHANGED <<repairs, resume, pass, source, work, checkpoint, file>>
      /\ UNCHANGED <<server, tries, reply>>
    BY DEF resolveAuthoritativeHandoff, Goto, task, life, locals, runner
<1>3. g \in Handoff /\ Sound(g) /\ g.review.deltas \in SUBSET Deltas
    BY AuthoredFacts, HandoffParts
<1>4. TypeOK'
    BY <1>1, <1>2, <1>3 DEF SessionInv, TypeOK, AtMostOne, Labels
<1>5. AgentInv'
    BY <1>2 DEF SessionInv, AgentInv, AgentRunsOncePerAttempt
<1>6. HandoffInv'
    BY <1>1, <1>2, <1>3
    DEF SessionInv, HandoffInv, AfterTests, Repairing, Working, Sound, Fresh
<1>7. DeltasInv'
    BY <1>1, <1>2 DEF SessionInv, DeltasInv, Written
<1>8. RepairInv'
    BY <1>2 DEF SessionInv, RepairInv, Repairing, Working, Authoring, Synthesizing,
                Settled, Written, Refines, Negative
<1>. QED  BY <1>4, <1>5, <1>6, <1>7, <1>8 DEF SessionInv

\* The process begins from the checkpoint of its attempt, if there is one.
LEMMA LoadStep ==
    ASSUME SessionInv, Load
    PROVE  SessionInv'
<1>1. /\ pc = "load"
      /\ resume' = {[kind |-> c.kind, pass |-> c.pass, status |-> c.status] :
                      c \in checkpoint}
      /\ UNCHANGED <<stage, commands, attempt, exec, verdict, agentRuns, crashes>>
      /\ UNCHANGED <<repairs, pass, source, work, checkpoint, file>>
      /\ UNCHANGED <<server, tries, reply>>
      /\ \/ \E c \in checkpoint : h' = c.h /\ asked' = c.asked /\ pc' = "criteria?"
         \/ checkpoint = {} /\ h' = h /\ asked' = asked /\ pc' = "catalog"
    <2>1. readRepairCheckpoint = checkpoint
        BY DEF SessionInv, AgentInv, readRepairCheckpoint
    <2>. QED  BY <2>1 DEF Load, Goto, task, life, runner
<1>2. TypeOK'
    <2>1. /\ \A c \in checkpoint : c.h \in Handoff /\ c.asked \in SUBSET Deltas
          /\ resume' \subseteq [kind : Kinds, pass : Nat, status : Statuses]
        BY <1>1 DEF SessionInv, TypeOK, CheckpointRecord
    <2>. QED  BY <1>1, <2>1 DEF SessionInv, TypeOK, AtMostOne, Labels
<1>3. AgentInv'
    BY <1>1 DEF SessionInv, AgentInv, AgentRunsOncePerAttempt
<1>4. HandoffInv'
    BY <1>1 DEF SessionInv, HandoffInv, AfterTests, Repairing, Working, Sound, Fresh
<1>5. DeltasInv'
    BY <1>1 DEF SessionInv, DeltasInv, Written
<1>6. RepairInv'
    BY <1>1 DEF SessionInv, RepairInv, Repairing, Working, Authoring, Synthesizing,
                Settled, Written, Refines, Negative
<1>. QED  BY <1>2, <1>3, <1>4, <1>5, <1>6 DEF SessionInv

\* The agent is started, for the first time in its attempt.
LEMMA CatalogStep ==
    ASSUME SessionInv, ensureOpenCodeModelAvailable
    PROVE  SessionInv'
<1>1. /\ pc = "catalog" /\ pc' \in {"agent", "exit1"}
      /\ agentRuns' \in {agentRuns, [agentRuns EXCEPT ![attempt] = @ + 1]}
      /\ UNCHANGED <<stage, commands, attempt, exec, verdict, crashes>>
      /\ UNCHANGED <<asked, repairs, h, resume, pass, source, work, checkpoint, file>>
      /\ UNCHANGED <<server, tries, reply>>
    BY DEF ensureOpenCodeModelAvailable, Goto, Exit, task, past, locals, runner
<1>2. TypeOK'
    BY <1>1 DEF SessionInv, TypeOK, AtMostOne, Labels
<1>3. AgentInv'
    BY <1>1, ExecutorAssumption DEF SessionInv, TypeOK, AgentInv, AgentRunsOncePerAttempt
<1>4. HandoffInv'
    BY <1>1 DEF SessionInv, HandoffInv, AfterTests, Repairing, Working, Sound, Fresh
<1>5. DeltasInv'
    BY <1>1 DEF SessionInv, DeltasInv, Written
<1>6. RepairInv'
    BY <1>1 DEF SessionInv, RepairInv, Repairing, Working, Authoring, Synthesizing,
                Settled, Written, Refines, Negative
<1>. QED  BY <1>2, <1>3, <1>4, <1>5, <1>6 DEF SessionInv

\* The process is lost.
LEMMA CrashStep ==
    ASSUME SessionInv, Crash
    PROVE  SessionInv'
<1>1. /\ pc' = "down" /\ pc # "settled" /\ crashes < MaxCrashes
      /\ crashes' = crashes + 1
      /\ h' = NoHandoff /\ resume' = {} /\ pass' = NoPass
      /\ source' = NoReview /\ work' = NoPlan
      /\ server' = "none" /\ tries' = 0 /\ reply' = "none"
      /\ UNCHANGED <<stage, commands, attempt, exec, verdict, agentRuns>>
      /\ UNCHANGED <<asked, repairs, checkpoint, file>>
    BY DEF Crash, FreshLocals, Goto, task, past
<1>2. TypeOK'
    BY <1>1, Nothing, ExecutorAssumption DEF SessionInv, TypeOK, AtMostOne, Labels
<1>3. AgentInv'
    BY <1>1 DEF SessionInv, AgentInv, AgentRunsOncePerAttempt
<1>4. HandoffInv'
    BY <1>1, Nothing
    DEF SessionInv, HandoffInv, AfterTests, Repairing, Working, Sound, Fresh
<1>5. DeltasInv'
    BY <1>1, Nothing DEF SessionInv, DeltasInv, Written
<1>6. RepairInv'
    BY <1>1 DEF SessionInv, RepairInv, Repairing, Working, Authoring, Synthesizing,
                Settled, Written, Refines, Negative
<1>. QED  BY <1>2, <1>3, <1>4, <1>5, <1>6 DEF SessionInv

\* The attempt is over: the next one starts with nothing, or the task fails.
LEMMA AttemptEnds ==
    ASSUME SessionInv, NextAttempt, pc \in {"exit0", "exit1", "down"}
    PROVE  SessionInv'
<1>1. /\ h' = NoHandoff /\ resume' = {} /\ pass' = NoPass
      /\ source' = NoReview /\ work' = NoPlan
      /\ server' = "none" /\ tries' = 0 /\ reply' = "none"
      /\ asked' = {} /\ repairs' = 0 /\ checkpoint' = {} /\ file' = {}
      /\ UNCHANGED <<stage, commands, agentRuns, crashes>>
      /\ \/ /\ attempt < MaxAttempts /\ attempt' = attempt + 1 /\ exec' = exec + 1
            /\ pc' = "load" /\ verdict' = verdict
         \/ verdict' = "failed" /\ pc' = "settled" /\ attempt' = attempt /\ exec' = exec
    BY DEF NextAttempt, FreshLocals, Goto, task
<1>2. TypeOK'
    BY <1>1, Nothing, ExecutorAssumption DEF SessionInv, TypeOK, AtMostOne, Labels
<1>3. AgentInv'
    BY <1>1, ExecutorAssumption DEF SessionInv, TypeOK, AgentInv, AgentRunsOncePerAttempt
<1>4. HandoffInv'
    BY <1>1, Nothing
    DEF SessionInv, HandoffInv, AfterTests, Repairing, Working, Sound, Fresh
<1>5. DeltasInv'
    BY <1>1, Nothing DEF SessionInv, DeltasInv, Written
<1>6. RepairInv'
    BY <1>1 DEF SessionInv, RepairInv, Repairing, Working
<1>. QED  BY <1>2, <1>3, <1>4, <1>5, <1>6 DEF SessionInv

\* A handoff is accepted.
LEMMA AcceptStep ==
    ASSUME SessionInv, pc = "exit0", verdict' = "accepted", Goto("settled"),
           UNCHANGED <<task, attempt, exec, agentRuns, crashes, past, h, locals, runner,
                       checkpoint, file>>
    PROVE  SessionInv'
<1>. USE DEF Goto, task, past, locals, runner
<1>1. TypeOK'
    BY DEF SessionInv, TypeOK, AtMostOne, Labels
<1>2. AgentInv'
    BY DEF SessionInv, AgentInv, AgentRunsOncePerAttempt
<1>3. HandoffInv'
    BY DEF SessionInv, HandoffInv, AfterTests, Repairing, Working, Sound, Fresh
<1>4. DeltasInv'
    BY DEF SessionInv, DeltasInv, Written
<1>5. RepairInv'
    BY DEF SessionInv, RepairInv, Repairing, Working, Authoring, Synthesizing, Settled,
           Written, Refines
<1>. QED  BY <1>1, <1>2, <1>3, <1>4, <1>5 DEF SessionInv

\* A lost process is replaced, in its attempt or in the next one.
LEMMA RedispatchStep ==
    ASSUME SessionInv, Redispatch
    PROVE  SessionInv'
<1>1. CASE \E c \in checkpoint : c.attempt = attempt
    <2>1. /\ pc = "down" /\ pc' = "load" /\ exec' = exec + 1 /\ checkpoint # {}
          /\ h' = NoHandoff /\ resume' = {} /\ pass' = NoPass
          /\ source' = NoReview /\ work' = NoPlan
          /\ server' = "none" /\ tries' = 0 /\ reply' = "none"
          /\ UNCHANGED <<stage, commands, attempt, verdict, agentRuns, crashes>>
          /\ UNCHANGED <<asked, repairs, checkpoint, file>>
        BY <1>1 DEF Redispatch, FreshLocals, Goto, task, past
    <2>2. TypeOK'
        BY <2>1, Nothing, ExecutorAssumption DEF SessionInv, TypeOK, AtMostOne, Labels
    <2>3. AgentInv'
        BY <2>1 DEF SessionInv, AgentInv, AgentRunsOncePerAttempt
    <2>4. HandoffInv'
        BY <2>1, Nothing
        DEF SessionInv, HandoffInv, AfterTests, Repairing, Working, Sound, Fresh
    <2>5. DeltasInv'
        BY <2>1, Nothing DEF SessionInv, DeltasInv, Written
    <2>6. RepairInv'
        BY <2>1 DEF SessionInv, RepairInv, Repairing, Working, Authoring, Synthesizing,
                    Settled, Written, Refines, Negative
    <2>. QED  BY <2>2, <2>3, <2>4, <2>5, <2>6 DEF SessionInv
<1>2. CASE ~\E c \in checkpoint : c.attempt = attempt
    <2>1. NextAttempt /\ pc = "down"
        BY <1>2 DEF Redispatch
    <2>. QED  BY <2>1, AttemptEnds
<1>. QED  BY <1>1, <1>2

-----------------------------------------------------------------------------
(* The theorems. *)

\* The inductive invariant of the executor: the agent runs only where no
\* checkpoint could be resumed, an approval stands beside the plan it is of,
\* receipts are of the process that shows them, and a repair never asks for
\* more than its review did nor loses it.
THEOREM SessionInvariant == Spec => []SessionInv
<1>1. Init => SessionInv
    <2>. SUFFICES ASSUME Init PROVE SessionInv
        OBVIOUS
    <2>1. MaxAttempts \in Nat /\ MaxAttempts >= 1 /\ MaxCrashes \in Nat /\ Requests \in Nat
        BY ExecutorAssumption
    <2>2. TypeOK
        BY <2>1, Nothing DEF Init, TypeOK, AtMostOne, Labels
    <2>3. AgentInv
        BY <2>1 DEF Init, AgentInv, AgentRunsOncePerAttempt
    <2>4. HandoffInv
        BY Nothing DEF Init, HandoffInv, AfterTests, Repairing, Working
    <2>5. DeltasInv
        BY Nothing DEF Init, DeltasInv, Written
    <2>6. RepairInv
        BY DEF Init, RepairInv, Repairing, Working
    <2>. QED  BY <2>2, <2>3, <2>4, <2>5, <2>6 DEF SessionInv
<1>2. SessionInv /\ [Next]_vars => SessionInv'
    <2>. SUFFICES ASSUME SessionInv, [Next]_vars PROVE SessionInv'
        OBVIOUS
    <2>1. CASE Finalize
        <3>1. CASE /\ pc = "exit0" /\ verdict' = "accepted" /\ Goto("settled")
                   /\ UNCHANGED <<task, attempt, exec, agentRuns, crashes, past, h,
                                  locals, runner, checkpoint, file>>
            BY <3>1, AcceptStep
        <3>2. CASE pc \in {"exit0", "exit1"} /\ NextAttempt
            BY <3>2, AttemptEnds
        <3>. QED  BY <2>1, <3>1, <3>2 DEF Finalize
    <2>2. CASE UNCHANGED vars
        BY <2>2
        DEF vars, SessionInv, TypeOK, AtMostOne, AgentInv, AgentRunsOncePerAttempt,
            HandoffInv, Sound, Fresh, DeltasInv, Written, RepairInv, Settled, Refines
    <2>. QED
        BY <2>1, <2>2, AgentSteps, RunnerSteps, CheckSteps, ProductSteps, PlanSteps,
           EvidenceSteps, ReviewStep, BeginStep, RewriteStep, ReReviewStep, ExhaustStep,
           EarlyCheckpoints, WriteStep, AuthorityStep, LoadStep, CatalogStep, CrashStep,
           RedispatchStep
        DEF Next, Main
<1>. QED  BY <1>1, <1>2, PTL DEF Spec

\* Every variable of the executor keeps its type.
THEOREM TypeCorrect == Spec => []TypeOK
BY SessionInvariant, PTL DEF SessionInv

\* The agent runs at most once in an attempt: a process that replaces a lost
\* one goes on from a checkpoint.
THEOREM AgentRunsOnce == Spec => []AgentRunsOncePerAttempt
<1>1. SessionInv => AgentRunsOncePerAttempt
    BY DEF SessionInv, AgentInv
<1>. QED  BY <1>1, SessionInvariant, PTL

\* The repair of a technical review neither asks for more than the review it
\* started from nor loses it, through every pass and every resumption.
THEOREM ReviewSurvives == Spec => []ReviewSurvivesRepair
<1>1. SessionInv => ReviewSurvivesRepair
    BY DEF SessionInv, DeltasInv, RepairInv, ReviewSurvivesRepair, DeltasOnlyShrink,
           ReviewIsNotLost
<1>. QED  BY <1>1, SessionInvariant, PTL

\* What is accepted stays as it was accepted.
Accepted ==
    /\ verdict = "accepted" => pc = "settled"
    /\ ReviewedPlanIsCompiled /\ ReceiptsAreOfThisProcess

\* Only the finalizer accepts, and it accepts a file of the process that ended.
LEMMA AcceptedStays ==
    ASSUME SessionInv, Accepted, [Next]_vars
    PROVE  Accepted'
<1>1. CASE verdict' = verdict /\ verdict # "accepted"
    BY <1>1 DEF Accepted, ReviewedPlanIsCompiled, ReceiptsAreOfThisProcess
<1>2. CASE verdict = "accepted"
    <2>1. pc = "settled"
        BY <1>2 DEF Accepted
    <2>2. UNCHANGED <<stage, commands, exec, pc, file, verdict>>
        BY <2>1
        DEF Next, Main, Load, ManifestInvalid, ensureOpenCodeModelAvailable, AgentFails,
            exportOpenCodeSession, NoAuthority, resolveAuthoritativeHandoff,
            armQualificationProcessLossBoundary, BoundaryDeadline,
            normalizeModelHandoffContract, runOpenCodeStructuredOutput, waitForHealth,
            requestStructuredOutputWithRetries, stopStructuredProcess, CheckCriteria,
            projectProductDiscoveryAcceptanceCriteria, CheckScope,
            repairProductDiscoveryScopeBlock, CheckAssessment,
            projectMissingProductDiscoveryBootstrapAssessment, CheckPlan,
            returnBoundedRepair, RepairCommands, buildValidationCommandCatalog,
            CheckAssignment, applyCriterionAssignments,
            synthesizeMissingImplementationPlan, synthesizeRequiredValidationEvidence,
            CheckResults, synthesizeMissingCriterionResults, CheckReview,
            finalizeHandoffStructured, EnterRepairLoop, BeginRepairPass,
            repairImplementationPlanFromReview, finalizeTechnicalReviewRepair,
            ExhaustRepair, WriteHandoff, Finalize, Redispatch, Crash, Step, Answered,
            Asking, vars, task, life
    <2>. QED
        BY <1>2, <2>2
        DEF Accepted, ReviewedPlanIsCompiled, ReceiptsAreOfThisProcess, Refines
<1>3. CASE verdict' # verdict
    <2>1. Finalize \/ NextAttempt
        BY <1>3
        DEF Next, Main, Load, ManifestInvalid, ensureOpenCodeModelAvailable, AgentFails,
            exportOpenCodeSession, NoAuthority, resolveAuthoritativeHandoff,
            armQualificationProcessLossBoundary, BoundaryDeadline,
            normalizeModelHandoffContract, runOpenCodeStructuredOutput, waitForHealth,
            requestStructuredOutputWithRetries, stopStructuredProcess, CheckCriteria,
            projectProductDiscoveryAcceptanceCriteria, CheckScope,
            repairProductDiscoveryScopeBlock, CheckAssessment,
            projectMissingProductDiscoveryBootstrapAssessment, CheckPlan,
            returnBoundedRepair, RepairCommands, buildValidationCommandCatalog,
            CheckAssignment, applyCriterionAssignments,
            synthesizeMissingImplementationPlan, synthesizeRequiredValidationEvidence,
            CheckResults, synthesizeMissingCriterionResults, CheckReview,
            finalizeHandoffStructured, EnterRepairLoop, BeginRepairPass,
            repairImplementationPlanFromReview, finalizeTechnicalReviewRepair,
            ExhaustRepair, WriteHandoff, Redispatch, Crash, vars, life
    <2>2. CASE NextAttempt
        <3>1. verdict' = "failed"
            BY <1>3, <2>2 DEF NextAttempt
        <3>. QED
            BY <3>1 DEF Accepted, ReviewedPlanIsCompiled, ReceiptsAreOfThisProcess
    <2>3. CASE ~NextAttempt
        <3>1. /\ pc = "exit0" /\ pc' = "settled"
              /\ UNCHANGED <<stage, commands, exec, file>>
              /\ \E g \in file : ~stageContractFailure(g) /\ evaluateCompletion(g)
            BY <2>1, <2>3 DEF Finalize, Goto, task
        <3>2. \A f, g \in file : f = g
            BY DEF SessionInv, TypeOK, AtMostOne
        <3>3. \A g \in file : ~stageContractFailure(g) /\ evaluateCompletion(g)
            BY <3>1, <3>2
        <3>4. \A g \in file : Sound(g) /\ Fresh(g)
            BY <3>1 DEF SessionInv, HandoffInv
        <3>5. commands \in {"none", "good", "bad"}
            BY DEF SessionInv, TypeOK
        <3>6. ReviewedPlanIsCompiled'
            BY <3>1, <3>3, <3>4
            DEF ReviewedPlanIsCompiled, Refines, stageContractFailure, IsReviewStage, Sound
        <3>7. ReceiptsAreOfThisProcess'
            BY <3>1, <3>3, <3>4, <3>5
            DEF ReceiptsAreOfThisProcess, evaluateCompletion,
                requiredValidationViolations, Sound, Fresh
        <3>. QED  BY <3>1, <3>6, <3>7 DEF Accepted
    <2>. QED  BY <2>2, <2>3
<1>. QED  BY <1>1, <1>2, <1>3

\* What the host has accepted stays sound in every reachable state: the
\* invariant Accepted, from which the listed results below follow.
LEMMA AcceptedHolds == Spec => []Accepted
<1>1. Init => Accepted
    BY DEF Init, Accepted, ReviewedPlanIsCompiled, ReceiptsAreOfThisProcess
<1>2. SessionInv /\ Accepted /\ [Next]_vars => Accepted'
    BY AcceptedStays
<1>. QED  BY <1>1, <1>2, SessionInvariant, PTL DEF Spec

\* The plan that leaves technical refinement is the one its review approved.
THEOREM ReviewedCompiled == Spec => []ReviewedPlanIsCompiled
BY AcceptedHolds, PTL DEF Accepted

\* The receipts an accepted handoff rests on are of the process that wrote it.
THEOREM ReceiptsOwn == Spec => []ReceiptsAreOfThisProcess
BY AcceptedHolds, PTL DEF Accepted
=============================================================================
