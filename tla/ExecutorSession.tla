-------------------------- MODULE ExecutorSession --------------------------
(***************************************************************************)
(* The process that executes one task (opencode-task-executor.mjs).  It    *)
(* runs the agent once, takes the handoff from the agent's last answer and *)
(* then repairs it in bounded steps: most of them ask a small OpenCode     *)
(* server for one structured value.  Before and after a repair it writes a *)
(* durable checkpoint, so that a process lost in the middle is replaced by *)
(* one that resumes from the checkpoint and does not run the agent again.  *)
(*                                                                         *)
(* A handoff is kept as what the repairs and the gates tell apart.  The    *)
(* number of a plan stands for its content, not for its revision field;    *)
(* a review names the content it was written for.  What a model answers is *)
(* any value its schema admits.                                            *)
(***************************************************************************)
EXTENDS Naturals, FiniteSets

CONSTANTS
    Stages,           \* the stages of tasks considered
    RepairPasses,     \* AGENT_HARNESS_TECHNICAL_REVIEW_REPAIR_PASSES
    SynthesisPasses,  \* AGENT_HARNESS_TECHNICAL_PLAN_REPAIR_PASSES
    Models,           \* how many models may write the plan
    Requests,         \* structured requests before the text fallback
    MaxAttempts,      \* attempts the task may consume
    MaxCrashes        \* bound: how often the process is lost

ASSUME ExecutorAssumption ==
    /\ Stages \subseteq {"product-discovery", "technical-refinement",
                         "quality-assurance", "implementation"}
    /\ {RepairPasses, SynthesisPasses, Models, Requests, MaxAttempts}
         \subseteq Nat \ {0}
    /\ MaxCrashes \in Nat

VARIABLES
    stage,       \* brief.sdd.stage
    commands,    \* brief.validation: "none", "good" or "bad"
    attempt,     \* the attempt of the task
    exec,        \* the process, numbered
    pc,          \* where main() is; "down" when the process was lost
    h,           \* the handoff main() works on
    resume,      \* the checkpoint main() resumed from (at most one)
    pass,        \* the loop counters: repair pass, model, plan produced
    source,      \* the review the current repair pass started from
    work,        \* the clone of the plan that synthesis works on
    server,      \* the structured server: "none", "starting", "up"
    tries,       \* structured requests made
    reply,       \* what the structured runner gave its caller
    checkpoint,  \* the repair checkpoint of this attempt (at most one)
    file,        \* the handoff file (at most one)
    verdict,     \* what the finalizer made of the task
    agentRuns,   \* how often the agent ran in an attempt (history)
    asked,       \* deltas of the full review h descends from (history)
    repairs,     \* review repair passes started in this attempt (history)
    crashes      \* bound

vars == <<stage, commands, attempt, exec, pc, h, resume, pass, source,
          work, server, tries, reply, checkpoint, file, verdict, agentRuns,
          asked, repairs, crashes>>
task   == <<stage, commands>>
runner == <<server, tries, reply>>
locals == <<resume, pass, source, work>>
life   == <<attempt, exec, agentRuns, crashes, verdict>>
past   == <<asked, repairs>>

Issues    == {"mechanical", "commands", "coverage", "other"}
Deltas    == {"delta", "late"}
NoReview  == [decision |-> "none", of |-> 0, deltas |-> {}]
NoPlan    == [v |-> 0, issues |-> {"missing"}]
NoPass    == [repair |-> 0, synthesis |-> 0, model |-> 0, produced |-> FALSE]
Negative  == {"changes_requested", "blocked"}
Asking    == {"criteria", "scope", "assessment", "commands", "assign",
              "synthesis", "results", "review", "repair", "rereview"}

NoHandoff == [status |-> "none", criteria |-> TRUE, scoped |-> FALSE,
              assessment |-> "good", results |-> "missing", tests |-> "none",
              by |-> 0, risk |-> FALSE, plan |-> NoPlan, review |-> NoReview,
              valid |-> TRUE]

Init ==
    /\ stage \in Stages /\ commands \in {"none", "good", "bad"}
    /\ attempt = 1 /\ exec = 1 /\ pc = "load"
    /\ h = NoHandoff /\ resume = {} /\ pass = NoPass /\ source = NoReview
    /\ work = NoPlan
    /\ server = "none" /\ tries = 0 /\ reply = "none"
    /\ checkpoint = {} /\ file = {} /\ verdict = "open"
    /\ agentRuns = [a \in 1 .. MaxAttempts |-> 0]
    /\ asked = {} /\ repairs = 0 /\ crashes = 0

IsReviewStage == stage \in {"technical-refinement", "quality-assurance"}
Refines       == stage = "technical-refinement"

Goto(label) == pc' = label

-----------------------------------------------------------------------------
(* The gates: what counts as proof, and what a review may say. *)

requiredCriterionViolations(g) == g.results # "proved"

\* Only the receipt of the Runtime counts, and it must have passed.
requiredValidationViolations(g) ==
    commands # "none" /\ g.tests # "passed"

\* evaluateCompletion, with the review of the handoff or without it.
evaluateCompletion(g) ==
    /\ g.status = "complete"
    /\ ~requiredCriterionViolations(g) /\ ~requiredValidationViolations(g)
    /\ g.review.decision \notin Negative /\ g.review.deltas = {}
    /\ ~g.risk

completionEvidenceAllowsApproval(g) ==
    /\ evaluateCompletion([g EXCEPT !.review = NoReview])
    /\ Refines => g.plan.v # 0

technicalRefinementOutOfStageCoverageDeltas(r) ==
    IF Refines THEN r.deltas \cap {"late"} ELSE {}

validateSddReviewContract(r) ==
    \/ r.decision = "approved" /\ r.deltas = {}
    \/ r.decision \in Negative /\ r.deltas # {}

reviewProjectionIsConsistent(g, r) ==
    \/ /\ r.decision = "approved" /\ r.deltas = {}
       /\ completionEvidenceAllowsApproval(g)
    \/ /\ r.decision \in Negative /\ r.deltas # {}
       /\ technicalRefinementOutOfStageCoverageDeltas(r) = {}
       /\ ~(stage = "quality-assurance" /\ completionEvidenceAllowsApproval(g))

\* Deltas that belong to a later stage are dropped; if nothing is left, the
\* evidence decides.
canonicalizeTechnicalRefinementStageBoundary(g, r) ==
    LET rest == r.deltas \ technicalRefinementOutOfStageCoverageDeltas(r)
    IN  CASE ~Refines \/ r.decision # "changes_requested" -> r
          [] rest # {} -> [r EXCEPT !.deltas = rest]
          [] rest = {} /\ r.deltas # {} /\ completionEvidenceAllowsApproval(g) ->
                 [r EXCEPT !.decision = "approved", !.deltas = {}]
          [] OTHER -> r

reviewNeedsProjection(g) ==
    \/ ~validateSddReviewContract(g.review)
    \/ ~reviewProjectionIsConsistent(g, g.review)

requiresStructuredHandoffFinalization(g) ==
    IsReviewStage /\ g.status = "complete" /\ reviewNeedsProjection(g)

\* The decisions the schema of the review projection admits.
buildHandoffFinalizationSchema(g) ==
    LET allowed == completionEvidenceAllowsApproval(g)
        said    == g.review.decision
    IN  CASE stage = "quality-assurance" /\ allowed -> {"approved"}
          [] said \in Negative                      -> {said}
          [] said = "approved" /\ allowed           -> {"approved"}
          [] said # "none"                          -> Negative
          [] OTHER -> IF allowed THEN Negative \cup {"approved"} ELSE Negative

\* The closed schema of the re-review: risks count as they would if closed.
buildTechnicalReviewRepairProjectionSchema(g) ==
    IF completionEvidenceAllowsApproval([g EXCEPT !.risk = FALSE])
    THEN {"approved", "changes_requested"} ELSE {"changes_requested"}

\* stageContractFailure and the completion gate of the finalizer.
stageContractFailure(g) ==
    \/ stage = "product-discovery" /\ (g.assessment # "good" \/ ~g.criteria)
    \/ Refines /\ g.plan.issues # {}
    \/ IsReviewStage /\ ~(validateSddReviewContract(g.review)
                          /\ g.review.decision = "approved")

-----------------------------------------------------------------------------
(* Checkpoints. *)

\* The last field is history: whoever resumes from g goes back to its review.
Checkpoint(kind, p, status, g) ==
    {[attempt |-> attempt, kind |-> kind, pass |-> p, status |-> status, h |-> g,
      asked |-> asked]}

writeRepairCheckpoint(kind, p, status, g) ==
    checkpoint' = Checkpoint(kind, p, status, g)

\* Mutant: a checkpoint of a repair that was exhausted is not read.
readRepairCheckpoint_Live ==
    {c \in checkpoint : c.attempt = attempt /\ c.status # "repair-exhausted"}

readRepairCheckpoint == {c \in checkpoint : c.attempt = attempt}

\* Repairs of this kind were given up before the process was lost.
Exhausted(kind) ==
    \E c \in resume : c.kind = kind /\ c.status = "repair-exhausted"

-----------------------------------------------------------------------------
(* Loading, the agent, and the handoff it leaves. *)

\* The brief, the context and the manifest are read and verified.  The
\* telemetry of a resumed handoff is stripped, its receipts are not.
Load ==
    /\ pc = "load"
    /\ resume' = {[kind |-> c.kind, pass |-> c.pass, status |-> c.status] :
                    c \in readRepairCheckpoint}
    /\ IF readRepairCheckpoint # {}
       THEN \E c \in readRepairCheckpoint :
              h' = c.h /\ asked' = c.asked /\ Goto("criteria?")
       ELSE h' = h /\ Goto("catalog") /\ UNCHANGED asked
    /\ UNCHANGED <<task, life, repairs, pass, source, work, runner, checkpoint, file>>

\* An error nothing in main() catches: the process exits with 1.
Exit(code) == Goto(IF code = 0 THEN "exit0" ELSE "exit1")

ManifestInvalid ==
    /\ pc = "load" /\ Exit(1)
    /\ UNCHANGED <<task, life, past, h, locals, runner, checkpoint, file>>

\* The local catalog, a refresh, and a fresh look at it.
ensureOpenCodeModelAvailable ==
    /\ pc = "catalog"
    /\ \E available \in BOOLEAN :
         IF available
         THEN /\ Goto("agent")
              /\ agentRuns' = [agentRuns EXCEPT ![attempt] = @ + 1]
         ELSE Exit(1) /\ agentRuns' = agentRuns
    /\ UNCHANGED <<task, attempt, exec, crashes, verdict, past, h, locals, runner,
                   checkpoint, file>>

\* The agent ends with an error, or another agent answered in its place.
AgentFails ==
    /\ pc = "agent" /\ Exit(1)
    /\ UNCHANGED <<task, life, past, h, locals, runner, checkpoint, file>>

\* The agent ended well.  Its session is exported, a few times if need be; an
\* export that stays unusable only means that the stream is read instead.
exportOpenCodeSession ==
    /\ pc = "agent" /\ Goto("authority")
    /\ UNCHANGED <<task, life, past, h, locals, runner, checkpoint, file>>

\* Neither source holds a handoff, or it is a handoff of another task.
NoAuthority ==
    /\ pc = "authority" /\ Exit(1)
    /\ UNCHANGED <<task, life, past, h, locals, runner, checkpoint, file>>

\* Plans and reviews as agents write them: sound, or wrong in one or two ways.
Plans == {NoPlan} \cup
         [v : {1}, issues : {I \in SUBSET Issues : Cardinality(I) <= 1}
                            \cup {{"coverage", "commands"}, {"commands", "other"}}]
Says(d, ds) == [decision |-> d, of |-> 1, deltas |-> ds]
Reviews == {NoReview, Says("approved", {}), Says("approved", {"delta"}),
            Says("blocked", {"delta"}), Says("bogus", {})} \cup
           {Says("changes_requested", ds) : ds \in SUBSET Deltas}

\* What an agent of each stage may leave behind.
Complete == [NoHandoff EXCEPT !.status = "complete"]
Proved   == [Complete EXCEPT !.results = "proved"]
SoundPlan == [v |-> 1, issues |-> {}]
Results  == {"proved", "missing", "failed"}

ProductHandoffs ==
    {[Proved EXCEPT !.status = x[1], !.scoped = x[2], !.criteria = x[3],
                    !.assessment = x[4]] :
       x \in {"complete", "blocked"} \X BOOLEAN \X BOOLEAN \X {"good", "fixable", "bad"}}
TechnicalHandoffs ==
    {[Proved EXCEPT !.plan = x[1], !.review = x[2]] : x \in Plans \X Reviews}
    \cup {[Proved EXCEPT !.plan = SoundPlan, !.review = r, !.risk = TRUE] :
            r \in Reviews}
    \cup {[Proved EXCEPT !.plan = SoundPlan, !.review = r, !.valid = FALSE] :
            r \in Reviews}
QualityHandoffs ==
    {[Complete EXCEPT !.review = x[1], !.results = x[2], !.valid = x[3]] :
       x \in Reviews \X Results \X BOOLEAN}
OtherHandoffs ==
    {[Complete EXCEPT !.status = x[1], !.results = x[2], !.valid = x[3]] :
       x \in {"complete", "blocked"} \X Results \X BOOLEAN}

Authored ==
    CASE stage = "product-discovery"    -> ProductHandoffs
      [] stage = "technical-refinement" -> TechnicalHandoffs
      [] stage = "quality-assurance"    -> QualityHandoffs
      [] OTHER                          -> OtherHandoffs

\* resolveAuthoritativeHandoff: the last object of the last answer that looks
\* like a handoff, or none; then the qualification boundary, when it is armed.
resolveAuthoritativeHandoff ==
    /\ pc = "authority"
    /\ \E g \in Authored :
         /\ h' = g
         /\ asked' = g.review.deltas
         /\ Goto("boundary")
    /\ UNCHANGED <<task, life, repairs, locals, runner, checkpoint, file>>

\* The fault of a qualification run is armed in the environment or not.
armQualificationProcessLossBoundary ==
    /\ pc = "boundary"
    /\ \E armed \in {"no", "after-full-agent", "before-behavior"} :
         /\ IF armed = "no" THEN UNCHANGED checkpoint
            ELSE writeRepairCheckpoint("qualification-process-loss", 1,
                                       "repair-started", h)
         /\ Goto(IF armed = "after-full-agent" THEN "wait" ELSE "normalize")
    /\ UNCHANGED <<task, life, past, h, locals, runner, file>>

\* The expected loss did not come: the process fails closed.
BoundaryDeadline ==
    /\ pc = "wait" /\ Exit(1)
    /\ UNCHANGED <<task, life, past, h, locals, runner, checkpoint, file>>

\* What main() makes of a normalized envelope: entries that had to be repaired
\* count as a repair of this attempt and leave a checkpoint.
MechanicalRepair(changed) ==
    IF changed
    THEN writeRepairCheckpoint("handoff-mechanical", 1, "repair-completed", h)
    ELSE UNCHANGED checkpoint

\* normalizeModelHandoffContract: an envelope is in order, or is put in order.
normalizeModelHandoffContract ==
    /\ pc = "normalize" /\ Goto("criteria?")
    /\ \E changed \in BOOLEAN : MechanicalRepair(changed)
    /\ UNCHANGED <<task, life, past, h, locals, runner, file>>

-----------------------------------------------------------------------------
(* The structured runner: one server per question, stopped in the end. *)

runOpenCodeStructuredOutput ==
    /\ pc \in Asking /\ server = "none" /\ reply = "none"
    /\ server' = "starting" /\ tries' = 0 /\ reply' = reply
    /\ UNCHANGED <<task, life, past, pc, h, locals, checkpoint, file>>

\* Ready, or dead or silent before it was: then nothing is asked.
waitForHealth ==
    /\ server = "starting"
    /\ \/ server' = "up" /\ reply' = reply
       \/ server' = "stopping" /\ reply' = "failed"
    /\ UNCHANGED <<task, life, past, tries, pc, h, locals, checkpoint, file>>

\* Each request gives a value of the schema or none; the last one asks for
\* text.
requestStructuredOutputWithRetries ==
    /\ server = "up"
    /\ \/ reply' = "value" /\ server' = "stopping" /\ tries' = tries
       \/ /\ tries' = tries + 1
          /\ IF tries < Requests
             THEN UNCHANGED <<reply, server>>
             ELSE reply' = "failed" /\ server' = "stopping"
    /\ UNCHANGED <<task, life, past, pc, h, locals, checkpoint, file>>

\* The process group is told to end, and killed when it does not.
stopStructuredProcess ==
    /\ server = "stopping" /\ server' = "none" /\ tries' = 0
    /\ UNCHANGED <<task, life, past, reply, pc, h, locals, checkpoint, file>>

\* The caller of the runner takes the answer.
Answered(at, what) == /\ pc = at /\ server = "none" /\ reply = what
                      /\ reply' = "none" /\ UNCHANGED <<server, tries>>

\* A step of main() that asks nothing.
Step(at) == pc = at /\ UNCHANGED runner

-----------------------------------------------------------------------------
(* Product discovery: criteria, scope, assessment. *)

criteriaKind == "product-discovery-acceptance-criteria"

productDiscoveryAcceptanceCriteriaIssue ==
    /\ stage = "product-discovery" /\ h.status = "complete" /\ ~h.criteria

\* The repair is announced in a checkpoint before the model is asked.
CheckCriteria ==
    /\ Step("criteria?")
    /\ IF productDiscoveryAcceptanceCriteriaIssue /\ ~Exhausted(criteriaKind)
       THEN /\ writeRepairCheckpoint(criteriaKind, 1, "repair-started", h)
            /\ Goto("criteria")
       ELSE UNCHANGED checkpoint /\ Goto("scope?")
    /\ UNCHANGED <<task, life, past, h, locals, file>>

\* main() records how the projection ended, a failed one as exhausted.
CriteriaRepaired(status, g) ==
    h' = g /\ writeRepairCheckpoint(criteriaKind, 1, status, g)

projectProductDiscoveryAcceptanceCriteria ==
    /\ \/ /\ Answered("criteria", "value")
          /\ CriteriaRepaired("repair-completed", [h EXCEPT !.criteria = TRUE])
       \/ /\ Answered("criteria", "failed")
          /\ CriteriaRepaired("repair-exhausted", h)
    /\ Goto("scope?")
    /\ UNCHANGED <<task, life, past, locals, file>>

\* A handoff blocked only by what is out of the stage's scope.
productDiscoveryScopeRepairReason ==
    /\ stage = "product-discovery" /\ h.status = "blocked" /\ h.scoped
    /\ ~requiredCriterionViolations(h)

CheckScope ==
    /\ Step("scope?")
    /\ Goto(IF productDiscoveryScopeRepairReason THEN "scope" ELSE "assessment?")
    /\ UNCHANGED <<task, life, past, h, locals, checkpoint, file>>

repairProductDiscoveryScopeBlock ==
    /\ \/ /\ Answered("scope", "value")
          /\ \E s \in {"complete", "failed", "blocked"}, k \in BOOLEAN :
               h' = [h EXCEPT !.status = s, !.scoped = FALSE, !.risk = k]
       \/ Answered("scope", "failed") /\ UNCHANGED h
    /\ Goto("assessment?")
    /\ UNCHANGED <<task, life, past, locals, checkpoint, file>>

\* What can be reconciled with the catalog is; the rest is asked for.
CheckAssessment ==
    /\ Step("assessment?")
    /\ LET due == stage = "product-discovery" /\ h.status = "complete" IN
       /\ h' = IF due /\ h.assessment = "fixable"
               THEN [h EXCEPT !.assessment = "good"] ELSE h
       /\ Goto(IF due /\ h.assessment = "bad" THEN "assessment" ELSE "plan?")
    /\ UNCHANGED <<task, life, past, locals, checkpoint, file>>

projectMissingProductDiscoveryBootstrapAssessment ==
    /\ \/ /\ Answered("assessment", "value")
          /\ h' = [h EXCEPT !.assessment = "good"]
       \/ Answered("assessment", "failed") /\ UNCHANGED h
    /\ Goto("plan?")
    /\ UNCHANGED <<task, life, past, locals, checkpoint, file>>

-----------------------------------------------------------------------------
(* Technical plan synthesis: it works on a clone and may give up. *)

shouldSynthesizeTechnicalPlan ==
    /\ Refines /\ h.status = "complete" /\ h.review.decision \notin Negative

\* Ownership, commands and criteria that follow from the catalogs are set; a
\* plan that had nothing to set keeps its content.
normalizeTechnicalPlanMechanics(plan) ==
    IF "mechanical" \in plan.issues
    THEN [v |-> plan.v + 1, issues |-> plan.issues \ {"mechanical"}] ELSE plan

\* The plan is looked at, and what can be fixed without a model is.
CheckPlan ==
    /\ Step("plan?")
    /\ IF shouldSynthesizeTechnicalPlan /\ h.plan.issues # {}
       THEN /\ work' = normalizeTechnicalPlanMechanics(h.plan)
            /\ Goto("narrow?")
       ELSE UNCHANGED work /\ Goto("tests")
    /\ UNCHANGED <<task, life, past, h, resume, pass, source, checkpoint, file>>

\* Mutant: the review stays, though the plan it was written for is gone.
Synthesized_KeepReview(g) ==
    [g EXCEPT !.plan = [v |-> g.plan.v + 1, issues |-> {}]]

\* main() takes the repaired plan and drops the review of the old one.
Synthesized(g) ==
    [g EXCEPT !.plan = [v |-> g.plan.v + 1, issues |-> {}], !.review = NoReview]

validationRepairIssuesOnly(issues) == issues = {"commands"}
coverageRepairPending(issues)      == "coverage" \in issues
criterionAssignmentRepairIssuesOnly(issues) ==
    issues \subseteq {"coverage", "commands"}

\* Where synthesis goes with these issues left: the narrow repairs come first.
AfterMechanics(issues) ==
    CASE "commands" \in issues /\ ~coverageRepairPending(issues) -> "commands"
      [] OTHER -> "assign?"

Assigns(issues) ==
    coverageRepairPending(issues) /\ criterionAssignmentRepairIssuesOnly(issues)

\* returnBoundedRepair when the mechanics were enough.
returnBoundedRepair ==
    /\ Step("narrow?")
    /\ IF work.issues = {} THEN h' = Synthesized(h) /\ Goto("tests")
       ELSE UNCHANGED h /\ Goto(AfterMechanics(work.issues))
    /\ UNCHANGED <<task, life, past, locals, checkpoint, file>>

\* Commands are repaired from the catalog; when nothing else is wrong, a
\* failure here is the end of the synthesis.
RepairCommands ==
    /\ \/ /\ Answered("commands", "value")
          /\ \E left \in {{}, {"commands"}} :
               LET issues == (work.issues \ {"commands"}) \cup left IN
               /\ work' = [work EXCEPT !.issues = issues]
               /\ h' = IF issues = {} THEN Synthesized(h) ELSE h
               /\ Goto(IF issues = {} \/ validationRepairIssuesOnly(issues)
                       THEN "tests" ELSE "assign?")
       \/ /\ Answered("commands", "failed")
          /\ UNCHANGED <<h, work>>
          /\ Goto(IF validationRepairIssuesOnly(work.issues) THEN "tests" ELSE "assign?")
    /\ UNCHANGED <<task, life, past, resume, pass, source, checkpoint, file>>

\* The committed sources name no command at all: nobody is asked.
buildValidationCommandCatalog ==
    /\ Step("commands") /\ server = "none" /\ reply = "none"
    /\ Goto(IF validationRepairIssuesOnly(work.issues) THEN "tests" ELSE "assign?")
    /\ UNCHANGED <<task, life, past, h, locals, checkpoint, file>>

CheckAssignment ==
    /\ Step("assign?")
    /\ IF Assigns(work.issues) THEN Goto("assign") /\ UNCHANGED pass
       ELSE /\ Goto("synthesis")
            /\ pass' = [pass EXCEPT !.synthesis = 1, !.model = 1, !.produced = FALSE]
    /\ UNCHANGED <<task, life, past, h, resume, source, work, checkpoint, file>>

applyCriterionAssignments ==
    /\ \/ /\ Answered("assign", "value")
          /\ \E issues \in SUBSET {"coverage", "commands"} :
               /\ work' = [work EXCEPT !.issues = issues]
               /\ h' = IF issues = {} THEN Synthesized(h) ELSE h
               /\ Goto(IF issues = {} THEN "tests" ELSE "synthesis")
       \/ Answered("assign", "failed") /\ UNCHANGED <<h, work>> /\ Goto("synthesis")
    /\ pass' = [pass EXCEPT !.synthesis = 1, !.model = 1, !.produced = FALSE]
    /\ UNCHANGED <<task, life, past, resume, source, checkpoint, file>>

\* Mutant: a pass that produced nothing does not count.
NextSynthesis_Endless(produced) ==
    IF pass.model < Models
    THEN [pass EXCEPT !.model = @ + 1, !.produced = produced]
    ELSE [pass EXCEPT !.model = 1, !.produced = FALSE,
                      !.synthesis = IF produced THEN @ + 1 ELSE @]

\* Every model in turn; a pass in which no model produced a plan is the last.
NextSynthesis(produced) ==
    IF pass.model < Models
    THEN [pass EXCEPT !.model = @ + 1, !.produced = produced]
    ELSE [pass EXCEPT !.model = 1, !.produced = FALSE,
                      !.synthesis = IF produced THEN @ + 1 ELSE SynthesisPasses + 1]

synthesizeMissingImplementationPlan ==
    /\ \/ /\ Answered("synthesis", "value")
          /\ \E issues \in {{}, {"other"}, {"coverage"}} :
               /\ work' = [v |-> work.v, issues |-> issues]
               /\ h' = IF issues = {} THEN Synthesized(h) ELSE h
               /\ pass' = NextSynthesis(TRUE)
               /\ Goto(IF issues = {} \/ pass'.synthesis > SynthesisPasses
                       THEN "tests" ELSE "synthesis")
       \/ /\ Answered("synthesis", "failed")
          /\ UNCHANGED <<h, work>>
          /\ pass' = NextSynthesis(pass.produced)
          /\ Goto(IF pass'.synthesis > SynthesisPasses THEN "tests" ELSE "synthesis")
    /\ UNCHANGED <<task, life, past, resume, source, checkpoint, file>>

-----------------------------------------------------------------------------
(* Evidence: receipts of the Runtime, results of the criteria, the review. *)

\* Mutant: a resumed handoff keeps the receipts it came with.
RunsValidation_Fresh ==
    h.status = "complete" /\ commands = "good" /\ h.tests = "none"

\* A command that is not executable fails the step and leaves the handoff.
RunsValidation == h.status = "complete" /\ commands = "good"

synthesizeRequiredValidationEvidence ==
    /\ Step("tests")
    /\ IF RunsValidation
       THEN \E t \in {"passed", "failed"} : h' = [h EXCEPT !.tests = t, !.by = exec]
       ELSE UNCHANGED h
    /\ Goto("results?") /\ work' = NoPlan /\ pass' = NoPass
    /\ UNCHANGED <<task, life, past, resume, source, checkpoint, file>>

CheckResults ==
    /\ Step("results?")
    /\ Goto(IF h.status = "complete" /\ h.results = "missing" THEN "results"
            ELSE "review?")
    /\ UNCHANGED <<task, life, past, h, locals, checkpoint, file>>

synthesizeMissingCriterionResults ==
    /\ \/ /\ Answered("results", "value")
          /\ \E e \in {"proved", "failed"} : h' = [h EXCEPT !.results = e]
       \/ Answered("results", "failed") /\ UNCHANGED h
    /\ Goto("review?")
    /\ UNCHANGED <<task, life, past, locals, checkpoint, file>>

CheckReview ==
    /\ Step("review?")
    /\ Goto(IF requiresStructuredHandoffFinalization(h) THEN "review" ELSE "loop?")
    /\ UNCHANGED <<task, life, past, h, locals, checkpoint, file>>

\* The projection is taken only when it is consistent with the evidence and
\* the whole handoff is valid.
finalizeHandoffStructured ==
    /\ \/ /\ Answered("review", "value")
          /\ \E d \in buildHandoffFinalizationSchema(h), ds \in SUBSET Deltas :
               LET r == canonicalizeTechnicalRefinementStageBoundary(h,
                          [decision |-> d, of |-> h.plan.v, deltas |-> ds])
               IN IF reviewProjectionIsConsistent(h, r) /\ h.valid
                  THEN h' = [h EXCEPT !.review = r] /\ asked' = r.deltas
                  ELSE UNCHANGED <<h, asked>>
       \/ Answered("review", "failed") /\ UNCHANGED <<h, asked>>
    /\ Goto("loop?")
    /\ UNCHANGED <<task, life, repairs, locals, checkpoint, file>>

-----------------------------------------------------------------------------
(* The repair of a negative technical review, in the same attempt. *)

reviewKind == "technical-review-semantic"

\* A pass that was completed is not repeated, one that was started is.
resumeRepairPass ==
    IF \E c \in resume : c.kind = reviewKind
    THEN LET c == CHOOSE c \in resume : c.kind = reviewKind
         IN  c.pass + (IF c.status = "repair-completed" THEN 1 ELSE 0)
    ELSE 1

EnterRepairLoop ==
    /\ Step("loop?")
    /\ IF Refines /\ h.status = "complete" /\ ~Exhausted(reviewKind)
            /\ h.review.decision = "changes_requested"
       THEN pass' = [pass EXCEPT !.repair = resumeRepairPass] /\ Goto("pass?")
       ELSE UNCHANGED pass /\ Goto("final")
    /\ resume' = {}
    /\ UNCHANGED <<task, life, past, h, source, work, checkpoint, file>>

\* A pass begins with a checkpoint; without a usable source it fails at once.
BeginRepairPass ==
    /\ Step("pass?") /\ pass.repair <= RepairPasses
    /\ writeRepairCheckpoint(reviewKind, pass.repair, "repair-started", h)
    /\ source' = h.review
    /\ repairs' = repairs + 1
    /\ IF h.plan.v = 0 \/ h.review.deltas = {}
       THEN /\ pass' = [pass EXCEPT !.repair = @ + 1] /\ UNCHANGED h /\ Goto("pass?")
       ELSE /\ h' = [h EXCEPT !.plan = normalizeTechnicalPlanMechanics(@)]
            /\ UNCHANGED pass /\ Goto("repair")
    /\ UNCHANGED <<task, life, asked, resume, work, file>>

\* The catch of the loop: a handoff without a review gets the old one back.
RestoredReview(g) ==
    IF g.review.decision = "none" THEN [g EXCEPT !.review = source] ELSE g

\* The plan is rewritten, or only its coverage; what is still invalid fails.
repairImplementationPlanFromReview ==
    /\ \/ /\ Answered("repair", "value")
          /\ h' = [h EXCEPT !.plan = [v |-> h.plan.v + 1, issues |-> {}],
                            !.review = NoReview]
          /\ UNCHANGED pass /\ Goto("rereview")
       \/ /\ Answered("repair", "value") \/ Answered("repair", "failed")
          /\ h' = RestoredReview(h)
          /\ pass' = [pass EXCEPT !.repair = @ + 1] /\ Goto("pass?")
    /\ UNCHANGED <<task, life, past, resume, source, work, checkpoint, file>>

\* Mutant: the re-review may ask for anything.
WithinScope_Open(r) == r.deltas \subseteq Deltas

\* A re-review asks for nothing that the review did not ask for.
WithinScope(r) == r.deltas \subseteq source.deltas

\* A re-review main() takes: approved, the repair is complete and says so in a
\* checkpoint; not approved, the next pass begins.
TakeReReview(g) ==
    /\ h' = g
    /\ IF g.review.decision = "approved"
       THEN /\ writeRepairCheckpoint(reviewKind, pass.repair, "repair-completed", g)
            /\ UNCHANGED pass /\ Goto("final")
       ELSE /\ pass' = [pass EXCEPT !.repair = @ + 1]
            /\ UNCHANGED checkpoint /\ Goto("pass?")

\* Risks the repair resolved are closed, then the decision is checked.
finalizeTechnicalReviewRepair ==
    /\ \/ /\ Answered("rereview", "value")
          /\ \E d \in buildTechnicalReviewRepairProjectionSchema(h),
                ds \in SUBSET Deltas, closes \in BOOLEAN :
               LET g == [h EXCEPT !.risk = @ /\ ~closes]
                   r == canonicalizeTechnicalRefinementStageBoundary(g,
                          [decision |-> d, of |-> h.plan.v, deltas |-> ds])
               IN /\ WithinScope(r)
                  /\ IF reviewProjectionIsConsistent(g, r) /\ h.valid
                     THEN TakeReReview([g EXCEPT !.review = r])
                     ELSE /\ h' = RestoredReview(h)
                          /\ pass' = [pass EXCEPT !.repair = @ + 1]
                          /\ UNCHANGED checkpoint /\ Goto("pass?")
       \/ /\ Answered("rereview", "failed")
          /\ h' = RestoredReview(h)
          /\ pass' = [pass EXCEPT !.repair = @ + 1]
          /\ UNCHANGED checkpoint /\ Goto("pass?")
    /\ UNCHANGED <<task, life, past, resume, source, work, file>>

\* No pass is left and the review still asks for changes.
ExhaustRepair ==
    /\ Step("pass?") /\ pass.repair > RepairPasses
    /\ writeRepairCheckpoint(reviewKind, RepairPasses, "repair-exhausted", h)
    /\ Goto("final")
    /\ UNCHANGED <<task, life, past, h, locals, file>>

-----------------------------------------------------------------------------
(* The end of the process, and what becomes of the task. *)

\* An invalid handoff is kept in a checkpoint, which replaces any other.
WriteHandoff ==
    /\ Step("final")
    /\ IF h.valid
       THEN file' = {h} /\ UNCHANGED checkpoint /\ Exit(0)
       ELSE /\ writeRepairCheckpoint("handoff-schema", 1, "repair-exhausted", h)
            /\ UNCHANGED file /\ Exit(1)
    /\ h' = NoHandoff /\ resume' = {} /\ pass' = NoPass /\ source' = NoReview
    /\ UNCHANGED <<task, life, past, work>>

FreshLocals == /\ h' = NoHandoff /\ resume' = {} /\ pass' = NoPass
               /\ source' = NoReview /\ work' = NoPlan
               /\ server' = "none" /\ tries' = 0 /\ reply' = "none"

\* A new attempt has paths of its own: no checkpoint and no file.
NextAttempt ==
    /\ FreshLocals /\ asked' = {} /\ repairs' = 0
    /\ checkpoint' = {} /\ file' = {}
    /\ IF attempt < MaxAttempts
       THEN /\ attempt' = attempt + 1 /\ exec' = exec + 1 /\ Goto("load")
            /\ UNCHANGED verdict
       ELSE /\ verdict' = "failed" /\ Goto("settled") /\ UNCHANGED <<attempt, exec>>
    /\ UNCHANGED <<task, agentRuns, crashes>>

\* finalizeExecution of a process that ended by itself.
Finalize ==
    \/ /\ pc = "exit0" /\ \E g \in file : ~stageContractFailure(g) /\ evaluateCompletion(g)
       /\ verdict' = "accepted" /\ Goto("settled")
       /\ UNCHANGED <<task, attempt, exec, agentRuns, crashes, past, h, locals, runner,
                      checkpoint, file>>
    \/ /\ pc = "exit0" /\ \E g \in file : stageContractFailure(g) \/ ~evaluateCompletion(g)
       /\ NextAttempt
    \/ pc = "exit1" /\ NextAttempt

\* The process is lost: the worker died, or its lease expired.
Crash ==
    /\ pc \notin {"settled", "down"} /\ crashes < MaxCrashes
    /\ crashes' = crashes + 1
    /\ FreshLocals /\ Goto("down")
    /\ UNCHANGED <<task, attempt, exec, agentRuns, verdict, past, checkpoint, file>>

\* resolveProcessLossRepairResumeCandidate: with a checkpoint the attempt goes
\* on in a new process, without one it is over.
Redispatch ==
    /\ pc = "down"
    /\ IF \E c \in checkpoint : c.attempt = attempt
       THEN /\ exec' = exec + 1 /\ Goto("load") /\ FreshLocals
            /\ UNCHANGED <<task, attempt, agentRuns, crashes, verdict, past, checkpoint, file>>
       ELSE NextAttempt

-----------------------------------------------------------------------------
Main ==
    \/ Load \/ ManifestInvalid \/ ensureOpenCodeModelAvailable \/ AgentFails
    \/ exportOpenCodeSession \/ NoAuthority
    \/ resolveAuthoritativeHandoff \/ armQualificationProcessLossBoundary
    \/ BoundaryDeadline \/ normalizeModelHandoffContract
    \/ runOpenCodeStructuredOutput \/ waitForHealth
    \/ requestStructuredOutputWithRetries \/ stopStructuredProcess
    \/ CheckCriteria \/ projectProductDiscoveryAcceptanceCriteria
    \/ CheckScope \/ repairProductDiscoveryScopeBlock
    \/ CheckAssessment \/ projectMissingProductDiscoveryBootstrapAssessment
    \/ CheckPlan \/ returnBoundedRepair \/ RepairCommands
    \/ buildValidationCommandCatalog \/ CheckAssignment
    \/ applyCriterionAssignments \/ synthesizeMissingImplementationPlan
    \/ synthesizeRequiredValidationEvidence
    \/ CheckResults \/ synthesizeMissingCriterionResults
    \/ CheckReview \/ finalizeHandoffStructured
    \/ EnterRepairLoop \/ BeginRepairPass \/ repairImplementationPlanFromReview
    \/ finalizeTechnicalReviewRepair \/ ExhaustRepair
    \/ WriteHandoff \/ Finalize \/ Redispatch

Next == Main \/ Crash

Spec == Init /\ [][Next]_vars

\* Every wait of main() has a time limit, so a live process goes on; a lost
\* one is found by the expiry of its lease.
FairSpec == Spec /\ WF_vars(Main)
-----------------------------------------------------------------------------
(* Properties. *)

Kinds     == {"qualification-process-loss", "handoff-mechanical", criteriaKind,
              reviewKind, "handoff-schema"}
Statuses  == {"repair-started", "repair-completed", "repair-exhausted"}
Labels    == Asking \cup {"load", "catalog", "agent", "authority", "boundary", "wait",
              "normalize", "criteria?", "scope?", "assessment?", "plan?", "narrow?",
              "assign?", "tests", "results?", "review?", "loop?", "pass?", "final",
              "exit0", "exit1", "down", "settled"}

Plan == [v : Nat, issues : SUBSET (Issues \cup {"missing"})]
ReviewRecord ==
    [decision : Negative \cup {"none", "approved", "bogus"}, of : Nat,
     deltas : SUBSET Deltas]
Handoff ==
    [status : {"none", "complete", "blocked", "failed"}, criteria : BOOLEAN,
     scoped : BOOLEAN, assessment : {"good", "fixable", "bad"},
     results : Results,
     tests : {"none", "passed", "failed"}, by : Nat, risk : BOOLEAN,
     plan : Plan, review : ReviewRecord, valid : BOOLEAN]
CheckpointRecord ==
    [attempt : Nat, kind : Kinds, pass : Nat, status : Statuses, h : Handoff,
     asked : SUBSET Deltas]
Passes == [repair : Nat, synthesis : Nat, model : Nat, produced : BOOLEAN]

AtMostOne(S) == \A x, y \in S : x = y

\* Every variable has its type.
TypeOK ==
    /\ stage \in Stages /\ commands \in {"none", "good", "bad"}
    /\ attempt \in 1 .. MaxAttempts /\ exec \in Nat /\ crashes \in 0 .. MaxCrashes
    /\ pc \in Labels /\ h \in Handoff /\ work \in Plan /\ source \in ReviewRecord
    /\ resume \subseteq [kind : Kinds, pass : Nat, status : Statuses]
    /\ pass \in Passes
    /\ checkpoint \subseteq CheckpointRecord /\ AtMostOne(checkpoint)
    /\ file \subseteq Handoff /\ AtMostOne(file)
    /\ server \in {"none", "starting", "up", "stopping"}
    /\ tries \in 0 .. (IF server = "stopping" THEN Requests + 1 ELSE Requests)
    /\ reply \in {"none", "value", "failed"}
    /\ verdict \in {"open", "accepted", "failed"}
    /\ agentRuns \in [1 .. MaxAttempts -> Nat]
    /\ asked \subseteq Deltas /\ repairs \in Nat

\* The plan that leaves technical refinement is the plan its review approved:
\* "The Technical Lead review must approve the exact plan that is compiled"
\* (executor.mjs).  Synthesis, review repair and resumption all change plans
\* after a review was written.
ReviewedPlanIsCompiled ==
    verdict = "accepted" /\ Refines =>
        \A g \in file : g.review.of = g.plan.v /\ g.plan.v # 0

\* The receipts an accepted handoff rests on were made by the process that
\* wrote it, in its workspace: a resumed handoff comes with receipts of a
\* process that is gone.
ReceiptsAreOfThisProcess ==
    verdict = "accepted" /\ commands # "none" =>
        \A g \in file : g.tests = "passed" /\ g.by = exec

\* The agent is run at most once in an attempt, however often the process is
\* lost: a replacement resumes from the checkpoint.
AgentRunsOncePerAttempt == \A a \in 1 .. MaxAttempts : agentRuns[a] <= 1

\* The handoff a process wrote before it ended by itself; a file left by a
\* process that was lost is not looked at.
Written == IF pc \in {"exit0", "settled"} THEN file ELSE {}

\* Repair of a technical review is monotonic (ADR 0027): whatever the passes
\* and the resumptions, neither the handoff under repair nor the one that is
\* written asks for more than the full review that the repair started from.
DeltasOnlyShrink ==
    /\ Refines /\ pc \in {"pass?", "repair", "rereview", "final"} =>
         h.review.deltas \subseteq asked
    /\ Refines => \A g \in Written : g.review.deltas \subseteq asked

\* A review that a repair pass began with is never lost on the way, though
\* the pass deletes it: the handoff that is written still has it, or the one
\* that came after it ("instead of leaking a review-less handoff into the
\* ordinary completion gate", opencode-task-executor.mjs).
ReviewIsNotLost ==
    repairs > 0 => \A g \in Written : g.review.decision # "none"

\* Repair keeps the review: it neither asks for more than the full review did
\* nor loses it, through failed passes and lost processes.
ReviewSurvivesRepair == DeltasOnlyShrink /\ ReviewIsNotLost

\* The repairs end: whatever the models answer and however often the process
\* is lost, the task is accepted or runs out of attempts.
TaskSettles == <>(verdict # "open")

-----------------------------------------------------------------------------
(* The inductive invariant behind the safety properties. *)

\* Where main() has no handoff of this attempt, and where it has the agent's.
Authoring == {"catalog", "agent", "authority", "boundary", "wait", "normalize"}
Synthesizing == {"narrow?", "commands", "assign?", "assign", "synthesis"}
Working   == {"pass?", "repair"}
Repairing == Working \cup {"rereview"}
AfterTests == Repairing \cup {"results?", "results", "review?", "review", "loop?",
                              "final"}

\* The agent is about to run for the first time, or the attempt has a
\* checkpoint to go on from.
AgentInv ==
    /\ \A a \in 1 .. MaxAttempts : a > attempt => agentRuns[a] = 0
    /\ pc = "catalog" => agentRuns[attempt] = 0
    /\ pc = "load" => agentRuns[attempt] = 0 \/ checkpoint # {}
    /\ \A c \in checkpoint : c.attempt = attempt
    /\ AgentRunsOncePerAttempt

\* A plan is missing or sound only by work on it, an approval is of the plan
\* it stands beside, and receipts exist only where there are commands.
Sound(g) ==
    /\ g.plan.v = 0 => g.plan.issues # {}
    /\ g.review.decision = "approved" /\ g.plan.v # 0 => g.review.of = g.plan.v
    /\ commands # "good" => g.tests = "none"

\* The receipts of this process, once it has come to them.
Fresh(g) == g.status = "complete" /\ commands = "good" => g.by = exec

HandoffInv ==
    /\ Sound(h) /\ (\A c \in checkpoint : Sound(c.h)) /\ (\A g \in file : Sound(g))
    /\ pc \in AfterTests => Fresh(h)
    /\ pc = "exit0" => \A g \in file : Fresh(g)
    /\ verdict = "accepted" => pc = "settled"

\* Nothing asks for more than the full review it descends from.
DeltasInv ==
    /\ h.review.deltas \subseteq asked
    /\ \A c \in checkpoint : c.h.review.deltas \subseteq c.asked
    /\ pc \in {"repair", "rereview"} => source.deltas \subseteq asked
    /\ \A g \in Written : g.review.deltas \subseteq asked

\* A review that is not dropped by another synthesis.
Settled(g) ==
    \/ g.review.decision \in Negative
    \/ g.review.decision = "approved" /\ g.plan.issues = {}

\* Between the deletion of a review and the next one, its source is at hand;
\* once repair has begun every handoff that is kept or written has a review.
RepairInv ==
    /\ pc \in Repairing => Refines
    /\ pc \in Working => h.review.decision = "changes_requested"
    /\ pc = "repair" => source.decision = "changes_requested" /\ h.plan.v # 0
    /\ pc = "rereview" => /\ source.decision = "changes_requested"
                          /\ h.review = NoReview /\ h.plan.issues = {}
    /\ repairs > 0 =>
         /\ Refines /\ checkpoint # {} /\ pc \notin Authoring \cup Synthesizing
         /\ \A c \in checkpoint : Settled(c.h)
         /\ pc \notin {"load", "rereview", "loop?", "final", "exit0", "exit1", "down",
                       "settled"} => Settled(h)
         /\ pc \in {"loop?", "final"} =>
              h.review.decision # "none" /\ (~h.valid => Settled(h))
         /\ \A g \in Written : g.review.decision # "none"

SessionInv == TypeOK /\ AgentInv /\ HandoffInv /\ DeltasInv /\ RepairInv

=============================================================================
