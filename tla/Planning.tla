------------------------------- MODULE Planning -------------------------------
(***************************************************************************)
(* What the controller computes from the handoffs of the two planning      *)
(* agents, without touching the store: which reviews Product Discovery     *)
(* asked for and the facts one review needs of another                     *)
(* (bootstrap-capabilities, bootstrap-topology-refiner, planner), what the *)
(* Technical Lead's implementation plan must satisfy and the tasks it is   *)
(* compiled into (dag-compiler), and what the policy engine makes of a     *)
(* plan, a dispatch, a failure and a promotion.                            *)
(*                                                                         *)
(* A review stands for its capability, its stage and its agent, which the  *)
(* registry ties together one to one.  Texts (objectives, evidence,        *)
(* rationales, fingerprints) are left out; an entry without one of those   *)
(* it must have is rejected like any other invalid entry.                  *)
(***************************************************************************)
EXTENDS Naturals, FiniteSets

CONSTANTS
    Reviews,       \* review capabilities of the registry, numbered from 1
    Evidence,      \* those Quality Assurance depends on directly
    Operational,   \* those with an operational-readiness task
    Facts,         \* the decisions a review can need or provide
    Provides,      \* providesFacts of a review
    WorkItems,     \* work items of the implementation plan, numbered
    Owns,          \* the paths an implementing agent may own
    Executable,    \* the texts that read as a command and can be run
    Trusted,       \* buildValidationCommandCatalog: commands with authority
    HostOnly,      \* commands that need more than a workspace
    Focused,       \* the commands the request prescribes, if it does
    MaxAttempts    \* agent_tasks.max_attempts

None == 0          \* no provider named; no capability has this number

\* capabilityCatalogFromRegistry: what the registry is checked for.
ASSUME CatalogAssumption ==
    /\ Reviews \subseteq Nat \ {None} /\ IsFiniteSet(Reviews)
    /\ Evidence \subseteq Reviews /\ Operational \subseteq Evidence
    /\ Provides \in [Reviews -> (SUBSET Facts) \ {{}}]
ASSUME PlanAssumption ==
    /\ WorkItems \subseteq Nat /\ WorkItems # {} /\ IsFiniteSet(WorkItems)
    /\ Focused \subseteq Trusted /\ Trusted \cup HostOnly \subseteq Executable
    /\ MaxAttempts \in Nat \ {0}

-----------------------------------------------------------------------------
(* What Product Discovery hands off: facts, criteria and required reviews. *)
(* resolution is "review" or "authoritative-context".  provider may be     *)
(* None or a capability nobody knows; so may consumer, None standing for   *)
(* the name of the fact or of an implementing agent put in its place.      *)
(* source is "authoritative", a "path" the context packet names, or just   *)
(* "reasoning".                                                            *)

FactRequirement == [fact : Facts, consumer : Nat,
                    resolution : {"review", "authoritative-context", "unknown"},
                    provider : Nat, source : {"authoritative", "path", "reasoning"}]
Criterion == [id : Nat, stage : STRING, verification : STRING]
Assessment == [required : SUBSET Nat, facts : SUBSET FactRequirement,
               criteria : SUBSET Criterion]

providersByFact(f) == {r \in Reviews : f \in Provides[r]}

\* The review that answers a requirement: the one it names if that provides
\* the fact, else the only one that does.  None at all, or several, is an error.
Candidates(q) ==
    IF q.provider # None THEN {q.provider} \cap providersByFact(q.fact)
                         ELSE providersByFact(q.fact)
HasProvider(q) == \E r \in Reviews : Candidates(q) = {r}
resolveProviderCapability(q) == CHOOSE r \in Reviews : Candidates(q) = {r}

RequirementIsValid(q) ==
    /\ q.consumer \in Reviews
    /\ CASE q.resolution = "review" ->
              HasProvider(q) /\ resolveProviderCapability(q) # q.consumer
         [] q.resolution = "authoritative-context" ->
              q.source = "authoritative" /\ q.provider = None
         [] OTHER -> FALSE

Resolved(q) ==
    IF q.resolution = "review"
    THEN [q EXCEPT !.provider = resolveProviderCapability(q)] ELSE q

\* Two requirements of one consumer for one fact must resolve alike.
normalizeBootstrapFactRequirements(S) == {Resolved(q) : q \in S}
RequirementsAreValid(S) ==
    /\ \A q \in S : RequirementIsValid(q)
    /\ \A p, q \in normalizeBootstrapFactRequirements(S) :
         p.consumer = q.consumer /\ p.fact = q.fact => p = q

\* A capability nobody knows is answered with a review by everybody.
canonicalizeProductDiscoveryRequiredCapabilities(required) ==
    IF required \subseteq Reviews THEN required ELSE Reviews

Involved(S) == {q.consumer : q \in S}
                 \cup {q.provider : q \in {p \in S : p.resolution = "review"}}

\* The reviews an assessment asks for, those of its facts included.
normalizeProductDiscoveryReviewAssessment(a) ==
    LET facts == normalizeBootstrapFactRequirements(a.facts)
    IN [required |-> canonicalizeProductDiscoveryRequiredCapabilities(a.required)
                       \cup Involved(facts),
        facts |-> facts]

\* What the executor puts right of an assessment before it hands it off: a path
\* the packet names counts as repository context, and a known fact without a
\* consumer is given to every review.
canonicalizeAuthorizedRepositorySources(S) ==
    {IF q.resolution = "authoritative-context" /\ q.source = "path"
     THEN [q EXCEPT !.source = "authoritative"] ELSE q : q \in S}
reconcileProductDiscoveryFactCapabilityIds(S) ==
    UNION {IF q.resolution = "authoritative-context" /\ q.consumer = None
           THEN {[q EXCEPT !.consumer = r] : r \in Reviews} ELSE {q} : q \in S}
reconcileExistingAssessment(h) ==
    IF RequirementsAreValid(h.facts) THEN h
    ELSE [h EXCEPT !.facts = reconcileProductDiscoveryFactCapabilityIds(
                               canonicalizeAuthorizedRepositorySources(@))]

\* A set of stages each of which waits for another of the set is what Kahn's
\* queue and the depth-first search of the compiler both fail on.
HasCycle(edges, stages) ==
    \E S \in SUBSET stages :
       /\ S # {}
       /\ \A s \in S : \E r \in S : <<r, s>> \in edges

Edges(S) == {<<q.provider, q.consumer>> :
               q \in {p \in S : p.resolution = "review"}}

\* resolveBootstrapFactTopology, which throws on a cycle (assertAcyclic).
resolveBootstrapFactTopology(S) == [required |-> Involved(S), edges |-> Edges(S)]
assertAcyclic(S) == ~HasCycle(Edges(S), Involved(S))

\* cyclicReviewStages and evaluatePlan, which deny a plan the topology of
\* which is defective, or of which a stage has no task.
evaluatePlan(plan) ==
    /\ \A e \in plan.edges : e[1] # e[2]
    /\ ~HasCycle(plan.edges, {e[1] : e \in plan.edges} \cup {e[2] : e \in plan.edges})
    /\ \A e \in plan.edges : e[1] \in plan.reviews /\ e[2] \in plan.reviews

\* The reviews of a plan: an authoritative set of capabilities, to which a
\* required fact adds its consumer and its provider.
selectedReviewCapabilities(a) ==
    a.required \cup resolveBootstrapFactTopology(a.facts).required

\* createExecutionPlan, a task per selected review; the edges are those between
\* selected stages.
createExecutionPlan(a) ==
    LET selected == selectedReviewCapabilities(a)
    IN [reviews |-> selected,
        edges |-> {e \in resolveBootstrapFactTopology(a.facts).edges :
                     e[1] \in selected /\ e[2] \in selected}]

reviewDependenciesForStage(plan, stage) == {r \in plan.reviews : <<r, stage>> \in plan.edges}

\* refineBootstrapPlanFromProductDiscovery; it throws where a fact topology
\* is cyclic or the policy denies the plan.
refineBootstrapPlanFromProductDiscovery(h) ==
    createExecutionPlan(normalizeProductDiscoveryReviewAssessment(h))
RefinementThrows(h) ==
    \/ ~assertAcyclic(normalizeBootstrapFactRequirements(h.facts))
    \/ ~evaluatePlan(refineBootstrapPlanFromProductDiscovery(h))

-----------------------------------------------------------------------------
(* The tasks of a run, named by stage. *)

Task(stage, n) == [stage |-> stage, n |-> n]
Product     == Task("product-discovery", 0)
Technical   == Task("technical-refinement", 0)
QA          == Task("quality-assurance", 0)
Acceptance  == Task("product-acceptance", 0)
Review(r)   == Task("review", r)
Item(i)     == Task("implementation", i)
Readiness(r) == Task("operational-readiness", r)

Tasks == {Product, Technical, QA, Acceptance}
           \cup {Review(r) : r \in Reviews} \cup {Item(i) : i \in WorkItems}
           \cup {Readiness(r) : r \in Operational}

\* provisionalizeBootstrapPlan: whatever reviews the first assessment of the
\* request suggests, a run starts without them.
ProvisionalTasks == {Product, Technical}
ProvisionalDeps == [t \in Tasks |-> IF t = Technical THEN {Product} ELSE {}]

\* authoritativeBootstrapTasks: the reviews, then the Technical Lead over all.
ReviewTasks(plan) == {Review(r) : r \in plan.reviews}
BootstrapDeps(plan, t) ==
    IF t = Technical THEN {Product} \cup ReviewTasks(plan)
    ELSE {Product} \cup {Review(r) : r \in reviewDependenciesForStage(plan, t.n)}

-----------------------------------------------------------------------------
(* The implementation plan: the criteria it repeats and, per work item,    *)
(* its dependencies, the criteria it proves, its owner, its paths, its     *)
(* validation commands and whether it reuses what is there without an      *)
(* agent.                                                                  *)

ImplementationPlan ==
    [criteria : SUBSET Criterion,
     deps     : [WorkItems -> SUBSET Nat],
     proves   : [WorkItems -> SUBSET Criterion],
     owner    : [WorkItems -> STRING],
     paths    : [WorkItems -> SUBSET STRING],
     commands : [WorkItems -> SUBSET STRING],
     reuses   : [WorkItems -> BOOLEAN]]

ProofStages == {"implementation", "quality-assurance", "readiness", "product-acceptance"}
implementationProofCriteria(C) == {c \in C : c.stage = "implementation"}

\* productDiscoveryAcceptanceCriteriaIssue finds none: no criterion of the
\* process among them, every stage known, and something left to implement.
CriteriaAreSound(C) ==
    /\ \A c \in C : c.stage \in ProofStages
    /\ \A c, d \in C : c.id = d.id => c = d
    /\ implementationProofCriteria(C) # {}

\* canonicalizeImplementationPlanAcceptanceCriteria would change the criteria,
\* which the Technical Lead has reviewed by then: the plan is refused.
CriteriaAreCanonical(p, criteria) == p.criteria = criteria

collectCycleIssues(p) ==
    HasCycle({e \in WorkItems \X WorkItems : e[1] \in p.deps[e[2]]}, WorkItems)

OwnershipIsSound(p) ==
    /\ \A i \in WorkItems : p.owner[i] \in DOMAIN Owns /\ p.paths[i] \subseteq Owns[p.owner[i]]
    /\ \A i, j \in WorkItems :
         p.owner[i] # p.owner[j] => p.paths[i] \cap p.paths[j] = {}

\* uncoveredCriterionIds and workItemWithoutImplementationCriterionIds.
uncoveredCriterionIds(p) ==
    {c \in implementationProofCriteria(p.criteria) :
       \A i \in WorkItems : c \notin p.proves[i]}
criterionlessWorkItemIds(p) ==
    {i \in WorkItems : p.proves[i] \cap implementationProofCriteria(p.criteria) = {}}

CoverageIsComplete(p) ==
    /\ \A i \in WorkItems : p.proves[i] \subseteq p.criteria
    /\ criterionlessWorkItemIds(p) = {} /\ uncoveredCriterionIds(p) = {}

\* invalidValidationCommands and validationScopeCompatibilityIssue: prose is no
\* command, and a work item has a workspace and nothing more.
invalidValidationCommands(commands) == commands \ Executable
validationScopeCompatibilityIssue(commands) == commands \cap HostOnly # {}

\* The commands that a request with a focused validation leaves to a plan.
implementationValidationDirectiveFromRequest ==
    IF Focused = {} THEN Executable ELSE Focused

CommandsAreSound(p) ==
    /\ \A i \in WorkItems :
         /\ invalidValidationCommands(p.commands[i]) = {}
         /\ ~validationScopeCompatibilityIssue(p.commands[i])
         /\ p.commands[i] \subseteq implementationValidationDirectiveFromRequest
    /\ Focused \subseteq UNION {p.commands[i] : i \in WorkItems}

\* A criterion with a command for its verification has it run by every item
\* that proves it.  What counts as a command is for the caller to say: the
\* finalizer takes all that can be run, the executor those of the catalog.
criterionVerificationMissingEntries(p, authority) ==
    {e \in p.criteria \X WorkItems :
       /\ e[1] \in implementationProofCriteria(p.proves[e[2]])
       /\ e[1].verification \in authority \ p.commands[e[2]]}

\* An item that reuses what is there has no evidence but its commands.
ReuseIsProven(p, authority) ==
    \A i \in WorkItems : p.reuses[i] =>
      /\ p.commands[i] # {}
      /\ \A c \in implementationProofCriteria(p.proves[i]) : c.verification \in authority

DependenciesAreKnown(p) == \A i \in WorkItems : p.deps[i] \subseteq WorkItems

\* inspectImplementationPlan finds no issue.
PlanIsValid(p, authority) ==
    /\ OwnershipIsSound(p) /\ CoverageIsComplete(p)
    /\ CommandsAreSound(p) /\ ReuseIsProven(p, authority)
    /\ criterionVerificationMissingEntries(p, authority) = {}
    /\ DependenciesAreKnown(p) /\ ~collectCycleIssues(p)

-----------------------------------------------------------------------------
(* What the executor of the Technical Lead does about a plan with issues.  *)

\* validationCommandAuthorityIssues: every command is one of the catalog.
CommandsAreTrusted(p) == \A i \in WorkItems : p.commands[i] \subseteq Trusted

\* technicalPlanRepairIssues finds none.
PlanNeedsNoRepair(p, criteria) ==
    CriteriaAreCanonical(p, criteria) /\ CommandsAreTrusted(p) /\ PlanIsValid(p, Trusted)

trustedCriterionVerificationCommand(c) == {c.verification} \cap Trusted

\* The only implementing agent that may own all these paths, or the owner named.
uniqueImplementationOwnerForPaths(owner, paths) ==
    LET able == {a \in DOMAIN Owns : paths \subseteq Owns[a]}
    IN IF owner \notin able /\ Cardinality(able) = 1 THEN CHOOSE a \in able : TRUE
                                                     ELSE owner

\* normalizeTechnicalPlanMechanics: the criteria of the product, those among an
\* item's that it can prove, commands of the catalog and the commands they name.
\* What would leave an item without criteria or commands is not written.
normalizeTechnicalPlanMechanics(p, criteria) ==
    LET proven(i) == p.proves[i] \cap implementationProofCriteria(criteria)
        trusted(i) == (p.commands[i] \cap Trusted)
                        \cup UNION {trustedCriterionVerificationCommand(c) : c \in proven(i)}
    IN [p EXCEPT
          !.criteria = criteria,
          !.proves = [i \in WorkItems |-> IF proven(i) # {} THEN proven(i) ELSE @[i]],
          !.commands = [i \in WorkItems |-> IF trusted(i) # {} THEN trusted(i) ELSE @[i]],
          !.owner = [i \in WorkItems |->
                       uniqueImplementationOwnerForPaths(@[i], p.paths[i])]]

\* Assignments <<criterion, item>> add criteria to items, and the commands
\* those name; nothing is taken away.
applyCriterionAssignments(p, assignments) ==
    LET given(i) == {e[1] : e \in {a \in assignments : a[2] = i}}
    IN [p EXCEPT
          !.proves = [i \in WorkItems |-> @[i] \cup given(i)],
          !.commands = [i \in WorkItems |-> @[i] \cup
             UNION {trustedCriterionVerificationCommand(c) : c \in given(i)}]]

\* The repair of coverage also runs what was already claimed but not run.
applyAcceptanceCoverageAssignments(p, assignments) ==
    applyCriterionAssignments(p,
      assignments \cup criterionVerificationMissingEntries(p, Trusted))

StructureIsSound(p, criteria) ==
    /\ CriteriaAreCanonical(p, criteria)
    /\ OwnershipIsSound(p) /\ DependenciesAreKnown(p) /\ ~collectCycleIssues(p)
    /\ \A i \in WorkItems : p.proves[i] \subseteq p.criteria
    /\ ReuseIsProven(p, Trusted)

\* classifyTechnicalPlanRepairScope: nothing is wrong but the coverage.
AcceptanceCoverageOnly(p, criteria) ==
    /\ StructureIsSound(p, criteria) /\ CommandsAreTrusted(p) /\ CommandsAreSound(p)
    /\ criterionlessWorkItemIds(p) = {}

\* criterionAssignmentRepairIssuesOnly: some items have no criterion, and what
\* else is wrong is coverage or prose among the commands of these items.
CriterionAssignmentOnly(p, criteria) ==
    /\ StructureIsSound(p, criteria)
    /\ criterionlessWorkItemIds(p) # {}
    /\ criterionVerificationMissingEntries(p, Trusted) = {}
    /\ \A i \in WorkItems :
         LET runnable == IF i \in criterionlessWorkItemIds(p)
                         THEN p.commands[i] \cap Executable ELSE p.commands[i]
         IN /\ runnable \subseteq Trusted \ HostOnly
            /\ Focused # {} => p.commands[i] \subseteq Focused
    /\ Focused \subseteq UNION {p.commands[i] : i \in WorkItems}

\* The answers the schemas admit: every criterion left out is given to an item,
\* and in the first case so is every item left without one.
acceptanceCoverageRepairSchema(p) ==
    {A \in SUBSET (uncoveredCriterionIds(p) \X WorkItems) :
       uncoveredCriterionIds(p) = {a[1] : a \in A}}
criterionAssignmentRepairSchema(p) ==
    {A \in SUBSET (implementationProofCriteria(p.criteria) \X WorkItems) :
       /\ uncoveredCriterionIds(p) \subseteq {a[1] : a \in A}
       /\ criterionlessWorkItemIds(p) \subseteq {a[2] : a \in A}}

\* The plans a handoff may end up with: the one the agent wrote, with its
\* mechanics put right, or after one of the two narrow repairs.
RepairedPlans(p, criteria) ==
    LET q == normalizeTechnicalPlanMechanics(p, criteria)
        again(r) == normalizeTechnicalPlanMechanics(r, criteria)
    IN {p, q}
         \cup {again(applyCriterionAssignments(q, A)) :
                 A \in IF CriterionAssignmentOnly(q, criteria)
                       THEN criterionAssignmentRepairSchema(q) ELSE {}}
         \cup {again(applyAcceptanceCoverageAssignments(q, A)) :
                 A \in IF AcceptanceCoverageOnly(q, criteria)
                       THEN acceptanceCoverageRepairSchema(q) ELSE {}}

-----------------------------------------------------------------------------
(* What the finalizer accepts, and what is compiled from it.               *)

\* stageContractFailure: what the finalizer asks of the handoffs the graph is
\* built from.  Product Discovery names what is to be proved and every fact
\* resolves; whether the facts form a cycle is not looked at.
ProductHandoffAccepted(h) == CriteriaAreSound(h.criteria) /\ RequirementsAreValid(h.facts)
TechnicalHandoffAccepted(p, h) == CriteriaAreCanonical(p, h.criteria) /\ PlanIsValid(p, Executable)

\* compileImplementationDag: a task per work item, Quality Assurance over all
\* of them, readiness where an operational review was made, then acceptance.
\* The identifiers follow from the plan: compiling again names the same tasks.
ReadinessTasks(planned) == {Readiness(r) : r \in {q \in Operational : Review(q) \in planned}}
CompiledTasks(planned) == {Item(i) : i \in WorkItems} \cup ReadinessTasks(planned)
                            \cup {QA, Acceptance}

implementationDeps(itemDeps, i) == {Technical} \cup {Item(j) : j \in itemDeps[i]}
bootstrapEvidence(planned) ==
    {Product} \cup {Review(r) : r \in {q \in Evidence : Review(q) \in planned}}
CompiledDeps(planned, itemDeps, t) ==
    CASE t.stage = "implementation" -> implementationDeps(itemDeps, t.n)
      [] t = QA -> bootstrapEvidence(planned) \cup {Technical}
                     \cup {Item(i) : i \in WorkItems}
      [] t.stage = "operational-readiness" -> {QA, Review(t.n)}
      [] t = Acceptance -> {QA} \cup ReadinessTasks(planned)

-----------------------------------------------------------------------------
(* What a result amounts to, and whether the policy allows another attempt. *)

OutcomeKinds == {"accepted", "transient", "semantic", "contract", "changes",
                 "unclassified", "fatal", "blocked", "cancelled"}

\* RETRY_FAILURE_STRATEGIES and strategyForFailure: the strategy registered for
\* the failure an outcome stands for, "none" where the registry has no entry.
strategyForFailure(outcome) ==
    CASE outcome = "transient" -> "true-retry-transient"
      [] outcome = "semantic"  -> "true-retry-semantic"
      [] outcome = "contract"  -> "same-attempt-repair"
      [] outcome = "changes"   -> "review-dependent"
      [] OTHER -> "none"

\* classifyHandoffStatusFailure and stageContractFailure: a contract failure
\* and a review that asks for changes come after the repairs of the attempt.
Retryable(outcome) == outcome \in {"transient", "semantic", "contract", "changes", "unclassified"}
RepairExhausted(outcome) == outcome \in {"contract", "changes"}

retryDispositionForFailure(outcome) ==
    IF ~Retryable(outcome) THEN "terminal"
    ELSE IF strategyForFailure(outcome) = "none" THEN "unclassified"
    ELSE IF RepairExhausted(outcome) THEN "true-retry-repair-exhausted"
    ELSE strategyForFailure(outcome)

\* retryDelayForFailure: only a transient failure waits before it is retried.
RetryIsDelayed(outcome) == retryDispositionForFailure(outcome) = "true-retry-transient"

\* evaluateRetry; budget is the verdict of evaluateRetryBudget on the time and
\* the backoff spent so far.
evaluateRetry(outcome, attempt, budget) ==
    /\ Retryable(outcome)
    /\ attempt < MaxAttempts
    /\ retryDispositionForFailure(outcome) # "unclassified"
    /\ retryDispositionForFailure(outcome) # "same-attempt-repair"
    /\ budget

\* evaluateCompile, of a plan that is still a bootstrap plan.
evaluateCompile(phase, accepted) == phase # "compiled" /\ accepted

\* evaluateDispatch.
evaluateDispatch(runEnded, statusWaits, satisfied, windowOpen, topologyReady) ==
    ~runEnded /\ statusWaits /\ satisfied /\ windowOpen /\ topologyReady

\* evaluatePromotion.
evaluatePromotion(qaAccepted, readinessAccepted, productAccepted, failures) ==
    qaAccepted /\ readinessAccepted /\ productAccepted /\ failures = {}
=============================================================================
