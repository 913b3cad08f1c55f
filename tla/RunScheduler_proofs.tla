------------------------- MODULE RunScheduler_proofs -------------------------
(***************************************************************************)
(* What the operators of planning return, for every registry, assessment   *)
(* and implementation plan; then, that the graph of a run is dispatched    *)
(* soundly and settled rightly, for every registry of reviews, every plan  *)
(* and every limit on parallel tasks, with any number of disturbances.     *)
(***************************************************************************)
EXTENDS RunScheduler, FiniteSetTheorems, TLAPS

-----------------------------------------------------------------------------
(* Tasks. *)

\* A task is known by its stage: work items, reviews and readiness reviews are
\* told apart from each other and from the four tasks every run may have.
LEMMA TaskFacts ==
    /\ {Product, Technical, QA, Acceptance} \subseteq Tasks
    /\ \A r \in Reviews : Review(r) \in Tasks
    /\ \A i \in WorkItems : Item(i) \in Tasks
    /\ \A r \in Operational : Readiness(r) \in Tasks
    /\ \A t \in Tasks : t.stage = "implementation" <=> \E i \in WorkItems : t = Item(i)
    /\ \A t \in Tasks : t.stage = "review" <=> \E r \in Reviews : t = Review(r)
    /\ \A t \in Tasks : t.stage = "operational-readiness"
                          <=> \E r \in Operational : t = Readiness(r)
    /\ Product.stage = "product-discovery" /\ Technical.stage = "technical-refinement"
    /\ QA.stage = "quality-assurance" /\ Acceptance.stage = "product-acceptance"
<1>1. /\ {Product, Technical, QA, Acceptance} \subseteq Tasks
      /\ \A r \in Reviews : Review(r) \in Tasks
      /\ \A i \in WorkItems : Item(i) \in Tasks
      /\ \A r \in Operational : Readiness(r) \in Tasks
    BY DEF Tasks
<1>2. /\ Product.stage = "product-discovery" /\ Technical.stage = "technical-refinement"
      /\ QA.stage = "quality-assurance" /\ Acceptance.stage = "product-acceptance"
    BY DEF Task, Product, Technical, QA, Acceptance
<1>3. /\ \A r \in Reviews : Review(r).stage = "review"
      /\ \A i \in WorkItems : Item(i).stage = "implementation"
      /\ \A r \in Operational : Readiness(r).stage = "operational-readiness"
    BY DEF Task, Review, Item, Readiness
<1>4. \A t \in Tasks :
        \/ t \in {Product, Technical, QA, Acceptance}
        \/ \E r \in Reviews : t = Review(r)
        \/ \E i \in WorkItems : t = Item(i)
        \/ \E r \in Operational : t = Readiness(r)
    BY DEF Tasks
<1>. QED  BY <1>1, <1>2, <1>3, <1>4

\* The number of a task is what its stage is divided by.
LEMMA TaskNumbers ==
    /\ \A t \in Tasks : t = Task(t.stage, t.n) /\ t.n \in Nat
    /\ \A r \in Reviews : Review(r).n = r
    /\ \A i \in WorkItems : Item(i).n = i
    /\ \A r \in Operational : Readiness(r).n = r
<1>1. /\ Reviews \subseteq Nat /\ WorkItems \subseteq Nat /\ Operational \subseteq Nat
      /\ 0 \in Nat
    BY CatalogAssumption, PlanAssumption
<1>2. \A s, n : Task(s, n).n = n /\ Task(s, n).stage = s
    BY DEF Task
<1>. HIDE DEF Task
<1>3. ASSUME NEW t \in Tasks PROVE \E s, n : t = Task(s, n) /\ n \in Nat
    BY <1>1, Zenon DEF Tasks, Product, Technical, QA, Acceptance, Review, Item, Readiness
<1>4. ASSUME NEW t \in Tasks PROVE t = Task(t.stage, t.n) /\ t.n \in Nat
    <2>1. PICK s, n : t = Task(s, n) /\ n \in Nat
        BY <1>3
    <2>2. t.stage = s /\ t.n = n
        BY <1>2, <2>1
    <2>. QED  BY <2>1, <2>2
<1>5. /\ \A r \in Reviews : Review(r).n = r
      /\ \A i \in WorkItems : Item(i).n = i
      /\ \A r \in Operational : Readiness(r).n = r
    BY <1>2 DEF Review, Item, Readiness
<1>. QED  BY <1>4, <1>5

\* A run has finitely many tasks.
LEMMA TasksAreFinite == IsFiniteSet(Tasks)
<1>1. ASSUME NEW S, IsFiniteSet(S), NEW stage
      PROVE  IsFiniteSet({Task(stage, n) : n \in S})
    <2>. DEFINE T == {Task(stage, n) : n \in S}
                f == [n \in S |-> Task(stage, n)]
    <2>1. f \in Surjection(S, T)
        BY DEF Surjection
    <2>. QED  BY <1>1, <2>1, FS_Surjection
<1>2. IsFiniteSet(Reviews) /\ IsFiniteSet(WorkItems) /\ IsFiniteSet(Operational)
    <2>1. Operational \in SUBSET Reviews
        BY CatalogAssumption
    <2>. QED  BY <2>1, CatalogAssumption, PlanAssumption, FS_Subset
<1>3. /\ IsFiniteSet({Review(r) : r \in Reviews})
      /\ IsFiniteSet({Item(i) : i \in WorkItems})
      /\ IsFiniteSet({Readiness(r) : r \in Operational})
    BY <1>1, <1>2 DEF Review, Item, Readiness
<1>4. IsFiniteSet({Product, Technical, QA, Acceptance})
    <2>1. IsFiniteSet({Product})
        BY FS_Singleton
    <2>2. IsFiniteSet({Product} \cup {Technical})
        BY <2>1, FS_AddElement
    <2>3. IsFiniteSet(({Product} \cup {Technical}) \cup {QA})
        BY <2>2, FS_AddElement
    <2>4. IsFiniteSet((({Product} \cup {Technical}) \cup {QA}) \cup {Acceptance})
        BY <2>3, FS_AddElement
    <2>5. {Product, Technical, QA, Acceptance}
            = (({Product} \cup {Technical}) \cup {QA}) \cup {Acceptance}
        OBVIOUS
    <2>. QED  BY <2>4, <2>5
<1>5. IsFiniteSet({Product, Technical, QA, Acceptance} \cup {Review(r) : r \in Reviews})
    BY <1>3, <1>4, FS_Union
<1>6. IsFiniteSet(({Product, Technical, QA, Acceptance} \cup {Review(r) : r \in Reviews})
                    \cup {Item(i) : i \in WorkItems})
    BY <1>3, <1>5, FS_Union
<1>7. IsFiniteSet((({Product, Technical, QA, Acceptance} \cup {Review(r) : r \in Reviews})
                    \cup {Item(i) : i \in WorkItems}) \cup {Readiness(r) : r \in Operational})
    BY <1>3, <1>6, FS_Union
<1>. QED  BY <1>7 DEF Tasks

-----------------------------------------------------------------------------
(* The assessment of Product Discovery. *)

\* What the executor puts right of an assessment is an assessment.
LEMMA ReconciledType ==
    ASSUME NEW h \in Assessment
    PROVE  reconcileExistingAssessment(h) \in Assessment
<1>. DEFINE sourced == canonicalizeAuthorizedRepositorySources(h.facts)
            facts == reconcileProductDiscoveryFactCapabilityIds(sourced)
<1>1. ASSUME NEW q \in sourced PROVE q \in FactRequirement
    <2>1. PICK p \in h.facts : q \in {p, [p EXCEPT !.source = "authoritative"]}
        BY DEF canonicalizeAuthorizedRepositorySources
    <2>2. p \in FactRequirement
        BY DEF Assessment
    <2>3. [p EXCEPT !.source = "authoritative"] \in FactRequirement
        BY <2>2 DEF FactRequirement
    <2>. QED  BY <2>1, <2>2, <2>3
<1>. HIDE DEF sourced
<1>2. ASSUME NEW q \in facts PROVE q \in FactRequirement
    <2>1. PICK p \in sourced :
            q \in IF p.resolution = "authoritative-context" /\ p.consumer = None
                  THEN {[p EXCEPT !.consumer = r] : r \in Reviews} ELSE {p}
        BY DEF reconcileProductDiscoveryFactCapabilityIds
    <2>2. p \in FactRequirement
        BY <1>1
    <2>3. CASE p.resolution = "authoritative-context" /\ p.consumer = None
        <3>1. PICK r \in Reviews : q = [p EXCEPT !.consumer = r]
            BY <2>1, <2>3
        <3>2. r \in Nat
            BY CatalogAssumption
        <3>. QED  BY <2>2, <3>1, <3>2 DEF FactRequirement
    <2>4. CASE ~(p.resolution = "authoritative-context" /\ p.consumer = None)
        BY <2>1, <2>2, <2>4
    <2>. QED  BY <2>3, <2>4
<1>. HIDE DEF facts
<1>3. [h EXCEPT !.facts = facts] \in Assessment
    BY <1>2 DEF Assessment
<1>. QED  BY <1>3 DEF reconcileExistingAssessment, facts, sourced

\* A valid requirement resolves to a review other than the one that needs it.
LEMMA ResolvedFacts ==
    ASSUME NEW q \in FactRequirement, RequirementIsValid(q)
    PROVE  /\ Resolved(q) \in FactRequirement
           /\ Resolved(q).consumer \in Reviews
           /\ Resolved(q).resolution = q.resolution
           /\ q.resolution = "review" => /\ Resolved(q).provider \in Reviews
                                         /\ Resolved(q).provider # Resolved(q).consumer
<1>1. q.consumer \in Reviews
    BY DEF RequirementIsValid
<1>2. CASE q.resolution = "review"
    <2>1. HasProvider(q) /\ resolveProviderCapability(q) # q.consumer
        BY <1>2 DEF RequirementIsValid
    <2>2. resolveProviderCapability(q) \in Reviews
        BY <2>1 DEF HasProvider, resolveProviderCapability
    <2>3. resolveProviderCapability(q) \in Nat
        BY <2>2, CatalogAssumption
    <2>4. Resolved(q) = [q EXCEPT !.provider = resolveProviderCapability(q)]
        BY <1>2 DEF Resolved
    <2>. HIDE DEF Resolved
    <2>. QED  BY <1>1, <2>1, <2>2, <2>3, <2>4 DEF FactRequirement
<1>3. CASE q.resolution # "review"
    BY <1>1, <1>3 DEF Resolved
<1>. QED  BY <1>2, <1>3

\* Every review an accepted assessment leads to is one of the registry, and every
\* edge of its plan joins two different reviews of the plan.
THEOREM RefinedPlanFacts ==
    ASSUME NEW h \in Assessment, RequirementsAreValid(h.facts)
    PROVE  LET plan == refineBootstrapPlanFromProductDiscovery(h)
           IN /\ plan.reviews \subseteq Reviews
              /\ \A e \in plan.edges : /\ e[1] \in plan.reviews /\ e[2] \in plan.reviews
                                       /\ e[1] # e[2]
              /\ plan.edges = Edges(normalizeBootstrapFactRequirements(h.facts))
<1>. DEFINE facts == normalizeBootstrapFactRequirements(h.facts)
            required == canonicalizeProductDiscoveryRequiredCapabilities(h.required)
                          \cup Involved(facts)
            a == [required |-> required, facts |-> facts]
            plan == createExecutionPlan(a)
<1>1. \A q \in facts : /\ q.consumer \in Reviews
                       /\ q.resolution = "review" => /\ q.provider \in Reviews
                                                     /\ q.provider # q.consumer
    <2>1. \A q \in h.facts : q \in FactRequirement /\ RequirementIsValid(q)
        BY DEF Assessment, RequirementsAreValid
    <2>. QED  BY <2>1, ResolvedFacts DEF normalizeBootstrapFactRequirements
<1>2. a = normalizeProductDiscoveryReviewAssessment(h)
    BY DEF normalizeProductDiscoveryReviewAssessment
<1>. HIDE DEF facts
<1>3. Involved(facts) \subseteq Reviews
    BY <1>1 DEF Involved
<1>4. required \subseteq Reviews
    BY <1>3 DEF canonicalizeProductDiscoveryRequiredCapabilities
<1>5. \A e \in Edges(facts) : /\ e[1] \in Involved(facts) /\ e[2] \in Involved(facts)
                              /\ e[1] # e[2]
    BY <1>1 DEF Edges, Involved
<1>6. Involved(facts) \subseteq required
    OBVIOUS
<1>. HIDE DEF required
<1>7. plan.reviews = required \cup Involved(facts)
    BY DEF createExecutionPlan, selectedReviewCapabilities, resolveBootstrapFactTopology
<1>8. plan.edges = {e \in Edges(facts) : e[1] \in required /\ e[2] \in required}
    BY <1>6 DEF createExecutionPlan, selectedReviewCapabilities, resolveBootstrapFactTopology
<1>9. plan = refineBootstrapPlanFromProductDiscovery(h)
    BY <1>2 DEF refineBootstrapPlanFromProductDiscovery
<1>. HIDE DEF plan
<1>. QED  BY <1>3, <1>4, <1>5, <1>6, <1>7, <1>8, <1>9 DEF facts

\* The policy has nothing to add: of an assessment whose facts resolve, the
\* refinement throws where the facts form a cycle and nowhere else
\* (refineBootstrapPlanFromProductDiscovery, evaluatePlan).
THEOREM OnlyCyclesThrow ==
    ASSUME NEW h \in Assessment, RequirementsAreValid(h.facts)
    PROVE  RefinementThrows(h)
             <=> ~assertAcyclic(normalizeBootstrapFactRequirements(h.facts))
<1>. DEFINE facts == normalizeBootstrapFactRequirements(h.facts)
            plan == refineBootstrapPlanFromProductDiscovery(h)
            ends == {e[1] : e \in plan.edges} \cup {e[2] : e \in plan.edges}
<1>1. /\ \A e \in plan.edges : e[1] \in plan.reviews /\ e[2] \in plan.reviews /\ e[1] # e[2]
      /\ plan.edges = Edges(facts)
    BY RefinedPlanFacts
<1>. HIDE DEF plan, facts
<1>2. ends \subseteq Involved(facts)
    BY <1>1 DEF Edges, Involved
<1>3. HasCycle(plan.edges, ends) => HasCycle(Edges(facts), Involved(facts))
    <2>. HIDE DEF ends
    <2>. QED  BY <1>1, <1>2 DEF HasCycle
<1>4. assertAcyclic(facts) => evaluatePlan(plan)
    BY <1>1, <1>3 DEF assertAcyclic, evaluatePlan
<1>. QED  BY <1>4 DEF RefinementThrows, facts, plan

-----------------------------------------------------------------------------
(* The implementation plan of the Technical Lead. *)

\* The repairs of the executor never touch the dependencies of the work items.
LEMMA RepairsKeepDependencies ==
    ASSUME NEW p \in ImplementationPlan, NEW criteria, NEW q \in RepairedPlans(p, criteria)
    PROVE  q.deps = p.deps
<1>1. ASSUME NEW r, "deps" \in DOMAIN r, NEW C
      PROVE  LET s == normalizeTechnicalPlanMechanics(r, C)
             IN "deps" \in DOMAIN s /\ s.deps = r.deps
    BY <1>1 DEF normalizeTechnicalPlanMechanics
<1>2. ASSUME NEW r, "deps" \in DOMAIN r, NEW A
      PROVE  LET s == applyCriterionAssignments(r, A)
             IN "deps" \in DOMAIN s /\ s.deps = r.deps
    BY <1>2 DEF applyCriterionAssignments
<1>3. "deps" \in DOMAIN p
    BY DEF ImplementationPlan
<1>. HIDE DEF normalizeTechnicalPlanMechanics, applyCriterionAssignments
<1>. DEFINE n == normalizeTechnicalPlanMechanics(p, criteria)
<1>4. "deps" \in DOMAIN n /\ n.deps = p.deps
    BY <1>1, <1>3
<1>5. \/ q \in {p, n}
      \/ \E A : q = normalizeTechnicalPlanMechanics(applyCriterionAssignments(n, A), criteria)
    BY DEF RepairedPlans, applyAcceptanceCoverageAssignments
<1>. HIDE DEF n
<1>6. ASSUME NEW A, q = normalizeTechnicalPlanMechanics(applyCriterionAssignments(n, A), criteria)
      PROVE  q.deps = p.deps
    BY <1>1, <1>2, <1>4, <1>6
<1>. QED  BY <1>4, <1>5, <1>6

\* A plan the executor has no objection to is not always one the finalizer
\* accepts: the executor asks for commands of its catalog only, the finalizer
\* for every verification that can be run.  Where the two differ on a criterion
\* no plan satisfies both.
THEOREM UntrustedVerificationIsUnprovable ==
    ASSUME NEW h \in Assessment, NEW p \in ImplementationPlan,
           NEW c \in implementationProofCriteria(h.criteria),
           c.verification \in Executable \ Trusted
    PROVE  ~(PlanNeedsNoRepair(p, h.criteria) /\ TechnicalHandoffAccepted(p, h))
<1>. SUFFICES ASSUME PlanNeedsNoRepair(p, h.criteria), TechnicalHandoffAccepted(p, h)
              PROVE  FALSE
    OBVIOUS
<1>1. p.criteria = h.criteria
    BY DEF PlanNeedsNoRepair, CriteriaAreCanonical
<1>2. PICK i \in WorkItems : c \in p.proves[i]
    BY <1>1 DEF TechnicalHandoffAccepted, PlanIsValid, CoverageIsComplete, uncoveredCriterionIds
<1>3. c \in p.criteria /\ c \in implementationProofCriteria(p.proves[i])
    BY <1>1, <1>2 DEF implementationProofCriteria
<1>4. c.verification \in p.commands[i]
    <2>1. <<c, i>> \notin criterionVerificationMissingEntries(p, Executable)
        BY DEF TechnicalHandoffAccepted, PlanIsValid
    <2>. QED  BY <1>3, <2>1 DEF criterionVerificationMissingEntries
<1>5. p.commands[i] \subseteq Trusted
    BY DEF PlanNeedsNoRepair, CommandsAreTrusted
<1>. QED  BY <1>4, <1>5

\* A request that prescribes its validation leaves no acceptable plan when a
\* criterion names another command: the plan must run it and must not.
THEOREM FocusLeavesNoOtherVerification ==
    ASSUME NEW h \in Assessment, NEW p \in ImplementationPlan, Focused # {},
           NEW c \in implementationProofCriteria(h.criteria),
           c.verification \in Executable \ Focused
    PROVE  ~TechnicalHandoffAccepted(p, h)
<1>. SUFFICES ASSUME TechnicalHandoffAccepted(p, h)
              PROVE  FALSE
    OBVIOUS
<1>1. p.criteria = h.criteria
    BY DEF TechnicalHandoffAccepted, CriteriaAreCanonical
<1>2. PICK i \in WorkItems : c \in p.proves[i]
    BY <1>1 DEF TechnicalHandoffAccepted, PlanIsValid, CoverageIsComplete, uncoveredCriterionIds
<1>3. c \in p.criteria /\ c \in implementationProofCriteria(p.proves[i])
    BY <1>1, <1>2 DEF implementationProofCriteria
<1>4. c.verification \in p.commands[i]
    <2>1. <<c, i>> \notin criterionVerificationMissingEntries(p, Executable)
        BY DEF TechnicalHandoffAccepted, PlanIsValid
    <2>. QED  BY <1>3, <2>1 DEF criterionVerificationMissingEntries
<1>5. p.commands[i] \subseteq Focused
    BY DEF TechnicalHandoffAccepted, PlanIsValid, CommandsAreSound,
           implementationValidationDirectiveFromRequest
<1>. QED  BY <1>4, <1>5

\* The narrow repair of coverage is enough: whatever answer the schema admits,
\* a plan with nothing else wrong needs no further repair, unless a criterion's
\* verification is a command that a work item may not run, or the answer gives
\* an item that only reuses what is there a criterion no command verifies.
THEOREM CoverageRepairSuffices ==
    ASSUME NEW criteria \in SUBSET Criterion, NEW p \in ImplementationPlan,
           AcceptanceCoverageOnly(p, criteria),
           NEW A \in acceptanceCoverageRepairSchema(p),
           \A c \in implementationProofCriteria(criteria) :
              c.verification \in Trusted =>
                c.verification \in implementationValidationDirectiveFromRequest \ HostOnly,
           \A a \in A : p.reuses[a[2]] => a[1].verification \in Trusted
    PROVE  PlanNeedsNoRepair(applyAcceptanceCoverageAssignments(p, A), criteria)
<1>. DEFINE given == A \cup criterionVerificationMissingEntries(p, Trusted)
            q == applyCriterionAssignments(p, given)
            to(i) == {e[1] : e \in {a \in given : a[2] = i}}
            ground(i) == UNION {trustedCriterionVerificationCommand(c) : c \in to(i)}
            proof == implementationProofCriteria(criteria)
<1>1. p.criteria = criteria
    BY DEF AcceptanceCoverageOnly, StructureIsSound, CriteriaAreCanonical
<1>2. \A a \in given : a[1] \in proof /\ a[2] \in WorkItems
    BY <1>1 DEF acceptanceCoverageRepairSchema, uncoveredCriterionIds,
                criterionVerificationMissingEntries, implementationProofCriteria
<1>3. \A i \in WorkItems : to(i) \subseteq proof
    BY <1>2
<1>4. \A i \in WorkItems : ground(i) \subseteq Trusted
                              /\ ground(i) \subseteq implementationValidationDirectiveFromRequest
                              /\ ground(i) \cap HostOnly = {}
    BY <1>3 DEF trustedCriterionVerificationCommand
<1>5. /\ q.criteria = p.criteria /\ q.deps = p.deps /\ q.owner = p.owner
      /\ q.paths = p.paths /\ q.reuses = p.reuses
      /\ q.proves = [i \in WorkItems |-> p.proves[i] \cup to(i)]
      /\ q.commands = [i \in WorkItems |-> p.commands[i] \cup ground(i)]
    BY DEF applyCriterionAssignments, ImplementationPlan
<1>6. \A c \in proof, i \in WorkItems :
        c \in p.proves[i] /\ c.verification \in Trusted \ p.commands[i] => c \in to(i)
    <2>. SUFFICES ASSUME NEW c \in proof, NEW i \in WorkItems,
                         c \in p.proves[i], c.verification \in Trusted \ p.commands[i]
                  PROVE  c \in to(i)
        OBVIOUS
    <2>1. <<c, i>> \in criterionVerificationMissingEntries(p, Trusted)
        BY <1>1 DEF criterionVerificationMissingEntries, implementationProofCriteria
    <2>2. <<c, i>> \in {a \in given : a[2] = i} /\ <<c, i>>[1] = c
        BY <2>1
    <2>. QED  BY <2>2, Zenon
<1>7. \A c \in uncoveredCriterionIds(p) : \E i \in WorkItems : c \in to(i)
    <2>. SUFFICES ASSUME NEW c \in uncoveredCriterionIds(p)
                  PROVE  \E i \in WorkItems : c \in to(i)
        OBVIOUS
    <2>1. PICK a \in A : a[1] = c
        BY DEF acceptanceCoverageRepairSchema
    <2>2. a \in given /\ a[2] \in WorkItems
        BY <1>2
    <2>. QED  BY <2>1, <2>2, Zenon
<1>8. \A i \in WorkItems : \A c \in to(i) : c.verification \in Trusted => c.verification \in ground(i)
    BY DEF trustedCriterionVerificationCommand
<1>. HIDE DEF given, to, ground, q
<1>. USE <1>1, <1>5
<1>9. OwnershipIsSound(q) /\ DependenciesAreKnown(q) /\ ~collectCycleIssues(q)
    BY DEF AcceptanceCoverageOnly, StructureIsSound, OwnershipIsSound,
           DependenciesAreKnown, collectCycleIssues
<1>10. CommandsAreTrusted(q)
    BY <1>4 DEF AcceptanceCoverageOnly, CommandsAreTrusted
<1>11. CommandsAreSound(q)
    <2>1. \A i \in WorkItems : q.commands[i] = p.commands[i] \cup ground(i)
        OBVIOUS
    <2>2. CommandsAreSound(p) /\ Trusted \subseteq Executable
        BY PlanAssumption DEF AcceptanceCoverageOnly
    <2>3. \A i \in WorkItems :
            /\ invalidValidationCommands(q.commands[i]) = {}
            /\ ~validationScopeCompatibilityIssue(q.commands[i])
            /\ q.commands[i] \subseteq implementationValidationDirectiveFromRequest
        BY <1>4, <2>1, <2>2 DEF CommandsAreSound, invalidValidationCommands,
                                validationScopeCompatibilityIssue
    <2>4. Focused \subseteq UNION {q.commands[i] : i \in WorkItems}
        BY <2>1, <2>2 DEF CommandsAreSound
    <2>. QED  BY <2>3, <2>4 DEF CommandsAreSound
<1>12. CoverageIsComplete(q)
    <2>1. \A i \in WorkItems : q.proves[i] = p.proves[i] \cup to(i)
        OBVIOUS
    <2>2. \A i \in WorkItems : q.proves[i] \subseteq q.criteria
        BY <1>3, <2>1 DEF AcceptanceCoverageOnly, StructureIsSound, implementationProofCriteria
    <2>3. criterionlessWorkItemIds(q) = {}
        BY <2>1 DEF AcceptanceCoverageOnly, criterionlessWorkItemIds
    <2>4. uncoveredCriterionIds(q) = {}
        BY <1>7, <2>1 DEF uncoveredCriterionIds
    <2>. QED  BY <2>2, <2>3, <2>4 DEF CoverageIsComplete
<1>13. criterionVerificationMissingEntries(q, Trusted) = {}
    <2>. SUFFICES ASSUME NEW c \in proof, NEW i \in WorkItems, c \in q.proves[i],
                         c.verification \in Trusted
                  PROVE  c.verification \in q.commands[i]
        BY DEF criterionVerificationMissingEntries, implementationProofCriteria
    <2>1. CASE c \in to(i)
        BY <1>8, <2>1
    <2>2. CASE c \in p.proves[i]
        BY <1>6, <1>8, <2>2
    <2>. QED  BY <2>1, <2>2
<1>14. ReuseIsProven(q, Trusted)
    <2>. SUFFICES ASSUME NEW i \in WorkItems, p.reuses[i]
                  PROVE  /\ q.commands[i] # {}
                         /\ \A c \in implementationProofCriteria(q.proves[i]) :
                              c.verification \in Trusted
        BY DEF ReuseIsProven
    <2>1. /\ p.commands[i] # {}
          /\ \A c \in implementationProofCriteria(p.proves[i]) : c.verification \in Trusted
        BY DEF AcceptanceCoverageOnly, StructureIsSound, ReuseIsProven
    <2>2. \A c \in to(i) : c.verification \in Trusted
        BY DEF to, given, criterionVerificationMissingEntries
    <2>. QED  BY <2>1, <2>2 DEF implementationProofCriteria
<1>. QED  BY <1>9, <1>10, <1>11, <1>12, <1>13, <1>14
          DEF PlanNeedsNoRepair, PlanIsValid, CriteriaAreCanonical,
              applyAcceptanceCoverageAssignments, q, given

-----------------------------------------------------------------------------
(* The run. *)

\* The inductive invariant of a run.
Inv ==
    /\ TypeOK
    /\ RowsInv /\ EdgesInv /\ AttemptsInv /\ ResultsInv /\ WorkInv
    /\ BatchInv /\ EndInv
    /\ RunsOnIntegratedWork /\ ParallelBound
    /\ ClosedIsProven /\ IntegratedRunCloses

-----------------------------------------------------------------------------
(* The order in which tasks are dispatched. *)

\* Any two tasks are ordered by their stage and number.
LEMMA PrecedesIsTotal ==
    /\ \A t \in Tasks : ~Precedes(t, t)
    /\ \A t, u \in Tasks : t # u => Precedes(t, u) \/ Precedes(u, t)
    /\ \A t, u, v \in Tasks : Precedes(t, u) /\ Precedes(u, v) => Precedes(t, v)
<1>. DEFINE Place(x) == CHOOSE i \in DOMAIN Alphabet : Alphabet[i] = x.stage
<1>1. \A t \in Tasks : \E i \in DOMAIN Alphabet : Alphabet[i] = t.stage
    <2>1. \A t \in Tasks : t.stage \in {"review", "implementation", "operational-readiness",
              "product-acceptance", "product-discovery", "quality-assurance",
              "technical-refinement"}
        BY DEF Tasks, Task, Product, Technical, QA, Acceptance, Review, Item, Readiness
    <2>2. DOMAIN Alphabet = 1..7
        BY DEF Alphabet
    <2>3. /\ Alphabet[1] = "review" /\ Alphabet[2] = "implementation"
          /\ Alphabet[3] = "operational-readiness" /\ Alphabet[4] = "product-acceptance"
          /\ Alphabet[5] = "product-discovery" /\ Alphabet[6] = "quality-assurance"
          /\ Alphabet[7] = "technical-refinement"
        BY DEF Alphabet
    <2>4. /\ 1 \in 1..7 /\ 2 \in 1..7 /\ 3 \in 1..7 /\ 4 \in 1..7 /\ 5 \in 1..7
          /\ 6 \in 1..7 /\ 7 \in 1..7
        OBVIOUS
    <2>. QED  BY <2>1, <2>2, <2>3, <2>4, Zenon
<1>2. \A t \in Tasks : Place(t) \in Nat /\ Alphabet[Place(t)] = t.stage
    <2>1. DOMAIN Alphabet \subseteq Nat
        BY DEF Alphabet
    <2>. QED  BY <1>1, <2>1
<1>3. \A t, u \in Tasks : Precedes(t, u)
                            <=> Place(t) < Place(u) \/ (Place(t) = Place(u) /\ t.n < u.n)
    BY DEF Precedes
<1>. HIDE DEF Place
<1>4. \A t \in Tasks : t.n \in Nat
    BY TaskNumbers
<1>5. \A t, u \in Tasks : Place(t) = Place(u) /\ t.n = u.n => t = u
    <2>. SUFFICES ASSUME NEW t \in Tasks, NEW u \in Tasks, Place(t) = Place(u), t.n = u.n
                  PROVE  t = u
        OBVIOUS
    <2>1. t.stage = u.stage
        BY <1>2
    <2>2. t = Task(t.stage, t.n) /\ u = Task(u.stage, u.n)
        BY TaskNumbers
    <2>. QED  BY <2>1, <2>2
<1>. QED  BY <1>2, <1>3, <1>4, <1>5

\* The first n of a set of tasks are at most n: a task's rank in the set tells
\* it apart from the others.
LEMMA FirstAreFew ==
    ASSUME NEW S \in SUBSET Tasks, NEW n \in Nat
    PROVE  LET first == {t \in S : Cardinality({u \in S : Precedes(u, t)}) < n}
           IN IsFiniteSet(first) /\ Cardinality(first) <= n
<1>. DEFINE below(t) == {u \in S : Precedes(u, t)}
            first == {t \in S : Cardinality(below(t)) < n}
            rank == [t \in first |-> Cardinality(below(t))]
<1>1. IsFiniteSet(S) /\ \A t \in S : IsFiniteSet(below(t)) /\ Cardinality(below(t)) \in Nat
    <2>1. IsFiniteSet(S)
        BY TasksAreFinite, FS_Subset
    <2>2. \A t \in S : below(t) \in SUBSET S
        OBVIOUS
    <2>. HIDE DEF below
    <2>. QED  BY <2>1, <2>2, FS_Subset, FS_CardinalityType
<1>2. ASSUME NEW t \in S, NEW u \in S, Precedes(t, u)
      PROVE  Cardinality(below(t)) < Cardinality(below(u))
    <2>1. below(t) \in SUBSET below(u)
        BY <1>2, PrecedesIsTotal
    <2>2. t \in below(u) /\ t \notin below(t)
        BY <1>2, PrecedesIsTotal
    <2>. HIDE DEF below
    <2>3. IsFiniteSet(below(u)) /\ Cardinality(below(u)) \in Nat
          /\ Cardinality(below(t)) \in Nat
        BY <1>1
    <2>4. /\ Cardinality(below(t)) <= Cardinality(below(u))
          /\ Cardinality(below(u)) = Cardinality(below(t)) => below(u) = below(t)
        BY <2>1, <2>3, FS_Subset
    <2>. QED  BY <2>2, <2>3, <2>4
<1>. HIDE DEF below
<1>3. rank \in Injection(first, 0..(n - 1))
    <2>1. rank \in [first -> 0..(n - 1)]
        BY <1>1
    <2>2. ASSUME NEW t \in first, NEW u \in first, rank[t] = rank[u]
          PROVE  t = u
        <3>. SUFFICES ASSUME t # u PROVE FALSE
            OBVIOUS
        <3>1. Precedes(t, u) \/ Precedes(u, t)
            BY PrecedesIsTotal
        <3>. QED  BY <1>1, <1>2, <2>2, <3>1
    <2>. QED  BY <2>1, <2>2 DEF Injection, IsInjective
<1>4. IsFiniteSet(0..(n - 1)) /\ Cardinality(0..(n - 1)) = n
    BY FS_Interval
<1>5. IsFiniteSet(first) /\ Cardinality(first) <= n
    <2>. HIDE DEF rank, first
    <2>. QED  BY <1>3, <1>4, FS_Injection
<1>. QED  BY <1>5 DEF below
-----------------------------------------------------------------------------
(* What the steps do. *)

\* The brief of a run is an assessment.
LEMMA BriefType == Handed \cup {NoBrief} \subseteq Assessment
<1>1. Handed \subseteq Assessment
    BY HandoffAssumption, ReconciledType DEF Handed
<1>2. NoBrief \in Assessment
    BY DEF NoBrief, Assessment
<1>. QED  BY <1>1, <1>2

\* An accepted handoff leaves a brief whose facts resolve and dependencies among
\* the work items.
LEMMA AcceptHandoffFacts ==
    ASSUME TypeOK, EdgesInv, NEW t \in Tasks, AcceptHandoff(t)
    PROVE  /\ brief' \in Handed \cup {NoBrief}
           /\ RequirementsAreValid(brief'.facts)
           /\ itemDeps' \in [WorkItems -> SUBSET WorkItems]
<1>1. /\ brief' \in Handed \cup {NoBrief}
      /\ RequirementsAreValid(brief'.facts)
    BY DEF AcceptHandoff, ProductHandoffAccepted, TypeOK, EdgesInv
<1>2. ASSUME NEW q \in HandedPlans, TechnicalHandoffAccepted(q, brief)
      PROVE  q.deps \in [WorkItems -> SUBSET WorkItems]
    <2>1. PICK p \in Plans : q \in RepairedPlans(p, brief.criteria)
        BY DEF HandedPlans
    <2>2. p \in ImplementationPlan
        BY HandoffAssumption
    <2>3. q.deps = p.deps
        BY <2>1, <2>2, RepairsKeepDependencies
    <2>4. q.deps \in [WorkItems -> SUBSET Nat]
        BY <2>2, <2>3 DEF ImplementationPlan
    <2>5. \A i \in WorkItems : q.deps[i] \subseteq WorkItems
        BY <1>2 DEF TechnicalHandoffAccepted, PlanIsValid, DependenciesAreKnown
    <2>. QED  BY <2>4, <2>5
<1>3. itemDeps' \in [WorkItems -> SUBSET WorkItems]
    BY <1>2 DEF AcceptHandoff, TypeOK
<1>. QED  BY <1>1, <1>3

\* A pending result is consumed and its task settled, retried or left as it was,
\* unless it is Quality Assurance's and work is to be reopened first.
LEMMA FinalizeFacts ==
    ASSUME Inv, NEW t \in Tasks, FinalizeResult(t)
    PROVE  /\ pc = "finalize" /\ result[t] # "none"
           /\ attempt[t] > 0 /\ t \in planned /\ status[t] # "absent"
           /\ \/ /\ t = QA /\ result[QA] = "changes" /\ status[QA] \notin Success
                 /\ batch' = Reopenable /\ pc' = "reopen"
                 /\ UNCHANGED <<status, waiting, result, brief, itemDeps>>
              \/ /\ \E next \in Terminal \cup {"retrying"} :
                      /\ status' = [status EXCEPT ![t] = next]
                      /\ status[t] \in Success => next = status[t]
                 /\ waiting' \subseteq Tasks
                 /\ result' = [result EXCEPT ![t] = "none"]
                 /\ brief' \in Handed \cup {NoBrief}
                 /\ RequirementsAreValid(brief'.facts)
                 /\ itemDeps' \in [WorkItems -> SUBSET WorkItems]
                 /\ UNCHANGED <<batch, pc>>
           /\ lapsed' = lapsed \ {t}
           /\ UNCHANGED <<intent, maxParallel, phase, planned, deps, cancelling, cancel,
                          run, attempt, disturbed>>
<1>1. /\ pc = "finalize" /\ result[t] # "none"
      /\ lapsed' = lapsed \ {t}
      /\ UNCHANGED <<intent, maxParallel, phase, planned, deps, cancelling, cancel,
                     run, attempt, disturbed>>
    BY DEF FinalizeResult, operator
<1>2. attempt[t] \in Nat /\ attempt[t] # 0
    BY <1>1 DEF Inv, TypeOK, AttemptsInv
<1>3. attempt[t] > 0 /\ t \in planned /\ status[t] # "absent"
    BY <1>2 DEF Inv, AttemptsInv, RowsInv, Rows
<1>4. PICK budget \in BOOLEAN :
         LET settled == t \notin planned \/ status[t] \in Success
             again == evaluateRetry(result[t], attempt[t], budget)
             next == IF settled THEN status[t]
                     ELSE CASE result[t] = "accepted" -> "integrated"
                            [] result[t] \in {"blocked", "cancelled"} -> result[t]
                            [] OTHER -> IF again THEN "retrying" ELSE "failed"
         IN IF result[t] = "changes" /\ again /\ ~settled /\ Reopenable # {}
            THEN /\ batch' = Reopenable /\ pc' = "reopen"
                 /\ UNCHANGED <<status, waiting, result, handoffs>>
            ELSE /\ status' = [status EXCEPT ![t] = next]
                 /\ waiting' = IF next = "retrying" /\ RetryIsDelayed(result[t])
                               THEN waiting \cup {t} ELSE waiting \ {t}
                 /\ result' = [result EXCEPT ![t] = "none"]
                 /\ IF result[t] = "accepted" /\ ~settled
                    THEN AcceptHandoff(t) ELSE UNCHANGED handoffs
                 /\ UNCHANGED <<batch, pc>>
    BY DEF FinalizeResult
<1>. DEFINE settled == t \notin planned \/ status[t] \in Success
            again == evaluateRetry(result[t], attempt[t], budget)
            next == IF settled THEN status[t]
                    ELSE CASE result[t] = "accepted" -> "integrated"
                           [] result[t] \in {"blocked", "cancelled"} -> result[t]
                           [] OTHER -> IF again THEN "retrying" ELSE "failed"
<1>5. CASE result[t] = "changes" /\ again /\ ~settled /\ Reopenable # {}
    <2>1. t = QA
        BY <1>5 DEF Inv, ResultsInv
    <2>2. /\ batch' = Reopenable /\ pc' = "reopen"
          /\ UNCHANGED <<status, waiting, result, handoffs>>
        BY <1>4, <1>5
    <2>. QED  BY <1>1, <1>3, <1>5, <2>1, <2>2 DEF handoffs
<1>6. CASE ~(result[t] = "changes" /\ again /\ ~settled /\ Reopenable # {})
    <2>1. /\ status' = [status EXCEPT ![t] = next]
          /\ waiting' = IF next = "retrying" /\ RetryIsDelayed(result[t])
                        THEN waiting \cup {t} ELSE waiting \ {t}
          /\ result' = [result EXCEPT ![t] = "none"]
          /\ IF result[t] = "accepted" /\ ~settled
             THEN AcceptHandoff(t) ELSE UNCHANGED handoffs
          /\ UNCHANGED <<batch, pc>>
        BY <1>4, <1>6
    <2>2. next \in Terminal \cup {"retrying"} /\ (status[t] \in Success => next = status[t])
        <3>1. CASE settled
            BY <1>3, <3>1 DEF Terminal, Success
        <3>2. CASE ~settled
            <4>. HIDE DEF again
            <4>1. next \in {"integrated", "blocked", "cancelled", "retrying", "failed"}
                BY <3>2
            <4>. HIDE DEF next
            <4>. QED  BY <3>2, <4>1 DEF Terminal, Success, Failure
        <3>. QED  BY <3>1, <3>2
    <2>3. /\ brief' \in Handed \cup {NoBrief}
          /\ RequirementsAreValid(brief'.facts)
          /\ itemDeps' \in [WorkItems -> SUBSET WorkItems]
        <3>1. CASE AcceptHandoff(t)
            BY <3>1, AcceptHandoffFacts DEF Inv
        <3>2. CASE UNCHANGED handoffs
            BY <3>2 DEF Inv, TypeOK, EdgesInv, handoffs
        <3>. QED  BY <2>1, <3>1, <3>2
    <2>4. waiting' \subseteq Tasks
        BY <2>1 DEF Inv, TypeOK
    <2>. HIDE DEF next, settled, again
    <2>. QED  BY <1>1, <1>3, <2>1, <2>2, <2>3, <2>4
<1>. QED  BY <1>5, <1>6

\* The tasks of a compiled plan, by what they wait for.
LEMMA CompiledDepsFacts ==
    ASSUME NEW tasks, NEW edges \in [WorkItems -> SUBSET WorkItems]
    PROVE  /\ \A i \in WorkItems : CompiledDeps(tasks, edges, Item(i))
                                     = {Technical} \cup {Item(j) : j \in edges[i]}
           /\ CompiledDeps(tasks, edges, QA)
                = bootstrapEvidence(tasks) \cup {Technical} \cup {Item(i) : i \in WorkItems}
           /\ \A r \in Operational : CompiledDeps(tasks, edges, Readiness(r)) = {QA, Review(r)}
           /\ CompiledDeps(tasks, edges, Acceptance) = {QA} \cup ReadinessTasks(tasks)
<1>. USE TaskNumbers
<1>1. \A i \in WorkItems : Item(i).stage = "implementation"
    BY DEF Item, Task
<1>2. \A r \in Operational : Readiness(r).stage = "operational-readiness" /\ Readiness(r) # QA
    BY DEF Readiness, QA, Task
<1>3. QA.stage = "quality-assurance" /\ Acceptance.stage = "product-acceptance" /\ QA # Acceptance
    BY DEF Acceptance, QA, Task
<1>4. \A i \in WorkItems : Item(i) # QA /\ Item(i) # Acceptance
    BY <1>1, <1>3
<1>5. \A r \in Operational : Readiness(r) # Acceptance
    BY <1>2, <1>3
<1>. QED  BY <1>1, <1>2, <1>3, <1>4, <1>5 DEF CompiledDeps, implementationDeps

\* What is compiled is new to the bootstrap plan and waits for it or for other
\* compiled tasks.
LEMMA CompiledFacts ==
    ASSUME NEW tasks \in SUBSET Tasks, ProvisionalTasks \subseteq tasks,
           NEW edges \in [WorkItems -> SUBSET WorkItems]
    PROVE  /\ CompiledTasks(tasks) \subseteq Tasks
           /\ CompiledTasks(tasks) \cap Bootstrap = {}
           /\ {QA, Acceptance} \cup ReadinessTasks(tasks) \subseteq CompiledTasks(tasks)
           /\ {Item(i) : i \in WorkItems} \subseteq CompiledTasks(tasks)
           /\ \A t \in CompiledTasks(tasks) :
                /\ CompiledDeps(tasks, edges, t) \subseteq tasks \cup CompiledTasks(tasks)
                /\ \A d \in CompiledDeps(tasks, edges, t) :
                     d.stage = "implementation" => t = QA \/ t.stage = "implementation"
           /\ {Item(i) : i \in WorkItems} \subseteq CompiledDeps(tasks, edges, QA)
<1>1. /\ CompiledTasks(tasks) \subseteq Tasks
      /\ {QA, Acceptance} \cup ReadinessTasks(tasks) \subseteq CompiledTasks(tasks)
      /\ {Item(i) : i \in WorkItems} \subseteq CompiledTasks(tasks)
    BY TaskFacts DEF CompiledTasks, ReadinessTasks
<1>2. CompiledTasks(tasks) \cap Bootstrap = {}
    <2>1. \A t \in CompiledTasks(tasks) :
            t.stage \in {"implementation", "operational-readiness", "quality-assurance",
                        "product-acceptance"}
        BY TaskFacts DEF CompiledTasks, ReadinessTasks
    <2>2. \A t \in Bootstrap :
            t.stage \in {"review", "product-discovery", "technical-refinement"}
        BY TaskFacts DEF Bootstrap
    <2>. QED  BY <2>1, <2>2
<1>3. {Product, Technical} \subseteq tasks /\ bootstrapEvidence(tasks) \subseteq tasks
    BY DEF ProvisionalTasks, bootstrapEvidence
<1>4. ASSUME NEW t \in CompiledTasks(tasks)
      PROVE  /\ CompiledDeps(tasks, edges, t) \subseteq tasks \cup CompiledTasks(tasks)
             /\ \A d \in CompiledDeps(tasks, edges, t) :
                  d.stage = "implementation" => t = QA \/ t.stage = "implementation"
    <2>1. CASE \E i \in WorkItems : t = Item(i)
        <3>1. PICK i \in WorkItems : t = Item(i)
            BY <2>1
        <3>2. edges[i] \subseteq WorkItems
            OBVIOUS
        <3>. QED  BY <1>1, <1>3, <3>1, <3>2, CompiledDepsFacts, TaskFacts
    <2>2. CASE t = QA
        BY <1>1, <1>3, <2>2, CompiledDepsFacts
    <2>3. CASE t \in ReadinessTasks(tasks)
        <3>1. PICK r \in Operational : t = Readiness(r) /\ Review(r) \in tasks
            BY <2>3 DEF ReadinessTasks
        <3>2. QA.stage # "implementation" /\ Review(r).stage # "implementation"
            BY TaskFacts DEF Review, Task
        <3>. QED  BY <1>1, <3>1, <3>2, CompiledDepsFacts
    <2>4. CASE t = Acceptance
        <3>1. \A d \in ReadinessTasks(tasks) : d.stage = "operational-readiness"
            BY DEF ReadinessTasks, Readiness, Task
        <3>. QED  BY <1>1, <2>4, <3>1, CompiledDepsFacts, TaskFacts
    <2>. QED  BY <2>1, <2>2, <2>3, <2>4 DEF CompiledTasks
<1>. QED  BY <1>1, <1>2, <1>4, CompiledDepsFacts

\* The refinement leaves the graph alone, or replaces the provisional one by one
\* in which the Technical Lead, who has not begun, waits for every review.
LEMMA RefineFacts ==
    ASSUME Inv, RefineBootstrapTopology
    PROVE  /\ pc = "refine"
           /\ \/ pc' \in {"recover", "idle"} /\ UNCHANGED <<phase, planned, status, deps>>
              \/ /\ pc' = "recover" /\ phase = "provisional" /\ phase' = "refined"
                 /\ status[Technical] \in Waiting /\ run \notin TerminalRun
                 /\ \E R \in SUBSET {Review(r) : r \in Reviews} :
                      /\ planned' = planned \cup R
                      /\ status' = [t \in Tasks |-> IF t \in R THEN "routed" ELSE status[t]]
                      /\ deps' \in [Tasks -> SUBSET Tasks]
                      /\ \A t \in R : deps'[t] \subseteq {Product} \cup R
                      /\ deps'[Technical] = {Product} \cup R
                      /\ \A t \in Tasks \ (R \cup {Technical}) : deps'[t] = deps[t]
           /\ UNCHANGED <<intent, maxParallel, brief, itemDeps, result, lapsed, cancelling,
                          cancel, run, attempt, waiting, batch, disturbed>>
<1>. DEFINE plan == refineBootstrapPlanFromProductDiscovery(brief)
<1>1. /\ pc = "refine"
      /\ UNCHANGED <<intent, maxParallel, brief, itemDeps, result, lapsed, cancelling,
                     cancel, run, attempt, waiting, batch, disturbed>>
    BY DEF RefineBootstrapTopology, handoffs, execution, operator
<1>2. \/ pc' \in {"recover", "idle"} /\ UNCHANGED <<phase, planned, status, deps>>
      \/ /\ pc' = "recover" /\ phase = "provisional"
         /\ status[Technical] \in Waiting /\ run \notin TerminalRun
         /\ applyBootstrapPlanRefinement(plan)
    BY DEF RefineBootstrapTopology
<1>3. ASSUME applyBootstrapPlanRefinement(plan)
      PROVE  /\ phase' = "refined"
             /\ \E R \in SUBSET {Review(r) : r \in Reviews} :
                  /\ planned' = planned \cup R
                  /\ status' = [t \in Tasks |-> IF t \in R THEN "routed" ELSE status[t]]
                  /\ deps' \in [Tasks -> SUBSET Tasks]
                  /\ \A t \in R : deps'[t] \subseteq {Product} \cup R
                  /\ deps'[Technical] = {Product} \cup R
                  /\ \A t \in Tasks \ (R \cup {Technical}) : deps'[t] = deps[t]
    <2>1. plan.reviews \subseteq Reviews
        BY RefinedPlanFacts, BriefType DEF Inv, TypeOK, EdgesInv
    <2>. DEFINE R == ReviewTasks(plan)
    <2>2. R \in SUBSET {Review(r) : r \in Reviews}
        BY <2>1 DEF ReviewTasks
    <2>3. /\ phase' = "refined" /\ planned' = planned \cup R
          /\ status' = [t \in Tasks |-> IF t \in R THEN "routed" ELSE status[t]]
          /\ deps' = [t \in Tasks |-> IF t \in R \cup {Technical}
                                      THEN BootstrapDeps(plan, t) ELSE deps[t]]
        BY <1>3 DEF applyBootstrapPlanRefinement
    <2>4. \A t : BootstrapDeps(plan, t) \subseteq {Product} \cup R
        BY DEF BootstrapDeps, ReviewTasks, reviewDependenciesForStage
    <2>5. BootstrapDeps(plan, Technical) = {Product} \cup R
        BY DEF BootstrapDeps
    <2>. HIDE DEF plan, R
    <2>6. R \subseteq Tasks /\ Product \in Tasks /\ Technical \in Tasks
        BY <2>2, TaskFacts
    <2>7. deps' \in [Tasks -> SUBSET Tasks]
        BY <2>3, <2>4, <2>6 DEF Inv, TypeOK
    <2>8. Technical \notin R
        BY <2>2, TaskFacts
    <2>. QED  BY <2>2, <2>3, <2>4, <2>5, <2>6, <2>7, <2>8
<1>. HIDE DEF plan
<1>. QED  BY <1>1, <1>2, <1>3

\* A compilation leaves the graph alone or adds the compiled tasks that have no
\* row, when the Technical Lead is done.
LEMMA CompileFacts ==
    ASSUME Inv, CompileRefinedDag
    PROVE  /\ pc = "compile"
           /\ \/ /\ pc' \in {"idle", "settle"}
                 /\ phase = "compiled" \/ status[Technical] \notin Success
                 /\ run \in TerminalRun => pc' = "idle"
                 /\ UNCHANGED <<status, deps>>
              \/ /\ pc' = "replace-plan" /\ phase = "refined" /\ status[Technical] \in Success
                 /\ intent = "execute" => addTasks
                 /\ intent # "execute" => UNCHANGED <<status, deps>>
           /\ UNCHANGED <<intent, maxParallel, brief, itemDeps, phase, planned, result,
                          lapsed, cancelling, cancel, run, attempt, waiting, batch, disturbed>>
<1>1. /\ pc = "compile"
      /\ UNCHANGED <<intent, maxParallel, brief, itemDeps, phase, planned, result,
                     lapsed, cancelling, cancel, run, attempt, waiting, batch, disturbed>>
    BY DEF CompileRefinedDag, handoffs, execution, operator
<1>2. CASE evaluateCompile(phase, status[Technical] \in Success)
    <2>1. phase # "compiled" /\ status[Technical] \in Success
        BY <1>2 DEF evaluateCompile
    <2>2. phase # "provisional"
        <3>1. status[Technical] \notin {"absent", "routed", "cancelled"}
            BY <2>1 DEF Success
        <3>. QED  BY <3>1, TaskFacts DEF Inv, AttemptsInv
    <2>3. phase = "refined"
        BY <2>1, <2>2 DEF Inv, TypeOK
    <2>. QED  BY <1>1, <1>2, <2>1, <2>3 DEF CompileRefinedDag
<1>3. CASE ~evaluateCompile(phase, status[Technical] \in Success)
    BY <1>1, <1>3 DEF CompileRefinedDag, evaluateCompile
<1>. QED  BY <1>2, <1>3

\* What addTasks adds.
LEMMA AddTasksFacts ==
    ASSUME Inv, addTasks
    PROVE  \E added \in SUBSET CompiledTasks(planned) :
             /\ added = {t \in CompiledTasks(planned) : status[t] = "absent"}
             /\ status' = [t \in Tasks |-> IF t \in added THEN "routed" ELSE status[t]]
             /\ deps' \in [Tasks -> SUBSET Tasks]
             /\ \A t \in added : deps'[t] = CompiledDeps(planned, itemDeps, t)
             /\ \A t \in Tasks \ added : deps'[t] = deps[t]
<1>. DEFINE added == {t \in CompiledTasks(planned) : status[t] = "absent"}
<1>1. /\ status' = [t \in Tasks |-> IF t \in added THEN "routed" ELSE status[t]]
      /\ deps' = [t \in Tasks |-> IF t \in added THEN CompiledDeps(planned, itemDeps, t)
                                                  ELSE deps[t]]
    BY DEF addTasks
<1>2. planned \in SUBSET Tasks /\ ProvisionalTasks \subseteq planned
      /\ itemDeps \in [WorkItems -> SUBSET WorkItems]
    BY DEF Inv, TypeOK, RowsInv
<1>3. added \subseteq Tasks /\ \A t \in added : CompiledDeps(planned, itemDeps, t) \subseteq Tasks
    BY <1>2, CompiledFacts
<1>4. deps' \in [Tasks -> SUBSET Tasks]
    BY <1>1, <1>3 DEF Inv, TypeOK
<1>. HIDE DEF added
<1>5. added \in SUBSET CompiledTasks(planned)
      /\ added = {t \in CompiledTasks(planned) : status[t] = "absent"}
    BY DEF added
<1>. QED  BY <1>1, <1>3, <1>4, <1>5

\* Every step keeps the types.
LEMMA TypeStep ==
    ASSUME Inv, [Next]_vars
    PROVE  TypeOK'
<1>1. CASE UNCHANGED vars
    BY <1>1 DEF Inv, TypeOK, vars
<1>2. CASE BeginPass
    BY <1>2 DEF Inv, TypeOK, OnlyRows, graph, handoffs, operator, execution, BeginPass
<1>3. ASSUME NEW t \in Tasks, FinalizeResult(t) PROVE TypeOK'
    <2>1. CASE UNCHANGED status
        <3>1. Reopenable \subseteq Tasks
            BY DEF Reopenable, Inv, TypeOK, EdgesInv, QA, Tasks
        <3>. QED  BY <1>3, <2>1, <3>1, FinalizeFacts DEF Inv, TypeOK, Waiting, Terminal
    <2>2. CASE status' # status
        BY <1>3, <2>2, FinalizeFacts DEF Inv, TypeOK, Waiting, Terminal
    <2>. QED  BY <2>1, <2>2
<1>4. ASSUME NEW t \in Tasks, ReopenForQaRepair(t) PROVE TypeOK'
    BY <1>4 DEF Inv, TypeOK, OnlyRows, graph, handoffs, operator, execution, Waiting,
       Active, Terminal, Success, Failure, ReopenForQaRepair
<1>5. CASE QaRepairScheduled
    BY <1>5 DEF Inv, TypeOK, OnlyRows, graph, handoffs, operator, execution, Waiting,
       Active, Terminal, Success, Failure, QaRepairScheduled, QA, Tasks
<1>6. CASE ResultsFinalized
    BY <1>6 DEF Inv, TypeOK, OnlyRows, graph, handoffs, operator, execution,
       ResultsFinalized
<1>7. CASE RefineBootstrapTopology
    <2>1. CASE UNCHANGED <<phase, planned, status, deps>>
        BY <1>7, <2>1, RefineFacts DEF Inv, TypeOK
    <2>2. CASE phase' = "refined"
        <3>1. {Review(r) : r \in Reviews} \subseteq Tasks
            BY TaskFacts
        <3>. QED  BY <1>7, <2>2, <3>1, RefineFacts DEF Inv, TypeOK, Waiting
    <2>. QED  BY <1>7, <2>1, <2>2, RefineFacts
<1>8. CASE recoverExpiredExecutions
    BY <1>8 DEF Inv, TypeOK, OnlyRows, graph, handoffs, operator, execution, Waiting,
       Active, Terminal, Success, Failure, recoverExpiredExecutions
<1>9. CASE CascadeRound
    BY <1>9 DEF Inv, TypeOK, OnlyRows, graph, handoffs, operator, execution, Waiting,
       Active, Terminal, Success, Failure, CascadeRound
<1>10. CASE CascadeDone
    BY <1>10 DEF Inv, TypeOK, OnlyRows, graph, handoffs, operator, execution, CascadeDone
<1>11. CASE CompileRefinedDag
    <2>1. CASE UNCHANGED <<status, deps>>
        BY <1>11, <2>1, CompileFacts DEF Inv, TypeOK
    <2>2. CASE addTasks
        BY <1>11, <2>2, CompileFacts, AddTasksFacts DEF Inv, TypeOK, Waiting
    <2>. QED  BY <1>11, <2>1, <2>2, CompileFacts
<1>12. CASE replacePlan
    BY <1>12 DEF Inv, TypeOK, OnlyRows, graph, handoffs, operator, execution, replacePlan,
       CompiledTasks, ReadinessTasks, Tasks
<1>13. CASE ClosePlanOnlyRun
    BY <1>13 DEF Inv, TypeOK, OnlyRows, graph, handoffs, operator, execution, EndRun,
       TerminalRun, ClosePlanOnlyRun
<1>14. CASE SettleRun
    <2>1. FinalStatus \in TerminalRun
        BY DEF FinalStatus, TerminalRun
    <2>. QED  BY <1>14, <2>1 DEF Inv, TypeOK, OnlyRows, graph, handoffs, operator,
                 execution, SettleRun, EndRun
<1>15. CASE SelectReady
    BY <1>15 DEF Inv, TypeOK, OnlyRows, graph, handoffs, operator, execution, SelectReady,
       selectReadyDispatchTasks, FirstReady, Ready
<1>16. ASSUME NEW t \in Tasks, DispatchReadyTask(t) PROVE TypeOK'
    BY <1>16 DEF Inv, TypeOK, OnlyRows, graph, handoffs, operator, execution, Waiting,
       Active, Terminal, Success, Failure, DispatchReadyTask
<1>17. CASE DispatchDone
    BY <1>17 DEF Inv, TypeOK, OnlyRows, graph, handoffs, operator, execution, DispatchDone
<1>18. CASE PassFails
    BY <1>18, BoundsAssumption DEF Inv, TypeOK, OnlyRows, graph, handoffs, operator,
       execution, PassFails, Disturb
<1>19. ASSUME NEW t \in Tasks, Claim(t) PROVE TypeOK'
    BY <1>19 DEF Inv, TypeOK, OnlyRows, graph, handoffs, operator, execution, Waiting,
       Active, Terminal, Success, Failure, Claim
<1>20. ASSUME NEW t \in Tasks, WorkerDies(t) PROVE TypeOK'
    BY <1>20, BoundsAssumption DEF Inv, TypeOK, OnlyRows, graph, handoffs, operator,
       execution, WorkerDies, Disturb
<1>21. ASSUME NEW t \in Tasks, RetryWindowOpens(t) PROVE TypeOK'
    BY <1>21 DEF Inv, TypeOK, OnlyRows, graph, handoffs, operator, execution,
       RetryWindowOpens
<1>22. ASSUME NEW t \in Tasks, NEW f \in PreparationFailures, PreparationFails(t, f)
       PROVE  TypeOK'
    BY <1>22, BoundsAssumption DEF Inv, TypeOK, OnlyRows, graph, handoffs, operator,
       execution, Waiting, Active, Terminal, Success, Failure, PreparationFails, Disturb
<1>23. ASSUME NEW t \in Tasks, NEW o \in Outcomes, Finish(t, o) PROVE TypeOK'
    BY <1>23, BoundsAssumption DEF Inv, TypeOK, OnlyRows, graph, handoffs, operator,
       execution, Finish
<1>24. CASE StartCancel
    BY <1>24, BoundsAssumption DEF Inv, TypeOK, OnlyRows, graph, handoffs, operator,
       execution, StartCancel, Disturb, Rows
<1>25. ASSUME NEW t \in Tasks, CancelTask(t) PROVE TypeOK'
    BY <1>25 DEF Inv, TypeOK, OnlyRows, graph, handoffs, operator, execution, Waiting,
       Active, Terminal, Success, Failure, CancelTask
<1>26. CASE CancelRun
    BY <1>26 DEF Inv, TypeOK, OnlyRows, graph, handoffs, operator, execution, EndRun,
       TerminalRun, CancelRun
<1>. QED  BY <1>1, <1>2, <1>3, <1>4, <1>5, <1>6, <1>7, <1>8, <1>9, <1>10, <1>11, <1>12,
          <1>13, <1>14, <1>15, <1>16, <1>17, <1>18, <1>19, <1>20, <1>21, <1>22, <1>23,
          <1>24, <1>25, <1>26 DEF Next, PassStep, CancelStep
\* Only a refinement and a compilation add rows; none is ever removed.
LEMMA RowsStay ==
    ASSUME Inv, [Next]_vars
    PROVE  \/ RefineBootstrapTopology \/ CompileRefinedDag
           \/ Rows' = Rows
<1>1. CASE UNCHANGED vars
    BY <1>1 DEF Rows, vars
<1>2. CASE BeginPass
    BY <1>2 DEF Rows, BeginPass
<1>3. ASSUME NEW t \in Tasks, FinalizeResult(t) PROVE Rows' = Rows
    BY <1>3, FinalizeFacts DEF Inv, TypeOK, Rows, Terminal, Success, Failure
<1>4. ASSUME NEW t \in Tasks, ReopenForQaRepair(t) PROVE Rows' = Rows
    BY <1>4 DEF Inv, TypeOK, ResultsInv, AttemptsInv, RowsInv, Rows, ReopenForQaRepair,
       IsFirst
<1>5. CASE QaRepairScheduled
    <2>1. attempt[QA] \in Nat /\ attempt[QA] # 0
        BY <1>5, TaskFacts DEF Inv, TypeOK, ResultsInv, AttemptsInv, QaRepairScheduled
    <2>2. QA \in planned
        BY <2>1, TaskFacts DEF Inv, AttemptsInv
    <2>. QED  BY <1>5, <2>2 DEF Inv, TypeOK, RowsInv, Rows, QaRepairScheduled
<1>6. CASE ResultsFinalized
    BY <1>6 DEF Rows, ResultsFinalized, OnlyRows
<1>7. CASE RefineBootstrapTopology
    BY <1>7
<1>8. CASE recoverExpiredExecutions
    BY <1>8 DEF Inv, TypeOK, Rows, recoverExpiredExecutions
<1>9. CASE CascadeRound
    BY <1>9 DEF Inv, TypeOK, Rows, CascadeRound, Doomed, Waiting
<1>10. CASE CascadeDone
    BY <1>10 DEF Rows, CascadeDone, OnlyRows
<1>11. CASE CompileRefinedDag
    BY <1>11
<1>12. CASE replacePlan
    BY <1>12 DEF Rows, replacePlan
<1>13. CASE ClosePlanOnlyRun
    BY <1>13 DEF Rows, ClosePlanOnlyRun
<1>14. CASE SettleRun
    BY <1>14 DEF Rows, SettleRun
<1>15. CASE SelectReady
    BY <1>15 DEF Rows, SelectReady
<1>16. ASSUME NEW t \in Tasks, DispatchReadyTask(t) PROVE Rows' = Rows
    BY <1>16 DEF Inv, TypeOK, Rows, DispatchReadyTask, Waiting
<1>17. CASE DispatchDone
    BY <1>17 DEF Rows, DispatchDone, OnlyRows
<1>18. CASE PassFails
    BY <1>18 DEF Rows, PassFails
<1>19. ASSUME NEW t \in Tasks, Claim(t) PROVE Rows' = Rows
    BY <1>19 DEF Inv, TypeOK, Rows, Claim
<1>20. ASSUME NEW t \in Tasks, WorkerDies(t) PROVE Rows' = Rows
    BY <1>20 DEF Rows, WorkerDies
<1>21. ASSUME NEW t \in Tasks, RetryWindowOpens(t) PROVE Rows' = Rows
    BY <1>21 DEF Rows, RetryWindowOpens
<1>22. ASSUME NEW t \in Tasks, NEW f \in PreparationFailures, PreparationFails(t, f)
       PROVE  Rows' = Rows
    BY <1>22 DEF Inv, TypeOK, AttemptsInv, RowsInv, Rows, PreparationFails, IsFirst
<1>23. ASSUME NEW t \in Tasks, NEW o \in Outcomes, Finish(t, o) PROVE Rows' = Rows
    BY <1>23 DEF Rows, Finish
<1>24. CASE StartCancel
    BY <1>24 DEF Rows, StartCancel
<1>25. ASSUME NEW t \in Tasks, CancelTask(t) PROVE Rows' = Rows
    BY <1>25 DEF Inv, TypeOK, RowsInv, Rows, CancelTask, IsFirst
<1>26. CASE CancelRun
    BY <1>26 DEF Rows, CancelRun
<1>. QED  BY <1>1, <1>2, <1>3, <1>4, <1>5, <1>6, <1>7, <1>8, <1>9, <1>10, <1>11, <1>12,
          <1>13, <1>14, <1>15, <1>16, <1>17, <1>18, <1>19, <1>20, <1>21, <1>22, <1>23,
          <1>24, <1>25, <1>26 DEF Next, PassStep, CancelStep

\* As long as nobody cancels the run, only Quality Assurance takes integrated
\* work back.
LEMMA SuccessStays ==
    ASSUME Inv, [Next]_vars
    PROVE  \A u \in Tasks : cancel' = "none" /\ status[u] \in Success /\ status'[u] \notin Success
                             => ReopenForQaRepair(u)
<1>. DEFINE Stays == \A u \in Tasks : /\ cancel' = "none" /\ status[u] \in Success
                                       /\ status'[u] \notin Success
                                       => ReopenForQaRepair(u)
<1>1. CASE UNCHANGED vars
    BY <1>1 DEF vars
<1>2. CASE BeginPass
    BY <1>2 DEF BeginPass
<1>3. ASSUME NEW t \in Tasks, FinalizeResult(t) PROVE Stays
    BY <1>3, FinalizeFacts DEF Inv, TypeOK
<1>4. ASSUME NEW t \in Tasks, ReopenForQaRepair(t) PROVE Stays
    BY <1>4 DEF Inv, TypeOK, ReopenForQaRepair
<1>5. CASE QaRepairScheduled
    BY <1>5, TaskFacts DEF Inv, TypeOK, ResultsInv, Success, QaRepairScheduled, operator
<1>6. CASE ResultsFinalized
    BY <1>6 DEF ResultsFinalized, OnlyRows
<1>7. CASE RefineBootstrapTopology
    <2>1. \A r \in Reviews : Review(r) \notin ProvisionalTasks
        BY TaskFacts DEF ProvisionalTasks
    <2>2. phase = "provisional" => \A r \in Reviews : status[Review(r)] = "absent"
        BY <2>1, TaskFacts DEF Inv, RowsInv, Rows
    <2>. QED  BY <1>7, <2>2, RefineFacts DEF Success
<1>8. CASE recoverExpiredExecutions
    BY <1>8 DEF Inv, TypeOK, Success, recoverExpiredExecutions
<1>9. CASE CascadeRound
    BY <1>9 DEF Inv, TypeOK, CascadeRound, Doomed, Waiting, Success
<1>10. CASE CascadeDone
    BY <1>10 DEF CascadeDone, OnlyRows
<1>11. CASE CompileRefinedDag
    <2>1. CASE UNCHANGED status
        BY <2>1
    <2>2. CASE addTasks
        BY <2>2, AddTasksFacts DEF Success
    <2>. QED  BY <1>11, <2>1, <2>2, CompileFacts
<1>12. CASE replacePlan
    BY <1>12 DEF replacePlan
<1>13. CASE ClosePlanOnlyRun
    BY <1>13 DEF ClosePlanOnlyRun
<1>14. CASE SettleRun
    BY <1>14 DEF SettleRun
<1>15. CASE SelectReady
    BY <1>15 DEF SelectReady
<1>16. ASSUME NEW t \in Tasks, DispatchReadyTask(t) PROVE Stays
    BY <1>16 DEF Inv, TypeOK, DispatchReadyTask, Waiting, Success
<1>17. CASE DispatchDone
    BY <1>17 DEF DispatchDone, OnlyRows
<1>18. CASE PassFails
    BY <1>18 DEF PassFails
<1>19. ASSUME NEW t \in Tasks, Claim(t) PROVE Stays
    BY <1>19 DEF Inv, TypeOK, Claim, Success
<1>20. ASSUME NEW t \in Tasks, WorkerDies(t) PROVE Stays
    BY <1>20 DEF WorkerDies
<1>21. ASSUME NEW t \in Tasks, RetryWindowOpens(t) PROVE Stays
    BY <1>21 DEF RetryWindowOpens
<1>22. ASSUME NEW t \in Tasks, NEW f \in PreparationFailures, PreparationFails(t, f)
       PROVE  Stays
    BY <1>22 DEF Inv, TypeOK, WorkInv, PreparationFails, IsFirst, Waiting, Success, operator
<1>23. ASSUME NEW t \in Tasks, NEW o \in Outcomes, Finish(t, o) PROVE Stays
    BY <1>23 DEF Finish
<1>24. CASE StartCancel
    BY <1>24 DEF StartCancel
<1>25. ASSUME NEW t \in Tasks, CancelTask(t) PROVE Stays
    BY <1>25 DEF CancelTask
<1>26. CASE CancelRun
    BY <1>26 DEF CancelRun
<1>. QED  BY <1>1, <1>2, <1>3, <1>4, <1>5, <1>6, <1>7, <1>8, <1>9, <1>10, <1>11, <1>12,
          <1>13, <1>14, <1>15, <1>16, <1>17, <1>18, <1>19, <1>20, <1>21, <1>22, <1>23,
          <1>24, <1>25, <1>26 DEF Next, PassStep, CancelStep

\* RowsInv is kept.
LEMMA RowsStep ==
    ASSUME Inv, [Next]_vars
    PROVE  RowsInv'
<1>1. RefineBootstrapTopology \/ CompileRefinedDag \/ Rows' = Rows
    BY RowsStay
<1>2. cancel' = "none" /\ status[Technical] \in Success => status'[Technical] \in Success
    BY SuccessStays, TaskFacts DEF ReopenForQaRepair, IsFirst, Inv, ResultsInv
<1>3. ASSUME Rows' = Rows, UNCHANGED <<intent, phase, planned>>, cancelling' \subseteq Rows,
             cancel' = "none" => cancel = "none",
             pc' \notin {"settle", "select", "dispatch", "cascade-again", "settle-again",
                        "close-plan", "replace-plan"} \/ pc' = pc
      PROVE  RowsInv'
    BY <1>2, <1>3 DEF Inv, RowsInv
<1>4. CASE UNCHANGED vars
    <2>1. Rows' = Rows
        BY <1>4 DEF vars, Rows
    <2>. QED  BY <1>3, <1>4, <2>1 DEF Inv, RowsInv, vars
<1>5. CASE BeginPass
    <2>1. Rows' = Rows
        BY <1>1, <1>5 DEF BeginPass, RefineBootstrapTopology, CompileRefinedDag
    <2>. QED  BY <1>3, <1>5, <2>1 DEF Inv, RowsInv, BeginPass, graph, handoffs, operator
<1>6. ASSUME NEW t \in Tasks, FinalizeResult(t) PROVE RowsInv'
    <2>1. Rows' = Rows
        BY <1>1, <1>6 DEF FinalizeResult, RefineBootstrapTopology, CompileRefinedDag
    <2>. QED  BY <1>3, <1>6, <2>1, FinalizeFacts DEF Inv, RowsInv
<1>7. ASSUME NEW t \in Tasks, ReopenForQaRepair(t) PROVE RowsInv'
    <2>1. Rows' = Rows
        BY <1>1, <1>7 DEF ReopenForQaRepair, RefineBootstrapTopology, CompileRefinedDag
    <2>. QED  BY <1>3, <1>7, <2>1 DEF Inv, RowsInv, ReopenForQaRepair, graph, handoffs,
                 operator
<1>8. CASE QaRepairScheduled
    <2>1. Rows' = Rows
        BY <1>1, <1>8 DEF QaRepairScheduled, RefineBootstrapTopology, CompileRefinedDag
    <2>. QED  BY <1>3, <1>8, <2>1 DEF Inv, RowsInv, QaRepairScheduled, graph, handoffs,
                 operator
<1>9. CASE ResultsFinalized
    <2>1. Rows' = Rows
        BY <1>1, <1>9 DEF ResultsFinalized, RefineBootstrapTopology, CompileRefinedDag
    <2>. QED  BY <1>3, <1>9, <2>1 DEF Inv, RowsInv, ResultsFinalized, graph, handoffs,
                 operator, OnlyRows
<1>10. CASE RefineBootstrapTopology
    <2>1. CASE UNCHANGED <<phase, planned, status, deps>>
        <3>1. Rows' = Rows
            BY <2>1 DEF Rows
        <3>. QED  BY <1>3, <1>10, <2>1, <3>1, RefineFacts DEF Inv, RowsInv
    <2>2. CASE phase' = "refined" /\ phase = "provisional"
        <3>1. PICK R \in SUBSET {Review(r) : r \in Reviews} :
                /\ planned' = planned \cup R
                /\ status' = [t \in Tasks |-> IF t \in R THEN "routed" ELSE status[t]]
            BY <1>10, <2>2, RefineFacts
        <3>2. R \subseteq Tasks /\ R \subseteq Bootstrap /\ ProvisionalTasks \subseteq Bootstrap
            BY TaskFacts DEF Bootstrap, ProvisionalTasks
        <3>3. Rows' = Rows \cup R
            BY <3>1, <3>2 DEF Rows
        <3>4. Rows = ProvisionalTasks /\ planned = ProvisionalTasks
            BY <2>2 DEF Inv, RowsInv
        <3>5. pc' = "recover" /\ cancelling' = cancelling
            BY <1>10, <2>2, RefineFacts
        <3>. QED  BY <2>2, <3>1, <3>2, <3>3, <3>4, <3>5 DEF Inv, RowsInv
    <2>. QED  BY <1>10, <2>1, <2>2, RefineFacts
<1>11. CASE recoverExpiredExecutions
    <2>1. Rows' = Rows
        BY <1>1, <1>11 DEF recoverExpiredExecutions, RefineBootstrapTopology,
           CompileRefinedDag
    <2>. QED  BY <1>3, <1>11, <2>1 DEF Inv, RowsInv, recoverExpiredExecutions, graph,
                 handoffs, operator
<1>12. CASE CascadeRound
    <2>1. Rows' = Rows
        BY <1>1, <1>12 DEF CascadeRound, RefineBootstrapTopology, CompileRefinedDag
    <2>. QED  BY <1>3, <1>12, <2>1 DEF Inv, RowsInv, CascadeRound, graph, handoffs,
                 operator, OnlyRows
<1>13. CASE CascadeDone
    <2>1. Rows' = Rows
        BY <1>13 DEF CascadeDone, Rows, OnlyRows
    <2>. QED  BY <1>2, <1>13, <2>1 DEF Inv, RowsInv, CascadeDone, graph, operator, OnlyRows
<1>14. CASE CompileRefinedDag
    <2>1. CASE UNCHANGED <<status, deps>>
        <3>1. Rows' = Rows
            BY <2>1 DEF Rows
        <3>2. pc = "compile" /\ UNCHANGED <<intent, phase, planned, cancelling, cancel>>
            BY <1>14, CompileFacts
        <3>3. CASE pc' \in {"idle", "settle"}
            <4>1. Rows \subseteq planned \/ cancel # "none"
                BY <1>14, <3>3, CompileFacts DEF Inv, RowsInv
            <4>. QED  BY <1>2, <3>1, <3>2, <3>3, <4>1 DEF Inv, RowsInv
        <3>4. CASE pc' = "replace-plan" /\ phase = "refined" /\ intent # "execute"
            BY <1>2, <3>1, <3>2, <3>4 DEF Inv, RowsInv
        <3>5. CASE addTasks /\ pc' = "replace-plan" /\ phase = "refined"
            <4>1. \A t \in CompiledTasks(planned) : status[t] # "absent"
                BY <2>1, <3>5, AddTasksFacts, CompiledFacts DEF Inv, RowsInv, TypeOK
            <4>2. CompiledTasks(planned) \subseteq Rows
                BY <4>1, CompiledFacts DEF Inv, RowsInv, TypeOK, Rows
            <4>. QED  BY <1>2, <3>1, <3>2, <3>5, <4>2 DEF Inv, RowsInv
        <3>. QED  BY <1>14, <3>3, <3>4, <3>5, CompileFacts
    <2>2. CASE addTasks /\ pc' = "replace-plan" /\ phase = "refined" /\ intent = "execute"
               /\ status[Technical] \in Success
        <3>1. CompiledTasks(planned) \subseteq Tasks
            BY CompiledFacts DEF Inv, TypeOK, RowsInv
        <3>2. Rows' = Rows \cup CompiledTasks(planned)
            BY <2>2, <3>1, AddTasksFacts DEF Rows
        <3>3. Rows' = planned \cup CompiledTasks(planned)
            BY <3>2 DEF Inv, RowsInv
        <3>4. UNCHANGED <<intent, phase, planned, cancelling, cancel>>
            BY <1>14, CompileFacts
        <3>. QED  BY <1>2, <2>2, <3>2, <3>3, <3>4 DEF Inv, RowsInv
    <2>. QED  BY <1>14, <2>1, <2>2, CompileFacts DEF Inv, TypeOK
<1>15. CASE replacePlan
    <2>1. Rows' = Rows
        BY <1>15 DEF replacePlan, Rows
    <2>2. phase = "refined" /\ (intent = "execute" => CompiledTasks(planned) \subseteq Rows)
        BY <1>15 DEF Inv, RowsInv, replacePlan
    <2>3. CASE intent = "execute"
        <3>1. planned' = planned \cup CompiledTasks(planned)
            BY <1>15, <2>3 DEF replacePlan
        <3>2. ReadinessTasks(planned') = ReadinessTasks(planned)
            <4>1. \A r \in Operational : Review(r) \notin CompiledTasks(planned)
                <5>1. CompiledTasks(planned) \cap Bootstrap = {}
                    BY CompiledFacts DEF Inv, TypeOK, RowsInv
                <5>2. \A r \in Operational : Review(r) \in Bootstrap
                    BY CatalogAssumption DEF Bootstrap
                <5>. QED  BY <5>1, <5>2
            <4>. QED  BY <3>1, <4>1 DEF ReadinessTasks
        <3>3. CompiledTasks(planned') = CompiledTasks(planned)
            BY <3>2 DEF CompiledTasks
        <3>4. Rows = planned'
            BY <2>2, <2>3, <3>1 DEF Inv, RowsInv
        <3>. QED  BY <1>15, <2>1, <2>2, <2>3, <3>1, <3>3, <3>4 DEF Inv, RowsInv,
                     replacePlan, operator
    <2>4. CASE intent # "execute"
        BY <1>15, <2>1, <2>2, <2>4 DEF Inv, RowsInv, replacePlan, operator
    <2>. QED  BY <2>3, <2>4
<1>16. CASE ClosePlanOnlyRun
    <2>1. Rows' = Rows
        BY <1>16 DEF ClosePlanOnlyRun, Rows
    <2>. QED  BY <1>2, <1>16, <2>1 DEF Inv, RowsInv, ClosePlanOnlyRun, graph, operator
<1>17. CASE SettleRun
    <2>1. Rows' = Rows
        BY <1>17 DEF SettleRun, Rows
    <2>. QED  BY <1>2, <1>17, <2>1 DEF Inv, RowsInv, SettleRun, graph, operator
<1>18. CASE SelectReady
    <2>1. Rows' = Rows
        BY <1>18 DEF SelectReady, Rows
    <2>. QED  BY <1>2, <1>18, <2>1 DEF Inv, RowsInv, SelectReady, graph, operator
<1>19. ASSUME NEW t \in Tasks, DispatchReadyTask(t) PROVE RowsInv'
    <2>1. Rows' = Rows
        BY <1>1, <1>19 DEF DispatchReadyTask, RefineBootstrapTopology, CompileRefinedDag
    <2>. QED  BY <1>3, <1>19, <2>1 DEF Inv, RowsInv, DispatchReadyTask, graph, handoffs,
                 operator
<1>20. CASE DispatchDone
    <2>1. Rows' = Rows
        BY <1>20 DEF DispatchDone, Rows, OnlyRows
    <2>. QED  BY <1>2, <1>20, <2>1 DEF Inv, RowsInv, DispatchDone, graph, operator, OnlyRows
<1>21. CASE PassFails
    <2>1. Rows' = Rows
        BY <1>21 DEF PassFails, Rows
    <2>. QED  BY <1>3, <1>21, <2>1 DEF Inv, RowsInv, PassFails, graph, operator
<1>22. ASSUME NEW t \in Tasks, Claim(t) PROVE RowsInv'
    <2>1. Rows' = Rows
        BY <1>22 DEF Inv, TypeOK, Claim, Rows
    <2>. QED  BY <1>3, <1>22, <2>1 DEF Inv, RowsInv, Claim, graph, operator
<1>23. ASSUME NEW t \in Tasks, WorkerDies(t) PROVE RowsInv'
    <2>1. Rows' = Rows
        BY <1>23 DEF WorkerDies, Rows
    <2>. QED  BY <1>3, <1>23, <2>1 DEF Inv, RowsInv, WorkerDies, graph, operator
<1>24. ASSUME NEW t \in Tasks, RetryWindowOpens(t) PROVE RowsInv'
    <2>1. Rows' = Rows
        BY <1>24 DEF RetryWindowOpens, Rows
    <2>. QED  BY <1>3, <1>24, <2>1 DEF Inv, RowsInv, RetryWindowOpens, graph, operator
<1>25. ASSUME NEW t \in Tasks, NEW f \in PreparationFailures, PreparationFails(t, f)
       PROVE  RowsInv'
    <2>1. Rows' = Rows
        BY <1>1, <1>25 DEF PreparationFails, RefineBootstrapTopology, CompileRefinedDag
    <2>. QED  BY <1>3, <1>25, <2>1 DEF Inv, RowsInv, PreparationFails, graph, handoffs,
                 operator
<1>26. ASSUME NEW t \in Tasks, NEW o \in Outcomes, Finish(t, o) PROVE RowsInv'
    <2>1. Rows' = Rows
        BY <1>26 DEF Finish, Rows
    <2>. QED  BY <1>3, <1>26, <2>1 DEF Inv, RowsInv, Finish, graph, operator
<1>27. CASE StartCancel
    <2>1. Rows' = Rows /\ cancelling' \subseteq Rows
        BY <1>27 DEF StartCancel, Rows
    <2>. QED  BY <1>3, <1>27, <2>1 DEF StartCancel, graph
<1>28. ASSUME NEW t \in Tasks, CancelTask(t) PROVE RowsInv'
    <2>1. Rows' = Rows
        BY <1>28 DEF Inv, TypeOK, RowsInv, CancelTask, IsFirst, Rows
    <2>. QED  BY <1>3, <1>28, <2>1 DEF Inv, RowsInv, CancelTask, graph
<1>29. CASE CancelRun
    <2>1. Rows' = Rows
        BY <1>29 DEF CancelRun, Rows
    <2>. QED  BY <1>3, <1>29, <2>1 DEF Inv, RowsInv, CancelRun, graph, operator
<1>. QED  BY <1>4, <1>5, <1>6, <1>7, <1>8, <1>9, <1>10, <1>11, <1>12, <1>13, <1>14,
          <1>15, <1>16, <1>17, <1>18, <1>19, <1>20, <1>21, <1>22, <1>23, <1>24, <1>25,
          <1>26, <1>27, <1>28, <1>29 DEF Next, PassStep, CancelStep

\* The plan and the edges change where a handoff is accepted and in the three
\* steps that refine and compile.
LEMMA GraphStays ==
    ASSUME [Next]_vars
    PROVE  \/ \E t \in Tasks : FinalizeResult(t)
           \/ RefineBootstrapTopology \/ CompileRefinedDag \/ replacePlan
           \/ UNCHANGED <<intent, maxParallel, brief, itemDeps, phase, planned, deps>>
<1>. USE DEF graph, handoffs
<1>1. CASE UNCHANGED vars
    BY <1>1 DEF vars
<1>2. CASE BeginPass \/ PassFails \/ StartCancel \/ CancelStep
    BY <1>2 DEF BeginPass, PassFails, StartCancel, CancelStep, CancelRun, CancelTask
<1>3. CASE \E t \in Tasks : Claim(t) \/ WorkerDies(t) \/ RetryWindowOpens(t)
    BY <1>3 DEF Claim, WorkerDies, RetryWindowOpens
<1>4. CASE \E t \in Tasks, f \in PreparationFailures : PreparationFails(t, f)
    BY <1>4 DEF PreparationFails
<1>5. CASE \E t \in Tasks, outcome \in Outcomes : Finish(t, outcome)
    BY <1>5 DEF Finish
<1>6. CASE PassStep
    BY <1>6 DEF PassStep, OnlyRows, ReopenForQaRepair, QaRepairScheduled, ResultsFinalized,
                recoverExpiredExecutions, CascadeRound, CascadeDone, ClosePlanOnlyRun,
                SettleRun, SelectReady, DispatchReadyTask, DispatchDone
<1>. QED  BY <1>1, <1>2, <1>3, <1>4, <1>5, <1>6 DEF Next

\* EdgesInv is kept.
LEMMA EdgesStep ==
    ASSUME Inv, [Next]_vars
    PROVE  EdgesInv'
<1>1. ASSUME UNCHANGED <<phase, deps>>, Rows' = Rows, RequirementsAreValid(brief'.facts)
      PROVE  EdgesInv'
    BY <1>1 DEF Inv, EdgesInv
<1>2. CASE /\ UNCHANGED <<intent, maxParallel, brief, itemDeps, phase, planned, deps>>
           /\ ~RefineBootstrapTopology /\ ~CompileRefinedDag
    <2>1. Rows' = Rows
        BY <1>2, RowsStay
    <2>. QED  BY <1>1, <1>2, <2>1 DEF Inv, EdgesInv
<1>3. ASSUME NEW t \in Tasks, FinalizeResult(t) PROVE EdgesInv'
    <2>1. Rows' = Rows
        BY <1>3, RowsStay, FinalizeFacts DEF RefineBootstrapTopology, CompileRefinedDag
    <2>. QED  BY <1>1, <1>3, <2>1, FinalizeFacts DEF Inv, EdgesInv
<1>4. CASE RefineBootstrapTopology
    <2>1. CASE UNCHANGED <<phase, planned, status, deps>>
        BY <1>1, <1>4, <2>1, RefineFacts DEF Inv, EdgesInv, Rows
    <2>2. CASE phase' = "refined" /\ phase = "provisional"
        <3>1. PICK R \in SUBSET {Review(r) : r \in Reviews} :
                /\ status' = [t \in Tasks |-> IF t \in R THEN "routed" ELSE status[t]]
                /\ \A t \in R : deps'[t] \subseteq {Product} \cup R
                /\ deps'[Technical] = {Product} \cup R
                /\ \A t \in Tasks \ (R \cup {Technical}) : deps'[t] = deps[t]
            BY <1>4, <2>2, RefineFacts
        <3>2. /\ R \subseteq Tasks
              /\ \A d \in {Product} \cup R : d.stage # "implementation"
            BY TaskFacts DEF Review, Task
        <3>3. Rows' = Rows \cup R
            BY <3>1, <3>2 DEF Rows
        <3>4. Rows = {Product, Technical}
            BY <2>2 DEF Inv, RowsInv, ProvisionalTasks
        <3>5. \A t \in Rows' : deps'[t] \subseteq Rows'
            <4>1. \A t \in Rows \ (R \cup {Technical}) : deps'[t] \subseteq Rows
                BY <3>1 DEF Inv, EdgesInv, Rows
            <4>. QED  BY <3>1, <3>3, <3>4, <4>1
        <3>6. \A t \in Tasks : \A d \in deps'[t] :
                d.stage = "implementation" => t = QA \/ t.stage = "implementation"
            BY <3>1, <3>2 DEF Inv, EdgesInv
        <3>7. QA \notin Rows'
            BY <3>3, <3>4, TaskFacts
        <3>8. Rows' \cap Bootstrap \subseteq {Technical} \cup deps'[Technical]
            BY <3>1, <3>3, <3>4
        <3>9. RequirementsAreValid(brief'.facts)
            BY <1>4, RefineFacts DEF Inv, EdgesInv
        <3>. QED  BY <3>5, <3>6, <3>7, <3>8, <3>9 DEF EdgesInv
    <2>. QED  BY <1>4, <2>1, <2>2, RefineFacts
<1>5. CASE CompileRefinedDag
    <2>1. CASE UNCHANGED <<status, deps>>
        BY <1>1, <1>5, <2>1, CompileFacts DEF Inv, EdgesInv, Rows
    <2>2. CASE addTasks /\ phase' = phase /\ phase = "refined" /\ brief' = brief
        <3>. DEFINE compiled == CompiledTasks(planned)
        <3>1. PICK added \in SUBSET compiled :
                /\ added = {t \in compiled : status[t] = "absent"}
                /\ status' = [t \in Tasks |-> IF t \in added THEN "routed" ELSE status[t]]
                /\ \A t \in added : deps'[t] = CompiledDeps(planned, itemDeps, t)
                /\ \A t \in Tasks \ added : deps'[t] = deps[t]
            BY <2>2, AddTasksFacts
        <3>2. /\ compiled \subseteq Tasks /\ compiled \cap Bootstrap = {}
              /\ \A t \in compiled :
                   /\ CompiledDeps(planned, itemDeps, t) \subseteq planned \cup compiled
                   /\ \A d \in CompiledDeps(planned, itemDeps, t) :
                        d.stage = "implementation" => t = QA \/ t.stage = "implementation"
              /\ {Item(i) : i \in WorkItems} \subseteq CompiledDeps(planned, itemDeps, QA)
              /\ QA \in compiled
            BY CompiledFacts DEF Inv, TypeOK, RowsInv
        <3>. HIDE DEF compiled
        <3>3. Rows' = Rows \cup compiled
            BY <3>1, <3>2 DEF Rows
        <3>4. planned \subseteq Rows
            BY DEF Inv, RowsInv
        <3>5. \A t \in Rows' : deps'[t] \subseteq Rows'
            <4>1. \A t \in Rows : deps'[t] \subseteq Rows
                BY <3>1 DEF Inv, EdgesInv, Rows
            <4>2. \A t \in added : deps'[t] \subseteq Rows'
                BY <3>1, <3>2, <3>3, <3>4
            <4>3. Rows' \subseteq Rows \cup added
                BY <3>1, <3>2, <3>3 DEF Rows
            <4>. QED  BY <3>3, <4>1, <4>2, <4>3
        <3>6. \A t \in Tasks : \A d \in deps'[t] :
                d.stage = "implementation" => t = QA \/ t.stage = "implementation"
            BY <3>1, <3>2 DEF Inv, EdgesInv
        <3>7. {Item(i) : i \in WorkItems} \subseteq deps'[QA]
            <4>1. QA \in Tasks
                BY TaskFacts
            <4>. QED  BY <3>1, <3>2, <4>1 DEF Inv, EdgesInv, Rows
        <3>8. Rows' \cap Bootstrap \subseteq {Technical} \cup deps'[Technical]
            <4>1. Technical \in Tasks /\ Technical \in Bootstrap
                BY TaskFacts DEF Bootstrap
            <4>2. deps'[Technical] = deps[Technical]
                BY <3>1, <3>2, <4>1
            <4>. QED  BY <2>2, <3>2, <3>3, <4>2 DEF Inv, EdgesInv
        <3>. QED  BY <2>2, <3>5, <3>6, <3>7, <3>8 DEF Inv, EdgesInv
    <2>. QED  BY <1>5, <2>1, <2>2, CompileFacts DEF Inv, TypeOK
<1>6. CASE replacePlan
    <2>1. Rows' = Rows /\ UNCHANGED <<deps, brief>>
        BY <1>6 DEF replacePlan, Rows, handoffs
    <2>2. phase = "refined"
        BY <1>6 DEF Inv, RowsInv, replacePlan
    <2>. QED  BY <2>1, <2>2 DEF Inv, EdgesInv
<1>. QED  BY <1>2, <1>3, <1>4, <1>5, <1>6, GraphStays

\* AttemptsInv is kept.
LEMMA AttemptsStep ==
    ASSUME Inv, [Next]_vars
    PROVE  AttemptsInv'
<1>1. CASE UNCHANGED vars
    BY <1>1 DEF Inv, AttemptsInv, bootstrapTopologyReadyForTask, vars
<1>2. CASE BeginPass
    BY <1>2 DEF Inv, TypeOK, AttemptsInv, bootstrapTopologyReadyForTask, graph, execution,
       BeginPass
<1>3. ASSUME NEW t \in Tasks, FinalizeResult(t) PROVE AttemptsInv'
    BY <1>3, FinalizeFacts DEF Inv, TypeOK, AttemptsInv, bootstrapTopologyReadyForTask,
       graph, execution
<1>4. ASSUME NEW t \in Tasks, ReopenForQaRepair(t) PROVE AttemptsInv'
    BY <1>4 DEF Inv, TypeOK, AttemptsInv, bootstrapTopologyReadyForTask, graph, execution,
       ResultsInv, ReopenForQaRepair, IsFirst
<1>5. CASE QaRepairScheduled
    BY <1>5, TaskFacts DEF Inv, TypeOK, AttemptsInv, bootstrapTopologyReadyForTask, graph,
       execution, ResultsInv, QaRepairScheduled
<1>6. CASE ResultsFinalized
    BY <1>6 DEF Inv, TypeOK, AttemptsInv, bootstrapTopologyReadyForTask, graph, execution,
       ResultsFinalized, OnlyRows
<1>7. CASE RefineBootstrapTopology
    BY <1>7, RefineFacts DEF Inv, TypeOK, AttemptsInv, bootstrapTopologyReadyForTask, graph,
       execution
<1>8. CASE recoverExpiredExecutions
    BY <1>8 DEF Inv, TypeOK, AttemptsInv, bootstrapTopologyReadyForTask, graph, execution,
       recoverExpiredExecutions
<1>9. CASE CascadeRound
    BY <1>9 DEF Inv, TypeOK, AttemptsInv, bootstrapTopologyReadyForTask, graph, execution,
       CascadeRound, OnlyRows
<1>10. CASE CascadeDone
    BY <1>10 DEF Inv, TypeOK, AttemptsInv, bootstrapTopologyReadyForTask, graph, execution,
       CascadeDone, OnlyRows
<1>11. CASE CompileRefinedDag
    <2>1. CASE UNCHANGED status
        BY <1>11, <2>1, CompileFacts DEF Inv, TypeOK, AttemptsInv,
           bootstrapTopologyReadyForTask, graph, execution
    <2>2. CASE addTasks
        BY <1>11, <2>2, CompileFacts, AddTasksFacts DEF Inv, TypeOK, AttemptsInv,
           bootstrapTopologyReadyForTask, graph, execution
    <2>. QED  BY <1>11, <2>1, <2>2, CompileFacts
<1>12. CASE replacePlan
    BY <1>12 DEF Inv, TypeOK, AttemptsInv, bootstrapTopologyReadyForTask, graph, execution,
       replacePlan
<1>13. CASE ClosePlanOnlyRun
    BY <1>13 DEF Inv, TypeOK, AttemptsInv, bootstrapTopologyReadyForTask, graph, execution,
       ClosePlanOnlyRun
<1>14. CASE SettleRun
    BY <1>14 DEF Inv, TypeOK, AttemptsInv, bootstrapTopologyReadyForTask, graph, execution,
       SettleRun
<1>15. CASE SelectReady
    <2>1. pc' = "dispatch" => \A t \in batch' : t \in planned /\ bootstrapTopologyReadyForTask(t)
        BY <1>15 DEF SelectReady, evaluateDispatch
    <2>. QED  BY <1>15, <2>1 DEF Inv, TypeOK, AttemptsInv, bootstrapTopologyReadyForTask,
                 graph, execution, SelectReady
<1>16. ASSUME NEW t \in Tasks, DispatchReadyTask(t) PROVE AttemptsInv'
    BY <1>16, TaskFacts DEF Inv, TypeOK, AttemptsInv, bootstrapTopologyReadyForTask, graph,
       execution, DispatchReadyTask, IsFirst
<1>17. CASE DispatchDone
    BY <1>17 DEF Inv, TypeOK, AttemptsInv, bootstrapTopologyReadyForTask, graph, execution,
       DispatchDone, OnlyRows
<1>18. CASE PassFails
    BY <1>18 DEF Inv, TypeOK, AttemptsInv, bootstrapTopologyReadyForTask, graph, execution,
       PassFails
<1>19. ASSUME NEW t \in Tasks, Claim(t) PROVE AttemptsInv'
    BY <1>19 DEF Inv, TypeOK, AttemptsInv, bootstrapTopologyReadyForTask, graph, execution,
       Claim
<1>20. ASSUME NEW t \in Tasks, WorkerDies(t) PROVE AttemptsInv'
    BY <1>20 DEF Inv, TypeOK, AttemptsInv, bootstrapTopologyReadyForTask, graph, execution,
       WorkerDies
<1>21. ASSUME NEW t \in Tasks, RetryWindowOpens(t) PROVE AttemptsInv'
    BY <1>21 DEF Inv, TypeOK, AttemptsInv, bootstrapTopologyReadyForTask, graph, execution,
       RetryWindowOpens
<1>22. ASSUME NEW t \in Tasks, NEW f \in PreparationFailures, PreparationFails(t, f)
       PROVE  AttemptsInv'
    BY <1>22, TaskFacts DEF Inv, TypeOK, AttemptsInv, bootstrapTopologyReadyForTask, graph,
       execution, PreparationFails, IsFirst
<1>23. ASSUME NEW t \in Tasks, NEW o \in Outcomes, Finish(t, o) PROVE AttemptsInv'
    BY <1>23 DEF Inv, TypeOK, AttemptsInv, bootstrapTopologyReadyForTask, graph, execution,
       Finish
<1>24. CASE StartCancel
    BY <1>24 DEF Inv, TypeOK, AttemptsInv, bootstrapTopologyReadyForTask, graph, execution,
       StartCancel
<1>25. ASSUME NEW t \in Tasks, CancelTask(t) PROVE AttemptsInv'
    BY <1>25 DEF Inv, TypeOK, AttemptsInv, bootstrapTopologyReadyForTask, graph, execution,
       CancelTask
<1>26. CASE CancelRun
    BY <1>26 DEF Inv, TypeOK, AttemptsInv, bootstrapTopologyReadyForTask, graph, execution,
       CancelRun
<1>. QED  BY <1>1, <1>2, <1>3, <1>4, <1>5, <1>6, <1>7, <1>8, <1>9, <1>10, <1>11, <1>12,
          <1>13, <1>14, <1>15, <1>16, <1>17, <1>18, <1>19, <1>20, <1>21, <1>22, <1>23,
          <1>24, <1>25, <1>26 DEF Next, PassStep, CancelStep

\* ResultsInv is kept.
LEMMA ResultsStep ==
    ASSUME Inv, [Next]_vars
    PROVE  ResultsInv'
<1>1. CASE UNCHANGED vars
    BY <1>1 DEF Inv, ResultsInv, vars
<1>2. CASE BeginPass
    BY <1>2 DEF Inv, TypeOK, ResultsInv, operator, execution, BeginPass
<1>3. ASSUME NEW t \in Tasks, FinalizeResult(t) PROVE ResultsInv'
    <2>1. \A u \in Reopenable : /\ u \in Tasks /\ u.stage = "implementation"
                                 /\ attempt[u] > 0 /\ attempt[u] < MaxAttempts
                                 /\ status[u] \in Success
        <3>1. \A u \in Tasks : status[u] \in Success => attempt[u] \in Nat /\ attempt[u] # 0
            BY DEF Inv, TypeOK, AttemptsInv, Success
        <3>2. Reopenable \subseteq Tasks
            BY TaskFacts DEF Inv, TypeOK, Reopenable
        <3>. QED  BY <3>1, <3>2 DEF Reopenable
    <2>2. CASE pc' = "reopen"
        BY <1>3, <2>1, <2>2, FinalizeFacts DEF Inv, TypeOK, ResultsInv
    <2>3. CASE pc' # "reopen"
        BY <1>3, <2>3, FinalizeFacts DEF Inv, TypeOK, ResultsInv
    <2>. QED  BY <2>2, <2>3
<1>4. ASSUME NEW t \in Tasks, ReopenForQaRepair(t) PROVE ResultsInv'
    BY <1>4, TaskFacts DEF Inv, TypeOK, ResultsInv, operator, execution, ReopenForQaRepair,
       IsFirst, Success
<1>5. CASE QaRepairScheduled
    BY <1>5, TaskFacts DEF Inv, TypeOK, ResultsInv, operator, execution, QaRepairScheduled
<1>6. CASE ResultsFinalized
    BY <1>6 DEF Inv, TypeOK, ResultsInv, operator, execution, ResultsFinalized, OnlyRows
<1>7. CASE RefineBootstrapTopology
    <2>1. \A r \in Reviews : Review(r) \notin ProvisionalTasks
        BY TaskFacts DEF ProvisionalTasks
    <2>2. phase = "provisional" => \A r \in Reviews : status[Review(r)] = "absent"
        BY <2>1, TaskFacts DEF Inv, RowsInv, Rows
    <2>. QED  BY <1>7, <2>2, RefineFacts DEF Inv, ResultsInv
<1>8. CASE recoverExpiredExecutions
    BY <1>8 DEF Inv, TypeOK, ResultsInv, operator, execution, recoverExpiredExecutions
<1>9. CASE CascadeRound
    BY <1>9 DEF Inv, TypeOK, ResultsInv, operator, execution, CascadeRound, OnlyRows,
       Doomed, Waiting
<1>10. CASE CascadeDone
    BY <1>10 DEF Inv, TypeOK, ResultsInv, operator, execution, CascadeDone, OnlyRows
<1>11. CASE CompileRefinedDag
    <2>1. CASE UNCHANGED status
        BY <1>11, <2>1, CompileFacts DEF Inv, ResultsInv
    <2>2. CASE addTasks
        BY <1>11, <2>2, CompileFacts, AddTasksFacts DEF Inv, ResultsInv
    <2>. QED  BY <1>11, <2>1, <2>2, CompileFacts
<1>12. CASE replacePlan
    BY <1>12 DEF Inv, TypeOK, ResultsInv, operator, execution, replacePlan
<1>13. CASE ClosePlanOnlyRun
    BY <1>13 DEF Inv, TypeOK, ResultsInv, operator, execution, ClosePlanOnlyRun
<1>14. CASE SettleRun
    BY <1>14 DEF Inv, TypeOK, ResultsInv, operator, execution, SettleRun
<1>15. CASE SelectReady
    BY <1>15 DEF Inv, TypeOK, ResultsInv, operator, execution, SelectReady
<1>16. ASSUME NEW t \in Tasks, DispatchReadyTask(t) PROVE ResultsInv'
    BY <1>16 DEF Inv, TypeOK, ResultsInv, operator, execution, DispatchReadyTask, Waiting
<1>17. CASE DispatchDone
    BY <1>17 DEF Inv, TypeOK, ResultsInv, operator, execution, DispatchDone, OnlyRows
<1>18. CASE PassFails
    BY <1>18 DEF Inv, TypeOK, ResultsInv, operator, execution, PassFails
<1>19. ASSUME NEW t \in Tasks, Claim(t) PROVE ResultsInv'
    BY <1>19 DEF Inv, TypeOK, ResultsInv, operator, execution, Claim, Success
<1>20. ASSUME NEW t \in Tasks, WorkerDies(t) PROVE ResultsInv'
    BY <1>20 DEF Inv, TypeOK, ResultsInv, operator, execution, WorkerDies
<1>21. ASSUME NEW t \in Tasks, RetryWindowOpens(t) PROVE ResultsInv'
    BY <1>21 DEF Inv, TypeOK, ResultsInv, operator, execution, RetryWindowOpens
<1>22. ASSUME NEW t \in Tasks, NEW f \in PreparationFailures, PreparationFails(t, f)
       PROVE  ResultsInv'
    BY <1>22 DEF Inv, TypeOK, ResultsInv, operator, execution, WorkInv, PreparationFails,
       IsFirst, Waiting
<1>23. ASSUME NEW t \in Tasks, NEW o \in Outcomes, Finish(t, o) PROVE ResultsInv'
    BY <1>23 DEF Inv, TypeOK, ResultsInv, operator, execution, Finish, Success
<1>24. CASE StartCancel
    BY <1>24 DEF Inv, TypeOK, ResultsInv, operator, execution, StartCancel
<1>25. ASSUME NEW t \in Tasks, CancelTask(t) PROVE ResultsInv'
    BY <1>25 DEF Inv, TypeOK, ResultsInv, operator, execution, CancelTask
<1>26. CASE CancelRun
    BY <1>26 DEF Inv, TypeOK, ResultsInv, operator, execution, CancelRun
<1>. QED  BY <1>1, <1>2, <1>3, <1>4, <1>5, <1>6, <1>7, <1>8, <1>9, <1>10, <1>11, <1>12,
          <1>13, <1>14, <1>15, <1>16, <1>17, <1>18, <1>19, <1>20, <1>21, <1>22, <1>23,
          <1>24, <1>25, <1>26 DEF Next, PassStep, CancelStep

\* Nobody takes a cancellation back.
LEMMA CancelStays ==
    ASSUME Inv, [Next]_vars, cancel' = "none"
    PROVE  cancel = "none"
<1>. USE DEF graph, handoffs, operator, execution, OnlyRows
<1>1. CASE UNCHANGED vars
    BY <1>1 DEF vars
<1>2. CASE BeginPass \/ PassFails \/ StartCancel \/ CancelStep
    BY <1>2 DEF BeginPass, PassFails, StartCancel, CancelStep, CancelRun, CancelTask
<1>3. CASE \E t \in Tasks : Claim(t) \/ WorkerDies(t) \/ RetryWindowOpens(t)
    BY <1>3 DEF Claim, WorkerDies, RetryWindowOpens
<1>4. CASE \E t \in Tasks, f \in PreparationFailures : PreparationFails(t, f)
    BY <1>4 DEF PreparationFails
<1>5. CASE \E t \in Tasks, outcome \in Outcomes : Finish(t, outcome)
    BY <1>5 DEF Finish
<1>6. CASE PassStep
    BY <1>6 DEF PassStep, FinalizeResult, ReopenForQaRepair, QaRepairScheduled,
                ResultsFinalized, RefineBootstrapTopology, recoverExpiredExecutions,
                CascadeRound, CascadeDone, CompileRefinedDag, replacePlan,
                ClosePlanOnlyRun, SettleRun, SelectReady, DispatchReadyTask, DispatchDone
<1>. QED  BY <1>1, <1>2, <1>3, <1>4, <1>5, <1>6 DEF Next

\* A cancellation begins without touching a row.
LEMMA CancelSteps ==
    ASSUME [Next]_vars, cancel = "none", cancel' # "none"
    PROVE  status' = status
<1>. USE DEF graph, handoffs, operator, execution, OnlyRows
<1>1. CASE UNCHANGED vars
    BY <1>1 DEF vars
<1>2. CASE BeginPass \/ PassFails \/ StartCancel \/ CancelStep
    BY <1>2 DEF BeginPass, PassFails, StartCancel, CancelStep, CancelRun, CancelTask
<1>3. CASE \E t \in Tasks : Claim(t) \/ WorkerDies(t) \/ RetryWindowOpens(t)
    BY <1>3 DEF Claim, WorkerDies, RetryWindowOpens
<1>4. CASE \E t \in Tasks, f \in PreparationFailures : PreparationFails(t, f)
    BY <1>4 DEF PreparationFails
<1>5. CASE \E t \in Tasks, outcome \in Outcomes : Finish(t, outcome)
    BY <1>5 DEF Finish
<1>6. CASE PassStep
    BY <1>6 DEF PassStep, FinalizeResult, ReopenForQaRepair, QaRepairScheduled,
                ResultsFinalized, RefineBootstrapTopology, recoverExpiredExecutions,
                CascadeRound, CascadeDone, CompileRefinedDag, replacePlan,
                ClosePlanOnlyRun, SettleRun, SelectReady, DispatchReadyTask, DispatchDone
<1>. QED  BY <1>1, <1>2, <1>3, <1>4, <1>5, <1>6 DEF Next

\* WorkInv is kept.
LEMMA WorkStep ==
    ASSUME Inv, [Next]_vars
    PROVE  WorkInv'
<1>. SUFFICES ASSUME cancel' = "none" PROVE WorkInv'
    BY DEF WorkInv
<1>1. cancel = "none"
    BY CancelStays
<1>2. \A u \in Tasks : status[u] \in Success /\ status'[u] \notin Success => ReopenForQaRepair(u)
    BY SuccessStays
<1>3. \A u \in Tasks : ReopenForQaRepair(u) => u.stage = "implementation" /\ pc = "reopen"
    BY DEF ReopenForQaRepair, IsFirst, Inv, ResultsInv
<1>4. status[QA] \in Success => status'[QA] \in Success
    BY <1>2, <1>3, TaskFacts
<1>5. \A d \in deps[Technical] : status[d] \in Success => status'[d] \in Success
    <2>1. Technical \in Tasks /\ deps[Technical] \subseteq Tasks
        BY TaskFacts DEF Inv, TypeOK
    <2>2. \A d \in deps[Technical] : d.stage # "implementation"
        BY <2>1, TaskFacts DEF Inv, EdgesInv
    <2>. QED  BY <1>2, <1>3, <2>1, <2>2
<1>6. \A i \in WorkItems : Item(i) \in Tasks /\ Item(i) # QA /\ Item(i) # Technical
    BY TaskFacts
<1>7. /\ {QA, Technical} \subseteq Tasks /\ QA # Technical
      /\ \A u \in Tasks : u.stage = "implementation" => u # QA /\ u # Technical
    BY TaskFacts
<1>8. CASE UNCHANGED vars
    BY <1>1, <1>2, <1>3, <1>4, <1>5, <1>6, <1>7, <1>8 DEF Inv, WorkInv,
       dependenciesSatisfied, vars
<1>9. CASE BeginPass
    BY <1>1, <1>2, <1>3, <1>4, <1>5, <1>6, <1>7, <1>9 DEF Inv, TypeOK, WorkInv,
       dependenciesSatisfied, Waiting, Active, Success, Terminal, graph, execution,
       BeginPass
<1>10. ASSUME NEW t \in Tasks, FinalizeResult(t) PROVE WorkInv'
    BY <1>1, <1>2, <1>3, <1>4, <1>5, <1>6, <1>7, <1>10, FinalizeFacts DEF Inv, TypeOK,
       WorkInv, dependenciesSatisfied, Waiting, Active, Success, Terminal, graph, execution,
       ResultsInv, Failure
<1>11. ASSUME NEW t \in Tasks, ReopenForQaRepair(t) PROVE WorkInv'
    <2>1. /\ pc = "reopen" /\ pc' = pc /\ t \in batch /\ status' = [status EXCEPT ![t] = "retrying"]
          /\ UNCHANGED <<result, deps, attempt>>
        BY <1>11 DEF ReopenForQaRepair, IsFirst, graph, execution
    <2>2. result[QA] = "changes" /\ t.stage = "implementation" /\ t # QA /\ t # Technical
        BY <1>7, <2>1 DEF Inv, ResultsInv
    <2>3. \A u \in Tasks : u # t => status'[u] = status[u]
        BY <2>1 DEF Inv, TypeOK
    <2>4. status'[t] = "retrying"
        BY <2>1 DEF Inv, TypeOK
    <2>5. status'[QA] \in Active =>
            \A i \in WorkItems :
               \/ status'[Item(i)] \in Success
               \/ status'[Item(i)] = "retrying" /\ result'[QA] = "changes"
                  /\ pc' \in {"idle", "finalize", "reopen"}
        BY <1>1, <1>6, <1>7, <2>1, <2>2, <2>3, <2>4 DEF Inv, WorkInv
    <2>6. \A u \in Tasks : QA \in deps'[u] /\ attempt'[u] > 0 => status'[QA] \in Success
        BY <1>1, <1>4, <2>1 DEF Inv, WorkInv
    <2>7. status'[Technical] \in Active \cup Success => \A d \in deps'[Technical] : status'[d] \in Success
        BY <1>1, <1>5, <1>7, <2>1, <2>2, <2>3 DEF Inv, WorkInv, dependenciesSatisfied
    <2>. QED  BY <2>1, <2>5, <2>6, <2>7 DEF WorkInv, dependenciesSatisfied
<1>12. CASE QaRepairScheduled
    BY <1>1, <1>2, <1>3, <1>4, <1>5, <1>6, <1>7, <1>12 DEF Inv, TypeOK, WorkInv,
       dependenciesSatisfied, Waiting, Active, Success, Terminal, graph, execution,
       QaRepairScheduled
<1>13. CASE ResultsFinalized
    BY <1>1, <1>2, <1>3, <1>4, <1>5, <1>6, <1>7, <1>13 DEF Inv, TypeOK, WorkInv,
       dependenciesSatisfied, Waiting, Active, Success, Terminal, graph, execution,
       ResultsFinalized, OnlyRows
<1>14. CASE RefineBootstrapTopology
    <2>1. CASE UNCHANGED <<phase, planned, status, deps>>
        BY <1>1, <1>14, <2>1, RefineFacts DEF Inv, WorkInv, dependenciesSatisfied
    <2>2. CASE phase' = "refined" /\ phase = "provisional"
        <3>1. /\ pc' = "recover" /\ status[Technical] \in Waiting
              /\ attempt' = attempt
            BY <1>14, <2>2, RefineFacts
        <3>2. PICK R \in SUBSET {Review(r) : r \in Reviews} :
                /\ status' = [t \in Tasks |-> IF t \in R THEN "routed" ELSE status[t]]
                /\ \A t \in R : deps'[t] \subseteq {Product} \cup R
                /\ deps'[Technical] = {Product} \cup R
                /\ \A t \in Tasks \ (R \cup {Technical}) : deps'[t] = deps[t]
            BY <1>14, <2>2, RefineFacts
        <3>3. QA \notin {Product} \cup R /\ Technical \notin R /\ QA \notin Rows
            BY <2>2, TaskFacts DEF Inv, RowsInv, ProvisionalTasks
        <3>4. status'[QA] = "absent" /\ status'[Technical] \in Waiting
            BY <1>7, <3>1, <3>2, <3>3 DEF Rows
        <3>5. \A t \in Tasks : QA \in deps'[t] => deps'[t] = deps[t]
            BY <3>2, <3>3
        <3>. QED  BY <1>1, <1>4, <3>1, <3>4, <3>5
                  DEF Inv, WorkInv, Active, Success, Waiting
    <2>. QED  BY <1>14, <2>1, <2>2, RefineFacts
<1>15. CASE recoverExpiredExecutions
    BY <1>1, <1>2, <1>3, <1>4, <1>5, <1>6, <1>7, <1>15 DEF Inv, TypeOK, WorkInv,
       dependenciesSatisfied, Waiting, Active, Success, Terminal, graph, execution,
       recoverExpiredExecutions
<1>16. CASE CascadeRound
    BY <1>1, <1>2, <1>3, <1>4, <1>5, <1>6, <1>7, <1>16 DEF Inv, TypeOK, WorkInv,
       dependenciesSatisfied, Waiting, Active, Success, Terminal, graph, execution,
       CascadeRound, OnlyRows
<1>17. CASE CascadeDone
    BY <1>1, <1>2, <1>3, <1>4, <1>5, <1>6, <1>7, <1>17 DEF Inv, TypeOK, WorkInv,
       dependenciesSatisfied, Waiting, Active, Success, Terminal, graph, execution,
       CascadeDone, OnlyRows
<1>18. CASE CompileRefinedDag
    <2>1. pc = "compile" /\ pc' # "dispatch" /\ UNCHANGED <<result, attempt>>
        BY <1>18, CompileFacts
    <2>2. CASE UNCHANGED <<status, deps>>
        BY <1>1, <2>1, <2>2 DEF Inv, WorkInv, dependenciesSatisfied
    <2>3. CASE addTasks
        <3>1. PICK added \in SUBSET CompiledTasks(planned) :
                /\ added = {t \in CompiledTasks(planned) : status[t] = "absent"}
                /\ status' = [t \in Tasks |-> IF t \in added THEN "routed" ELSE status[t]]
                /\ \A t \in Tasks \ added : deps'[t] = deps[t]
            BY <2>3, AddTasksFacts
        <3>2. \A t \in Tasks : status'[t] # status[t] => status'[t] = "routed"
            BY <3>1
        <3>3. \A t \in Tasks : attempt[t] > 0 => t \notin added
            BY <3>1 DEF Inv, AttemptsInv, RowsInv, Rows
        <3>4. status'[QA] \in Active => \A i \in WorkItems : status'[Item(i)] \in Success
            <4>1. status'[QA] \in Active => status[QA] \in Active
                BY <1>7, <3>2 DEF Active
            <4>2. status[QA] \in Active => \A i \in WorkItems : status[Item(i)] \in Success
                BY <1>1, <2>1 DEF Inv, WorkInv
            <4>. QED  BY <1>2, <1>3, <1>6, <2>1, <4>1, <4>2
        <3>5. \A t \in Tasks : QA \in deps'[t] /\ attempt'[t] > 0 => status'[QA] \in Success
            BY <1>1, <1>4, <2>1, <3>1, <3>3 DEF Inv, WorkInv
        <3>6. Technical \notin added
            BY <1>7, <3>1 DEF Inv, RowsInv, ProvisionalTasks, Rows
        <3>7. status'[Technical] = status[Technical] /\ deps'[Technical] = deps[Technical]
            BY <1>7, <3>1, <3>6
        <3>. QED  BY <1>1, <1>5, <2>1, <3>4, <3>5, <3>7 DEF Inv, WorkInv,
                     dependenciesSatisfied
    <2>. QED  BY <1>18, <2>2, <2>3, CompileFacts
<1>19. CASE replacePlan
    BY <1>1, <1>2, <1>3, <1>4, <1>5, <1>6, <1>7, <1>19 DEF Inv, TypeOK, WorkInv,
       dependenciesSatisfied, Waiting, Active, Success, Terminal, graph, execution,
       replacePlan
<1>20. CASE ClosePlanOnlyRun
    BY <1>1, <1>2, <1>3, <1>4, <1>5, <1>6, <1>7, <1>20 DEF Inv, TypeOK, WorkInv,
       dependenciesSatisfied, Waiting, Active, Success, Terminal, graph, execution,
       ClosePlanOnlyRun
<1>21. CASE SettleRun
    BY <1>1, <1>2, <1>3, <1>4, <1>5, <1>6, <1>7, <1>21 DEF Inv, TypeOK, WorkInv,
       dependenciesSatisfied, Waiting, Active, Success, Terminal, graph, execution,
       SettleRun
<1>22. CASE SelectReady
    <2>1. \A t \in batch' : status[t] \in Waiting /\ dependenciesSatisfied(t)
        BY <1>22 DEF SelectReady, selectReadyDispatchTasks, FirstReady, Ready
    <2>2. pc = "select" /\ UNCHANGED <<status, deps, result, attempt>>
        BY <1>22 DEF SelectReady, graph, execution
    <2>. QED  BY <1>1, <2>1, <2>2 DEF Inv, WorkInv, dependenciesSatisfied
<1>23. ASSUME NEW t \in Tasks, DispatchReadyTask(t) PROVE WorkInv'
    <2>1. /\ pc = "dispatch" /\ pc' = pc /\ t \in batch /\ batch' = batch \ {t}
          /\ UNCHANGED <<result, deps>>
        BY <1>23 DEF DispatchReadyTask, IsFirst, graph, execution
    <2>2. status[t] \in Waiting /\ dependenciesSatisfied(t)
        BY <1>1, <2>1 DEF Inv, WorkInv
    <2>3. /\ \E next \in {"queued", "retrying", "failed"} : status' = [status EXCEPT ![t] = next]
          /\ attempt' = [attempt EXCEPT ![t] = @ + 1]
        BY <1>23, <2>2 DEF DispatchReadyTask
    <2>4. /\ status'[t] \in {"queued", "retrying", "failed"}
          /\ \A u \in Tasks : u # t => status'[u] = status[u] /\ attempt'[u] = attempt[u]
        BY <2>3 DEF Inv, TypeOK
    <2>5. \A u \in Tasks : status[u] \in Success => status'[u] \in Success
        BY <1>2, <1>3, <2>1
    <2>6. \A u \in Tasks : dependenciesSatisfied(u) => \A d \in deps[u] : status'[d] \in Success
        BY <2>5 DEF dependenciesSatisfied, Inv, TypeOK
    <2>7. \A u \in batch' : status'[u] \in Waiting /\ \A d \in deps[u] : status'[d] \in Success
        BY <1>1, <2>1, <2>4, <2>6 DEF Inv, TypeOK, WorkInv
    <2>8. ASSUME status'[QA] \in Active, NEW i \in WorkItems
          PROVE  status'[Item(i)] \in Success
        <3>1. CASE t = QA
            <4>1. QA \in Rows
                BY <1>7, <2>2, <3>1 DEF Rows, Waiting
            <4>2. Item(i) \in deps[QA]
                BY <4>1 DEF Inv, EdgesInv
            <4>. QED  BY <2>2, <2>6, <3>1, <4>2
        <3>2. CASE t # QA
            <4>1. status[QA] \in Active
                BY <1>7, <2>4, <2>8, <3>2
            <4>2. status[Item(i)] \in Success
                BY <1>1, <2>1, <4>1 DEF Inv, WorkInv
            <4>. QED  BY <1>6, <2>5, <4>2
        <3>. QED  BY <3>1, <3>2
    <2>9. ASSUME NEW u \in Tasks, QA \in deps[u], attempt'[u] > 0
          PROVE  status'[QA] \in Success
        <3>1. CASE u = t
            BY <2>2, <2>6, <2>9, <3>1
        <3>2. CASE u # t
            BY <1>1, <1>4, <2>4, <2>9, <3>2 DEF Inv, WorkInv
        <3>. QED  BY <3>1, <3>2
    <2>10. ASSUME status'[Technical] \in Active \cup Success, NEW d \in deps[Technical]
           PROVE  status'[d] \in Success
        <3>1. CASE t = Technical
            BY <2>2, <2>6, <2>10, <3>1
        <3>2. CASE t # Technical
            BY <1>1, <1>5, <1>7, <2>4, <2>10, <3>2 DEF Inv, WorkInv, dependenciesSatisfied
        <3>. QED  BY <3>1, <3>2
    <2>. QED  BY <2>1, <2>7, <2>8, <2>9, <2>10 DEF WorkInv, dependenciesSatisfied
<1>24. CASE DispatchDone
    BY <1>1, <1>2, <1>3, <1>4, <1>5, <1>6, <1>7, <1>24 DEF Inv, TypeOK, WorkInv,
       dependenciesSatisfied, Waiting, Active, Success, Terminal, graph, execution,
       DispatchDone, OnlyRows
<1>25. CASE PassFails
    BY <1>1, <1>2, <1>3, <1>4, <1>5, <1>6, <1>7, <1>25 DEF Inv, TypeOK, WorkInv,
       dependenciesSatisfied, Waiting, Active, Success, Terminal, graph, execution,
       PassFails
<1>26. ASSUME NEW t \in Tasks, Claim(t) PROVE WorkInv'
    BY <1>1, <1>2, <1>3, <1>4, <1>5, <1>6, <1>7, <1>26 DEF Inv, TypeOK, WorkInv,
       dependenciesSatisfied, Waiting, Active, Success, Terminal, graph, execution, Claim
<1>27. ASSUME NEW t \in Tasks, WorkerDies(t) PROVE WorkInv'
    BY <1>1, <1>2, <1>3, <1>4, <1>5, <1>6, <1>7, <1>27 DEF Inv, TypeOK, WorkInv,
       dependenciesSatisfied, Waiting, Active, Success, Terminal, graph, execution,
       WorkerDies
<1>28. ASSUME NEW t \in Tasks, RetryWindowOpens(t) PROVE WorkInv'
    BY <1>1, <1>2, <1>3, <1>4, <1>5, <1>6, <1>7, <1>28 DEF Inv, TypeOK, WorkInv,
       dependenciesSatisfied, Waiting, Active, Success, Terminal, graph, execution,
       RetryWindowOpens
<1>29. ASSUME NEW t \in Tasks, NEW f \in PreparationFailures, PreparationFails(t, f)
       PROVE  WorkInv'
    <2>1. /\ pc = "dispatch" /\ pc' = pc /\ t \in batch /\ batch' = batch \ {t}
          /\ UNCHANGED <<result, deps>>
        BY <1>29 DEF PreparationFails, IsFirst, graph, execution
    <2>2. status[t] \in Waiting /\ dependenciesSatisfied(t)
        BY <1>1, <2>1 DEF Inv, WorkInv
    <2>3. /\ \E next \in {"queued", "retrying", "failed"} : status' = [status EXCEPT ![t] = next]
          /\ attempt' = [attempt EXCEPT ![t] = @ + 1]
        BY <1>29, <2>2 DEF PreparationFails
    <2>4. /\ status'[t] \in {"queued", "retrying", "failed"}
          /\ \A u \in Tasks : u # t => status'[u] = status[u] /\ attempt'[u] = attempt[u]
        BY <2>3 DEF Inv, TypeOK
    <2>5. \A u \in Tasks : status[u] \in Success => status'[u] \in Success
        BY <1>2, <1>3, <2>1
    <2>6. \A u \in Tasks : dependenciesSatisfied(u) => \A d \in deps[u] : status'[d] \in Success
        BY <2>5 DEF dependenciesSatisfied, Inv, TypeOK
    <2>7. \A u \in batch' : status'[u] \in Waiting /\ \A d \in deps[u] : status'[d] \in Success
        BY <1>1, <2>1, <2>4, <2>6 DEF Inv, TypeOK, WorkInv
    <2>8. ASSUME status'[QA] \in Active, NEW i \in WorkItems
          PROVE  status'[Item(i)] \in Success
        <3>1. CASE t = QA
            <4>1. QA \in Rows
                BY <1>7, <2>2, <3>1 DEF Rows, Waiting
            <4>2. Item(i) \in deps[QA]
                BY <4>1 DEF Inv, EdgesInv
            <4>. QED  BY <2>2, <2>6, <3>1, <4>2
        <3>2. CASE t # QA
            <4>1. status[QA] \in Active
                BY <1>7, <2>4, <2>8, <3>2
            <4>2. status[Item(i)] \in Success
                BY <1>1, <2>1, <4>1 DEF Inv, WorkInv
            <4>. QED  BY <1>6, <2>5, <4>2
        <3>. QED  BY <3>1, <3>2
    <2>9. ASSUME NEW u \in Tasks, QA \in deps[u], attempt'[u] > 0
          PROVE  status'[QA] \in Success
        <3>1. CASE u = t
            BY <2>2, <2>6, <2>9, <3>1
        <3>2. CASE u # t
            BY <1>1, <1>4, <2>4, <2>9, <3>2 DEF Inv, WorkInv
        <3>. QED  BY <3>1, <3>2
    <2>10. ASSUME status'[Technical] \in Active \cup Success, NEW d \in deps[Technical]
           PROVE  status'[d] \in Success
        <3>1. CASE t = Technical
            BY <2>2, <2>6, <2>10, <3>1
        <3>2. CASE t # Technical
            BY <1>1, <1>5, <1>7, <2>4, <2>10, <3>2 DEF Inv, WorkInv, dependenciesSatisfied
        <3>. QED  BY <3>1, <3>2
    <2>. QED  BY <2>1, <2>7, <2>8, <2>9, <2>10 DEF WorkInv, dependenciesSatisfied
<1>30. ASSUME NEW t \in Tasks, NEW o \in Outcomes, Finish(t, o) PROVE WorkInv'
    BY <1>1, <1>2, <1>3, <1>4, <1>5, <1>6, <1>7, <1>30 DEF Inv, TypeOK, WorkInv,
       dependenciesSatisfied, Waiting, Active, Success, Terminal, graph, execution, Finish
<1>31. CASE StartCancel
    BY <1>31 DEF StartCancel
<1>32. ASSUME NEW t \in Tasks, CancelTask(t) PROVE WorkInv'
    BY <1>1, <1>32 DEF CancelTask
<1>33. CASE CancelRun
    BY <1>33 DEF CancelRun
<1>. QED  BY <1>8, <1>9, <1>10, <1>11, <1>12, <1>13, <1>14, <1>15, <1>16, <1>17, <1>18,
          <1>19, <1>20, <1>21, <1>22, <1>23, <1>24, <1>25, <1>26, <1>27, <1>28, <1>29,
          <1>30, <1>31, <1>32, <1>33 DEF Next, PassStep, CancelStep

\* Tasks become active out of a batch that was selected for it, and in no other way.
LEMMA ActiveStep ==
    ASSUME Inv, [Next]_vars
    PROVE  \/ SelectReady /\ UNCHANGED <<status, maxParallel>>
           \/ /\ pc = "dispatch" /\ maxParallel' = maxParallel
              /\ ActiveTasks' \cup batch' \subseteq ActiveTasks \cup batch
           \/ /\ pc' # "dispatch" /\ maxParallel' = maxParallel
              /\ ActiveTasks' \subseteq ActiveTasks
<1>. DEFINE Shrinks == \/ SelectReady /\ UNCHANGED <<status, maxParallel>>
                       \/ /\ pc = "dispatch" /\ maxParallel' = maxParallel
                          /\ ActiveTasks' \cup batch' \subseteq ActiveTasks \cup batch
                       \/ /\ pc' # "dispatch" /\ maxParallel' = maxParallel
                          /\ ActiveTasks' \subseteq ActiveTasks
<1>1. CASE UNCHANGED vars
    BY <1>1 DEF ActiveTasks, vars
<1>2. CASE BeginPass
    BY <1>2 DEF Inv, TypeOK, ActiveTasks, Active, BeginPass, graph
<1>3. ASSUME NEW t \in Tasks, FinalizeResult(t) PROVE Shrinks
    BY <1>3, FinalizeFacts DEF Inv, TypeOK, ActiveTasks, Active, Terminal, Success, Failure
<1>4. ASSUME NEW t \in Tasks, ReopenForQaRepair(t) PROVE Shrinks
    BY <1>4 DEF Inv, TypeOK, ActiveTasks, Active, ReopenForQaRepair, graph
<1>5. CASE QaRepairScheduled
    BY <1>5 DEF Inv, TypeOK, ActiveTasks, Active, QaRepairScheduled, graph
<1>6. CASE ResultsFinalized
    BY <1>6 DEF Inv, TypeOK, ActiveTasks, Active, ResultsFinalized, graph, OnlyRows
<1>7. CASE RefineBootstrapTopology
    BY <1>7, RefineFacts DEF Inv, TypeOK, ActiveTasks, Active
<1>8. CASE recoverExpiredExecutions
    BY <1>8 DEF Inv, TypeOK, ActiveTasks, Active, recoverExpiredExecutions, graph
<1>9. CASE CascadeRound
    BY <1>9 DEF Inv, TypeOK, ActiveTasks, Active, CascadeRound, graph, OnlyRows
<1>10. CASE CascadeDone
    BY <1>10 DEF Inv, TypeOK, ActiveTasks, Active, CascadeDone, graph, OnlyRows
<1>11. CASE CompileRefinedDag
    BY <1>11, CompileFacts, AddTasksFacts DEF Inv, TypeOK, ActiveTasks, Active
<1>12. CASE replacePlan
    BY <1>12 DEF Inv, TypeOK, ActiveTasks, Active, replacePlan, graph
<1>13. CASE ClosePlanOnlyRun
    BY <1>13 DEF Inv, TypeOK, ActiveTasks, Active, ClosePlanOnlyRun, graph
<1>14. CASE SettleRun
    BY <1>14 DEF Inv, TypeOK, ActiveTasks, Active, SettleRun, graph
<1>15. CASE SelectReady
    BY <1>15 DEF SelectReady, graph
<1>16. ASSUME NEW t \in Tasks, DispatchReadyTask(t) PROVE Shrinks
    BY <1>16 DEF Inv, TypeOK, ActiveTasks, Active, DispatchReadyTask, IsFirst, graph
<1>17. CASE DispatchDone
    BY <1>17 DEF Inv, TypeOK, ActiveTasks, Active, DispatchDone, graph, OnlyRows
<1>18. CASE PassFails
    BY <1>18 DEF Inv, TypeOK, ActiveTasks, Active, PassFails, graph
<1>19. ASSUME NEW t \in Tasks, Claim(t) PROVE Shrinks
    BY <1>19 DEF Inv, TypeOK, ActiveTasks, Active, Claim, graph
<1>20. ASSUME NEW t \in Tasks, WorkerDies(t) PROVE Shrinks
    BY <1>20 DEF Inv, TypeOK, ActiveTasks, Active, WorkerDies, graph
<1>21. ASSUME NEW t \in Tasks, RetryWindowOpens(t) PROVE Shrinks
    BY <1>21 DEF Inv, TypeOK, ActiveTasks, Active, RetryWindowOpens, graph
<1>22. ASSUME NEW t \in Tasks, NEW f \in PreparationFailures, PreparationFails(t, f)
       PROVE  Shrinks
    BY <1>22 DEF Inv, TypeOK, ActiveTasks, Active, PreparationFails, IsFirst, graph
<1>23. ASSUME NEW t \in Tasks, NEW o \in Outcomes, Finish(t, o) PROVE Shrinks
    BY <1>23 DEF Inv, TypeOK, ActiveTasks, Active, Finish, graph
<1>24. CASE StartCancel
    BY <1>24 DEF Inv, TypeOK, ActiveTasks, Active, StartCancel, graph
<1>25. ASSUME NEW t \in Tasks, CancelTask(t) PROVE Shrinks
    BY <1>25 DEF Inv, TypeOK, ActiveTasks, Active, CancelTask, graph
<1>26. CASE CancelRun
    BY <1>26 DEF Inv, TypeOK, ActiveTasks, Active, CancelRun, graph
<1>. QED  BY <1>1, <1>2, <1>3, <1>4, <1>5, <1>6, <1>7, <1>8, <1>9, <1>10, <1>11, <1>12,
          <1>13, <1>14, <1>15, <1>16, <1>17, <1>18, <1>19, <1>20, <1>21, <1>22, <1>23,
          <1>24, <1>25, <1>26 DEF Next, PassStep, CancelStep

\* ParallelBound and BatchInv are kept.
LEMMA BoundStep ==
    ASSUME Inv, [Next]_vars
    PROVE  ParallelBound' /\ BatchInv'
<1>1. ASSUME NEW S \in SUBSET Tasks PROVE IsFiniteSet(S) /\ Cardinality(S) \in Nat
    BY TasksAreFinite, FS_Subset, FS_CardinalityType
<1>2. ASSUME NEW S \in SUBSET Tasks, NEW T \in SUBSET S
      PROVE  Cardinality(T) <= Cardinality(S)
    BY <1>1, FS_Subset
<1>3. /\ ActiveTasks \in SUBSET Tasks /\ ActiveTasks' \in SUBSET Tasks
      /\ batch \in SUBSET Tasks /\ batch' \in SUBSET Tasks
    BY TypeStep DEF Inv, TypeOK, ActiveTasks
<1>4. maxParallel \in Nat
    BY BoundsAssumption DEF Inv, TypeOK
<1>5. CASE SelectReady /\ UNCHANGED <<status, maxParallel>>
    <2>1. ActiveTasks' = ActiveTasks
        BY <1>5 DEF ActiveTasks
    <2>2. ParallelBound'
        BY <1>5, <2>1 DEF Inv, ParallelBound
    <2>3. ASSUME pc' = "dispatch"
          PROVE  Cardinality(ActiveTasks \cup batch') <= maxParallel
        <3>1. batch' = FirstReady(Available)
            BY <1>5, <2>3 DEF SelectReady, selectReadyDispatchTasks
        <3>2. Available \in Nat /\ Cardinality(ActiveTasks) + Available <= maxParallel
            BY <1>1, <1>3, <1>4 DEF Inv, ParallelBound, Available
        <3>3. Ready \in SUBSET Tasks
            BY DEF Ready
        <3>4. IsFiniteSet(batch') /\ Cardinality(batch') <= Available
            BY <3>1, <3>2, <3>3, FirstAreFew DEF FirstReady
        <3>5. Cardinality(ActiveTasks \cup batch')
                = Cardinality(ActiveTasks) + Cardinality(batch') - Cardinality(ActiveTasks \cap batch')
            BY <1>1, <1>3, FS_Union
        <3>6. /\ Cardinality(ActiveTasks) \in Nat /\ Cardinality(batch') \in Nat
              /\ Cardinality(ActiveTasks \cap batch') \in Nat
            BY <1>1, <1>3
        <3>. QED  BY <1>4, <3>2, <3>4, <3>5, <3>6
    <2>. QED  BY <1>5, <2>1, <2>2, <2>3 DEF BatchInv
<1>6. CASE /\ pc = "dispatch" /\ maxParallel' = maxParallel
           /\ ActiveTasks' \cup batch' \subseteq ActiveTasks \cup batch
    <2>1. Cardinality(ActiveTasks \cup batch) <= maxParallel
        BY <1>6 DEF Inv, BatchInv
    <2>2. /\ Cardinality(ActiveTasks' \cup batch') <= Cardinality(ActiveTasks \cup batch)
          /\ Cardinality(ActiveTasks') <= Cardinality(ActiveTasks \cup batch)
        BY <1>2, <1>3, <1>6
    <2>3. /\ Cardinality(ActiveTasks \cup batch) \in Nat /\ Cardinality(ActiveTasks') \in Nat
          /\ Cardinality(ActiveTasks' \cup batch') \in Nat
        BY <1>1, <1>3
    <2>. QED  BY <1>4, <1>6, <2>1, <2>2, <2>3 DEF ParallelBound, BatchInv
<1>7. CASE pc' # "dispatch" /\ maxParallel' = maxParallel /\ ActiveTasks' \subseteq ActiveTasks
    <2>1. Cardinality(ActiveTasks') <= Cardinality(ActiveTasks)
        BY <1>2, <1>3, <1>7
    <2>2. Cardinality(ActiveTasks) \in Nat /\ Cardinality(ActiveTasks') \in Nat
        BY <1>1, <1>3
    <2>. QED  BY <1>4, <1>7, <2>1, <2>2 DEF Inv, ParallelBound, BatchInv
<1>. QED  BY <1>5, <1>6, <1>7, ActiveStep

\* RunsOnIntegratedWork is kept.
LEMMA IntegratedStep ==
    ASSUME Inv, [Next]_vars
    PROVE  RunsOnIntegratedWork'
<1>. SUFFICES ASSUME cancel' = "none" PROVE RunsOnIntegratedWork'
    BY DEF RunsOnIntegratedWork
<1>1. cancel = "none"
    BY CancelStays
<1>2. \A u \in Tasks : status[u] \in Success /\ status'[u] \notin Success => ReopenForQaRepair(u)
    BY SuccessStays
<1>3. \A u \in Tasks : ReopenForQaRepair(u) => pc = "reopen"
    BY DEF ReopenForQaRepair
<1>4. ASSUME pc # "reopen", deps' = deps,
             \A u \in Tasks : /\ status'[u] \in Active /\ result'[u] = "none"
                              => status[u] \in Active /\ result[u] = "none"
      PROVE  RunsOnIntegratedWork'
    <2>1. \A u \in Tasks : status[u] \in Success => status'[u] \in Success
        BY <1>2, <1>3, <1>4
    <2>2. \A u \in Tasks : deps[u] \subseteq Tasks
        BY DEF Inv, TypeOK
    <2>. QED  BY <1>1, <1>4, <2>1, <2>2 DEF Inv, RunsOnIntegratedWork, dependenciesSatisfied
<1>5. ASSUME UNCHANGED <<deps, status>>,
             \A u \in Tasks : status[u] \in Active /\ result'[u] = "none" => result[u] = "none"
      PROVE  RunsOnIntegratedWork'
    BY <1>1, <1>5 DEF Inv, RunsOnIntegratedWork, dependenciesSatisfied
<1>6. CASE UNCHANGED vars
    BY <1>5, <1>6 DEF vars
<1>7. CASE BeginPass
    BY <1>5, <1>7 DEF BeginPass, graph, execution
<1>8. ASSUME NEW t \in Tasks, FinalizeResult(t) PROVE RunsOnIntegratedWork'
    BY <1>4, <1>8, FinalizeFacts DEF Inv, TypeOK, Active, Terminal, Success, Failure
<1>9. ASSUME NEW t \in Tasks, ReopenForQaRepair(t) PROVE RunsOnIntegratedWork'
    <2>1. /\ pc = "reopen" /\ t \in batch /\ status' = [status EXCEPT ![t] = "retrying"]
          /\ UNCHANGED <<result, deps>>
        BY <1>9 DEF ReopenForQaRepair, IsFirst, graph, execution
    <2>2. result[QA] = "changes" /\ t.stage = "implementation"
        BY <2>1 DEF Inv, ResultsInv
    <2>3. status[QA] \in Active
        BY <1>1, <2>2, TaskFacts DEF Inv, ResultsInv, Active
    <2>4. ASSUME NEW u \in Tasks, status'[u] \in Active, result'[u] = "none"
          PROVE  \A d \in deps'[u] : status'[d] \in Success
        <3>1. u # t /\ status[u] \in Active /\ result[u] = "none" /\ deps[u] \subseteq Tasks
            BY <2>1, <2>4 DEF Inv, TypeOK, Active
        <3>2. \A d \in deps[u] : status[d] \in Success
            BY <1>1, <3>1 DEF Inv, RunsOnIntegratedWork, dependenciesSatisfied
        <3>3. \A i \in WorkItems : status[Item(i)] \notin Active
            BY <1>1, <2>3 DEF Inv, WorkInv, Active, Success
        <3>4. u.stage # "implementation" /\ u # QA
            BY <2>2, <3>1, <3>3, TaskFacts
        <3>5. t \notin deps[u]
            BY <2>2, <3>4 DEF Inv, EdgesInv
        <3>. QED  BY <2>1, <3>1, <3>2, <3>5 DEF Inv, TypeOK
    <2>. QED  BY <2>4 DEF RunsOnIntegratedWork, dependenciesSatisfied
<1>10. CASE QaRepairScheduled
    <2>1. status' = [status EXCEPT ![QA] = "retrying"] /\ result' = [result EXCEPT ![QA] = "none"]
          /\ deps' = deps
        BY <1>10 DEF QaRepairScheduled, graph
    <2>2. \A u \in Tasks : status[u] \in Success => status'[u] \in Success
        BY <1>2, <1>10, TaskFacts DEF ReopenForQaRepair, IsFirst, QaRepairScheduled
    <2>3. \A u \in Tasks : status'[u] \in Active /\ result'[u] = "none"
                            => status[u] \in Active /\ result[u] = "none"
        BY <2>1, TaskFacts DEF Inv, TypeOK, Active
    <2>4. \A u \in Tasks : deps[u] \subseteq Tasks
        BY DEF Inv, TypeOK
    <2>. QED  BY <1>1, <2>1, <2>2, <2>3, <2>4 DEF Inv, RunsOnIntegratedWork,
                 dependenciesSatisfied
<1>11. CASE ResultsFinalized
    BY <1>5, <1>11 DEF ResultsFinalized, graph, execution, OnlyRows
<1>12. CASE RefineBootstrapTopology
    <2>1. CASE UNCHANGED <<phase, planned, status, deps>>
        BY <1>5, <1>12, <2>1, RefineFacts
    <2>2. CASE phase' = "refined" /\ phase = "provisional"
        <3>1. pc = "refine" /\ status[Technical] \in Waiting /\ result' = result
            BY <1>12, <2>2, RefineFacts
        <3>2. PICK R \in SUBSET {Review(r) : r \in Reviews} :
                /\ status' = [t \in Tasks |-> IF t \in R THEN "routed" ELSE status[t]]
                /\ \A t \in Tasks \ (R \cup {Technical}) : deps'[t] = deps[t]
            BY <1>12, <2>2, RefineFacts
        <3>3. \A u \in Tasks : status'[u] \in Active =>
                /\ status[u] \in Active /\ deps'[u] = deps[u] /\ deps[u] \subseteq Tasks
            BY <3>1, <3>2 DEF Active, Waiting, Inv, TypeOK
        <3>4. \A u \in Tasks : status[u] \in Success => status'[u] \in Success
            BY <1>2, <1>3, <3>1
        <3>. QED  BY <1>1, <3>1, <3>3, <3>4 DEF Inv, RunsOnIntegratedWork,
                     dependenciesSatisfied
    <2>. QED  BY <1>12, <2>1, <2>2, RefineFacts
<1>13. CASE recoverExpiredExecutions
    BY <1>4, <1>13 DEF recoverExpiredExecutions, graph, Active, Inv, TypeOK
<1>14. CASE CascadeRound
    BY <1>4, <1>14 DEF CascadeRound, OnlyRows, graph, execution, Active, Inv, TypeOK
<1>15. CASE CascadeDone
    BY <1>5, <1>15 DEF CascadeDone, graph, execution, OnlyRows
<1>16. CASE CompileRefinedDag
    <2>1. pc = "compile" /\ result' = result
        BY <1>16, CompileFacts
    <2>2. CASE UNCHANGED <<status, deps>>
        BY <1>5, <2>1, <2>2
    <2>3. CASE addTasks
        <3>1. PICK added \in SUBSET CompiledTasks(planned) :
                /\ status' = [t \in Tasks |-> IF t \in added THEN "routed" ELSE status[t]]
                /\ \A t \in Tasks \ added : deps'[t] = deps[t]
            BY <2>3, AddTasksFacts
        <3>2. \A u \in Tasks : status'[u] \in Active =>
                /\ status[u] \in Active /\ deps'[u] = deps[u] /\ deps[u] \subseteq Tasks
            BY <3>1 DEF Active, Inv, TypeOK
        <3>3. \A u \in Tasks : status[u] \in Success => status'[u] \in Success
            BY <1>2, <1>3, <2>1
        <3>. QED  BY <1>1, <2>1, <3>2, <3>3 DEF Inv, RunsOnIntegratedWork,
                     dependenciesSatisfied
    <2>. QED  BY <1>16, <2>2, <2>3, CompileFacts
<1>17. CASE replacePlan
    BY <1>5, <1>17 DEF replacePlan, graph, execution
<1>18. CASE ClosePlanOnlyRun
    BY <1>5, <1>18 DEF ClosePlanOnlyRun, graph, execution
<1>19. CASE SettleRun
    BY <1>5, <1>19 DEF SettleRun, graph, execution
<1>20. CASE SelectReady
    BY <1>5, <1>20 DEF SelectReady, graph, execution
<1>21. ASSUME NEW t \in Tasks, DispatchReadyTask(t) PROVE RunsOnIntegratedWork'
    <2>1. /\ pc = "dispatch" /\ t \in batch /\ UNCHANGED <<result, deps>>
        BY <1>21 DEF DispatchReadyTask, IsFirst, graph, execution
    <2>2. status[t] \in Waiting /\ dependenciesSatisfied(t)
        BY <1>1, <2>1 DEF Inv, WorkInv
    <2>3. status' = [status EXCEPT ![t] = "queued"]
        BY <1>21, <2>2 DEF DispatchReadyTask
    <2>4. \A u \in Tasks : status[u] \in Success => status'[u] \in Success
        BY <1>2, <1>3, <2>1
    <2>5. \A u \in Tasks : status'[u] \in Active /\ result'[u] = "none" => dependenciesSatisfied(u)
        BY <1>1, <2>1, <2>2, <2>3 DEF Inv, TypeOK, RunsOnIntegratedWork
    <2>6. \A u \in Tasks : deps[u] \subseteq Tasks
        BY DEF Inv, TypeOK
    <2>. QED  BY <2>1, <2>4, <2>5, <2>6 DEF RunsOnIntegratedWork, dependenciesSatisfied
<1>22. CASE DispatchDone
    BY <1>5, <1>22 DEF DispatchDone, graph, execution, OnlyRows
<1>23. CASE PassFails
    BY <1>5, <1>23 DEF PassFails, graph, execution
<1>24. ASSUME NEW t \in Tasks, Claim(t) PROVE RunsOnIntegratedWork'
    <2>1. \A u \in Tasks : /\ status[u] \in Success <=> status'[u] \in Success
                           /\ status[u] \in Active <=> status'[u] \in Active
        BY <1>24 DEF Inv, TypeOK, Claim, Success, Active
    <2>2. UNCHANGED <<deps, result>> /\ \A u \in Tasks : deps[u] \subseteq Tasks
        BY <1>24 DEF Inv, TypeOK, Claim, graph, execution
    <2>. QED  BY <1>1, <2>1, <2>2 DEF Inv, RunsOnIntegratedWork, dependenciesSatisfied
<1>25. ASSUME NEW t \in Tasks, WorkerDies(t) PROVE RunsOnIntegratedWork'
    BY <1>5, <1>25 DEF WorkerDies, graph, execution
<1>26. ASSUME NEW t \in Tasks, RetryWindowOpens(t) PROVE RunsOnIntegratedWork'
    BY <1>5, <1>26 DEF RetryWindowOpens, graph, execution
<1>27. ASSUME NEW t \in Tasks, NEW f \in PreparationFailures, PreparationFails(t, f)
       PROVE  RunsOnIntegratedWork'
    BY <1>4, <1>27 DEF PreparationFails, graph, execution, Inv, TypeOK, Active
<1>28. ASSUME NEW t \in Tasks, NEW o \in Outcomes, Finish(t, o) PROVE RunsOnIntegratedWork'
    BY <1>5, <1>28 DEF Finish, graph, Inv, TypeOK
<1>29. CASE StartCancel
    BY <1>29 DEF StartCancel
<1>30. ASSUME NEW t \in Tasks, CancelTask(t) PROVE RunsOnIntegratedWork'
    BY <1>1, <1>30 DEF CancelTask
<1>31. CASE CancelRun
    BY <1>31 DEF CancelRun
<1>. QED  BY <1>6, <1>7, <1>8, <1>9, <1>10, <1>11, <1>12, <1>13, <1>14, <1>15, <1>16,
          <1>17, <1>18, <1>19, <1>20, <1>21, <1>22, <1>23, <1>24, <1>25, <1>26, <1>27,
          <1>28, <1>29, <1>30, <1>31 DEF Next, PassStep, CancelStep

\* A run a pass has ended changes no more, unless it is cancelled.
LEMMA EndedRunRests ==
    ASSUME Inv, [Next]_vars, run \in TerminalRun, cancel' = "none"
    PROVE  UNCHANGED <<intent, run, phase, planned, status, deps, pc, cancel>>
<1>1. cancel = "none"
    BY CancelStays
<1>2. pc = "idle" /\ \A u \in Tasks : status[u] \in Terminal \cup {"absent"}
    BY <1>1 DEF Inv, EndInv, AllTerminal, Rows
<1>3. CASE UNCHANGED vars
    BY <1>3 DEF vars
<1>4. CASE BeginPass
    BY <1>4 DEF BeginPass
<1>5. ASSUME NEW t \in Tasks, FinalizeResult(t)
      PROVE  UNCHANGED <<intent, run, phase, planned, status, deps, pc, cancel>>
    BY <1>2, <1>5 DEF FinalizeResult
<1>6. ASSUME NEW t \in Tasks, ReopenForQaRepair(t)
      PROVE  UNCHANGED <<intent, run, phase, planned, status, deps, pc, cancel>>
    BY <1>2, <1>6 DEF ReopenForQaRepair
<1>7. CASE QaRepairScheduled
    BY <1>2, <1>7 DEF QaRepairScheduled
<1>8. CASE ResultsFinalized
    BY <1>2, <1>8 DEF ResultsFinalized
<1>9. CASE RefineBootstrapTopology
    BY <1>2, <1>9 DEF RefineBootstrapTopology
<1>10. CASE recoverExpiredExecutions
    BY <1>2, <1>10 DEF recoverExpiredExecutions
<1>11. CASE CascadeRound
    BY <1>2, <1>11 DEF CascadeRound
<1>12. CASE CascadeDone
    BY <1>2, <1>12 DEF CascadeDone
<1>13. CASE CompileRefinedDag
    BY <1>2, <1>13 DEF CompileRefinedDag
<1>14. CASE replacePlan
    BY <1>2, <1>14 DEF replacePlan
<1>15. CASE ClosePlanOnlyRun
    BY <1>2, <1>15 DEF ClosePlanOnlyRun
<1>16. CASE SettleRun
    BY <1>2, <1>16 DEF SettleRun
<1>17. CASE SelectReady
    BY <1>2, <1>17 DEF SelectReady
<1>18. ASSUME NEW t \in Tasks, DispatchReadyTask(t)
      PROVE  UNCHANGED <<intent, run, phase, planned, status, deps, pc, cancel>>
    BY <1>2, <1>18 DEF DispatchReadyTask
<1>19. CASE DispatchDone
    BY <1>2, <1>19 DEF DispatchDone
<1>20. CASE PassFails
    BY <1>2, <1>20 DEF PassFails
<1>21. ASSUME NEW t \in Tasks, Claim(t)
      PROVE  UNCHANGED <<intent, run, phase, planned, status, deps, pc, cancel>>
    BY <1>2, <1>21 DEF Claim, Terminal, Success, Failure
<1>22. ASSUME NEW t \in Tasks, WorkerDies(t)
      PROVE  UNCHANGED <<intent, run, phase, planned, status, deps, pc, cancel>>
    BY <1>2, <1>22 DEF WorkerDies, Terminal, Success, Failure
<1>23. ASSUME NEW t \in Tasks, RetryWindowOpens(t)
      PROVE  UNCHANGED <<intent, run, phase, planned, status, deps, pc, cancel>>
    BY <1>23 DEF RetryWindowOpens, graph, operator
<1>24. ASSUME NEW t \in Tasks, NEW f \in PreparationFailures, PreparationFails(t, f)
      PROVE  UNCHANGED <<intent, run, phase, planned, status, deps, pc, cancel>>
    BY <1>2, <1>24 DEF PreparationFails
<1>25. ASSUME NEW t \in Tasks, NEW o \in Outcomes, Finish(t, o)
      PROVE  UNCHANGED <<intent, run, phase, planned, status, deps, pc, cancel>>
    BY <1>2, <1>25 DEF Finish, Terminal, Success, Failure
<1>26. CASE StartCancel
    BY <1>26 DEF StartCancel
<1>27. ASSUME NEW t \in Tasks, CancelTask(t)
      PROVE  UNCHANGED <<intent, run, phase, planned, status, deps, pc, cancel>>
    BY <1>1, <1>27 DEF CancelTask
<1>28. CASE CancelRun
    BY <1>28 DEF CancelRun
<1>. QED  BY <1>3, <1>4, <1>5, <1>6, <1>7, <1>8, <1>9, <1>10, <1>11, <1>12, <1>13,
          <1>14, <1>15, <1>16, <1>17, <1>18, <1>19, <1>20, <1>21, <1>22, <1>23, <1>24,
          <1>25, <1>26, <1>27, <1>28 DEF Next, PassStep, CancelStep

\* A pass ends a run as its last step, and a cancellation does.
LEMMA WhoEndsRuns ==
    ASSUME [Next]_vars, run \notin TerminalRun, run' \in TerminalRun, cancel' = "none"
    PROVE  SettleRun \/ ClosePlanOnlyRun
<1>1. CASE UNCHANGED vars
    BY <1>1 DEF vars
<1>2. CASE BeginPass
    BY <1>2 DEF BeginPass, TerminalRun
<1>3. ASSUME NEW t \in Tasks, FinalizeResult(t) PROVE SettleRun \/ ClosePlanOnlyRun
    BY <1>3 DEF FinalizeResult
<1>4. ASSUME NEW t \in Tasks, ReopenForQaRepair(t) PROVE SettleRun \/ ClosePlanOnlyRun
    BY <1>4 DEF ReopenForQaRepair
<1>5. CASE QaRepairScheduled
    BY <1>5 DEF QaRepairScheduled
<1>6. CASE ResultsFinalized
    BY <1>6 DEF ResultsFinalized, OnlyRows
<1>7. CASE RefineBootstrapTopology
    BY <1>7 DEF RefineBootstrapTopology
<1>8. CASE recoverExpiredExecutions
    BY <1>8 DEF recoverExpiredExecutions
<1>9. CASE CascadeRound
    BY <1>9 DEF CascadeRound, OnlyRows
<1>10. CASE CascadeDone
    BY <1>10 DEF CascadeDone, OnlyRows
<1>11. CASE CompileRefinedDag
    BY <1>11 DEF CompileRefinedDag
<1>12. CASE replacePlan
    BY <1>12 DEF replacePlan
<1>13. CASE ClosePlanOnlyRun
    BY <1>13
<1>14. CASE SettleRun
    BY <1>14
<1>15. CASE SelectReady
    BY <1>15 DEF SelectReady
<1>16. ASSUME NEW t \in Tasks, DispatchReadyTask(t) PROVE SettleRun \/ ClosePlanOnlyRun
    BY <1>16 DEF DispatchReadyTask
<1>17. CASE DispatchDone
    BY <1>17 DEF DispatchDone, OnlyRows
<1>18. CASE PassFails
    BY <1>18 DEF PassFails
<1>19. ASSUME NEW t \in Tasks, Claim(t) PROVE SettleRun \/ ClosePlanOnlyRun
    BY <1>19 DEF Claim
<1>20. ASSUME NEW t \in Tasks, WorkerDies(t) PROVE SettleRun \/ ClosePlanOnlyRun
    BY <1>20 DEF WorkerDies
<1>21. ASSUME NEW t \in Tasks, RetryWindowOpens(t) PROVE SettleRun \/ ClosePlanOnlyRun
    BY <1>21 DEF RetryWindowOpens
<1>22. ASSUME NEW t \in Tasks, NEW f \in PreparationFailures, PreparationFails(t, f)
       PROVE  SettleRun \/ ClosePlanOnlyRun
    BY <1>22 DEF PreparationFails
<1>23. ASSUME NEW t \in Tasks, NEW o \in Outcomes, Finish(t, o)
       PROVE  SettleRun \/ ClosePlanOnlyRun
    BY <1>23 DEF Finish
<1>24. CASE StartCancel
    BY <1>24 DEF StartCancel
<1>25. ASSUME NEW t \in Tasks, CancelTask(t) PROVE SettleRun \/ ClosePlanOnlyRun
    BY <1>25 DEF CancelTask
<1>26. CASE CancelRun
    BY <1>26 DEF CancelRun
<1>. QED  BY <1>1, <1>2, <1>3, <1>4, <1>5, <1>6, <1>7, <1>8, <1>9, <1>10, <1>11, <1>12,
          <1>13, <1>14, <1>15, <1>16, <1>17, <1>18, <1>19, <1>20, <1>21, <1>22, <1>23,
          <1>24, <1>25, <1>26 DEF Next, PassStep, CancelStep

\* A plan is closed when the Technical Lead is done, that is when every task of
\* the bootstrap plan is.
LEMMA PlanOnlyFacts ==
    ASSUME Inv, cancel = "none", pc = "close-plan"
    PROVE  /\ intent = "plan-only" /\ phase = "compiled"
           /\ \A t \in Rows : status[t] \in Success
<1>1. intent = "plan-only" /\ phase = "compiled" /\ status[Technical] \in Success
    BY DEF Inv, EndInv
<1>2. \A d \in deps[Technical] : status[d] \in Success
    BY <1>1 DEF Inv, WorkInv, dependenciesSatisfied
<1>3. Rows \subseteq Bootstrap
    BY <1>1 DEF Inv, RowsInv
<1>4. Rows \subseteq {Technical} \cup deps[Technical]
    BY <1>1, <1>3 DEF Inv, EdgesInv
<1>. QED  BY <1>1, <1>2, <1>4

\* How a pass comes to close a plan.
LEMMA PcSteps ==
    ASSUME [Next]_vars
    PROVE  \/ pc' = pc \/ pc' \notin {"replace-plan", "close-plan"}
           \/ CompileRefinedDag \/ (replacePlan /\ pc = "replace-plan")
<1>. DEFINE Comes == \/ pc' = pc \/ pc' \notin {"replace-plan", "close-plan"}
                     \/ CompileRefinedDag \/ (replacePlan /\ pc = "replace-plan")
<1>1. CASE UNCHANGED vars
    BY <1>1 DEF vars
<1>2. CASE BeginPass
    BY <1>2 DEF BeginPass
<1>3. ASSUME NEW t \in Tasks, FinalizeResult(t) PROVE Comes
    BY <1>3 DEF FinalizeResult
<1>4. ASSUME NEW t \in Tasks, ReopenForQaRepair(t) PROVE Comes
    BY <1>4 DEF ReopenForQaRepair
<1>5. CASE QaRepairScheduled
    BY <1>5 DEF QaRepairScheduled
<1>6. CASE ResultsFinalized
    BY <1>6 DEF ResultsFinalized, OnlyRows
<1>7. CASE RefineBootstrapTopology
    BY <1>7 DEF RefineBootstrapTopology
<1>8. CASE recoverExpiredExecutions
    BY <1>8 DEF recoverExpiredExecutions
<1>9. CASE CascadeRound
    BY <1>9 DEF CascadeRound, OnlyRows
<1>10. CASE CascadeDone
    BY <1>10 DEF CascadeDone, OnlyRows
<1>11. CASE CompileRefinedDag
    BY <1>11
<1>12. CASE replacePlan
    BY <1>12 DEF replacePlan
<1>13. CASE ClosePlanOnlyRun
    BY <1>13 DEF ClosePlanOnlyRun
<1>14. CASE SettleRun
    BY <1>14 DEF SettleRun
<1>15. CASE SelectReady
    BY <1>15 DEF SelectReady
<1>16. ASSUME NEW t \in Tasks, DispatchReadyTask(t) PROVE Comes
    BY <1>16 DEF DispatchReadyTask
<1>17. CASE DispatchDone
    BY <1>17 DEF DispatchDone, OnlyRows
<1>18. CASE PassFails
    BY <1>18 DEF PassFails
<1>19. ASSUME NEW t \in Tasks, Claim(t) PROVE Comes
    BY <1>19 DEF Claim
<1>20. ASSUME NEW t \in Tasks, WorkerDies(t) PROVE Comes
    BY <1>20 DEF WorkerDies
<1>21. ASSUME NEW t \in Tasks, RetryWindowOpens(t) PROVE Comes
    BY <1>21 DEF RetryWindowOpens
<1>22. ASSUME NEW t \in Tasks, NEW f \in PreparationFailures, PreparationFails(t, f)
       PROVE  Comes
    BY <1>22 DEF PreparationFails
<1>23. ASSUME NEW t \in Tasks, NEW o \in Outcomes, Finish(t, o) PROVE Comes
    BY <1>23 DEF Finish
<1>24. CASE StartCancel
    BY <1>24 DEF StartCancel
<1>25. ASSUME NEW t \in Tasks, CancelTask(t) PROVE Comes
    BY <1>25 DEF CancelTask
<1>26. CASE CancelRun
    BY <1>26 DEF CancelRun
<1>. QED  BY <1>1, <1>2, <1>3, <1>4, <1>5, <1>6, <1>7, <1>8, <1>9, <1>10, <1>11, <1>12,
          <1>13, <1>14, <1>15, <1>16, <1>17, <1>18, <1>19, <1>20, <1>21, <1>22, <1>23,
          <1>24, <1>25, <1>26 DEF Next, PassStep, CancelStep

\* EndInv is kept.
LEMMA EndStep ==
    ASSUME Inv, [Next]_vars
    PROVE  EndInv'
<1>1. ASSUME pc' = "close-plan" PROVE intent' = "plan-only" /\ phase' = "compiled"
    <2>1. CASE replacePlan
        BY <1>1, <2>1 DEF replacePlan
    <2>2. CASE pc = "close-plan"
        <3>1. UNCHANGED <<intent, phase>>
            BY <2>2, GraphStays DEF FinalizeResult, RefineBootstrapTopology,
                                    CompileRefinedDag, replacePlan
        <3>. QED  BY <2>2, <3>1 DEF Inv, EndInv
    <2>3. CASE CompileRefinedDag
        BY <1>1, <2>3, CompileFacts
    <2>. QED  BY <1>1, <2>1, <2>2, <2>3, PcSteps
<1>2. ASSUME cancel' = "none", run' \in TerminalRun PROVE pc' = "idle" /\ AllTerminal'
    <2>1. CASE run \in TerminalRun
        <3>1. cancel = "none"
            BY <1>2, CancelStays
        <3>2. UNCHANGED <<pc, status>>
            BY <1>2, <2>1, EndedRunRests
        <3>. QED  BY <2>1, <3>1, <3>2 DEF Inv, EndInv, AllTerminal, Rows
    <2>2. CASE run \notin TerminalRun /\ SettleRun
        <3>1. AllTerminal /\ pc' = "idle" /\ UNCHANGED status
            BY <1>2, <2>2 DEF SettleRun
        <3>. QED  BY <3>1 DEF AllTerminal, Rows
    <2>3. CASE run \notin TerminalRun /\ ClosePlanOnlyRun
        <3>1. pc' = "idle" /\ UNCHANGED status /\ pc = "close-plan" /\ cancel = "none"
            BY <1>2, <2>3, CancelStays DEF ClosePlanOnlyRun
        <3>2. AllTerminal
            BY <3>1, PlanOnlyFacts DEF AllTerminal, Terminal
        <3>. QED  BY <3>1, <3>2 DEF AllTerminal, Rows
    <2>. QED  BY <1>2, <2>1, <2>2, <2>3, WhoEndsRuns
<1>3. ASSUME cancel' = "none", pc' \in {"replace-plan", "close-plan"}
      PROVE  status'[Technical] \in Success
    <2>1. cancel = "none"
        BY <1>3, CancelStays
    <2>2. status[Technical] \in Success
        <3>1. CASE pc \in {"replace-plan", "close-plan"}
            BY <2>1, <3>1 DEF Inv, EndInv
        <3>2. CASE CompileRefinedDag
            BY <1>3, <3>2, CompileFacts
        <3>3. CASE replacePlan
            BY <3>1, <3>3 DEF replacePlan
        <3>. QED  BY <1>3, <3>1, <3>2, <3>3, PcSteps
    <2>3. pc' # "reopen" /\ ~ReopenForQaRepair(Technical)
        BY <1>3 DEF ReopenForQaRepair
    <2>. QED  BY <1>3, <2>2, <2>3, SuccessStays, TaskFacts
<1>. QED  BY <1>1, <1>2, <1>3 DEF EndInv

\* A pass closes a run where its work is integrated, and only there.
LEMMA StatusStep ==
    ASSUME Inv, [Next]_vars
    PROVE  ClosedIsProven' /\ IntegratedRunCloses'
<1>. SUFFICES ASSUME cancel' = "none", run' \in TerminalRun
              PROVE  ClosedIsProven' /\ IntegratedRunCloses'
    BY DEF ClosedIsProven, IntegratedRunCloses, TerminalRun
<1>1. cancel = "none"
    BY CancelStays
<1>2. CASE run \in TerminalRun
    <2>1. UNCHANGED <<intent, run, phase, planned, status, deps, pc, cancel>>
        BY <1>2, EndedRunRests
    <2>2. Rows' = Rows
        BY <2>1 DEF Rows
    <2>. QED  BY <2>1, <2>2 DEF Inv, ClosedIsProven, IntegratedRunCloses
<1>3. CASE run \notin TerminalRun /\ ClosePlanOnlyRun
    <2>1. /\ intent = "plan-only" /\ phase = "compiled"
          /\ \A t \in Rows : status[t] \in Success
        BY <1>1, <1>3, PlanOnlyFacts DEF ClosePlanOnlyRun
    <2>2. UNCHANGED <<intent, phase, planned, status, deps>>
        BY <1>3 DEF ClosePlanOnlyRun, graph
    <2>3. Rows' = Rows
        BY <2>2 DEF Rows
    <2>. QED  BY <2>1, <2>2, <2>3 DEF ClosedIsProven, IntegratedRunCloses
<1>4. CASE run \notin TerminalRun /\ SettleRun
    <2>1. /\ pc \in {"settle", "settle-again"} /\ AllTerminal /\ run' = FinalStatus
          /\ UNCHANGED <<intent, phase, planned, status, deps>>
        BY <1>4 DEF SettleRun, EndRun, graph
    <2>2. Rows' = Rows
        BY <2>1 DEF Rows
    <2>3. Rows = planned
        BY <1>1, <2>1 DEF Inv, RowsInv
    <2>. DEFINE some(x) == \E t \in Rows : status[t] = x
                rows == IF some("failed") THEN "failed" ELSE IF some("blocked") THEN "blocked"
                        ELSE IF some("cancelled") THEN "cancelled" ELSE "closed"
                promoted == evaluatePromotion(
                              status[QA] \in Success,
                              \A t \in ReadinessTasks(planned) : status[t] \in Success,
                              status[Acceptance] \in Success,
                              {t \in Rows : status[t] \in Failure})
    <2>4. FinalStatus = IF phase = "compiled" /\ (rows = "closed" => promoted) THEN rows ELSE "failed"
        BY DEF FinalStatus
    <2>5. rows = "closed" <=> \A t \in Rows : status[t] \in Success
        <3>1. rows = "closed" <=> ~some("failed") /\ ~some("blocked") /\ ~some("cancelled")
            OBVIOUS
        <3>. HIDE DEF rows
        <3>. QED  BY <2>1, <3>1 DEF AllTerminal, Terminal, Success, Failure
    <2>. HIDE DEF rows
    <2>6. ClosedIsProven'
        <3>. SUFFICES ASSUME FinalStatus = "closed" PROVE ClosedIsProven'
            BY <2>1 DEF ClosedIsProven
        <3>1. phase = "compiled" /\ rows = "closed"
            BY <2>4
        <3>2. intent = "execute" => CompiledTasks(planned) \subseteq Rows
            BY <2>3, <3>1 DEF Inv, RowsInv
        <3>3. \A t \in Rows : deps[t] \subseteq Rows
            BY DEF Inv, EdgesInv
        <3>. QED  BY <2>1, <2>2, <2>3, <2>5, <3>1, <3>2, <3>3 DEF ClosedIsProven
    <2>7. IntegratedRunCloses'
        <3>. SUFFICES ASSUME intent = "execute", Acceptance \in Rows,
                             \A t \in Rows : status[t] \in Success
                      PROVE  FinalStatus = "closed"
            BY <2>1, <2>2 DEF IntegratedRunCloses
        <3>1. Acceptance \notin Bootstrap
            BY CompiledFacts DEF Inv, TypeOK, RowsInv
        <3>2. phase = "compiled"
            BY <2>3, <3>1 DEF Inv, RowsInv
        <3>3. CompiledTasks(planned) \subseteq Rows
            BY <2>3, <3>2 DEF Inv, RowsInv
        <3>4. {QA, Acceptance} \cup ReadinessTasks(planned) \subseteq Rows
            BY <3>3, CompiledFacts DEF Inv, TypeOK, RowsInv
        <3>5. {t \in Rows : status[t] \in Failure} = {}
            BY DEF Success, Failure
        <3>6. promoted
            BY <3>4, <3>5 DEF evaluatePromotion
        <3>. QED  BY <2>4, <2>5, <3>2, <3>6
    <2>. QED  BY <2>6, <2>7
<1>. QED  BY <1>2, <1>3, <1>4, WhoEndsRuns

-----------------------------------------------------------------------------
(* The theorems. *)

\* The invariant holds when a run is created.
LEMMA InvInit ==
    ASSUME Init
    PROVE  Inv
<1>. USE DEF Init, ProvisionalTasks
<1>1. /\ {Product, Technical} \subseteq Tasks
      /\ \A t \in Tasks : t \notin {Product, Technical} => status[t] = "absent"
      /\ status[Product] = "routed" /\ status[Technical] = "routed"
    BY TaskFacts
<1>2. Rows = ProvisionalTasks
    BY <1>1 DEF Rows
<1>3. TypeOK
    BY <1>1, BoundsAssumption DEF TypeOK, Waiting, ProvisionalDeps, TerminalRun
<1>4. RowsInv
    <2>1. ProvisionalTasks \subseteq Bootstrap
        BY DEF Bootstrap
    <2>. QED  BY <1>2, <2>1 DEF RowsInv
<1>5. EdgesInv
    <2>1. \A t \in Tasks : deps[t] = IF t = Technical THEN {Product} ELSE {}
        BY DEF ProvisionalDeps
    <2>2. Product.stage # "implementation" /\ QA \notin ProvisionalTasks
        BY TaskFacts
    <2>3. RequirementsAreValid(brief.facts)
        BY DEF NoBrief, RequirementsAreValid, normalizeBootstrapFactRequirements
    <2>. QED  BY <1>1, <1>2, <2>1, <2>2, <2>3 DEF EdgesInv
<1>6. AttemptsInv /\ ResultsInv /\ BatchInv
    BY <1>1 DEF AttemptsInv, ResultsInv, BatchInv
<1>7. WorkInv
    <2>1. status[QA] = "absent" /\ \A t \in Tasks : attempt[t] = 0
        BY <1>1, TaskFacts
    <2>. QED  BY <1>1, <2>1 DEF WorkInv, Active, Success
<1>8. EndInv /\ ClosedIsProven /\ IntegratedRunCloses
    BY DEF EndInv, TerminalRun, ClosedIsProven, IntegratedRunCloses
<1>9. ActiveTasks = {}
    BY <1>1 DEF ActiveTasks, Active
<1>10. ParallelBound
    BY <1>9, FS_EmptySet, BoundsAssumption DEF ParallelBound
<1>11. RunsOnIntegratedWork
    BY <1>1 DEF RunsOnIntegratedWork, Active
<1>. QED  BY <1>3, <1>4, <1>5, <1>6, <1>7, <1>8, <1>10, <1>11 DEF Inv

\* The parts of the inductive invariant hold together, of every run: what the
\* plan, the rows, the edges, the attempts and the results say of each other.
THEOREM InvHolds == Spec => []Inv
<1>1. Inv /\ [Next]_vars => Inv'
    BY TypeStep, RowsStep, EdgesStep, AttemptsStep, ResultsStep, WorkStep, BoundStep,
       EndStep, IntegratedStep, StatusStep DEF Inv
<1>. QED  BY <1>1, InvInit, PTL DEF Spec

\* The types of the scheduler's state.
THEOREM TypeCorrect == Spec => []TypeOK
<1>1. Inv => TypeOK
    BY DEF Inv
<1>. QED  BY <1>1, InvHolds, PTL

\* What a run dispatches may be dispatched: it builds on integrated work, there
\* are never more than maxParallel tasks of the run queued or running, and a
\* pass that was cut short leaves nothing to dispatch or to finalize that no
\* plan names (selectReadyDispatchTasks, dispatchReadyTasks, compileRefinedDag).
THEOREM DispatchSound == Spec => []DispatchIsSound
<1>1. Inv => PlanKnowsTheWork
    <2>. SUFFICES ASSUME Inv PROVE PlanKnowsTheWork
        OBVIOUS
    <2>1. \A t \in Tasks : result[t] # "none" \/ attempt[t] > 0 => t \in planned
        BY DEF Inv, TypeOK, AttemptsInv
    <2>. QED  BY <2>1 DEF Inv, RowsInv, AttemptsInv, PlanKnowsTheWork
<1>2. Inv => DispatchIsSound
    BY <1>1 DEF Inv, DispatchIsSound
<1>. QED  BY <1>2, InvHolds, PTL

\* A run is closed when its work is integrated and proven, and only then
\* (finalizeExecution).
THEOREM StatusRight == Spec => []StatusIsRight
<1>1. Inv => StatusIsRight
    BY DEF Inv, StatusIsRight
<1>. QED  BY <1>1, InvHolds, PTL

\* Integrated work is taken back for Quality Assurance alone, within its attempt
\* budget, while its result is pending and before anything downstream of it has
\* started (reopenImplementationDependenciesForQaRepair).
THEOREM QaRepairContained == Spec => QaRepairIsContained
<1>. DEFINE Contained ==
       \A t \in Tasks :
         status[t] \in Success /\ status'[t] \notin Success /\ cancel = "none" =>
           /\ t.stage = "implementation" /\ attempt[t] < MaxAttempts
           /\ status[QA] \notin Success /\ result[QA] = "changes"
           /\ \A d \in Tasks : QA \in deps[d] => attempt[d] = 0
<1>1. Inv /\ [Next]_vars => [Contained]_vars
    <2>. SUFFICES ASSUME Inv, [Next]_vars, NEW t \in Tasks, status[t] \in Success,
                         status'[t] \notin Success, cancel = "none"
                  PROVE  /\ t.stage = "implementation" /\ attempt[t] < MaxAttempts
                         /\ status[QA] \notin Success /\ result[QA] = "changes"
                         /\ \A d \in Tasks : QA \in deps[d] => attempt[d] = 0
        OBVIOUS
    <2>1. CASE cancel' = "none"
        <3>1. pc = "reopen" /\ t \in batch
            BY <2>1, SuccessStays DEF ReopenForQaRepair, IsFirst
        <3>2. /\ t.stage = "implementation" /\ attempt[t] < MaxAttempts
              /\ result[QA] = "changes"
            BY <3>1 DEF Inv, ResultsInv
        <3>3. status[QA] = "running"
            BY <3>2, TaskFacts DEF Inv, ResultsInv
        <3>4. \A d \in Tasks : QA \in deps[d] => attempt[d] = 0
            BY <3>3 DEF Inv, TypeOK, WorkInv, Success
        <3>. QED  BY <3>2, <3>3, <3>4 DEF Success
    <2>2. CASE cancel' # "none"
        <3>1. status' = status
            BY <2>2, CancelSteps
        <3>. QED  BY <3>1
    <2>. QED  BY <2>1, <2>2
<1>. QED  BY <1>1, InvHolds, PTL DEF Spec, QaRepairIsContained
=============================================================================
