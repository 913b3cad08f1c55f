--------------------------- MODULE Qualification ---------------------------
(***************************************************************************)
(* The standalone qualification controller                                 *)
(* (scripts/qualification/standalone-v1.mjs): it runs the gates of its     *)
(* scope in order, stops at the first divergence, and always ends with the *)
(* cleanup gate R-11.  The controller is one sequential process; around it *)
(* move the source checkout, the Docker resources it started, the runtime  *)
(* whose runs it watches, and the OpenCode host.                           *)
(*                                                                         *)
(* A check the model has no state for (a version, an inventory, a schema)  *)
(* may pass or hold.  A wait is a poll that may succeed, may hold on what  *)
(* it reads, or runs into its time limit.                                  *)
(***************************************************************************)
EXTENDS Naturals, Sequences, FiniteSets

CONSTANTS
  DisturbanceBound   \* how many of the disturbances below may happen

ASSUME DisturbanceAssumption == DisturbanceBound \in Nat

VARIABLES
  scope,        \* "full-promotion" or "wave10-worker-loss"
  pc,           \* <<gate, step>> of the controller
  results,      \* QualificationReport.gates: the result of each gate
  divergence,   \* report.firstDivergence: the gate of the first hold
  src,          \* the checkout: its HEAD and whether the tree is dirty
  identity,     \* report.identity: what is recorded so far, as sets of at most one
  live,         \* the resources that exist
  handle,       \* the resources state.* still names
  kept,         \* the resources whose removal failed
  armed,        \* the containers whose environment holds the fault controls
  watched,      \* the runtime run under observation
  host,         \* how often the OpenCode host was started
  task,         \* R-9: the technical refinement task and its executions
  delivery,     \* the wake of the run's continuation
  seen,         \* the locals of the gate that is waiting
  disturbances  \* the disturbances so far

ctl   == <<scope, results, divergence>>
held  == <<live, handle, kept>>
world == <<watched, host, task, delivery>>
gatesVars == <<scope, pc, results, divergence, src, identity, live, handle, kept,
              armed, watched, host, task, delivery, seen, disturbances>>

FullOrder == <<"Q-ENTRY", "PRE-R0", "R-0", "R-1", "R-2", "R-3", "R-4", "R-5",
               "R-6", "R-7", "R-8", "R-9", "R-10">>
Wave10Order == <<"Q-ENTRY", "PRE-R0", "R-0", "R-1", "R-2", "R-3", "R-4", "R-5",
                 "R-6", "R-9">>
GateOrder == IF scope = "full-promotion" THEN FullOrder ELSE Wave10Order
Gates == {FullOrder[i] : i \in DOMAIN FullOrder} \cup {"R-11"}
\* "lost-auth" is a credential directory that state does not name.
Resources == {"dns", "tei", "consumers", "auth", "lost-auth", "stack", "gateway", "headroom",
              "opencode"}
None == "none"

(***************************************************************************)
(* The checkout.  A tree digest is a function of the commit and of what is *)
(* edited on top of it.                                                    *)
(***************************************************************************)
Clean == ~src.dirty
TreeSha256 == <<src.head, src.dirty>>
CleanTrees(heads) == {<<h, FALSE>> : h \in heads}

(***************************************************************************)
(* The watched task: its attempt, its current execution (dispatch          *)
(* generation and fence advance together), the phase that execution is in, *)
(* the executions whose behaviour container is up, that started one, that  *)
(* resumed from the repair checkpoint without a model call, that passed,   *)
(* that died with their worker, whose resume receipt became an event,      *)
(* whose result was refused; whether the lease has run out; the worker and *)
(* gateway containers; and the execution whose result closed the run.      *)
(***************************************************************************)
FreshTask == [attempt |-> 1, exec |-> 0, phase |-> None, checkpoint |-> FALSE,
              box |-> {}, started |-> {}, resumed |-> {}, passed |-> {}, lost |-> {},
              projected |-> {}, rejected |-> {}, expired |-> FALSE,
              up |-> TRUE, restarts |-> 0, gateway |-> 0, closedBy |-> 0]
NoDelivery == [status |-> None, host |-> 0]
FreshSeen == [read |-> {}, target |-> 0, restarts |-> 0, gateway |-> 0, kills |-> 0]

GatesInit ==
  /\ scope \in {"full-promotion", "wave10-worker-loss"}
  /\ pc = <<"Q-ENTRY", "enter">>
  /\ results = [g \in Gates |-> "PENDING"]
  /\ divergence = None
  /\ src = [head |-> 0, dirty |-> FALSE]
  /\ identity = [preHead |-> {}, head |-> {}, tree |-> {}, sub |-> {}, post |-> {}]
  /\ live = {} /\ handle = {} /\ kept = {}
  /\ armed = {}
  /\ watched = None /\ host = 0 /\ task = FreshTask /\ delivery = NoDelivery
  /\ seen = FreshSeen
  /\ disturbances = 0

(***************************************************************************)
(* The report.                                                             *)
(***************************************************************************)
Index(g) == CHOOSE i \in DOMAIN GateOrder : GateOrder[i] = g
NextGate(g) == IF g = GateOrder[Len(GateOrder)] THEN "R-11" ELSE GateOrder[Index(g) + 1]

At(g, step) == pc[1] = g /\ pc[2] = step

Goto(step) == pc' = <<pc[1], step>> /\ UNCHANGED ctl

Pass ==
  /\ results' = [results EXCEPT ![pc[1]] = "PASS"]
  /\ pc' = <<NextGate(pc[1]), "enter">>
  /\ UNCHANGED <<scope, divergence>>

\* A gate that throws: it is the first divergence, the gates after it are not
\* run, and the cleanup gate is next.
Hold ==
  /\ results' = [g \in Gates |->
       IF g = pc[1] THEN "HOLD"
       ELSE IF g # "R-11" /\ results[g] = "PENDING" THEN "NOT RUN" ELSE results[g]]
  /\ divergence' = IF divergence = None THEN pc[1] ELSE divergence
  /\ pc' = <<"R-11", "enter">>
  /\ UNCHANGED scope

\* A check of something the model keeps no state for.
Checks(step) == Goto(step) \/ Hold

(***************************************************************************)
(* Resources.  A resource is started and its handle published in state; a  *)
(* removal may fail, and the code swallows that.                           *)
(***************************************************************************)
Starts(r) == live' = live \cup {r} /\ handle' = handle \cup {r} /\ UNCHANGED kept

OneMoreDisturbance == disturbances < DisturbanceBound /\ disturbances' = disturbances + 1

Removes(r) ==
  \/ live' = live \ {r} /\ UNCHANGED <<kept, disturbances>>
  \/ r \in live /\ OneMoreDisturbance /\ kept' = kept \cup {r} /\ UNCHANGED live

(***************************************************************************)
(* Q-ENTRY to R-2: the environment and the source candidate.               *)
(***************************************************************************)
qEntry ==
  /\ At("Q-ENTRY", "enter")
  /\ Pass \/ Hold
  /\ UNCHANGED <<src, identity, held, armed, world, seen, disturbances>>

\* The head is read first and recorded when every probe has passed.
preR0 ==
  \/ /\ At("PRE-R0", "enter")
     /\ (Clean /\ Goto("dns-up")) \/ Hold
     /\ seen' = [seen EXCEPT !.read = {src.head}]
     /\ UNCHANGED <<src, identity, held, armed, world, disturbances>>
  \/ /\ At("PRE-R0", "end")
     /\ \/ Clean /\ Pass /\ identity' = [identity EXCEPT !.preHead = seen.read]
        \/ Hold /\ UNCHANGED identity
     /\ UNCHANGED <<src, held, armed, world, seen, disturbances>>

\* Each probe names its resource in state, starts it, and in its finally
\* block removes it and forgets it, even when the removal failed.
ProbeUp(r, step) ==
  /\ At("PRE-R0", step)
  /\ \/ Starts(r)
     \/ handle' = handle \cup {r} /\ UNCHANGED <<live, kept>>
  /\ Goto(r)
  /\ UNCHANGED <<src, identity, armed, world, seen, disturbances>>

ProbeDown(r, step) ==
  /\ At("PRE-R0", r)
  /\ Removes(r)
  /\ handle' = handle \ {r}
  /\ (r \in live /\ Goto(step)) \/ Hold
  /\ UNCHANGED <<src, identity, armed, world, seen>>

preR0Networking ==
  \/ ProbeUp("dns", "dns-up") \/ ProbeDown("dns", "tei-up")
  \/ ProbeUp("tei", "tei-up") \/ ProbeDown("tei", "end")

\* The candidate: a clean tree at the head of PRE-R0.  The head is read before
\* the tree is digested; both are recorded at the end.
r0 ==
  \/ /\ At("R-0", "enter")
     /\ (Clean /\ {src.head} = identity.preHead /\ Goto("tree")) \/ Hold
     /\ seen' = [seen EXCEPT !.read = {src.head}]
     /\ UNCHANGED <<src, identity, held, armed, world, disturbances>>
  \/ /\ At("R-0", "tree")
     /\ \/ Pass /\ identity' = [identity EXCEPT !.head = seen.read, !.tree = {TreeSha256}]
        \/ Hold /\ UNCHANGED identity
     /\ UNCHANGED <<src, held, armed, world, seen, disturbances>>

r1 ==
  /\ At("R-1", "enter")
  /\ (Clean /\ Pass) \/ Hold
  /\ UNCHANGED <<src, identity, held, armed, world, seen, disturbances>>

r2 ==
  /\ At("R-2", "enter")
  /\ (Clean /\ Pass) \/ Hold
  /\ UNCHANGED <<src, identity, held, armed, world, seen, disturbances>>

(***************************************************************************)
(* R-3 to R-6: the consumers, the stack and the hosts.                     *)
(***************************************************************************)
\* The two directories exist before state names them: a directory inside the
\* harness root holds the gate with nothing to clean up.
r3Consumers ==
  /\ At("R-3", "enter")
  /\ \/ Starts("consumers") /\ Goto("submodule")
     \/ live' = live \cup {"consumers"} /\ UNCHANGED <<handle, kept>> /\ Hold
  /\ UNCHANGED <<src, identity, armed, world, seen, disturbances>>

\* Mutant: the submodule is not compared with the candidate.
r3Unchecked ==
  \/ /\ At("R-3", "submodule")
     /\ Checks("image")
     /\ identity' = [identity EXCEPT !.sub = {<<src.head, FALSE>>}]
     /\ UNCHANGED <<src, held, armed, world, seen, disturbances>>
  \/ /\ At("R-3", "image")
     /\ (Clean /\ Pass) \/ Hold
     /\ UNCHANGED <<src, identity, held, armed, world, seen, disturbances>>

\* The submodule is a clone of the committed head; its head and tree are
\* compared with R-0.
r3 ==
  \/ /\ At("R-3", "submodule")
     /\ \/ /\ {src.head} = identity.head /\ {<<src.head, FALSE>>} = identity.tree
           /\ Goto("image")
        \/ Hold
     /\ identity' = [identity EXCEPT !.sub = {<<src.head, FALSE>>}]
     /\ UNCHANGED <<src, held, armed, world, seen, disturbances>>
  \/ /\ At("R-3", "image")
     /\ (Clean /\ Pass) \/ Hold
     /\ UNCHANGED <<src, identity, held, armed, world, seen, disturbances>>

\* buildConsumerEnv with prepareQualificationOpenCodeAuthProjection: the
\* credential is copied to a directory of its own, once.  The directory is made
\* first, and named in state when the copy is written.
buildConsumerEnv ==
  /\ At("R-4", "enter")
  /\ \/ Starts("auth") /\ Goto("up")
     \/ live' = live \cup {"lost-auth"} /\ UNCHANGED <<handle, kept>> /\ Hold
     \/ UNCHANGED held /\ Hold
  /\ UNCHANGED <<src, identity, armed, world, seen, disturbances>>

\* `harness up` for the runtime profile, then the gateway of the
\* behavior-gateway profile.
ComposeUp(step, r, next) ==
  /\ At("R-4", step)
  /\ \/ live' = live \cup {r} /\ (Goto(next) \/ Hold)
     \/ UNCHANGED live /\ Hold
  /\ UNCHANGED <<handle, kept>>
  /\ UNCHANGED <<src, identity, armed, world, seen, disturbances>>

r4 ==
  \/ ComposeUp("up", "stack", "gateway-up")
  \/ ComposeUp("gateway-up", "gateway", "inspect")
  \/ /\ At("R-4", "inspect")
     /\ Pass \/ Hold
     /\ UNCHANGED <<src, identity, held, armed, world, seen, disturbances>>

\* startHeadroomProxy stops a child that does not become ready; the handle is
\* set when it returns.
r5 ==
  \/ /\ At("R-5", "enter")
     /\ \/ Starts("headroom") /\ Goto("config")
        \/ UNCHANGED held /\ Hold
     /\ UNCHANGED <<src, identity, armed, world, seen, disturbances>>
  \/ /\ At("R-5", "config")
     /\ Pass \/ Hold
     /\ UNCHANGED <<src, identity, held, armed, world, seen, disturbances>>

\* Mutant: the host is recorded only when it answers.
startQualifiedOpenCodePublishedLate(g, step) ==
  /\ At(g, step)
  /\ \/ /\ "opencode" \notin live
        /\ host' = host + 1
        /\ \/ Starts("opencode") /\ Goto("health")
           \/ live' = live \cup {"opencode"} /\ UNCHANGED <<handle, kept>> /\ Hold
     \/ UNCHANGED <<held, host>> /\ Hold
  /\ UNCHANGED <<src, identity, armed, watched, task, delivery, seen, disturbances>>

\* The child is published before it is healthy.
startQualifiedOpenCode(g, step) ==
  /\ At(g, step)
  /\ \/ /\ "opencode" \notin live
        /\ Starts("opencode")
        /\ host' = host + 1
        /\ Goto("health")
     \/ UNCHANGED <<held, host>> /\ Hold
  /\ UNCHANGED <<src, identity, armed, watched, task, delivery, seen, disturbances>>

r6 ==
  \/ startQualifiedOpenCode("R-6", "enter")
  \/ /\ At("R-6", "health")
     /\ ("opencode" \in live /\ Pass) \/ Hold
     /\ UNCHANGED <<src, identity, held, armed, world, seen, disturbances>>

(***************************************************************************)
(* The waits.                                                              *)
(***************************************************************************)
Quiet == UNCHANGED <<src, identity, held, armed, world, seen, disturbances>>

\* A session is opened and the workload posted to it; the watch begins on a
\* run that does not exist yet.
sendWorkload(g, step) ==
  /\ At(g, step)
  /\ \/ /\ "opencode" \in live
        /\ watched' = "requested"
        /\ delivery' = NoDelivery
        /\ Goto("run")
     \/ UNCHANGED <<watched, delivery>> /\ Hold
  /\ UNCHANGED <<src, identity, held, armed, host, task, seen, disturbances>>

\* waitForRunId and requireDurableContinuation: a run bound to the session, or
\* a hold on what the host did instead, or the safety ceiling.
waitForRunId(g, step) ==
  /\ At(g, "run")
  /\ (watched # "requested" /\ Goto(step)) \/ Hold
  /\ Quiet

WatchedRunOver == watched \in {"closed", "failed"}

(***************************************************************************)
(* evaluateRuntimeObservation: what the watchdog makes of one look at the  *)
(* run.  `doing` is the busiest state of a task; `late` says that the      *)
(* limit that applies to it has run out: the worker's heartbeat, the soft, *)
(* hard and stall limits and the lease of a running task, the grace of a   *)
(* queued one or of a scheduler with nothing under way.  A retry that is   *)
(* scheduled for later is waited for.                                      *)
(***************************************************************************)
Observations == [doing : {"running", "queued", "retrying", "idle"}, late : BOOLEAN]
evaluateRuntimeObservation(o) ==
  IF WatchedRunOver THEN "terminal"
  ELSE IF o.late /\ o.doing # "retrying" THEN "violation" ELSE "wait"

\* waitForTerminalRun; a run that never ends meets the emergency ceiling.
waitForTerminalRun(g, step) ==
  /\ At(g, "terminal")
  /\ \/ \E o \in Observations :
          \/ evaluateRuntimeObservation(o) = "terminal" /\ Goto(step)
          \/ evaluateRuntimeObservation(o) = "violation" /\ Hold
     \/ Hold
  /\ Quiet

\* evaluateContinuationObservation, with the limits of the delivery run out or not.
evaluateContinuationObservation(late) ==
  CASE delivery.status = "dead" -> "violation"
    [] delivery.status = "observed" -> "terminal"
    [] OTHER -> IF late THEN "violation" ELSE "wait"

waitForContinuationObserved(g, step) ==
  /\ At(g, "observed")
  /\ \E late \in BOOLEAN :
       \/ evaluateContinuationObservation(late) = "terminal" /\ Goto(step)
       \/ evaluateContinuationObservation(late) = "violation" /\ Hold
  /\ Quiet

r7 ==
  \/ sendWorkload("R-7", "enter")
  \/ waitForRunId("R-7", "terminal")
  \/ waitForTerminalRun("R-7", "validate")
  \/ At("R-7", "validate") /\ ((watched = "closed" /\ Pass) \/ Hold) /\ Quiet

r8 ==
  \/ At("R-8", "enter") /\ Goto("observed") /\ Quiet
  \/ waitForContinuationObserved("R-8", "events")
  \/ At("R-8", "events") /\ (Pass \/ Hold) /\ Quiet

(***************************************************************************)
(* R-9: the worker is killed inside the behaviour gate, and the recovery   *)
(* has to be read off the rows, the containers and the events.             *)
(***************************************************************************)
\* A service is recreated with the given controls; the environment of the new
\* container may not carry what was asked for.
Recreate(g, step, service, controls, next) ==
  /\ At(g, step)
  /\ \/ /\ armed' = IF controls THEN armed \cup {service} ELSE armed \ {service}
        /\ UNCHANGED disturbances
     \/ OneMoreDisturbance /\ UNCHANGED armed
  /\ Checks(next)
  /\ UNCHANGED <<src, identity, held, world, seen>>

r9Arm ==
  \/ Recreate("R-9", "enter", "context", TRUE, "arm-worker")
  \/ Recreate("R-9", "arm-worker", "worker", TRUE, "projection")
  \/ /\ At("R-9", "projection")
     /\ (armed = {"context", "worker"} /\ Goto("workload")) \/ Hold
     /\ Quiet
  \/ sendWorkload("R-9", "workload")
  \/ waitForRunId("R-9", "boundary")

\* Rows that have stopped changing are a stall only while no execution is under
\* way: a running row without a result or a completion is waited for.
r9SemanticStallDisposition == task.phase \in {None, "done", "closed"}

\* The boundary is the checkpoint file of the running first attempt.  The poll
\* holds on a failed run and on a stall, and gives up after twenty minutes.
r9Boundary ==
  /\ At("R-9", "boundary")
  /\ \/ /\ watched = "active" /\ task.checkpoint /\ task.exec > 0 /\ task.attempt = 1
        /\ seen' = [seen EXCEPT !.target = task.exec]
        /\ Goto("window")
     \/ (watched = "failed" \/ r9SemanticStallDisposition) /\ UNCHANGED seen /\ Hold
     \/ UNCHANGED seen /\ Hold
  /\ UNCHANGED <<src, identity, held, armed, world, disturbances>>

\* The behaviour gate of execution x was started and its container is up.
PhysicalWindow(x) == x \in task.started /\ x \in task.box

r9Window ==
  \/ /\ At("R-9", "window")
     /\ (PhysicalWindow(seen.target) /\ Goto("inspect")) \/ Hold
     /\ Quiet
  \/ /\ At("R-9", "inspect")
     /\ seen' = [seen EXCEPT !.gateway = task.gateway, !.restarts = task.restarts]
     /\ (task.up /\ Goto("kill")) \/ Hold
     /\ UNCHANGED <<src, identity, held, armed, world, disturbances>>

\* The worker's process is gone: what it executed is lost with it.
Dead(t) == [t EXCEPT !.up = FALSE,
                     !.lost = IF t.phase \in {None, "lost", "closed"} THEN @ ELSE @ \cup {t.exec},
                     !.phase = IF @ \in {None, "closed"} THEN @ ELSE "lost"]

r9Kill ==
  /\ At("R-9", "kill")
  /\ \/ task.up /\ task' = Dead(task)
     \/ ~task.up /\ UNCHANGED task
  /\ seen' = [seen EXCEPT !.kills = @ + 1]
  /\ Goto("removed")
  /\ UNCHANGED <<src, identity, held, armed, watched, host, delivery, disturbances>>

\* The container goes without the gateway being restarted; then exactly the
\* killed identity is expired.
r9Expire ==
  \/ /\ At("R-9", "removed")
     /\ (seen.target \notin task.box /\ task.gateway = seen.gateway /\ Goto("expire")) \/ Hold
     /\ Quiet
  \/ /\ At("R-9", "expire")
     /\ \/ /\ watched = "active" /\ task.exec = seen.target
           /\ task' = [task EXCEPT !.expired = TRUE]
           /\ Goto("restarted")
        \/ UNCHANGED task /\ Hold
     /\ UNCHANGED <<src, identity, held, armed, watched, host, delivery, seen, disturbances>>

\* The worker is back, restarted once; the task runs again with the same
\* attempt and the next generation and fence.
r9Replacement ==
  \/ /\ At("R-9", "restarted")
     /\ (task.up /\ task.restarts = seen.restarts + 1 /\ Goto("replacement")) \/ Hold
     /\ Quiet
  \/ /\ At("R-9", "replacement")
     /\ \/ /\ task.exec = seen.target + 1 /\ task.attempt = 1
           /\ task.phase \notin {"lost", "closed"} /\ Goto("receipt")
        \/ Hold
     /\ Quiet

\* The resume receipt is read once the replacement's behaviour gate started.
r9Receipt ==
  /\ At("R-9", "receipt")
  /\ \/ /\ seen.target + 1 \in task.started
        /\ task.exec = seen.target + 1 /\ task.exec \in task.resumed
        /\ Goto("r-window")
     \/ Hold
  /\ Quiet

r9ReplacementBehavior ==
  \/ /\ At("R-9", "r-window")
     /\ (PhysicalWindow(seen.target + 1) /\ Goto("r-completed")) \/ Hold
     /\ Quiet
  \/ /\ At("R-9", "r-completed")
     /\ \/ /\ seen.target + 1 \in task.passed /\ seen.target + 1 \notin task.box
           /\ task.gateway = seen.gateway
           /\ Goto("terminal")
        \/ Hold
     /\ Quiet

\* Mutant: the resume receipt of any execution is enough.
H9RRecoveryEvidenceOfAnyExecution == task.projected # {}

\* evaluateH9RRecoveryEvidence on the events the finalizer projected: there is
\* the resume receipt of the replacement.  Which execution closed the run is not
\* asked.
evaluateH9RRecoveryEvidence == seen.target + 1 \in task.projected

r9Evidence ==
  \/ waitForTerminalRun("R-9", "evidence")
  \/ /\ At("R-9", "evidence")
     /\ (watched = "closed" /\ evaluateH9RRecoveryEvidence /\ Goto("disarm-context")) \/ Hold
     /\ Quiet

\* The controls are taken back from both services, and that is read off their
\* environments.
r9Disarm ==
  \/ Recreate("R-9", "disarm-context", "context", FALSE, "disarmed-context")
  \/ At("R-9", "disarmed-context")
       /\ (("context" \notin armed /\ Goto("disarm-worker")) \/ Hold) /\ Quiet
  \/ Recreate("R-9", "disarm-worker", "worker", FALSE, "disarmed-worker")
  \/ At("R-9", "disarmed-worker") /\ (("worker" \notin armed /\ Pass) \/ Hold) /\ Quiet

(***************************************************************************)
(* R-10: services restart, then the OpenCode host is taken away before the *)
(* wake is dispatched and given back.                                      *)
(***************************************************************************)
\* Five services are restarted in turn; each comes back or holds the gate.
r10Restarts ==
  /\ At("R-10", "enter")
  /\ Checks("workload")
  /\ Quiet

waitForR10PreOutageBoundary ==
  /\ At("R-10", "boundary")
  /\ \/ watched = "refined" /\ delivery.status = None /\ Goto("outage")
     \/ Hold
  /\ Quiet

r10Outage ==
  \/ /\ At("R-10", "outage")
     /\ \/ /\ "opencode" \in live /\ Goto("down")
           /\ Removes("opencode")
        \/ UNCHANGED <<live, kept, disturbances>> /\ Hold
     /\ UNCHANGED <<handle, src, identity, armed, world, seen>>
  \/ /\ At("R-10", "down")
     /\ ("opencode" \notin live /\ Goto("terminal")) \/ Hold
     /\ Quiet

\* evaluateContinuationOutageDeferral: deferred before any dispatch is what
\* the gate waits for; anything further along means the fault came too late.
evaluateContinuationOutageDeferral ==
  CASE delivery.status \in {None, "pending"} -> "wait"
    [] delivery.status = "deferred" /\ delivery.host = 0 -> "terminal"
    [] OTHER -> "violation"

r10Deferred ==
  \/ waitForTerminalRun("R-10", "deferred")
  \/ /\ At("R-10", "deferred")
     /\ \/ watched = "closed" /\ evaluateContinuationOutageDeferral = "terminal" /\ Goto("restart")
        \/ Hold
     /\ Quiet

r10 ==
  \/ r10Restarts
  \/ sendWorkload("R-10", "workload")
  \/ waitForRunId("R-10", "boundary")
  \/ waitForR10PreOutageBoundary
  \/ r10Outage
  \/ r10Deferred
  \/ startQualifiedOpenCode("R-10", "restart")
  \/ At("R-10", "health") /\ (("opencode" \in live /\ Goto("observed")) \/ Hold) /\ Quiet
  \/ waitForContinuationObserved("R-10", "validate")
  \/ At("R-10", "validate") /\ (Pass \/ Hold) /\ Quiet

(***************************************************************************)
(* R-11: cleanup removes what state names and compares the source.         *)
(***************************************************************************)
\* The OpenCode and Headroom children and the two probes, if still named.
cleanupHosts ==
  /\ At("R-11", "enter")
  /\ \E stuck \in SUBSET (handle \cap live \cap {"opencode", "headroom", "dns", "tei"}) :
       /\ Cardinality(stuck) + disturbances <= DisturbanceBound
       /\ live' = (live \ (handle \cap {"opencode", "headroom", "dns", "tei"})) \cup stuck
       /\ kept' = kept \cup stuck
       /\ disturbances' = disturbances + Cardinality(stuck)
  /\ Goto("stack")
  /\ UNCHANGED <<handle, src, identity, armed, world, seen>>

\* `harness down`, when consumer A holds a harness.  Without an environment yet
\* it builds one, and the credential directory with it, which is removed next,
\* or fails to, and nothing is taken down.  The command names the runtime
\* profile: whether its --remove-orphans reaches the gateway, a service of a
\* profile it does not name, is up to the version of docker compose.
cleanupStack ==
  /\ At("R-11", "stack")
  /\ \E built \in {{}, {"auth"}, {"lost-auth"}}, down \in {{"stack"}, {"stack", "gateway"}} :
       /\ built # {} => "consumers" \in handle /\ "auth" \notin handle
       /\ \/ /\ live' = (live \cup built) \ (IF "consumers" \in handle /\ built # {"lost-auth"}
                                            THEN down ELSE {})
             /\ UNCHANGED <<kept, disturbances>>
          \/ /\ "stack" \in live /\ OneMoreDisturbance
             /\ live' = live \cup built /\ kept' = kept \cup {"stack"}
       /\ handle' = handle \cup (built \cap {"auth"})
  /\ Goto("auth")
  /\ UNCHANGED <<src, identity, armed, world, seen>>

\* A hold of the cleanup gate ends it; it is the divergence if none came first.
HoldCleanup ==
  /\ results' = [results EXCEPT !["R-11"] = "HOLD"]
  /\ divergence' = IF divergence = None THEN "R-11" ELSE divergence
  /\ pc' = <<"R-11", "done">>
  /\ UNCHANGED scope

\* Directories are removed without a catch: a failure ends the gate there.
cleanupDirectory(r, next) ==
  /\ At("R-11", r)
  /\ \/ /\ live' = IF r \in handle THEN live \ {r} ELSE live
        /\ UNCHANGED <<kept, disturbances>>
        /\ Goto(next)
     \/ /\ r \in handle \cap live /\ OneMoreDisturbance
        /\ kept' = kept \cup {r} /\ UNCHANGED live
        /\ HoldCleanup
  /\ UNCHANGED <<handle, src, identity, armed, world, seen>>

\* Head, status and tree against R-0, for what R-0 got to record.  The state of
\* the ports is reported and not judged.
cleanupSource ==
  /\ At("R-11", "source")
  /\ identity' = [identity EXCEPT !.post = {TreeSha256}]
  /\ \/ /\ Clean
        /\ identity.head \subseteq {src.head} /\ identity.tree \subseteq {TreeSha256}
        /\ results' = [results EXCEPT !["R-11"] = "PASS"]
        /\ pc' = <<"R-11", "done">>
        /\ UNCHANGED <<scope, divergence>>
     \/ /\ ~ (Clean /\ identity.head \subseteq {src.head}
                    /\ identity.tree \subseteq {TreeSha256})
        /\ HoldCleanup
  /\ UNCHANGED <<src, held, armed, world, seen, disturbances>>

cleanup ==
  \/ cleanupHosts \/ cleanupStack
  \/ cleanupDirectory("auth", "consumers") \/ cleanupDirectory("consumers", "source")
  \/ cleanupSource

Over == At("R-11", "done")
Controller ==
  \/ qEntry \/ preR0 \/ preR0Networking \/ r0 \/ r1 \/ r2
  \/ r3Consumers \/ r3 \/ buildConsumerEnv \/ r4 \/ r5 \/ r6 \/ r7 \/ r8
  \/ r9Arm \/ r9Boundary \/ r9Window \/ r9Kill \/ r9Expire \/ r9Replacement
  \/ r9Receipt \/ r9ReplacementBehavior \/ r9Evidence \/ r9Disarm
  \/ r10 \/ cleanup

(***************************************************************************)
(* The world around the controller.                                        *)
(***************************************************************************)
Env == UNCHANGED <<pc, ctl, identity, seen>>

\* Somebody commits to, edits or restores the checkout while the gates run.
SourceMoves ==
  /\ ~Over /\ Env
  /\ \/ src.head = 0 /\ OneMoreDisturbance /\ src' = [src EXCEPT !.head = 1]
     \/ ~src.dirty /\ OneMoreDisturbance /\ src' = [src EXCEPT !.dirty = TRUE]
     \/ /\ src.head = 1 \/ src.dirty
        /\ src' = [head |-> 0, dirty |-> FALSE] /\ UNCHANGED disturbances
  /\ UNCHANGED <<held, armed, world>>

\* The OpenCode host exits by itself.
HostDies ==
  /\ ~Over /\ Env
  /\ "opencode" \in live /\ OneMoreDisturbance
  /\ live' = live \ {"opencode"}
  /\ UNCHANGED <<src, handle, kept, armed, world>>

\* The main orchestrator starts the run the workload asked for.  A run of R-7 or
\* R-10 goes on by itself; the run of R-9 ends with its task.
RunMoves ==
  /\ ~Over /\ Env
  /\ \/ watched = "requested" /\ "opencode" \in live /\ watched' = "active"
     \/ watched = "active" /\ pc[1] # "R-9" /\ watched' = "refined"
     \/ watched = "refined" /\ watched' = "closed"
     \/ watched \in {"active", "refined"} /\ watched' = "failed"
  /\ UNCHANGED <<src, held, armed, host, task, delivery, disturbances>>

\* The wake of an ended run is materialised and dispatched to the host that is
\* up, or deferred when none answers.
DeliveryMoves ==
  /\ ~Over /\ Env
  /\ \/ WatchedRunOver /\ delivery.status = None
          /\ delivery' = [delivery EXCEPT !.status = "pending"]
     \/ /\ delivery.status \in {"pending", "deferred"}
        /\ delivery' = IF "opencode" \in live
                         THEN [status |-> "dispatching",
                               host |-> IF delivery.host = 0 THEN host ELSE delivery.host]
                         ELSE [delivery EXCEPT !.status = "deferred"]
     \/ /\ delivery.status = "dispatching"
        /\ \E s \in {"accepted", "deferred", "dead"} : delivery' = [delivery EXCEPT !.status = s]
     \/ /\ delivery.status = "accepted"
        /\ \E s \in {"observed", "dead"} : delivery' = [delivery EXCEPT !.status = s]
  /\ UNCHANGED <<src, held, armed, watched, host, task, disturbances>>

\* The executor of the current execution.  With the worker armed it writes the
\* checkpoint before its behaviour gate; a later execution resumes from it.
ExecutorMoves ==
  /\ ~Over /\ Env /\ pc[1] = "R-9" /\ watched = "active" /\ task.up
  /\ \/ task.phase = None /\ task' = [task EXCEPT !.exec = 1, !.phase = "model"]
     \/ /\ task.phase = "model"
        /\ task' = IF "worker" \in armed
                     THEN [task EXCEPT !.checkpoint = TRUE, !.phase = "ready"]
                     ELSE [task EXCEPT !.phase = "ready"]
     \/ /\ task.phase = "resuming"
        /\ task' = [task EXCEPT !.resumed = @ \cup {task.exec}, !.phase = "ready"]
     \/ /\ task.phase = "ready"
        /\ task' = [task EXCEPT !.started = @ \cup {task.exec}, !.phase = "started"]
     \/ /\ task.phase = "started"
        /\ task' = [task EXCEPT !.box = @ \cup {task.exec}, !.phase = "behavior"]
     \/ /\ task.phase = "behavior" /\ task.exec \in task.box
        /\ task' = [task EXCEPT !.box = @ \ {task.exec}, !.passed = @ \cup {task.exec},
                                !.phase = "done"]
  /\ UNCHANGED <<src, held, armed, watched, host, delivery, disturbances>>

\* The finalizer takes the result of the execution: its resume receipt becomes
\* an event first, then the result ends the run or is refused, and the next
\* attempt starts with a model call.  A refusal for good fails the run, as
\* RunMoves may at any time.
ResultApplied ==
  /\ ~Over /\ Env /\ pc[1] = "R-9" /\ watched = "active" /\ task.up /\ task.phase = "done"
  /\ LET projected == task.projected \cup ({task.exec} \cap task.resumed) IN
     \/ /\ watched' = "closed"
        /\ task' = [task EXCEPT !.projected = projected, !.phase = "closed",
                                !.closedBy = task.exec]
     \/ /\ task.exec < 3 /\ UNCHANGED watched
        /\ task' = [task EXCEPT !.projected = projected, !.phase = "model",
                                !.rejected = @ \cup {task.exec}, !.exec = @ + 1,
                                !.attempt = @ + 1, !.checkpoint = FALSE]
  /\ UNCHANGED <<src, held, armed, host, delivery, disturbances>>

\* Docker restarts the worker; the gateway removes the container of a client that
\* went away; a lease runs out; the controller dispatches the task again.
Recovery ==
  /\ ~Over /\ Env /\ pc[1] = "R-9"
  /\ \/ ~task.up /\ task' = [task EXCEPT !.up = TRUE, !.restarts = @ + 1]
     \/ \E x \in task.box \cap task.lost : task' = [task EXCEPT !.box = @ \ {x}]
     \/ task.phase = "lost" /\ ~task.expired /\ task' = [task EXCEPT !.expired = TRUE]
     \/ /\ task.phase = "lost" /\ task.expired /\ task.up /\ watched = "active" /\ task.exec < 3
        /\ task' = [task EXCEPT !.exec = @ + 1, !.expired = FALSE,
                                !.phase = IF task.checkpoint THEN "resuming" ELSE "model"]
  /\ UNCHANGED <<src, held, armed, watched, host, delivery, disturbances>>

\* A worker or a gateway that dies by itself; a restarted gateway has no container.
ServiceDies ==
  /\ ~Over /\ Env /\ pc[1] = "R-9" /\ watched = "active" /\ OneMoreDisturbance
  /\ \/ task.up /\ task' = Dead(task) /\ UNCHANGED watched
     \/ /\ task' = [task EXCEPT !.gateway = @ + 1, !.box = {}]
        /\ watched' = IF task.phase = "behavior" THEN "failed" ELSE watched
  /\ UNCHANGED <<src, held, armed, host, delivery>>

Finished == Over /\ UNCHANGED gatesVars

GatesNext ==
  \/ Controller \/ SourceMoves \/ HostDies \/ RunMoves \/ DeliveryMoves
  \/ ExecutorMoves \/ ResultApplied \/ Recovery \/ ServiceDies \/ Finished

\* The controller runs on: every command and every wait has a time limit, after
\* which it throws.  Nothing is assumed of the world.
GatesSpec == GatesInit /\ [][GatesNext]_gatesVars

(***************************************************************************)
(* Properties.                                                             *)
(***************************************************************************)
Steps ==
  {"enter", "dns-up", "dns", "tei-up", "tei", "end", "tree", "submodule", "image", "up",
   "gateway-up", "inspect", "config", "health", "run", "terminal", "validate", "observed",
   "events", "arm-worker", "projection", "workload", "boundary", "window", "kill", "removed", "expire",
   "restarted", "replacement", "receipt", "r-window", "r-completed", "evidence",
   "disarm-context", "disarmed-context", "disarm-worker", "disarmed-worker", "outage", "down",
   "deferred", "restart", "stack", "auth", "consumers", "source", "done"}
Trees == {0, 1} \X BOOLEAN
IdentityRecord == [preHead : SUBSET {0, 1}, head : SUBSET {0, 1}, tree : SUBSET Trees,
                   sub : SUBSET Trees, post : SUBSET Trees]
TaskRecord ==
  [attempt : Nat, exec : Nat,
   phase : {None, "model", "resuming", "ready", "started", "behavior", "done", "closed", "lost"},
   checkpoint : BOOLEAN, box : SUBSET Nat, started : SUBSET Nat, resumed : SUBSET Nat,
   passed : SUBSET Nat, lost : SUBSET Nat, projected : SUBSET Nat, rejected : SUBSET Nat,
   expired : BOOLEAN, up : BOOLEAN,
   restarts : Nat, gateway : Nat, closedBy : Nat]
DeliveryRecord ==
  [status : {None, "pending", "deferred", "dispatching", "accepted", "observed", "dead"},
   host : Nat]
SeenRecord == [read : SUBSET {0, 1}, target : Nat, restarts : Nat, gateway : Nat, kills : Nat]

ReportTypes ==
  /\ scope \in {"full-promotion", "wave10-worker-loss"}
  /\ pc \in Gates \X Steps
  /\ results \in [Gates -> {"PENDING", "PASS", "HOLD", "NOT RUN"}]
  /\ divergence \in Gates \cup {None}
SourceTypes ==
  /\ src \in [head : {0, 1}, dirty : BOOLEAN]
  /\ identity \in IdentityRecord /\ seen \in SeenRecord
HeldTypes ==
  /\ live \subseteq Resources /\ handle \subseteq Resources /\ kept \subseteq Resources
  /\ armed \subseteq {"context", "worker"}
WorldTypes ==
  /\ watched \in {None, "requested", "active", "refined", "closed", "failed"} /\ host \in Nat
  /\ task \in TaskRecord /\ delivery \in DeliveryRecord

\* Type correctness of the controller's state and of what it watches.
GatesTypeOK ==
  ReportTypes /\ SourceTypes /\ HeldTypes /\ WorldTypes /\ disturbances \in 0 .. DisturbanceBound

\* A PASS verdict is a verdict on one candidate: every gate of the scope and
\* the cleanup passed, and the tree that R-0 recorded, clean, is the tree of the
\* head of PRE-R0, the tree of the consumers' submodule and the tree found after
\* cleanup, whatever was committed, edited or restored in the meantime.
PassNamesOneCandidate ==
  Over /\ divergence = None =>
    /\ \A i \in DOMAIN GateOrder : results[GateOrder[i]] = "PASS"
    /\ results["R-11"] = "PASS"
    /\ identity.tree = CleanTrees(identity.preHead)
    /\ identity.sub = identity.tree /\ identity.post = identity.tree

\* Whichever gate held, what is left after cleanup is only what could not be
\* removed, the consumer directories behind a directory that could not, what
\* was made but not yet named when its gate held (the consumer directories, a
\* credential directory), and the gateway's container, if `down` does not reach
\* its profile.
CleanupIsComplete ==
  Over => \A r \in live :
    \/ r \in kept \cup {"lost-auth", "gateway"}
    \/ r = "consumers" /\ ("consumers" \notin handle \/ "auth" \in kept)

\* The qualification-only fault controls of R-9 are in no container once R-9 has
\* passed: the runs of R-10 and of a host that keeps the stack never meet them.
FaultControlsStayInR9 ==
  pc[1] \notin {"R-9", "R-11"} \/ results["R-9"] = "PASS" => armed = {}

\* R-9 passes only on a recovery that happened: the execution it took as its
\* target died with its worker after exactly one kill, the next one resumed from
\* the checkpoint without a second model call, its behaviour passed and the
\* finalizer took its result.  That result closed the run, or it was refused and
\* a later attempt closed it: the gate does not ask which.
RecoveryHappened ==
  results["R-9"] = "PASS" =>
    /\ seen.kills = 1 /\ seen.target \in task.lost
    /\ seen.target + 1 \in task.resumed \cap task.passed
    /\ task.closedBy = seen.target + 1 \/ seen.target + 1 \in task.rejected

\* R-10 passes only on a wake that was held back by the outage: it was first
\* dispatched to the host that R-10 started.
WakeCameAfterOutage ==
  results["R-10"] = "PASS" => delivery.host = 2 /\ host = 2

\* The fault gates pass only on the fault they injected and the recovery that
\* answered it, whatever races with their observations (r9, r10).
FaultsWereRecovered == RecoveryHappened /\ WakeCameAfterOutage

\* What a qualification put in place is gone when it is over, and the fault
\* controls as soon as their gate has passed (r9Disarm, r11).
NothingIsLeftOver == CleanupIsComplete /\ FaultControlsStayInR9

(***************************************************************************)
(* The inductive invariant behind these properties.                        *)
(***************************************************************************)
\* The gates of the scope pass in their order, one after the other, and the
\* cleanup gate passes or is a divergence.
OrderInv ==
  /\ pc[1] # "R-11" => divergence = None /\ \E i \in DOMAIN GateOrder : pc[1] = GateOrder[i]
  /\ \A i, j \in DOMAIN GateOrder :
       pc[1] = GateOrder[i] =>
         results[GateOrder[j]] = IF j < i THEN "PASS" ELSE "PENDING"
  /\ pc[1] = "R-11" /\ divergence = None =>
       \A j \in DOMAIN GateOrder : results[GateOrder[j]] = "PASS"
  /\ Over /\ divergence = None => results["R-11"] = "PASS"
  /\ results["R-10"] = "PASS" => scope = "full-promotion"

\* What the gates have compared of the candidate so far.
CandidateInv ==
  /\ At("R-0", "tree") => seen.read = identity.preHead
  /\ results["R-0"] = "PASS" => identity.head = identity.preHead
  /\ At("R-3", "image") \/ results["R-3"] = "PASS" =>
       /\ identity.tree = CleanTrees(identity.preHead)
       /\ identity.sub = identity.tree /\ identity.tree # {}
  /\ Over /\ divergence = None => identity.post = identity.tree

\* How often the host was started, and which of the hosts has the wake.
HostStopped == {"terminal", "deferred", "restart"}
HostInv ==
  /\ "opencode" \in live => host >= 1
  /\ delivery.status \in {"dispatching", "accepted", "observed", "dead"} => delivery.host >= 1
  /\ \/ pc[1] \in {"Q-ENTRY", "PRE-R0", "R-0", "R-1", "R-2", "R-3", "R-4", "R-5"}
     \/ At("R-6", "enter")
     => host = 0
  /\ \/ pc[1] \in {"R-7", "R-8", "R-9"} \/ At("R-6", "health")
     \/ pc[1] = "R-10" /\ pc[2] \notin {"health", "observed", "validate"}
     => host = 1
  /\ pc[1] = "R-10" /\ pc[2] \in {"health", "observed", "validate"} =>
       host = 2 /\ delivery.host \in {0, 2}
  /\ pc[1] = "R-10" /\ pc[2] \in HostStopped => "opencode" \notin live
  /\ At("R-10", "restart") => delivery.host = 0
  /\ At("R-10", "validate") => delivery.status = "observed"
  /\ WakeCameAfterOutage

\* The executions before the current one are lost; what the steps of R-9 have
\* seen of the target and of its replacement stays so.
Unarmed == {"enter", "arm-worker", "projection", "workload", "run", "boundary"}
Unkilled == Unarmed \cup {"window", "inspect", "kill"}
Disarming == {"disarm-context", "disarmed-context", "disarm-worker", "disarmed-worker"}
Judging == {"terminal", "evidence"} \cup Disarming
Replaced == {"receipt", "r-window", "r-completed"} \cup Judging
RecoveryInv ==
  /\ \A x \in Nat : 0 < x /\ x < task.exec => x \in task.lost \cup task.rejected
  /\ \A x \in task.rejected : x < task.exec
  /\ \A x \in task.projected :
       x \in task.resumed /\ (x \in task.rejected \/ (x = task.closedBy /\ task.phase = "closed"))
  /\ task.phase = "lost" => task.exec \in task.lost
  /\ ~task.up => task.phase \in {None, "lost", "closed"}
  /\ task.phase = None => task.exec = 0
  /\ pc[1] \notin {"R-9", "R-10", "R-11"} \/ (pc[1] = "R-9" /\ pc[2] \in Unkilled) =>
       seen.kills = 0
  /\ pc[1] = "R-9" /\ pc[2] \notin Unkilled => seen.kills = 1
  /\ pc[1] = "R-9" /\ pc[2] \notin Unarmed => 0 < seen.target /\ seen.target <= task.exec
  /\ pc[1] = "R-9" /\ pc[2] \notin Unkilled /\ task.exec = seen.target =>
       task.phase \in {"lost", "closed"}
  /\ pc[1] = "R-9" /\ pc[2] \notin Unkilled \cup {"removed", "expire"} =>
       seen.target \notin task.rejected
  /\ pc[1] = "R-9" /\ pc[2] \in Replaced => seen.target < task.exec
  /\ pc[1] = "R-9" /\ pc[2] \in Judging => seen.target + 1 \in task.passed
  /\ pc[1] = "R-9" /\ pc[2] \in Disarming =>
       watched = "closed" /\ seen.target + 1 \in task.projected
  /\ RecoveryHappened

ArmedInv ==
  /\ pc[1] = "R-9" /\ pc[2] \in {"disarm-worker", "disarmed-worker"} => "context" \notin armed
  /\ FaultControlsStayInR9

\* What exists is named, or could not be removed; the stack goes with the
\* consumers.  Step by step cleanup has dealt with what it names.
CleanupInv ==
  /\ live \subseteq handle \cup kept \cup {"stack", "gateway", "consumers", "lost-auth"}
  /\ "stack" \in live => "consumers" \in handle /\ "auth" \in handle
  /\ pc[1] = "R-4" /\ pc[2] # "enter" => "auth" \in handle
  /\ \/ pc[1] = "R-3" /\ pc[2] # "enter"
     \/ pc[1] \in {"R-4", "R-5", "R-6", "R-7", "R-8", "R-9", "R-10"}
     => "consumers" \in handle
  /\ pc[1] = "R-11" /\ pc[2] # "enter" =>
       live \cap {"opencode", "headroom", "dns", "tei"} \subseteq kept
  /\ pc[1] = "R-11" /\ pc[2] \notin {"enter", "stack"} /\ "stack" \in live => "stack" \in kept
  /\ pc[1] = "R-11" /\ pc[2] \in {"consumers", "source"} /\ "auth" \in live => "auth" \in kept
  /\ At("R-11", "source") /\ "consumers" \in live =>
       "consumers" \in kept \/ "consumers" \notin handle
  /\ CleanupIsComplete

QualificationInv ==
  /\ GatesTypeOK /\ OrderInv /\ CandidateInv /\ HostInv /\ RecoveryInv /\ ArmedInv /\ CleanupInv
=============================================================================
