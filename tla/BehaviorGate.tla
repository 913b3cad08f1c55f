---------------------------- MODULE BehaviorGate ----------------------------
(***************************************************************************)
(* The behaviour gate of a task.  When the executor of an execution has    *)
(* succeeded, the Rust worker asks the docker gateway to run the task's    *)
(* behaviour commands: it writes a capability bound to its fence, posts    *)
(* the request and renews its lease while it waits.  The gateway, a        *)
(* process of its own, verifies the capability in PostgreSQL, prepares     *)
(* each command (image, attestation, toolchain), runs it in a container    *)
(* named after the fence and polls the capability while it runs.           *)
(*                                                                         *)
(* An execution is numbered by its fencing token.  The gateway is one node *)
(* process: from the loading of the configuration to the start of a        *)
(* command it works synchronously, so no other handler runs and no closed  *)
(* connection is noticed meanwhile, but the clock, the rows and the daemon *)
(* go on.  The daemon may create a container after its client is dead.     *)
(***************************************************************************)
EXTENDS Naturals, FiniteSets

CONSTANTS
    MaxExecutions,   \* bound: fencing tokens handed out
    MaxCommands,     \* bound: commands of a request
    MaxRequested,    \* bound: commands requested by all executions together
    LeaseTicks,      \* length of a lease
    MaxClock,        \* bound of the clock
    Reaps,           \* removals after an abort (4 in the code)
    Labelled,        \* images whose labels name the committed source
    Disturbances,    \* the kinds of disturbance considered
    MaxDisturbances  \* bound: how often the environment interferes

Images == {"a", "b", "c"}
DisturbanceKinds == {"cancel", "worker_crash", "gateway_crash", "store", "http",
                     "setup", "docker", "rebuild", "agent", "descriptor", "limit", "client"}

ASSUME BehaviorGateAssumption ==
    /\ MaxExecutions \in Nat \ {0} /\ MaxCommands \in Nat \ {0}
    /\ MaxRequested \in Nat
    /\ LeaseTicks \in Nat \ {0} /\ MaxClock \in Nat /\ Reaps \in Nat \ {0}
    /\ Labelled \subseteq Images
    /\ Disturbances \subseteq DisturbanceKinds /\ MaxDisturbances \in Nat

Executions == 1..MaxExecutions
CommandIds == 1..MaxCommands

VARIABLES
    clock,        \* time
    run,          \* agent_runs.status
    row,          \* agent_tasks: status, fencing token, lease_expires_at
    capabilities, \* executions whose capability checkpoint is written
    worker,       \* the worker's side of an execution
    touched,      \* executions whose agent changed a command-authority input
    commands,     \* the task's behaviour commands are 1 .. commands
    enforceable,  \* commands of the committed descriptor that can be enforced
    handler,      \* the gateway's handler of an execution's request
    image,        \* the image the runner's reference names
    container,    \* the container of an execution and a command
    accepted,     \* the gate results that reached the row (history)
    ranOn,        \* image a command of the latest execution ran on, and the one
                  \* named when it ended (history)
    excused,      \* containers no process of the gateway answers for (history)
    disturbed     \* bound

vars == <<clock, run, row, capabilities, worker, touched, commands, enforceable,
          handler, image, container, accepted, ranOn, excused, disturbed>>
gateway   == <<handler, container, ranOn, excused>>
committed == <<touched, commands, enforceable, image>>
database  == <<clock, run, row, capabilities>>

Disturb(kind) == /\ kind \in Disturbances
                 /\ disturbed < MaxDisturbances /\ disturbed' = disturbed + 1
Quiet == disturbed' = disturbed
\* Either it works, or this kind of disturbance makes it fail.
Attempt(works, kind, good, bad) ==
    \/ Quiet /\ IF works THEN good ELSE bad
    \/ works /\ Disturb(kind) /\ bad

NoWorker  == [pc |-> "none", snapshot |-> 0, result |-> "none"]
NoHandler == [pc |-> "none", command |-> 1, image |-> "none", gone |-> FALSE,
              cli |-> "none", reaps |-> 0, receipt |-> "none", reply |-> "none"]
WorkerTo(e, pc, result) ==
    worker' = [worker EXCEPT ![e] = [worker[e] EXCEPT !.pc = pc, !.result = result]]
Becomes(e, state) == handler' = [handler EXCEPT ![e] = state]
Names     == Executions \X CommandIds

Init ==
    /\ clock = 0 /\ run = "running"
    /\ row = [status |-> "queued", token |-> 0, expires |-> 0]
    /\ capabilities = {} /\ touched = {}
    /\ commands \in CommandIds
    /\ \/ enforceable = CommandIds /\ disturbed = 0
       \/ /\ "descriptor" \in Disturbances /\ MaxDisturbances > 0
          /\ enforceable = CommandIds \ {commands} /\ disturbed = 1
    /\ worker = [e \in Executions |-> NoWorker]
    /\ handler = [e \in Executions |-> NoHandler]
    /\ image = "a"
    /\ container = [n \in Names |-> "none"]
    /\ accepted = [e \in Executions |-> "none"]
    /\ ranOn = [n \in Names |-> <<"none", "none">>]
    /\ excused = {}

-----------------------------------------------------------------------------
(* The rows. *)

HoldsRow(e) == row.status = "running" /\ row.token = e

\* active_behavior_fence, and the same conditions in the gateway's query.
active_behavior_fence(e) == run = "running" /\ HoldsRow(e) /\ row.expires > clock

\* createPostgresCapabilityVerifier: the fence of the row and the fingerprint
\* of this capability, which only its own execution writes.
verifyCapability(e) == active_behavior_fence(e) /\ e \in capabilities

Claim(e) ==
    /\ row.status = "queued" /\ e = row.token + 1 /\ run = "running"
    /\ e * commands <= MaxRequested
    /\ row' = [status |-> "running", token |-> e, expires |-> clock + LeaseTicks]
    /\ WorkerTo(e, "fence", worker[e].result)
    /\ \/ Quiet /\ UNCHANGED touched
       \/ Disturb("agent") /\ touched' = touched \cup {e}
    /\ ranOn' = [n \in Names |-> <<"none", "none">>]
    /\ UNCHANGED <<clock, run, capabilities, commands, enforceable, image, handler,
                   container,
                   excused, accepted>>

\* recoverExpiredExecutions, and the retry of a gate that did not pass.
Requeue ==
    /\ run = "running"
    /\ \/ row.status = "running" /\ row.expires <= clock
       \/ row.status = "ready" /\ accepted[row.token] # "PASSED"
    /\ row' = [row EXCEPT !.status = "queued"]
    /\ UNCHANGED <<clock, run, capabilities, worker, committed, gateway, accepted,
                   disturbed>>

\* cancelRun writes the run, then its tasks.
CancelRun ==
    /\ run = "running" /\ Disturb("cancel") /\ run' = "cancelled"
    /\ UNCHANGED <<clock, row, capabilities, worker, committed, gateway, accepted>>

CancelTask ==
    /\ run = "cancelled" /\ row.status # "cancelled"
    /\ row' = [row EXCEPT !.status = "cancelled"]
    /\ UNCHANGED <<clock, run, capabilities, worker, committed, gateway, accepted,
                   disturbed>>

Tick ==
    /\ clock < MaxClock /\ clock' = clock + 1
    /\ UNCHANGED <<run, row, capabilities, worker, committed, gateway, accepted,
                   disturbed>>

-----------------------------------------------------------------------------
(* The worker: run_behavior_gateway_under_lease. *)

\* The fence before the gate; the request will carry its expiry.
TakeFence(e) ==
    /\ worker[e].pc = "fence"
    /\ Attempt(active_behavior_fence(e), "store",
               worker' = [worker EXCEPT ![e] =
                            [worker[e] EXCEPT !.pc = "persist",
                                              !.snapshot = row.expires]],
               WorkerTo(e, "finish", "HOLD"))
    /\ UNCHANGED <<database, committed, gateway, accepted>>

\* persist_behavior_capability and the start of invoke_gateway.
PersistCapability(e) ==
    /\ worker[e].pc = "persist"
    /\ Attempt(TRUE, "store",
               /\ capabilities' = capabilities \cup {e}
               /\ WorkerTo(e, "wait", "none")
               /\ Becomes(e, [handler[e] EXCEPT !.pc = "received"]),
               /\ WorkerTo(e, "finish", "HOLD")
               /\ UNCHANGED <<capabilities, handler>>)
    /\ UNCHANGED <<clock, run, row, committed, container, ranOn, excused,
                   accepted>>

\* The update names status, owner, generation and token, not the expiry: it
\* also revives a lease that has expired and that nobody has taken over.
Heartbeat(e) ==
    /\ worker[e].pc = "wait"
    /\ HoldsRow(e) => row.expires < clock + LeaseTicks
    /\ Attempt(HoldsRow(e), "store",
               /\ row' = [row EXCEPT !.expires = clock + LeaseTicks]
               /\ UNCHANGED worker,
               /\ WorkerTo(e, "post", "HOLD") /\ UNCHANGED row)
    /\ UNCHANGED <<clock, run, capabilities, committed, gateway, accepted>>

CancellationTick(e) ==
    /\ worker[e].pc = "wait" /\ ~active_behavior_fence(e)
    /\ WorkerTo(e, "post", "HOLD")
    /\ UNCHANGED <<database, committed, gateway, accepted, disturbed>>

Response(e) ==
    /\ worker[e].pc = "wait" /\ handler[e].pc = "replied"
    /\ WorkerTo(e, "post", handler[e].reply)
    /\ Becomes(e, NoHandler)
    /\ UNCHANGED <<database, committed, container, ranOn, excused, accepted,
                   disturbed>>

\* invoke_gateway fails: the gateway is gone, or the http timeout is over.
RequestFails(e) ==
    /\ worker[e].pc = "wait"
    /\ \/ handler[e].pc = "lost" /\ Quiet
       \/ handler[e].pc # "lost" /\ Disturb("http")
    /\ WorkerTo(e, "post", "HOLD")
    /\ UNCHANGED <<database, committed, gateway, accepted>>

PostFence(e) ==
    /\ worker[e].pc = "post"
    /\ Attempt(active_behavior_fence(e), "store",
               WorkerTo(e, "finish", worker[e].result),
               WorkerTo(e, "finish", "HOLD"))
    /\ UNCHANGED <<database, committed, gateway, accepted>>

\* Mutant: the row is taken whoever holds it.
FinishUnfenced(e) ==
    /\ worker[e].pc = "finish"
    /\ WorkerTo(e, "done", worker[e].result)
    /\ IF row.status = "running"
       THEN /\ row' = [row EXCEPT !.status = "ready"]
            /\ accepted' = [accepted EXCEPT ![e] = worker[e].result]
       ELSE UNCHANGED <<row, accepted>>
    /\ UNCHANGED <<clock, run, capabilities, committed, gateway, disturbed>>

\* persist_execution_result takes the row as it was claimed, or nothing; it
\* asks neither for the lease's expiry nor for the status of the run.
Finish(e) ==
    /\ worker[e].pc = "finish"
    /\ WorkerTo(e, "done", worker[e].result)
    /\ IF HoldsRow(e)
       THEN /\ row' = [row EXCEPT !.status = "ready"]
            /\ accepted' = [accepted EXCEPT ![e] = worker[e].result]
       ELSE UNCHANGED <<row, accepted>>
    /\ UNCHANGED <<clock, run, capabilities, committed, gateway, disturbed>>

WorkerCrash(e) ==
    /\ worker[e].pc \in {"fence", "persist", "wait", "post", "finish"}
    /\ Disturb("worker_crash")
    /\ WorkerTo(e, "dead", worker[e].result)
    /\ UNCHANGED <<database, committed, gateway, accepted>>

-----------------------------------------------------------------------------
(* The gateway: preparing a command. *)

Synchronous == {"load", "bind", "volume", "materialize", "attest", "toolchain",
                "launch"}
\* The event loop is free for this handler.
LoopFree(e) == \A o \in Executions \ {e} : handler[o].pc \notin Synchronous

Handle(e, pc) == Becomes(e, [handler[e] EXCEPT !.pc = pc])
ClientGone(e) == worker[e].pc # "wait"
\* The answer of createDockerGatewayServer; nobody hears it on a closed
\* connection.
Reply(e, status) ==
    Becomes(e, IF ClientGone(e) THEN NoHandler
               ELSE [NoHandler EXCEPT !.pc = "replied", !.reply = status])

\* A step of preparation: on to the next one, or a HOLD.
Prepare(e, pc, works, kind, good) ==
    /\ handler[e].pc = pc /\ LoopFree(e)
    /\ Attempt(works, kind, good, Reply(e, "HOLD"))
    /\ UNCHANGED <<database, worker, committed, container, ranOn, excused,
                   accepted>>

\* verifyCapabilityBounded before anything is done; no answer is a HOLD.
VerifyRequest(e) ==
    Prepare(e, "received", verifyCapability(e), "store", Handle(e, "load"))

\* loadCommittedProjectConfiguration from the commit the request names, and
\* its authority compared with the request's.
LoadConfiguration(e) == Prepare(e, "load", TRUE, "setup", Handle(e, "bind"))

\* bindWorkspaceAuthorityInputs: the files that give the commands their
\* authority are those of the commit.
BindWorkspace(e) ==
    Prepare(e, "bind", e \notin touched, "setup", Handle(e, "volume"))

discoverWorkspaceVolume(e) ==
    Prepare(e, "volume", TRUE, "docker", Handle(e, "materialize"))

probeDockerRunnerMaterialization(e) ==
    Prepare(e, "materialize", TRUE, "docker",
            Becomes(e, [handler[e] EXCEPT !.pc = "attest", !.image = image]))

\* The image is inspected by its id: its labels name the committed source.
probeDockerImageSourceAttestation(e) ==
    Prepare(e, "attest", handler[e].image \in Labelled, "docker",
            Handle(e, "toolchain"))

\* The probes run the image by its id; the reference is resolved again after.
probeDockerToolchainV2(e) ==
    Prepare(e, "toolchain", image = handler[e].image, "docker",
            Handle(e, "launch"))

-----------------------------------------------------------------------------
(* The gateway: a command in its container. *)

\* evaluateBehaviorAdmission: the fence is judged by the expiry the request
\* carries, which no heartbeat renews.
FenceFresh(e) == worker[e].snapshot > clock
\* evaluateCommandReadiness: the binding, the image and the toolchain receipt
\* are those of this command.
CommandReady(e) == e \notin touched /\ handler[e].image \in Images
\* admitCommittedCommand and the part of the policy that docker can enforce.
Admitted(e) == handler[e].command \in enforceable
BehaviorAuthorized(e) ==
    CommandReady(e) /\ handler[e].image \in Labelled /\ FenceFresh(e) /\ Admitted(e)

\* The name is bound to the fence and the command: no other execution uses it.
behaviorContainerName(e) == <<e, handler[e].command>>

\* docker run of the attested image under the fence's name.
DockerRun(e) ==
    /\ container' = [container EXCEPT ![behaviorContainerName(e)] = "creating"]
    /\ ranOn' = [ranOn EXCEPT ![behaviorContainerName(e)] = <<handler[e].image, "none">>]

\* executeBehaviorUnderCapabilityFence starts the command, unless the client
\* is known to be gone or the command is not admitted.
Launch(e) ==
    /\ handler[e].pc = "launch" /\ LoopFree(e)
    /\ IF handler[e].gone \/ ~BehaviorAuthorized(e)
       THEN /\ Becomes(e, [handler[e] EXCEPT !.pc = "supervise", !.cli = "settled",
                                             !.receipt = "HOLD"])
            /\ UNCHANGED <<container, ranOn>>
       ELSE /\ Becomes(e, [handler[e] EXCEPT !.pc = "supervise", !.cli = "run"])
            /\ DockerRun(e)
    /\ UNCHANGED <<database, worker, committed, excused, accepted, disturbed>>

\* The daemon, whether or not its client still lives.
ClientOf(n) == IF handler[n[1]].command = n[2] THEN handler[n[1]].cli ELSE "none"

DaemonCreates(n) ==
    /\ container[n] = "creating"
    /\ container' = [container EXCEPT ![n] = "running"]
    /\ excused' = IF ClientOf(n) \in {"run", "killed", "reaping"}
                  THEN excused ELSE excused \cup {n}
    /\ UNCHANGED <<database, worker, committed, handler, accepted, ranOn,
                   disturbed>>

\* The command ends by itself, or docker cannot start it: the client reports
\* a number, and only zero passes.
ContainerExits(n) ==
    /\ container[n] \in {"creating", "running"}
    /\ \E code \in IF container[n] = "running" THEN {"ok", "failed"} ELSE {"failed"} :
         IF ClientOf(n) = "run"
         THEN /\ container' = [container EXCEPT ![n] = code]
              /\ Becomes(n[1], [handler[n[1]] EXCEPT !.cli = "exited"])
         ELSE /\ container' = [container EXCEPT ![n] = "none"]
              /\ UNCHANGED handler
    /\ UNCHANGED <<database, worker, committed, accepted, ranOn, excused,
                   disturbed>>

\* The docker client ends without its container, by a signal or because it
\* has lost the daemon: nothing is removed, as nothing was aborted.
ClientDies(e) ==
    /\ handler[e].cli = "run" /\ Disturb("client")
    /\ Becomes(e, [handler[e] EXCEPT !.cli = "exited"])
    /\ excused' = excused \cup {behaviorContainerName(e)}
    /\ UNCHANGED <<database, worker, committed, container, accepted, ranOn>>

\* removeNamedContainer, "best effort": docker may fail or be too slow, and
\* nobody looks at its status.
removeNamedContainer(n) ==
    \/ container' = [container EXCEPT ![n] = IF @ = "running" THEN "none" ELSE @]
    \/ container' = container

\* stop: the client is killed and the name removed once, at once.
Stop(e, h) ==
    /\ IF h.cli = "run" THEN removeNamedContainer(behaviorContainerName(e))
                        ELSE container' = container
    /\ Becomes(e, IF h.cli = "run" THEN [h EXCEPT !.cli = "killed", !.reaps = Reaps]
                  ELSE h)

\* The command's own time, or its output, is over the limit.
StopAtLimit(e) ==
    /\ handler[e].pc \in {"supervise", "drain"} /\ handler[e].cli = "run" /\ LoopFree(e)
    /\ Disturb("limit") /\ Stop(e, handler[e])
    /\ UNCHANGED <<database, worker, committed, accepted, ranOn, excused>>

\* Mutant: nothing is removed once the killed client has closed.
NoReap(e) ==
    /\ handler[e].cli = "killed" /\ LoopFree(e)
    /\ Becomes(e, [handler[e] EXCEPT !.cli = "settled", !.receipt = "HOLD", !.reaps = 0])
    /\ UNCHANGED <<database, worker, committed, container, accepted, ranOn, excused,
                   disturbed>>

\* verifyNamedContainerRemovedAfterAbort: the daemon may have created the
\* container after the first removal, so the name is removed again and again.
Reap(e) ==
    /\ handler[e].cli \in {"killed", "reaping"} /\ LoopFree(e)
    /\ removeNamedContainer(behaviorContainerName(e))
    /\ Becomes(e, [handler[e] EXCEPT
         !.reaps = @ - 1,
         !.cli = IF handler[e].reaps = 1 THEN "settled" ELSE "reaping",
         !.receipt = IF handler[e].reaps = 1 THEN "HOLD" ELSE @])
    /\ excused' = IF handler[e].reaps = 1 /\ container'[behaviorContainerName(e)] = "running"
                  THEN excused \cup {behaviorContainerName(e)} ELSE excused
    /\ UNCHANGED <<database, worker, committed, accepted, ranOn, disturbed>>

\* The verdict on a command by what is left of its container.
ReceiptsOf(exit) == CASE exit = "ok"     -> {"PASSED"}
                      [] exit = "failed" -> {"FAILED"}
                      [] OTHER           -> {"FAILED", "HOLD"}
Settle(e, receipt) ==
    Becomes(e, [handler[e] EXCEPT !.cli = "settled", !.receipt = receipt])

\* completeDockerBehaviorExecutionV2: the exit code counts only on the image
\* the reference still names.  A client that ended without its container has
\* none, or one that is not zero.
Complete(e) ==
    /\ handler[e].cli = "exited" /\ LoopFree(e)
    /\ ranOn' = [ranOn EXCEPT ![behaviorContainerName(e)] = <<@[1], image>>]
    /\ Attempt(image = handler[e].image, "docker",
               \E r \in ReceiptsOf(container[behaviorContainerName(e)]) : Settle(e, r),
               Settle(e, "HOLD"))
    /\ UNCHANGED <<database, worker, committed, container, accepted, excused>>

-----------------------------------------------------------------------------
(* The gateway: supervision. *)

\* The response's close event aborts the command that runs.
ClientDisconnects(e) ==
    /\ ClientGone(e) /\ ~handler[e].gone /\ LoopFree(e)
    /\ \/ /\ handler[e].pc = "received"
          /\ Becomes(e, [handler[e] EXCEPT !.gone = TRUE])
          /\ UNCHANGED container
       \/ /\ handler[e].pc = "supervise"
          /\ Stop(e, [handler[e] EXCEPT !.gone = TRUE])
    /\ UNCHANGED <<database, worker, committed, accepted, ranOn, excused,
                   disturbed>>

\* Mutant: the poll waits for the command instead of aborting it.
PollDoesNotAbort(e) ==
    /\ handler[e].pc = "supervise" /\ handler[e].cli # "settled" /\ LoopFree(e)
    /\ handler[e].gone \/ ~verifyCapability(e)
    /\ Handle(e, "drain")
    /\ Quiet /\ UNCHANGED container
    /\ UNCHANGED <<database, worker, committed, accepted, ranOn, excused>>

\* Every 500 ms: a client that is gone, or a capability that cannot be
\* verified, aborts the command; the handler then waits for it to settle.
Poll(e) ==
    /\ handler[e].pc = "supervise" /\ handler[e].cli # "settled" /\ LoopFree(e)
    /\ \/ handler[e].gone /\ Quiet
       \/ ~handler[e].gone /\ ~verifyCapability(e) /\ Quiet
       \/ ~handler[e].gone /\ verifyCapability(e) /\ Disturb("store")
    /\ Stop(e, [handler[e] EXCEPT !.pc = "drain"])
    /\ UNCHANGED <<database, worker, committed, accepted, ranOn, excused>>

Drained(e) ==
    /\ handler[e].pc = "drain" /\ handler[e].cli = "settled" /\ LoopFree(e)
    /\ Reply(e, "HOLD")
    /\ UNCHANGED <<database, worker, committed, container, accepted, ranOn, excused,
                   disturbed>>

\* Mutant: the gate has passed when its first command has.
PassesEarly(e) ==
    IF handler[e].receipt = "PASSED" THEN Reply(e, "PASSED")
    ELSE Reply(e, IF handler[e].receipt = "FAILED" THEN "FAILED" ELSE "HOLD")

\* What runBehaviorGateRequest does with a receipt: the next command, or the
\* answer.
NextCommand(e) ==
    IF handler[e].receipt # "PASSED"
    THEN Reply(e, IF handler[e].receipt = "FAILED" THEN "FAILED" ELSE "HOLD")
    ELSE IF handler[e].command = commands THEN Reply(e, "PASSED")
    ELSE Becomes(e, [handler[e] EXCEPT !.pc = "materialize", !.cli = "none",
                                       !.receipt = "none", !.command = @ + 1])

\* The command has settled: a last verification makes its receipt count.
Observed(e) ==
    /\ handler[e].pc = "supervise" /\ handler[e].cli = "settled" /\ LoopFree(e)
    /\ Attempt(~handler[e].gone /\ verifyCapability(e), "store", NextCommand(e),
               Reply(e, "HOLD"))
    /\ UNCHANGED <<database, worker, committed, container, accepted, ranOn, excused>>

\* The gateway's process dies with its docker clients; the containers do not.
Serving(e) == handler[e].pc \notin {"none", "replied", "lost"}
GatewayCrash ==
    /\ \E e \in Executions : Serving(e)
    /\ Disturb("gateway_crash")
    /\ handler' = [e \in Executions |->
         IF Serving(e) THEN [NoHandler EXCEPT !.pc = "lost"] ELSE handler[e]]
    /\ excused' = excused \cup {n \in Names : container[n] \in {"creating", "running"}}
    /\ UNCHANGED <<database, worker, committed, container, accepted, ranOn>>

\* The reference comes to name another image while a gate is at work.
Rebuild ==
    /\ \E e \in Executions : Serving(e)
    /\ Disturb("rebuild") /\ image' \in Images \ {image}
    /\ UNCHANGED <<database, worker, touched, commands, enforceable, gateway, accepted>>

-----------------------------------------------------------------------------
Worker(e) ==
    \/ TakeFence(e) \/ PersistCapability(e) \/ Heartbeat(e) \/ CancellationTick(e)
    \/ Response(e) \/ RequestFails(e) \/ PostFence(e) \/ Finish(e)

Gateway(e) ==
    \/ VerifyRequest(e) \/ LoadConfiguration(e) \/ BindWorkspace(e)
    \/ discoverWorkspaceVolume(e)
    \/ probeDockerRunnerMaterialization(e) \/ probeDockerImageSourceAttestation(e)
    \/ probeDockerToolchainV2(e) \/ Launch(e) \/ Reap(e) \/ Complete(e)
    \/ ClientDisconnects(e) \/ Poll(e) \/ Drained(e) \/ Observed(e)

Done ==
    /\ \A e \in Executions : worker[e].pc \in {"none", "done", "dead"} /\ ~Serving(e)
    /\ UNCHANGED vars

Next ==
    \/ Requeue \/ CancelRun \/ CancelTask \/ Tick \/ GatewayCrash \/ Rebuild
    \/ \E e \in Executions : Claim(e) \/ Worker(e) \/ WorkerCrash(e) \/ Gateway(e)
                               \/ StopAtLimit(e) \/ ClientDies(e)
    \/ \E n \in Names : DaemonCreates(n) \/ ContainerExits(n)
    \/ Done

Spec == Init /\ [][Next]_vars

\* Both processes go on while they live.  Nothing makes a command end or the
\* daemon answer, and the timer of a command is longer than the behaviour.
FairSpec ==
    /\ Spec
    /\ \A e \in Executions :
         WF_vars(Worker(e)) /\ WF_vars(Gateway(e))

-----------------------------------------------------------------------------
ClockTime == 0..(MaxClock + LeaseTicks)
Verdicts  == {"none", "PASSED", "FAILED", "HOLD"}
References == Images \cup {"none"}
Row == [status : {"queued", "running", "ready", "cancelled"},
        token : 0..MaxExecutions, expires : ClockTime]
WorkerState ==
    [pc : {"none", "fence", "persist", "wait", "post", "finish", "done", "dead"},
     snapshot : ClockTime, result : Verdicts]
HandlerState ==
    [pc : Synchronous \cup {"none", "received", "supervise", "drain", "replied", "lost"},
     command : CommandIds, image : References, gone : BOOLEAN,
     cli : {"none", "run", "exited", "killed", "reaping", "settled"},
     reaps : 0..Reaps, receipt : Verdicts, reply : Verdicts]

\* Every row, process and container is in one of the states the code names.
TypeOK ==
    /\ clock \in 0..MaxClock /\ run \in {"running", "cancelled"}
    /\ row \in Row
    /\ capabilities \subseteq Executions /\ touched \subseteq Executions
    /\ commands \in CommandIds /\ enforceable \subseteq CommandIds /\ image \in Images
    /\ worker \in [Executions -> WorkerState]
    /\ handler \in [Executions -> HandlerState]
    /\ container \in [Names -> {"none", "creating", "running", "ok", "failed"}]
    /\ accepted \in [Executions -> Verdicts]
    /\ ranOn \in [Names -> References \X References]
    /\ excused \subseteq Names
    /\ disturbed \in 0..MaxDisturbances

\* A gate that the row records as passed ran every command of the request to
\* its end with exit code zero, in a container of this execution, with the
\* authority inputs of the commit (runBehaviorGateRequest and
\* run_behavior_gateway_under_lease together): no receipt of another fence,
\* of an aborted command or of a part of the commands is enough.
PassedIsOwnWork ==
    \A e \in Executions : accepted[e] = "PASSED" =>
        /\ \A c \in 1..commands : container[<<e, c>>] = "ok" /\ c \in enforceable
        /\ e \notin touched

\* Each command of a passed gate ran on an attested image, which the runner's
\* reference named both before it was started and after it had ended
\* (completeDockerBehaviorExecutionV2, probeDockerToolchainV2).
PassedOnOneImage ==
    \A e \in Executions : accepted[e] = "PASSED" =>
        \A c \in 1..commands : ranOn[<<e, c>>][1] \in Labelled
                              /\ ranOn[<<e, c>>][1] = ranOn[<<e, c>>][2]

\* A gate counts as passed only on evidence that is its own and complete, taken
\* on the attested image.
PassedIsEarned == PassedIsOwnWork /\ PassedOnOneImage

\* A container runs only while a handler still answers for it: the abort of a
\* command (nativeDockerAsync) leaves none behind, except one the daemon
\* creates after the last removal, one whose last removal failed, one whose
\* client ended without it and without an abort, or one of a gateway that died.
NoOrphan ==
    \A n \in Names : container[n] = "running" =>
        ClientOf(n) \in {"run", "killed", "reaping"} \/ n \in excused

\* The lease may lapse, and another execution may take the task over, between
\* the worker's last look at its fence and the row (PostFence, Finish): a gate
\* the row records as passed is still the gate of the latest execution, and
\* nothing of the task is executed after it.
PassedIsCurrent ==
    \A e \in Executions : accepted[e] = "PASSED" =>
        /\ row.token = e
        /\ \A o \in Executions \ {e} :
             accepted[o] # "PASSED" /\ (o > e => worker[o].pc = "none")

\* In the end nothing is left of a gate, worker, handler or docker client,
\* but a command that does not end under a fence that is still held: a lost
\* fence, a dead worker or a dead gateway bring the rest down, by the polls
\* of executeBehaviorUnderCapabilityFence and the ticks of
\* run_behavior_gateway_under_lease.
GateSettles ==
    <>[] \A e \in Executions :
        \/ worker[e].pc \in {"none", "done", "dead"} /\ ~Serving(e)
        \/ worker[e].pc = "wait" /\ handler[e].cli = "run" /\ active_behavior_fence(e)
-----------------------------------------------------------------------------
(* The inductive invariant behind the properties *)

\* Where a handler may be: a docker client exists only under supervision, a
\* receipt only once its client has settled, an answer only when it is sent.
ShapeInv ==
    \A e \in Executions :
        /\ handler[e].command <= commands
        /\ handler[e].cli # "none" => handler[e].pc \in {"supervise", "drain"}
        /\ handler[e].receipt # "none" => handler[e].cli = "settled"
        /\ handler[e].cli \in {"killed", "reaping"} => handler[e].reaps > 0
        /\ handler[e].reply # "none" => handler[e].pc = "replied"

\* An execution is claimed once, asks the gateway once, and has a handler only
\* from then until it has its answer.
WorkerInv ==
    \A e \in Executions :
        /\ e > row.token => worker[e].pc = "none"
        /\ worker[e].pc \in {"none", "fence", "persist"} =>
             handler[e] = NoHandler /\ worker[e].result = "none"
        /\ worker[e].pc = "wait" => worker[e].result = "none"
        /\ worker[e].result = "PASSED" => handler[e].pc = "none"
        /\ accepted[e] = "PASSED" => /\ worker[e].pc = "done"
                                     /\ worker[e].result = "PASSED"
                                     /\ row.token = e
                                     /\ row.status \in {"ready", "cancelled"}

\* What a PASSED receipt of one command stands for.  The images are those of
\* the latest execution.
Proven(e, c) ==
    /\ container[<<e, c>>] = "ok"
    /\ c \in enforceable
    /\ e \notin touched
    /\ row.token = e => /\ ranOn[<<e, c>>][1] \in Labelled
                        /\ ranOn[<<e, c>>][1] = ranOn[<<e, c>>][2]

\* A command that runs was admitted, and the receipts, the answer and the
\* result that follow from it stand for what they say.
EvidenceInv ==
    \A e \in Executions :
        /\ handler[e].cli \in {"run", "exited"} =>
             /\ handler[e].command \in enforceable /\ e \notin touched
             /\ handler[e].image \in Labelled
             /\ row.token = e =>
                  ranOn[behaviorContainerName(e)][1] = handler[e].image
        /\ \A c \in 1..commands : c < handler[e].command => Proven(e, c)
        /\ handler[e].receipt = "PASSED" => Proven(e, handler[e].command)
        /\ handler[e].reply = "PASSED" \/ worker[e].result = "PASSED" =>
             \A c \in 1..commands : Proven(e, c)

GateInv == TypeOK /\ ShapeInv /\ WorkerInv /\ EvidenceInv /\ NoOrphan

=============================================================================
