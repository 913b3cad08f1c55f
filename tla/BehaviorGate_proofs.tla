------------------------ MODULE BehaviorGate_proofs -------------------------
(***************************************************************************)
(* BehaviorGate's properties for every number of executions and commands,  *)
(* every lease, clock and number of removals, every set of attested images *)
(* and any number of disturbances.                                         *)
(*                                                                         *)
(* GateInv is inductive.  A step of the gateway replaces the state of one  *)
(* handler and touches at most the container and the images of the command *)
(* that handler is at: HandlerMoves says once what such a step has to      *)
(* respect, and every action of the gateway is shown to respect it.        *)
(***************************************************************************)
EXTENDS BehaviorGate, Integers, TLAPS

USE DEF gateway, committed, database, Quiet

Live == {"run", "killed", "reaping"}

\* Replacing the state of a handler changes that handler alone.
LEMMA HandlerReplaced ==
    ASSUME TypeOK, NEW e \in Executions, NEW y \in HandlerState, Becomes(e, y)
    PROVE  /\ handler' \in [Executions -> HandlerState]
           /\ handler'[e] = y
           /\ \A d \in Executions \ {e} : handler'[d] = handler[d]
BY DEF TypeOK, Becomes

\* Likewise for a worker.
LEMMA WorkerReplaced ==
    ASSUME TypeOK, NEW e \in Executions,
           NEW pc \in {"fence", "persist", "wait", "post", "finish", "done", "dead"},
           NEW result \in Verdicts, WorkerTo(e, pc, result)
    PROVE  /\ worker' \in [Executions -> WorkerState]
           /\ worker'[e].pc = pc /\ worker'[e].result = result
           /\ \A d \in Executions \ {e} : worker'[d] = worker[d]
<1>. DEFINE y == [worker[e] EXCEPT !.pc = pc, !.result = result]
<1>1. worker[e] \in WorkerState
    BY DEF TypeOK
<1>2. y \in WorkerState /\ y.pc = pc /\ y.result = result
    BY <1>1 DEF WorkerState
<1>3. worker' = [worker EXCEPT ![e] = y]
    BY DEF WorkerTo
<1>. HIDE DEF y
<1>. QED  BY <1>2, <1>3 DEF TypeOK

\* A command that ended well stays proven while its container and its images
\* are left alone.
LEMMA ProvenStays ==
    ASSUME NEW e, NEW c, Proven(e, c),
           container'[<<e, c>>] = container[<<e, c>>],
           ranOn'[<<e, c>>] = ranOn[<<e, c>>],
           UNCHANGED <<touched, enforceable>>, row'.token = row.token
    PROVE  Proven(e, c)'
BY DEF Proven

\* What a step of the gateway respects that takes the handler of e to y, and
\* has changed at most the container and the images of its command.
LEMMA HandlerMoves ==
    ASSUME GateInv, NEW e \in Executions, NEW y \in HandlerState, Becomes(e, y),
           handler[e].pc # "none",
           UNCHANGED <<clock, run, row, capabilities, worker, touched, commands,
                       enforceable, image, accepted>>,
           excused \subseteq excused', excused' \subseteq Names,
           disturbed' \in 0..MaxDisturbances,
           container' \in [Names -> {"none", "creating", "running", "ok", "failed"}],
           ranOn' \in [Names -> References \X References],
           \A n \in Names : n # <<e, handler[e].command>> =>
             container'[n] = container[n] /\ ranOn'[n] = ranOn[n],
           container'[<<e, handler[e].command>>] = "running" =>
             \/ y.cli \in Live /\ y.command = handler[e].command
             \/ /\ container[<<e, handler[e].command>>] = "running"
                /\ handler[e].cli \notin Live
             \/ <<e, handler[e].command>> \in excused',
           y.command <= commands,
           y.cli # "none" => y.pc \in {"supervise", "drain"},
           y.receipt # "none" => y.cli = "settled",
           y.cli \in {"killed", "reaping"} => y.reaps > 0,
           y.reply # "none" => y.pc = "replied",
           y.cli \in {"run", "exited"} =>
             /\ y.command \in enforceable /\ e \notin touched
             /\ y.image \in Labelled
             /\ row.token = e => ranOn'[<<e, y.command>>][1] = y.image,
           \A c \in 1..commands : c < y.command => Proven(e, c)',
           y.receipt = "PASSED" => Proven(e, y.command)',
           y.reply = "PASSED" => \A c \in 1..commands : Proven(e, c)'
    PROVE  GateInv'
<1>1. /\ handler' \in [Executions -> HandlerState]
      /\ handler'[e] = y
      /\ \A d \in Executions \ {e} : handler'[d] = handler[d]
    BY HandlerReplaced DEF GateInv
<1>2. TypeOK'
    BY <1>1 DEF GateInv, TypeOK
<1>3. ShapeInv'
    BY <1>1 DEF GateInv, ShapeInv
<1>4. /\ worker[e].pc \notin {"none", "fence", "persist"}
      /\ worker[e].result # "PASSED"
    BY DEF GateInv, WorkerInv, NoHandler
<1>5. WorkerInv'
    BY <1>1, <1>4 DEF GateInv, WorkerInv
<1>6. ASSUME NEW d \in Executions, d # e, NEW c \in CommandIds, Proven(d, c)
      PROVE  Proven(d, c)'
    <2>1. <<d, c>> \in Names /\ <<d, c>> # <<e, handler[e].command>>
        BY <1>6 DEF Names
    <2>. QED  BY <1>6, <2>1, ProvenStays
<1>7. EvidenceInv'
    <2>. SUFFICES ASSUME NEW d \in Executions
                  PROVE  /\ handler'[d].cli \in {"run", "exited"} =>
                              /\ handler'[d].command \in enforceable /\ d \notin touched
                              /\ handler'[d].image \in Labelled
                              /\ row.token = d =>
                                   ranOn'[<<d, handler'[d].command>>][1] = handler'[d].image
                         /\ \A c \in 1..commands :
                              c < handler'[d].command => Proven(d, c)'
                         /\ handler'[d].receipt = "PASSED" =>
                              Proven(d, handler[d].command)'
                         /\ handler'[d].reply = "PASSED" \/ worker[d].result = "PASSED" =>
                              \A c \in 1..commands : Proven(d, c)'
        BY DEF EvidenceInv, behaviorContainerName
    <2>1. CASE d = e
        <3>1. handler'[d] = y
            BY <1>1, <2>1
        <3>2. y.receipt = "PASSED" => Proven(d, handler[d].command)'
            BY <2>1, <3>1 DEF Proven
        <3>. QED  BY <1>4, <2>1, <3>1, <3>2
    <2>2. CASE d # e
        <3>1. handler'[d] = handler[d]
            BY <1>1, <2>2
        <3>2. handler[d].command \in CommandIds /\ 1..commands \subseteq CommandIds
            BY BehaviorGateAssumption DEF GateInv, TypeOK, HandlerState, CommandIds
        <3>3. ranOn'[<<d, handler[d].command>>] = ranOn[<<d, handler[d].command>>]
            BY <2>2, <3>2 DEF Names
        <3>4. \A c \in CommandIds : Proven(d, c) => Proven(d, c)'
            BY <1>6, <2>2
        <3>5. handler[d].receipt = "PASSED" => Proven(d, handler[d].command)'
            <4>1. handler[d].receipt = "PASSED" => Proven(d, handler[d].command)
                BY DEF GateInv, EvidenceInv
            <4>2. container'[<<d, handler[d].command>>] = container[<<d, handler[d].command>>]
                BY <2>2, <3>2 DEF Names
            <4>. QED  BY <3>1, <3>3, <4>1, <4>2 DEF Proven
        <3>6. /\ handler[d].cli \in {"run", "exited"} =>
                   /\ handler[d].command \in enforceable /\ d \notin touched
                   /\ handler[d].image \in Labelled
                   /\ row.token = d =>
                        ranOn[<<d, handler[d].command>>][1] = handler[d].image
              /\ \A c \in 1..commands : c < handler[d].command => Proven(d, c)
              /\ handler[d].reply = "PASSED" \/ worker[d].result = "PASSED" =>
                   \A c \in 1..commands : Proven(d, c)
            BY DEF GateInv, EvidenceInv, behaviorContainerName
        <3>. QED  BY <3>1, <3>2, <3>3, <3>4, <3>5, <3>6
    <2>. QED  BY <2>1, <2>2
<1>8. NoOrphan'
    <2>. SUFFICES ASSUME NEW n \in Names, container'[n] = "running"
                  PROVE  ClientOf(n)' \in Live \/ n \in excused'
        BY DEF NoOrphan, Live
    <2>1. n[1] \in Executions /\ n[2] \in CommandIds /\ n = <<n[1], n[2]>>
        BY DEF Names
    <2>2. CASE n = <<e, handler[e].command>>
        <3>1. n[1] = e /\ n[2] = handler[e].command
            BY <2>2
        <3>2. CASE y.cli \in Live /\ y.command = handler[e].command
            BY <1>1, <3>1, <3>2 DEF ClientOf
        <3>3. CASE /\ container[n] = "running" /\ handler[e].cli \notin Live
            BY <3>1, <3>3 DEF GateInv, NoOrphan, ClientOf, Live
        <3>. QED  BY <2>2, <3>2, <3>3
    <2>3. CASE n # <<e, handler[e].command>>
        <3>1. container[n] = "running"
            BY <2>3
        <3>2. ClientOf(n) \in Live \/ n \in excused
            BY <3>1 DEF GateInv, NoOrphan, Live
        <3>3. CASE n[1] = e
            <4>1. n[2] # handler[e].command
                BY <2>1, <2>3, <3>3
            <4>. QED  BY <3>2, <3>3, <4>1 DEF ClientOf, Live
        <3>4. CASE n[1] # e
            BY <1>1, <2>1, <3>2, <3>4 DEF ClientOf
        <3>. QED  BY <3>3, <3>4
    <2>. QED  BY <2>2, <2>3
<1>. QED  BY <1>2, <1>3, <1>5, <1>7, <1>8 DEF GateInv

\* What no step of a handler changes.
GatewayRests ==
    /\ UNCHANGED <<clock, run, row, capabilities, worker, touched, commands,
                   enforceable, image, accepted>>
    /\ excused \subseteq excused' /\ excused' \subseteq Names
    /\ disturbed' \in 0..MaxDisturbances

\* Only names of containers are excused.
LEMMA ExcusedAreNames ==
    ASSUME TypeOK
    PROVE  excused \subseteq Names
BY DEF TypeOK

\* A step spends at most one disturbance.
LEMMA DisturbedInBounds ==
    ASSUME TypeOK, disturbed' = disturbed \/ (disturbed < MaxDisturbances
                                              /\ disturbed' = disturbed + 1)
    PROVE  disturbed' \in 0..MaxDisturbances
BY BehaviorGateAssumption DEF TypeOK

\* A step of a handler whose docker client is not at work, and which starts
\* none: only what the new state claims has to be shown.
LEMMA QuietMoves ==
    ASSUME GateInv, NEW e \in Executions, NEW y \in HandlerState, Becomes(e, y),
           handler[e].pc # "none", handler[e].cli \notin Live,
           GatewayRests, UNCHANGED <<container, ranOn>>,
           y.command <= commands, y.cli \in {"none", "settled"},
           y.cli # "none" => y.pc \in {"supervise", "drain"},
           y.receipt # "none" => y.cli = "settled",
           y.reply # "none" => y.pc = "replied",
           \A c \in 1..commands : c < y.command => Proven(e, c),
           y.receipt = "PASSED" => Proven(e, y.command),
           y.reply = "PASSED" => \A c \in 1..commands : Proven(e, c)
    PROVE  GateInv'
<1>1. \A c : Proven(e, c)' <=> Proven(e, c)
    BY DEF Proven, GatewayRests
<1>2. /\ container' \in [Names -> {"none", "creating", "running", "ok", "failed"}]
      /\ ranOn' \in [Names -> References \X References]
    BY DEF GateInv, TypeOK
<1>. QED  BY <1>1, <1>2, HandlerMoves DEF GatewayRests

\* The answer of a handler: the gate has failed or is held, or every command is
\* proven.
LEMMA ReplyMoves ==
    ASSUME GateInv, NEW e \in Executions, NEW status \in Verdicts \ {"none"},
           Reply(e, status), handler[e].pc # "none", handler[e].cli \notin Live,
           GatewayRests, UNCHANGED <<container, ranOn>>,
           status = "PASSED" => \A c \in 1..commands : Proven(e, c)
    PROVE  GateInv'
<1>. DEFINE y == IF ClientGone(e) THEN NoHandler
                 ELSE [NoHandler EXCEPT !.pc = "replied", !.reply = status]
<1>1. Becomes(e, y)
    BY DEF Reply
<1>2. 1 \in CommandIds /\ 0 \in 0..Reaps
    BY BehaviorGateAssumption DEF CommandIds
<1>3. y \in HandlerState
    BY <1>2 DEF NoHandler, HandlerState, References, Verdicts
<1>4. /\ y.command = 1 /\ y.cli = "none" /\ y.receipt = "none"
      /\ y.reply # "none" => y.pc = "replied" /\ y.reply = status
    BY DEF NoHandler
<1>5. commands \in Nat /\ 1 <= commands
    BY BehaviorGateAssumption DEF GateInv, TypeOK, CommandIds
<1>. HIDE DEF y
<1>6. \A c \in 1..commands : ~(c < 1)
    BY <1>5
<1>. QED  BY <1>1, <1>3, <1>4, <1>5, <1>6, QuietMoves

\* A step of preparation: on to the next one, with the image the runner's
\* reference names or the one it had, or a HOLD.
LEMMA PrepareMoves ==
    ASSUME GateInv, NEW e \in Executions,
           handler[e].pc \in Synchronous \cup {"received"},
           NEW pc \in Synchronous, GatewayRests, UNCHANGED <<container, ranOn>>,
           \/ Becomes(e, [handler[e] EXCEPT !.pc = pc])
           \/ Becomes(e, [handler[e] EXCEPT !.pc = pc, !.image = image])
           \/ Reply(e, "HOLD")
    PROVE  GateInv'
<1>1. handler[e] \in HandlerState /\ image \in References
    BY DEF GateInv, TypeOK, References
<1>2. /\ handler[e].pc # "none" /\ handler[e].pc \notin {"supervise", "drain", "replied"}
    BY DEF Synchronous
<1>3. /\ handler[e].cli = "none" /\ handler[e].receipt = "none"
      /\ handler[e].reply = "none" /\ handler[e].command <= commands
    BY <1>2 DEF GateInv, ShapeInv
<1>4. ASSUME NEW i \in References, Becomes(e, [handler[e] EXCEPT !.pc = pc, !.image = i])
      PROVE  GateInv'
    <2>. DEFINE y == [handler[e] EXCEPT !.pc = pc, !.image = i]
    <2>1. y \in HandlerState
        BY <1>1 DEF HandlerState
    <2>2. /\ y.cli = "none" /\ y.receipt = "none" /\ y.reply = "none"
          /\ y.command = handler[e].command
        BY <1>1, <1>3 DEF HandlerState
    <2>3. Becomes(e, y)
        BY <1>4
    <2>. HIDE DEF y
    <2>4. \A c \in 1..commands : c < y.command => Proven(e, c)
        BY <2>2 DEF GateInv, EvidenceInv
    <2>. QED  BY <1>2, <1>3, <2>1, <2>2, <2>3, <2>4, QuietMoves DEF Live
<1>5. ASSUME Becomes(e, [handler[e] EXCEPT !.pc = pc]) PROVE GateInv'
    <2>1. [handler[e] EXCEPT !.pc = pc]
            = [handler[e] EXCEPT !.pc = pc, !.image = handler[e].image]
        BY <1>1 DEF HandlerState
    <2>2. handler[e].image \in References
        BY <1>1 DEF HandlerState
    <2>. QED  BY <1>4, <1>5, <2>1, <2>2
<1>6. ASSUME Reply(e, "HOLD") PROVE GateInv'
    BY <1>2, <1>3, <1>6, ReplyMoves DEF Verdicts, Live
<1>. QED  BY <1>1, <1>4, <1>5, <1>6

\* The preparation of a command, step by step, keeps the invariant.
LEMMA PreparationSteps ==
    ASSUME GateInv, NEW e \in Executions,
           \/ VerifyRequest(e) \/ LoadConfiguration(e) \/ BindWorkspace(e)
           \/ discoverWorkspaceVolume(e) \/ probeDockerRunnerMaterialization(e)
           \/ probeDockerImageSourceAttestation(e) \/ probeDockerToolchainV2(e)
    PROVE  GateInv'
<1>. DEFINE Kept == GatewayRests /\ UNCHANGED <<container, ranOn>>
            Ahead(pc) == \/ Becomes(e, [handler[e] EXCEPT !.pc = pc])
                         \/ Becomes(e, [handler[e] EXCEPT !.pc = pc, !.image = image])
                         \/ Reply(e, "HOLD")
<1>0. TypeOK
    BY DEF GateInv
<1>1. CASE VerifyRequest(e)
    <2>1. handler[e].pc = "received" /\ Kept /\ Ahead("load")
        BY <1>0, <1>1, DisturbedInBounds, ExcusedAreNames
        DEF VerifyRequest, Prepare, Attempt, Handle, Disturb, GatewayRests
    <2>. QED  BY <2>1, PrepareMoves DEF Synchronous
<1>2. CASE LoadConfiguration(e)
    <2>1. handler[e].pc = "load" /\ Kept /\ Ahead("bind")
        BY <1>0, <1>2, DisturbedInBounds, ExcusedAreNames
        DEF LoadConfiguration, Prepare, Attempt, Handle, Disturb, GatewayRests
    <2>. QED  BY <2>1, PrepareMoves DEF Synchronous
<1>3. CASE BindWorkspace(e)
    <2>1. handler[e].pc = "bind" /\ Kept /\ Ahead("volume")
        BY <1>0, <1>3, DisturbedInBounds, ExcusedAreNames
        DEF BindWorkspace, Prepare, Attempt, Handle, Disturb, GatewayRests
    <2>. QED  BY <2>1, PrepareMoves DEF Synchronous
<1>4. CASE discoverWorkspaceVolume(e)
    <2>1. handler[e].pc = "volume" /\ Kept /\ Ahead("materialize")
        BY <1>0, <1>4, DisturbedInBounds, ExcusedAreNames
        DEF discoverWorkspaceVolume, Prepare, Attempt, Handle, Disturb, GatewayRests
    <2>. QED  BY <2>1, PrepareMoves DEF Synchronous
<1>5. CASE probeDockerRunnerMaterialization(e)
    <2>1. handler[e].pc = "materialize" /\ Kept /\ Ahead("attest")
        BY <1>0, <1>5, DisturbedInBounds, ExcusedAreNames
        DEF probeDockerRunnerMaterialization, Prepare, Attempt, Disturb, GatewayRests
    <2>. QED  BY <2>1, PrepareMoves DEF Synchronous
<1>6. CASE probeDockerImageSourceAttestation(e)
    <2>1. handler[e].pc = "attest" /\ Kept /\ Ahead("toolchain")
        BY <1>0, <1>6, DisturbedInBounds, ExcusedAreNames
        DEF probeDockerImageSourceAttestation, Prepare, Attempt, Handle, Disturb,
            GatewayRests
    <2>. QED  BY <2>1, PrepareMoves DEF Synchronous
<1>7. CASE probeDockerToolchainV2(e)
    <2>1. handler[e].pc = "toolchain" /\ Kept /\ Ahead("launch")
        BY <1>0, <1>7, DisturbedInBounds, ExcusedAreNames
        DEF probeDockerToolchainV2, Prepare, Attempt, Handle, Disturb, GatewayRests
    <2>. QED  BY <2>1, PrepareMoves DEF Synchronous
<1>. QED  BY <1>1, <1>2, <1>3, <1>4, <1>5, <1>6, <1>7

\* The command the handler is at has a name of its own.
LEMMA NameOf ==
    ASSUME TypeOK, NEW e \in Executions
    PROVE  /\ handler[e] \in HandlerState /\ handler[e].command \in CommandIds
           /\ <<e, handler[e].command>> \in Names
           /\ behaviorContainerName(e) = <<e, handler[e].command>>
BY DEF TypeOK, HandlerState, Names, behaviorContainerName

\* The earlier commands of a handler stay proven through a step at its current
\* one.
LEMMA EarlierStayProven ==
    ASSUME GateInv, NEW e \in Executions,
           UNCHANGED <<touched, enforceable, row, commands>>,
           \A n \in Names : n # <<e, handler[e].command>> =>
             container'[n] = container[n] /\ ranOn'[n] = ranOn[n]
    PROVE  \A c \in 1..commands : c < handler[e].command => Proven(e, c)'
<1>. SUFFICES ASSUME NEW c \in 1..commands, c < handler[e].command PROVE Proven(e, c)'
    OBVIOUS
<1>1. Proven(e, c)
    BY DEF GateInv, EvidenceInv
<1>2. c \in CommandIds /\ handler[e].command \in Int
    <2>1. handler[e].command \in CommandIds
        BY NameOf DEF GateInv
    <2>2. commands \in CommandIds
        BY DEF GateInv, TypeOK
    <2>. QED  BY <2>1, <2>2, BehaviorGateAssumption DEF CommandIds
<1>3. <<e, c>> \in Names /\ <<e, c>> # <<e, handler[e].command>>
    BY <1>2 DEF Names, CommandIds
<1>. QED  BY <1>1, <1>3, ProvenStays

\* A command is started only when it is admitted, on an attested image, under
\* a name nothing proven has.
LEMMA LaunchStep ==
    ASSUME GateInv, NEW e \in Executions, Launch(e)
    PROVE  GateInv'
<1>1. /\ handler[e] \in HandlerState /\ handler[e].command \in CommandIds
      /\ <<e, handler[e].command>> \in Names
      /\ behaviorContainerName(e) = <<e, handler[e].command>>
    BY NameOf DEF GateInv
<1>2. handler[e].pc = "launch" /\ GatewayRests
    BY DEF Launch, GatewayRests, GateInv, TypeOK
<1>3. /\ handler[e].cli = "none" /\ handler[e].receipt = "none"
      /\ handler[e].reply = "none" /\ handler[e].command <= commands
    BY <1>2 DEF GateInv, ShapeInv
<1>4. CASE handler[e].gone \/ ~BehaviorAuthorized(e)
    <2>. DEFINE y == [handler[e] EXCEPT !.pc = "supervise", !.cli = "settled",
                                        !.receipt = "HOLD"]
    <2>1. Becomes(e, y) /\ UNCHANGED <<container, ranOn>>
        BY <1>4 DEF Launch
    <2>2. y \in HandlerState
        BY <1>1 DEF HandlerState, Verdicts
    <2>3. /\ y.pc = "supervise" /\ y.cli = "settled" /\ y.receipt = "HOLD"
          /\ y.reply = "none" /\ y.command = handler[e].command
        BY <1>1, <1>3 DEF HandlerState
    <2>. HIDE DEF y
    <2>4. \A c \in 1..commands : c < y.command => Proven(e, c)
        BY <2>3 DEF GateInv, EvidenceInv
    <2>. QED  BY <1>2, <1>3, <2>1, <2>2, <2>3, <2>4, QuietMoves DEF Live
<1>5. CASE ~handler[e].gone /\ BehaviorAuthorized(e)
    <2>. DEFINE y == [handler[e] EXCEPT !.pc = "supervise", !.cli = "run"]
                n == <<e, handler[e].command>>
    <2>1. /\ Becomes(e, y)
          /\ container' = [container EXCEPT ![n] = "creating"]
          /\ ranOn' = [ranOn EXCEPT ![n] = <<handler[e].image, "none">>]
        BY <1>1, <1>5 DEF Launch, DockerRun
    <2>2. y \in HandlerState
        BY <1>1 DEF HandlerState
    <2>3. /\ y.pc = "supervise" /\ y.cli = "run" /\ y.receipt = "none"
          /\ y.reply = "none" /\ y.command = handler[e].command
          /\ y.image = handler[e].image
        BY <1>1, <1>3 DEF HandlerState
    <2>. HIDE DEF y
    <2>4. handler[e].image \in References /\ "none" \in References
        BY <1>1 DEF HandlerState, References
    <2>5. /\ container' \in [Names -> {"none", "creating", "running", "ok", "failed"}]
          /\ ranOn' \in [Names -> References \X References]
        BY <2>1, <2>4 DEF GateInv, TypeOK
    <2>6. /\ \A m \in Names : m # n => container'[m] = container[m] /\ ranOn'[m] = ranOn[m]
          /\ container'[n] = "creating"
          /\ ranOn'[n] = <<handler[e].image, "none">>
        BY <1>1, <2>1 DEF GateInv, TypeOK
    <2>7. ranOn'[n][1] = handler[e].image
        BY <2>6
    <2>8. /\ handler[e].command \in enforceable /\ e \notin touched
          /\ handler[e].image \in Labelled
        BY <1>5 DEF BehaviorAuthorized, CommandReady, Admitted
    <2>9. \A c \in 1..commands : c < y.command => Proven(e, c)'
        BY <1>2, <2>3, <2>6, EarlierStayProven DEF GatewayRests
    <2>10. /\ container'[n] # "running"
           /\ row.token = e => ranOn'[<<e, y.command>>][1] = y.image
        BY <2>3, <2>6, <2>7
    <2>. HIDE DEF n
    <2>11. n = <<e, handler[e].command>>
        BY DEF n
    <2>. QED
        BY <1>2, <1>3, <2>1, <2>2, <2>3, <2>5, <2>6, <2>8, <2>9, <2>10, <2>11,
           HandlerMoves
        DEF GatewayRests, Live
<1>. QED  BY <1>4, <1>5

\* Stopping a client: the name is removed, the client is killed.
LEMMA StopMoves ==
    ASSUME GateInv, NEW e \in Executions, NEW y \in HandlerState, Stop(e, y),
           handler[e].pc \in {"supervise", "drain"},
           y.pc \in {"supervise", "drain"}, y.command = handler[e].command,
           y.image = handler[e].image, y.cli = handler[e].cli,
           y.reaps = handler[e].reaps, y.receipt = handler[e].receipt,
           y.reply = handler[e].reply,
           GatewayRests, UNCHANGED ranOn
    PROVE  GateInv'
<1>. DEFINE n == <<e, handler[e].command>>
            z == [y EXCEPT !.cli = "killed", !.reaps = Reaps]
<1>1. /\ handler[e] \in HandlerState /\ handler[e].command \in CommandIds
      /\ n \in Names /\ behaviorContainerName(e) = n
    BY NameOf DEF GateInv
<1>2. /\ handler[e].command <= commands
      /\ handler[e].cli \in {"killed", "reaping"} => handler[e].reaps > 0
      /\ handler[e].receipt # "none" => handler[e].cli = "settled"
      /\ handler[e].reply = "none"
    BY DEF GateInv, ShapeInv
<1>3. /\ handler[e].cli \in {"run", "exited"} =>
           /\ handler[e].command \in enforceable /\ e \notin touched
           /\ handler[e].image \in Labelled
           /\ row.token = e => ranOn[n][1] = handler[e].image
      /\ handler[e].receipt = "PASSED" => Proven(e, handler[e].command)
    BY <1>1 DEF GateInv, EvidenceInv
<1>4. CASE handler[e].cli = "run"
    <2>1. Becomes(e, z) /\ removeNamedContainer(n)
        BY <1>1, <1>4 DEF Stop
    <2>0. Reaps \in 0..Reaps /\ Reaps > 0
        BY BehaviorGateAssumption
    <2>2. z \in HandlerState
        BY <2>0 DEF HandlerState
    <2>3. /\ z.pc = y.pc /\ z.cli = "killed" /\ z.reaps = Reaps /\ z.receipt = "none"
          /\ z.reply = "none" /\ z.command = handler[e].command
        BY <1>2, <1>4 DEF HandlerState
    <2>4. container' \in [Names -> {"none", "creating", "running", "ok", "failed"}]
        BY <1>1, <2>1 DEF removeNamedContainer, GateInv, TypeOK
    <2>5. \A m \in Names : m # n => container'[m] = container[m]
        BY <1>1, <2>1 DEF removeNamedContainer, GateInv, TypeOK
    <2>6. ranOn' \in [Names -> References \X References]
        BY DEF GateInv, TypeOK
    <2>. HIDE DEF z
    <2>7. \A c \in 1..commands : c < z.command => Proven(e, c)'
        BY <2>3, <2>5, EarlierStayProven DEF GatewayRests
    <2>. QED
        BY <1>2, <2>0, <2>1, <2>2, <2>3, <2>4, <2>5, <2>6, <2>7, HandlerMoves
        DEF GatewayRests, Live
<1>5. CASE handler[e].cli # "run"
    <2>1. Becomes(e, y) /\ container' = container
        BY <1>5 DEF Stop
    <2>2. \A c : Proven(e, c)' <=> Proven(e, c)
        BY <2>1 DEF Proven, GatewayRests
    <2>3. \A c \in 1..commands : c < y.command => Proven(e, c)'
        BY <2>2 DEF GateInv, EvidenceInv
    <2>4. y.receipt = "PASSED" => Proven(e, y.command)'
        BY <1>3, <2>2
    <2>5. /\ container' \in [Names -> {"none", "creating", "running", "ok", "failed"}]
          /\ ranOn' \in [Names -> References \X References]
        BY <2>1 DEF GateInv, TypeOK
    <2>6. container'[n] = "running" => \/ y.cli \in Live
                                       \/ /\ container[n] = "running"
                                          /\ handler[e].cli \notin Live
        BY <2>1
    <2>7. y.cli \in {"run", "exited"} =>
            /\ y.command \in enforceable /\ e \notin touched /\ y.image \in Labelled
            /\ row.token = e => ranOn'[<<e, y.command>>][1] = y.image
        BY <1>3
    <2>. QED
        BY <1>2, <2>1, <2>3, <2>4, <2>5, <2>6, <2>7, HandlerMoves DEF GatewayRests
<1>. QED  BY <1>4, <1>5

\* The container may come after its client was killed: the last removal finds
\* what is there.
LEMMA ReapStep ==
    ASSUME GateInv, NEW e \in Executions, Reap(e)
    PROVE  GateInv'
<1>. DEFINE n == <<e, handler[e].command>>
            y == [handler[e] EXCEPT
                    !.reaps = @ - 1,
                    !.cli = IF handler[e].reaps = 1 THEN "settled" ELSE "reaping",
                    !.receipt = IF handler[e].reaps = 1 THEN "HOLD" ELSE @]
<1>1. /\ handler[e] \in HandlerState /\ handler[e].command \in CommandIds
      /\ n \in Names /\ behaviorContainerName(e) = n
    BY NameOf DEF GateInv
<1>2. /\ handler[e].cli \in {"killed", "reaping"} /\ GatewayRests
      /\ ranOn' = ranOn /\ removeNamedContainer(n) /\ Becomes(e, y)
      /\ handler[e].reaps = 1 /\ container'[n] = "running" => n \in excused'
    BY <1>1 DEF Reap, GatewayRests, GateInv, TypeOK
<1>3. /\ handler[e].command <= commands /\ handler[e].reaps > 0
      /\ handler[e].receipt = "none" /\ handler[e].pc \in {"supervise", "drain"}
      /\ handler[e].reply = "none"
    BY <1>2 DEF GateInv, ShapeInv
<1>4. handler[e].reaps \in Int /\ handler[e].reaps - 1 \in 0..Reaps
    BY <1>1, <1>3, BehaviorGateAssumption DEF HandlerState
<1>5. y \in HandlerState
    BY <1>1, <1>3, <1>4 DEF HandlerState, Verdicts
<1>6. /\ y.pc = handler[e].pc /\ y.command = handler[e].command /\ y.reply = "none"
      /\ y.cli = IF handler[e].reaps = 1 THEN "settled" ELSE "reaping"
      /\ y.receipt = IF handler[e].reaps = 1 THEN "HOLD" ELSE "none"
      /\ y.reaps = handler[e].reaps - 1
    BY <1>1, <1>3 DEF HandlerState
<1>. HIDE DEF y
<1>7. y.cli = "reaping" => y.reaps > 0
    BY <1>3, <1>4, <1>6
<1>8. /\ container' \in [Names -> {"none", "creating", "running", "ok", "failed"}]
      /\ ranOn' \in [Names -> References \X References]
    BY <1>1, <1>2 DEF removeNamedContainer, GateInv, TypeOK
<1>9. /\ \A m \in Names : m # n => container'[m] = container[m]
      /\ container'[n] = "running" => y.cli \in Live \/ n \in excused'
    BY <1>1, <1>2, <1>6 DEF Live, removeNamedContainer, GateInv, TypeOK
<1>10. \A c \in 1..commands : c < y.command => Proven(e, c)'
    BY <1>2, <1>6, <1>9, EarlierStayProven DEF GatewayRests
<1>. QED
    BY <1>2, <1>3, <1>5, <1>6, <1>7, <1>8, <1>9, <1>10, HandlerMoves
    DEF GatewayRests, Live

\* An exit code counts on the image the reference still names: a PASSED receipt
\* is proven.
LEMMA CompleteStep ==
    ASSUME GateInv, NEW e \in Executions, Complete(e)
    PROVE  GateInv'
<1>. DEFINE n == <<e, handler[e].command>>
<1>0. TypeOK
    BY DEF GateInv
<1>1. /\ handler[e] \in HandlerState /\ handler[e].command \in CommandIds
      /\ n \in Names /\ behaviorContainerName(e) = n
    BY NameOf DEF GateInv
<1>2. /\ handler[e].cli = "exited" /\ container' = container
      /\ ranOn' = [ranOn EXCEPT ![n] = <<ranOn[n][1], image>>]
    BY <1>1 DEF Complete, TypeOK
<1>3. GatewayRests
    BY <1>0, DisturbedInBounds, ExcusedAreNames DEF Complete, Attempt, Disturb, GatewayRests
<1>4. PICK receipt \in {"PASSED", "FAILED", "HOLD"} :
        /\ Becomes(e, [handler[e] EXCEPT !.cli = "settled", !.receipt = receipt])
        /\ receipt = "PASSED" => image = handler[e].image /\ container[n] = "ok"
    BY <1>1 DEF Complete, Attempt, Settle, ReceiptsOf
<1>5. /\ handler[e].command <= commands /\ handler[e].pc \in {"supervise", "drain"}
      /\ handler[e].reply = "none"
    BY <1>2 DEF GateInv, ShapeInv
<1>6. PICK y \in HandlerState :
        /\ Becomes(e, y)
        /\ y.pc = handler[e].pc /\ y.cli = "settled" /\ y.receipt = receipt
        /\ y.reply = "none" /\ y.command = handler[e].command
    <2>. DEFINE z == [handler[e] EXCEPT !.cli = "settled", !.receipt = receipt]
    <2>1. z \in HandlerState
        BY <1>1 DEF HandlerState, Verdicts
    <2>2. /\ z.pc = handler[e].pc /\ z.cli = "settled" /\ z.receipt = receipt
          /\ z.reply = "none" /\ z.command = handler[e].command
        BY <1>1, <1>5 DEF HandlerState
    <2>. QED  BY <1>4, <2>1, <2>2
<1>7. ranOn[n] \in References \X References /\ image \in References
    BY <1>0, <1>1 DEF TypeOK, References
<1>8. /\ container' \in [Names -> {"none", "creating", "running", "ok", "failed"}]
      /\ ranOn' \in [Names -> References \X References]
    BY <1>0, <1>2, <1>7 DEF TypeOK
<1>9. /\ \A m \in Names : m # n => ranOn'[m] = ranOn[m]
      /\ ranOn'[n] = <<ranOn[n][1], image>>
    BY <1>0, <1>1, <1>2 DEF TypeOK
<1>10. ranOn'[n][1] = ranOn[n][1] /\ ranOn'[n][2] = image
    BY <1>9
<1>11. /\ handler[e].command \in enforceable /\ e \notin touched
       /\ handler[e].image \in Labelled
       /\ row.token = e => ranOn[n][1] = handler[e].image
    BY <1>1, <1>2 DEF GateInv, EvidenceInv
<1>12. y.receipt = "PASSED" => Proven(e, y.command)'
    <2>1. n = <<e, y.command>>
        BY <1>6
    <2>. HIDE DEF n
    <2>. QED  BY <1>2, <1>3, <1>4, <1>6, <1>10, <1>11, <2>1 DEF Proven, GatewayRests
<1>13. \A c \in 1..commands : c < y.command => Proven(e, c)'
    BY <1>2, <1>3, <1>6, <1>9, EarlierStayProven DEF GatewayRests
<1>14. container'[n] = "running" => container[n] = "running" /\ handler[e].cli \notin Live
    BY <1>2 DEF Live
<1>. QED
    BY <1>2, <1>3, <1>5, <1>6, <1>8, <1>9, <1>12, <1>13, <1>14, HandlerMoves
    DEF GatewayRests

\* A client ends without its container: the container is excused.
LEMMA ClientDiesStep ==
    ASSUME GateInv, NEW e \in Executions, ClientDies(e)
    PROVE  GateInv'
<1>. DEFINE n == <<e, handler[e].command>>
            y == [handler[e] EXCEPT !.cli = "exited"]
<1>0. TypeOK
    BY DEF GateInv
<1>1. /\ handler[e] \in HandlerState /\ handler[e].command \in CommandIds
      /\ n \in Names /\ behaviorContainerName(e) = n
    BY NameOf DEF GateInv
<1>2. /\ handler[e].cli = "run" /\ Becomes(e, y) /\ UNCHANGED <<container, ranOn>>
      /\ GatewayRests /\ n \in excused'
    BY <1>0, <1>1, DisturbedInBounds DEF ClientDies, Disturb, GatewayRests, TypeOK
<1>3. /\ handler[e].command <= commands /\ handler[e].pc \in {"supervise", "drain"}
      /\ handler[e].reply = "none" /\ handler[e].receipt = "none"
    BY <1>2 DEF GateInv, ShapeInv
<1>4. y \in HandlerState
    BY <1>1 DEF HandlerState
<1>5. /\ y.pc = handler[e].pc /\ y.cli = "exited" /\ y.receipt = "none"
      /\ y.reply = "none" /\ y.command = handler[e].command /\ y.image = handler[e].image
    BY <1>1, <1>3 DEF HandlerState
<1>. HIDE DEF y
<1>6. /\ y.command \in enforceable /\ e \notin touched /\ y.image \in Labelled
      /\ row.token = e => ranOn'[<<e, y.command>>][1] = y.image
    BY <1>1, <1>2, <1>5 DEF GateInv, EvidenceInv
<1>7. \A c \in 1..commands : c < y.command => Proven(e, c)'
    BY <1>2, <1>5, EarlierStayProven DEF GatewayRests
<1>8. /\ container' \in [Names -> {"none", "creating", "running", "ok", "failed"}]
      /\ ranOn' \in [Names -> References \X References]
    BY <1>0, <1>2 DEF TypeOK
<1>. QED
    BY <1>2, <1>3, <1>4, <1>5, <1>6, <1>7, <1>8, HandlerMoves DEF GatewayRests

\* The abort of a command, whoever asks for it.
LEMMA StopSteps ==
    ASSUME GateInv, NEW e \in Executions,
           StopAtLimit(e) \/ ClientDisconnects(e) \/ Poll(e)
    PROVE  GateInv'
<1>0. TypeOK
    BY DEF GateInv
<1>1. handler[e] \in HandlerState
    BY <1>0 DEF TypeOK
<1>2. ASSUME StopAtLimit(e) PROVE GateInv'
    <2>1. /\ handler[e].pc \in {"supervise", "drain"} /\ Stop(e, handler[e])
          /\ GatewayRests /\ ranOn' = ranOn
        BY <1>0, <1>2, DisturbedInBounds, ExcusedAreNames DEF StopAtLimit, Disturb, GatewayRests
    <2>. QED  BY <1>1, <2>1, StopMoves
<1>3. ASSUME ClientDisconnects(e) PROVE GateInv'
    <2>. DEFINE y == [handler[e] EXCEPT !.gone = TRUE]
    <2>1. GatewayRests /\ ranOn' = ranOn
        BY <1>0, <1>3 DEF ClientDisconnects, GatewayRests, TypeOK
    <2>2. y \in HandlerState
        BY <1>1 DEF HandlerState
    <2>3. /\ y.pc = handler[e].pc /\ y.command = handler[e].command
          /\ y.image = handler[e].image /\ y.cli = handler[e].cli
          /\ y.reaps = handler[e].reaps /\ y.receipt = handler[e].receipt
          /\ y.reply = handler[e].reply
        BY <1>1 DEF HandlerState
    <2>4. \/ handler[e].pc = "received" /\ Becomes(e, y) /\ container' = container
          \/ handler[e].pc = "supervise" /\ Stop(e, y)
        BY <1>3 DEF ClientDisconnects
    <2>. HIDE DEF y
    <2>5. CASE handler[e].pc = "received" /\ Becomes(e, y) /\ container' = container
        <3>1. /\ handler[e].cli = "none" /\ handler[e].receipt = "none"
              /\ handler[e].reply = "none" /\ handler[e].command <= commands
            BY <2>5 DEF GateInv, ShapeInv
        <3>2. \A c \in 1..commands : c < y.command => Proven(e, c)
            BY <2>3 DEF GateInv, EvidenceInv
        <3>. QED  BY <2>1, <2>2, <2>3, <2>5, <3>1, <3>2, QuietMoves DEF Live
    <2>6. CASE handler[e].pc = "supervise" /\ Stop(e, y)
        BY <2>1, <2>2, <2>3, <2>6, StopMoves
    <2>. QED  BY <2>4, <2>5, <2>6
<1>4. ASSUME Poll(e) PROVE GateInv'
    <2>. DEFINE y == [handler[e] EXCEPT !.pc = "drain"]
    <2>1. /\ handler[e].pc = "supervise" /\ Stop(e, y)
          /\ GatewayRests /\ ranOn' = ranOn
        BY <1>0, <1>4, DisturbedInBounds, ExcusedAreNames DEF Poll, Disturb, GatewayRests
    <2>2. y \in HandlerState
        BY <1>1 DEF HandlerState
    <2>3. /\ y.pc = "drain" /\ y.command = handler[e].command
          /\ y.image = handler[e].image /\ y.cli = handler[e].cli
          /\ y.reaps = handler[e].reaps /\ y.receipt = handler[e].receipt
          /\ y.reply = handler[e].reply
        BY <1>1 DEF HandlerState
    <2>. HIDE DEF y
    <2>. QED  BY <2>1, <2>2, <2>3, StopMoves
<1>. QED  BY <1>2, <1>3, <1>4

\* A handler that has drained answers HOLD; one that observes a receipt goes on
\* to the next command or answers what the receipts say.
LEMMA AnswerSteps ==
    ASSUME GateInv, NEW e \in Executions, Drained(e) \/ Observed(e)
    PROVE  GateInv'
<1>0. TypeOK
    BY DEF GateInv
<1>1. handler[e] \in HandlerState /\ handler[e].command \in CommandIds
    BY <1>0, NameOf
<1>2. /\ handler[e].pc # "none" /\ handler[e].cli = "settled" /\ handler[e].cli \notin Live
      /\ GatewayRests /\ UNCHANGED <<container, ranOn>>
    BY <1>0, DisturbedInBounds DEF Drained, Observed, Attempt, Disturb, GatewayRests, Live,
                                   TypeOK
<1>3. ASSUME NEW status \in {"HOLD", "FAILED"}, Reply(e, status) PROVE GateInv'
    BY <1>2, <1>3, ReplyMoves DEF Verdicts
<1>4. ASSUME NextCommand(e) PROVE GateInv'
    <2>1. /\ \A c \in 1..commands : c < handler[e].command => Proven(e, c)
          /\ handler[e].receipt = "PASSED" => Proven(e, handler[e].command)
          /\ handler[e].command <= commands /\ commands \in CommandIds
          /\ handler[e].pc # "replied" => handler[e].reply = "none"
        BY DEF GateInv, EvidenceInv, ShapeInv, TypeOK
    <2>2. CASE handler[e].receipt # "PASSED"
        BY <1>3, <1>4, <2>2 DEF NextCommand
    <2>3. CASE handler[e].receipt = "PASSED" /\ handler[e].command = commands
        <3>1. \A c \in 1..commands : c < commands \/ c = commands
            BY <2>1, BehaviorGateAssumption DEF CommandIds
        <3>2. \A c \in 1..commands : Proven(e, c)
            BY <2>1, <2>3, <3>1
        <3>3. Reply(e, "PASSED")
            BY <1>4, <2>3 DEF NextCommand
        <3>. QED  BY <1>2, <3>2, <3>3, ReplyMoves DEF Verdicts
    <2>4. CASE handler[e].receipt = "PASSED" /\ handler[e].command # commands
        <3>. DEFINE y == [handler[e] EXCEPT !.pc = "materialize", !.cli = "none",
                                            !.receipt = "none", !.command = @ + 1]
        <3>1. Becomes(e, y)
            BY <1>4, <2>4 DEF NextCommand
        <3>2. /\ handler[e].command + 1 \in CommandIds
              /\ handler[e].command + 1 <= commands
              /\ \A c \in 1..commands : c < handler[e].command + 1 =>
                   c < handler[e].command \/ c = handler[e].command
            BY <1>1, <2>1, <2>4, BehaviorGateAssumption DEF CommandIds
        <3>3. y \in HandlerState
            BY <1>1, <3>2 DEF HandlerState, Synchronous, Verdicts
        <3>4. handler[e].reply = "none"
            BY <1>2 DEF GateInv, ShapeInv
        <3>5. /\ y.cli = "none" /\ y.receipt = "none" /\ y.reply = "none"
              /\ y.command = handler[e].command + 1
            BY <1>1, <3>4 DEF HandlerState
        <3>. HIDE DEF y
        <3>6. \A c \in 1..commands : c < y.command => Proven(e, c)
            BY <2>1, <2>4, <3>2, <3>5
        <3>. QED  BY <1>2, <3>1, <3>2, <3>3, <3>5, <3>6, QuietMoves
    <2>. QED  BY <2>2, <2>3, <2>4
<1>. QED  BY <1>3, <1>4 DEF Drained, Observed, Attempt

\* The daemon creates a container whose client may be gone: then nobody answers
\* for it, and it counts as excused.
LEMMA DaemonCreatesStep ==
    ASSUME GateInv, NEW n \in Names, DaemonCreates(n)
    PROVE  GateInv'
<1>1. /\ UNCHANGED <<clock, run, row, capabilities, worker, touched, commands, enforceable,
                     image, handler, accepted, ranOn, disturbed>>
      /\ container[n] = "creating" /\ container' = [container EXCEPT ![n] = "running"]
      /\ excused' = IF ClientOf(n) \in {"run", "killed", "reaping"}
                    THEN excused ELSE excused \cup {n}
    BY DEF DaemonCreates
<1>2. TypeOK'
    BY <1>1 DEF GateInv, TypeOK
<1>3. ShapeInv' /\ WorkerInv'
    BY <1>1 DEF GateInv, ShapeInv, WorkerInv
<1>4. ASSUME NEW e, NEW c, Proven(e, c) PROVE Proven(e, c)'
    <2>1. container'[<<e, c>>] = container[<<e, c>>]
        BY <1>1, <1>4 DEF Proven, GateInv, TypeOK
    <2>. QED  BY <1>1, <1>4, <2>1, ProvenStays
<1>5. EvidenceInv'
    BY <1>1, <1>4 DEF GateInv, EvidenceInv, behaviorContainerName
<1>6. NoOrphan'
    BY <1>1 DEF GateInv, NoOrphan, ClientOf, TypeOK
<1>. QED  BY <1>2, <1>3, <1>5, <1>6 DEF GateInv

\* A container ends: its client reports the code, or nobody listens.
LEMMA ContainerExitsStep ==
    ASSUME GateInv, NEW n \in Names, ContainerExits(n)
    PROVE  GateInv'
<1>1. /\ UNCHANGED <<clock, run, row, capabilities, worker, touched, commands, enforceable,
                     image, accepted, ranOn, excused, disturbed>>
      /\ container[n] \in {"creating", "running"}
    BY DEF ContainerExits
<1>2. n[1] \in Executions /\ n[2] \in CommandIds /\ n = <<n[1], n[2]>>
    BY DEF Names
<1>3. CASE ClientOf(n) = "run"
    <2>. DEFINE e == n[1]
    <2>1. handler[e].command = n[2] /\ handler[e].cli = "run"
        BY <1>3 DEF ClientOf
    <2>2. PICK code \in {"ok", "failed"} : container' = [container EXCEPT ![n] = code]
        BY <1>3 DEF ContainerExits
    <2>3. Becomes(e, [handler[e] EXCEPT !.cli = "exited"])
        BY <1>3 DEF ContainerExits
    <2>4. handler[e] \in HandlerState
        BY <1>2, NameOf DEF GateInv
    <2>5. /\ handler[e].pc \in {"supervise", "drain"} /\ handler[e].receipt = "none"
          /\ handler[e].reply = "none" /\ handler[e].command <= commands
        BY <1>2, <2>1 DEF GateInv, ShapeInv
    <2>6. PICK y \in HandlerState :
            /\ Becomes(e, y)
            /\ y.pc = handler[e].pc /\ y.cli = "exited" /\ y.receipt = "none"
            /\ y.reply = "none" /\ y.command = handler[e].command
            /\ y.image = handler[e].image
        <3>. DEFINE z == [handler[e] EXCEPT !.cli = "exited"]
        <3>1. z \in HandlerState
            BY <2>4 DEF HandlerState
        <3>2. /\ z.pc = handler[e].pc /\ z.cli = "exited" /\ z.receipt = "none"
              /\ z.reply = "none" /\ z.command = handler[e].command
              /\ z.image = handler[e].image
            BY <2>4, <2>5 DEF HandlerState
        <3>. QED  BY <2>3, <3>1, <3>2
    <2>7. n = <<e, handler[e].command>>
        BY <1>2, <2>1
    <2>8. /\ container' \in [Names -> {"none", "creating", "running", "ok", "failed"}]
          /\ ranOn' \in [Names -> References \X References]
          /\ disturbed' \in 0..MaxDisturbances
          /\ excused \subseteq excused' /\ excused' \subseteq Names
        BY <1>1, <2>2 DEF GateInv, TypeOK
    <2>9. /\ \A m \in Names : m # n => container'[m] = container[m] /\ ranOn'[m] = ranOn[m]
          /\ container'[n] # "running"
        BY <1>1, <2>2 DEF GateInv, TypeOK
    <2>10. /\ handler[e].command \in enforceable /\ e \notin touched
           /\ handler[e].image \in Labelled
           /\ row.token = e => ranOn[n][1] = handler[e].image
        BY <1>2, <2>1, <2>7 DEF GateInv, EvidenceInv, behaviorContainerName
    <2>11. e \in Executions
        BY <1>2
    <2>. HIDE DEF e
    <2>12. \A c \in 1..commands : c < y.command => Proven(e, c)'
        BY <1>1, <2>6, <2>7, <2>9, <2>11, EarlierStayProven
    <2>13. row.token = e => ranOn'[<<e, y.command>>][1] = y.image
        BY <1>1, <2>6, <2>7, <2>10
    <2>. QED
        BY <1>1, <2>5, <2>6, <2>7, <2>8, <2>9, <2>10, <2>11, <2>12, <2>13, HandlerMoves
<1>4. CASE ClientOf(n) # "run"
    <2>1. container' = [container EXCEPT ![n] = "none"] /\ handler' = handler
        BY <1>4 DEF ContainerExits
    <2>2. TypeOK'
        BY <1>1, <2>1 DEF GateInv, TypeOK
    <2>3. ShapeInv' /\ WorkerInv'
        BY <1>1, <2>1 DEF GateInv, ShapeInv, WorkerInv
    <2>4. ASSUME NEW e, NEW c, Proven(e, c) PROVE Proven(e, c)'
        <3>1. container'[<<e, c>>] = container[<<e, c>>]
            BY <1>1, <2>1, <2>4 DEF Proven, GateInv, TypeOK
        <3>. QED  BY <1>1, <2>4, <3>1, ProvenStays
    <2>5. EvidenceInv'
        BY <1>1, <2>1, <2>4 DEF GateInv, EvidenceInv, behaviorContainerName
    <2>6. NoOrphan'
        BY <1>1, <2>1 DEF GateInv, NoOrphan, ClientOf, TypeOK
    <2>. QED  BY <2>2, <2>3, <2>5, <2>6 DEF GateInv
<1>. QED  BY <1>3, <1>4

\* The gateway dies: its handlers are lost and its containers excused.
LEMMA GatewayCrashStep ==
    ASSUME GateInv, GatewayCrash
    PROVE  GateInv'
<1>1. /\ UNCHANGED <<clock, run, row, capabilities, worker, touched, commands, enforceable,
                     image, accepted, ranOn, container>>
      /\ excused' = excused \cup {n \in Names : container[n] \in {"creating", "running"}}
      /\ disturbed' \in 0..MaxDisturbances
    BY DisturbedInBounds DEF GatewayCrash, Disturb, GateInv
<1>2. PICK lost : lost = [NoHandler EXCEPT !.pc = "lost"]
    OBVIOUS
<1>3. 1 \in CommandIds /\ 0 \in 0..Reaps
    BY BehaviorGateAssumption DEF CommandIds
<1>4. /\ lost \in HandlerState
      /\ lost.pc = "lost" /\ lost.command = 1 /\ lost.cli = "none"
      /\ lost.receipt = "none" /\ lost.reply = "none"
    BY <1>2, <1>3 DEF NoHandler, HandlerState, References, Verdicts
<1>5. \A e \in Executions : handler'[e] = IF Serving(e) THEN lost ELSE handler[e]
    BY <1>2 DEF GatewayCrash
<1>6. handler' \in [Executions -> HandlerState]
    <2>1. handler' = [e \in Executions |-> IF Serving(e) THEN lost ELSE handler[e]]
        BY <1>2 DEF GatewayCrash
    <2>2. \A e \in Executions : (IF Serving(e) THEN lost ELSE handler[e]) \in HandlerState
        BY <1>4 DEF GateInv, TypeOK
    <2>. QED  BY <2>1, <2>2
<1>7. commands \in CommandIds /\ commands \in Nat /\ 1 <= commands
    BY BehaviorGateAssumption DEF GateInv, TypeOK, CommandIds
<1>8. TypeOK'
    BY <1>1, <1>6 DEF GateInv, TypeOK
<1>9. ShapeInv'
    BY <1>1, <1>4, <1>5, <1>7 DEF GateInv, ShapeInv
<1>10. \A e \in Executions : handler[e].pc = "none" => ~Serving(e)
    BY DEF Serving
<1>11. WorkerInv'
    BY <1>1, <1>5, <1>10 DEF GateInv, WorkerInv, NoHandler
<1>12. ASSUME NEW e, NEW c PROVE Proven(e, c)' <=> Proven(e, c)
    BY <1>1 DEF Proven
<1>13. EvidenceInv'
    <2>. SUFFICES ASSUME NEW e \in Executions
                  PROVE  /\ handler'[e].cli \in {"run", "exited"} =>
                              /\ handler'[e].command \in enforceable /\ e \notin touched
                              /\ handler'[e].image \in Labelled
                              /\ row.token = e =>
                                   ranOn[<<e, handler'[e].command>>][1] = handler'[e].image
                         /\ \A c \in 1..commands :
                              c < handler'[e].command => Proven(e, c)'
                         /\ handler'[e].receipt = "PASSED" =>
                              Proven(e, handler[e].command)'
                         /\ handler'[e].reply = "PASSED" \/ worker[e].result = "PASSED" =>
                              \A c \in 1..commands : Proven(e, c)'
        BY <1>1 DEF EvidenceInv, behaviorContainerName
    <2>1. /\ handler[e].cli \in {"run", "exited"} =>
              /\ handler[e].command \in enforceable /\ e \notin touched
              /\ handler[e].image \in Labelled
              /\ row.token = e =>
                   ranOn[<<e, handler[e].command>>][1] = handler[e].image
          /\ \A c \in 1..commands : c < handler[e].command => Proven(e, c)
          /\ handler[e].receipt = "PASSED" => Proven(e, handler[e].command)
          /\ handler[e].reply = "PASSED" \/ worker[e].result = "PASSED" =>
               \A c \in 1..commands : Proven(e, c)
        BY DEF GateInv, EvidenceInv, behaviorContainerName
    <2>2. CASE Serving(e)
        <3>1. handler'[e] = lost
            BY <1>5, <2>2
        <3>2. \A c \in 1..commands : ~(c < 1)
            BY <1>7
        <3>. QED  BY <1>4, <1>12, <2>1, <3>1, <3>2
    <2>3. CASE ~Serving(e)
        <3>1. handler'[e] = handler[e]
            BY <1>5, <2>3
        <3>2. handler[e].receipt = "PASSED" => Proven(e, handler[e].command)'
            BY <1>1, <2>1, <3>1 DEF Proven
        <3>. QED  BY <1>12, <2>1, <3>1, <3>2
    <2>. QED  BY <2>2, <2>3
<1>14. NoOrphan'
    BY <1>1 DEF NoOrphan
<1>. QED  BY <1>8, <1>9, <1>11, <1>13, <1>14 DEF GateInv

\* A step of the rows or of a worker that leaves the gateway and the token alone
\* and has no new PASSED result keeps what handlers and receipts stand for.
LEMMA GatewayKept ==
    ASSUME GateInv, UNCHANGED <<touched, commands, enforceable, handler, container, ranOn,
                                excused>>,
           row'.token = row.token,
           \A e \in Executions : worker'[e].result = "PASSED" => worker[e].result = "PASSED"
    PROVE  ShapeInv' /\ EvidenceInv' /\ NoOrphan'
<1>1. ShapeInv' /\ NoOrphan'
    BY DEF GateInv, ShapeInv, NoOrphan, ClientOf
<1>2. ASSUME NEW e, NEW c, Proven(e, c) PROVE Proven(e, c)'
    BY <1>2 DEF Proven
<1>3. EvidenceInv'
    BY <1>2 DEF GateInv, EvidenceInv, behaviorContainerName
<1>. QED  BY <1>1, <1>3

\* The rows change: a lease is recovered, the run or the task is cancelled, time
\* passes, the image is rebuilt.
LEMMA RowSteps ==
    ASSUME GateInv, Requeue \/ CancelRun \/ CancelTask \/ Tick \/ Rebuild
    PROVE  GateInv'
<1>. USE DEF GateInv
<1>1. ASSUME Requeue PROVE GateInv'
    <2>1. /\ UNCHANGED <<touched, commands, enforceable, handler, container, ranOn, excused>>
          /\ UNCHANGED <<clock, run, capabilities, worker, image, accepted, disturbed>>
          /\ row' = [row EXCEPT !.status = "queued"]
          /\ row.status = "running" \/ accepted[row.token] # "PASSED"
        BY <1>1 DEF Requeue
    <2>2. row' \in Row /\ row'.token = row.token
        BY <2>1 DEF TypeOK, Row
    <2>3. TypeOK'
        BY <2>1, <2>2 DEF TypeOK
    <2>4. WorkerInv'
        BY <2>1, <2>2 DEF WorkerInv
    <2>. QED  BY <2>1, <2>2, <2>3, <2>4, GatewayKept
<1>2. ASSUME CancelRun PROVE GateInv'
    <2>1. /\ UNCHANGED <<touched, commands, enforceable, handler, container, ranOn, excused>>
          /\ UNCHANGED <<clock, row, capabilities, worker, image, accepted>>
          /\ run' = "cancelled" /\ disturbed' \in 0..MaxDisturbances
        BY <1>2, DisturbedInBounds DEF CancelRun, Disturb
    <2>2. TypeOK' /\ WorkerInv'
        BY <2>1 DEF TypeOK, WorkerInv
    <2>. QED  BY <2>1, <2>2, GatewayKept
<1>3. ASSUME CancelTask PROVE GateInv'
    <2>1. /\ UNCHANGED <<touched, commands, enforceable, handler, container, ranOn, excused>>
          /\ UNCHANGED <<clock, run, capabilities, worker, image, accepted, disturbed>>
          /\ row' = [row EXCEPT !.status = "cancelled"]
        BY <1>3 DEF CancelTask
    <2>2. row' \in Row /\ row'.token = row.token /\ row'.status = "cancelled"
        BY <2>1 DEF TypeOK, Row
    <2>3. TypeOK'
        BY <2>1, <2>2 DEF TypeOK
    <2>4. WorkerInv'
        BY <2>1, <2>2 DEF WorkerInv
    <2>. QED  BY <2>1, <2>2, <2>3, <2>4, GatewayKept
<1>4. ASSUME Tick PROVE GateInv'
    <2>1. /\ UNCHANGED <<touched, commands, enforceable, handler, container, ranOn, excused>>
          /\ UNCHANGED <<run, row, capabilities, worker, image, accepted, disturbed>>
          /\ clock < MaxClock /\ clock' = clock + 1
        BY <1>4 DEF Tick
    <2>2. clock' \in 0..MaxClock
        BY <2>1, BehaviorGateAssumption DEF TypeOK
    <2>3. TypeOK' /\ WorkerInv'
        BY <2>1, <2>2 DEF TypeOK, WorkerInv
    <2>. QED  BY <2>1, <2>3, GatewayKept
<1>5. ASSUME Rebuild PROVE GateInv'
    <2>1. /\ UNCHANGED <<touched, commands, enforceable, handler, container, ranOn, excused>>
          /\ UNCHANGED <<clock, run, row, capabilities, worker, accepted>>
          /\ image' \in Images /\ disturbed' \in 0..MaxDisturbances
        BY <1>5, DisturbedInBounds DEF Rebuild, Disturb
    <2>2. TypeOK' /\ WorkerInv'
        BY <2>1 DEF TypeOK, WorkerInv
    <2>. QED  BY <2>1, <2>2, GatewayKept
<1>. QED  BY <1>1, <1>2, <1>3, <1>4, <1>5

\* A claim takes a token nobody has had: nothing of that execution exists yet.
LEMMA ClaimStep ==
    ASSUME GateInv, NEW e \in Executions, Claim(e)
    PROVE  GateInv'
<1>. USE DEF GateInv
<1>1. /\ row.status = "queued" /\ e = row.token + 1
      /\ row' = [status |-> "running", token |-> e, expires |-> clock + LeaseTicks]
      /\ WorkerTo(e, "fence", worker[e].result)
      /\ touched' = touched \/ touched' = touched \cup {e}
      /\ ranOn' = [n \in Names |-> <<"none", "none">>]
      /\ UNCHANGED <<clock, run, capabilities, commands, enforceable, image, handler,
                     container, excused, accepted>>
      /\ disturbed' \in 0..MaxDisturbances
    BY DisturbedInBounds DEF Claim, Disturb
<1>2. row.token \in Int /\ e > row.token /\ \A d \in Executions : d > e => d > row.token
    BY <1>1, BehaviorGateAssumption DEF TypeOK, Row, Executions
<1>3. /\ worker[e].pc = "none" /\ worker[e].result = "none" /\ handler[e] = NoHandler
      /\ accepted[e] # "PASSED"
    BY <1>2 DEF WorkerInv
<1>4. /\ worker' \in [Executions -> WorkerState]
      /\ worker'[e].pc = "fence" /\ worker'[e].result = "none"
      /\ \A d \in Executions \ {e} : worker'[d] = worker[d]
    BY <1>1, <1>3, WorkerReplaced DEF Verdicts
<1>5. clock + LeaseTicks \in ClockTime /\ e \in 0..MaxExecutions
    BY BehaviorGateAssumption DEF TypeOK, ClockTime, Executions
<1>6. row' \in Row /\ row'.token = e
    BY <1>1, <1>5 DEF Row
<1>7. ranOn' \in [Names -> References \X References]
    BY <1>1 DEF References
<1>8. TypeOK'
    BY <1>1, <1>4, <1>6, <1>7 DEF TypeOK
<1>9. ShapeInv'
    BY <1>1 DEF ShapeInv
<1>10. \A d \in Executions : accepted[d] # "PASSED"
    BY <1>1 DEF WorkerInv
<1>11. WorkerInv'
    BY <1>1, <1>2, <1>3, <1>4, <1>6, <1>10 DEF WorkerInv
<1>12. ASSUME NEW d \in Executions, d # e, NEW c, Proven(d, c) PROVE Proven(d, c)'
    BY <1>1, <1>6, <1>12 DEF Proven
<1>13. EvidenceInv'
    <2>. SUFFICES ASSUME NEW d \in Executions
                  PROVE  /\ handler[d].cli \in {"run", "exited"} =>
                              /\ handler[d].command \in enforceable /\ d \notin touched'
                              /\ handler[d].image \in Labelled
                              /\ e = d =>
                                   ranOn'[<<d, handler[d].command>>][1] = handler[d].image
                         /\ \A c \in 1..commands : c < handler[d].command => Proven(d, c)'
                         /\ handler[d].receipt = "PASSED" => Proven(d, handler[d].command)'
                         /\ handler[d].reply = "PASSED" \/ worker'[d].result = "PASSED" =>
                              \A c \in 1..commands : Proven(d, c)'
        BY <1>1, <1>6 DEF EvidenceInv, behaviorContainerName
    <2>1. CASE d = e
        <3>1. /\ handler[d].cli = "none" /\ handler[d].command = 1
              /\ handler[d].receipt = "none" /\ handler[d].reply = "none"
            BY <1>3, <2>1 DEF NoHandler
        <3>2. \A c \in 1..commands : ~(c < 1)
            BY BehaviorGateAssumption DEF TypeOK, CommandIds
        <3>. QED  BY <1>4, <2>1, <3>1, <3>2
    <2>2. CASE d # e
        <3>1. /\ handler[d].cli \in {"run", "exited"} =>
                   /\ handler[d].command \in enforceable /\ d \notin touched
                   /\ handler[d].image \in Labelled
              /\ \A c \in 1..commands : c < handler[d].command => Proven(d, c)
              /\ handler[d].receipt = "PASSED" => Proven(d, handler[d].command)
              /\ handler[d].reply = "PASSED" \/ worker[d].result = "PASSED" =>
                   \A c \in 1..commands : Proven(d, c)
            BY DEF EvidenceInv
        <3>2. handler[d].receipt = "PASSED" => Proven(d, handler[d].command)'
            BY <1>1, <1>6, <2>2, <3>1 DEF Proven
        <3>. QED  BY <1>1, <1>4, <1>12, <2>2, <3>1, <3>2
    <2>. QED  BY <2>1, <2>2
<1>14. NoOrphan'
    BY <1>1 DEF NoOrphan, ClientOf
<1>. QED  BY <1>8, <1>9, <1>11, <1>13, <1>14

\* A worker moves on without asking or hearing the gateway.
LEMMA WorkerMoves ==
    ASSUME GateInv, NEW e \in Executions,
           NEW pc \in {"post", "finish", "done", "dead"},
           NEW result \in Verdicts, WorkerTo(e, pc, result),
           result = "PASSED" => worker[e].result = "PASSED",
           worker[e].pc # "none",
           UNCHANGED <<clock, run, capabilities, touched, commands, enforceable, image,
                       handler, container, ranOn, excused>>,
           row' \in Row, row'.token = row.token,
           accepted' \in [Executions -> Verdicts],
           \A d \in Executions : accepted'[d] = "PASSED" =>
             /\ worker'[d].pc = "done" /\ worker'[d].result = "PASSED"
             /\ row.token = d
             /\ row'.status \in {"ready", "cancelled"},
           disturbed' \in 0..MaxDisturbances
    PROVE  GateInv'
<1>. USE DEF GateInv
<1>1. /\ worker' \in [Executions -> WorkerState]
      /\ worker'[e].pc = pc /\ worker'[e].result = result
      /\ \A d \in Executions \ {e} : worker'[d] = worker[d]
    BY WorkerReplaced
<1>2. TypeOK'
    BY <1>1 DEF TypeOK
<1>3. WorkerInv'
    BY <1>1 DEF WorkerInv
<1>4. \A d \in Executions : worker'[d].result = "PASSED" => worker[d].result = "PASSED"
    BY <1>1
<1>. QED  BY <1>2, <1>3, <1>4, GatewayKept

\* The steps of a worker before and after the gate, under a lease it may have
\* lost.
LEMMA WorkerSteps ==
    ASSUME GateInv, NEW e \in Executions,
           \/ TakeFence(e) \/ Heartbeat(e) \/ CancellationTick(e) \/ RequestFails(e)
           \/ PostFence(e) \/ Finish(e) \/ WorkerCrash(e)
    PROVE  GateInv'
<1>. USE DEF GateInv
<1>. DEFINE Kept == /\ UNCHANGED <<clock, run, capabilities, touched, commands, enforceable,
                                   image, handler, container, ranOn, excused>>
                    /\ disturbed' \in 0..MaxDisturbances
<1>1. worker[e] \in WorkerState /\ worker[e].result \in Verdicts /\ row \in Row
    BY DEF TypeOK, WorkerState
<1>2. ASSUME NEW pc \in {"post", "finish", "dead"}, NEW result \in Verdicts,
             WorkerTo(e, pc, result), result \in {"HOLD", worker[e].result},
             worker[e].pc \in {"fence", "persist", "wait", "post", "finish"},
             Kept, UNCHANGED <<row, accepted>>
      PROVE  GateInv'
    <2>1. \A d \in Executions \ {e} : worker'[d] = worker[d]
        BY <1>2, WorkerReplaced
    <2>2. accepted[e] # "PASSED"
        BY <1>2 DEF WorkerInv
    <2>3. \A d \in Executions : accepted'[d] = "PASSED" =>
            /\ worker'[d].pc = "done" /\ worker'[d].result = "PASSED"
            /\ row.token = d /\ row'.status \in {"ready", "cancelled"}
        BY <1>2, <2>1, <2>2 DEF WorkerInv
    <2>4. accepted' \in [Executions -> Verdicts]
        BY <1>2 DEF TypeOK
    <2>. QED  BY <1>1, <1>2, <2>3, <2>4, WorkerMoves
<1>3. CASE TakeFence(e)
    <2>1. worker[e].pc = "fence" /\ Kept /\ UNCHANGED <<row, accepted>>
        BY <1>3, DisturbedInBounds DEF TakeFence, Attempt, Disturb
    <2>2. CASE WorkerTo(e, "finish", "HOLD")
        BY <1>2, <2>1, <2>2 DEF Verdicts
    <2>3. CASE worker' = [worker EXCEPT ![e] = [worker[e] EXCEPT !.pc = "persist",
                                                               !.snapshot = row.expires]]
        <3>1. row.expires \in ClockTime
            BY <1>1 DEF Row
        <3>2. PICK y \in WorkerState : /\ worker' = [worker EXCEPT ![e] = y]
                                       /\ y.pc = "persist" /\ y.result = worker[e].result
            <4>. DEFINE z == [worker[e] EXCEPT !.pc = "persist", !.snapshot = row.expires]
            <4>1. z \in WorkerState /\ z.pc = "persist" /\ z.result = worker[e].result
                BY <1>1, <3>1 DEF WorkerState
            <4>. QED  BY <2>3, <4>1
        <3>3. /\ worker' \in [Executions -> WorkerState] /\ worker'[e] = y
              /\ \A d \in Executions \ {e} : worker'[d] = worker[d]
            BY <3>2 DEF TypeOK
        <3>4. TypeOK'
            BY <2>1, <3>3 DEF TypeOK
        <3>5. WorkerInv'
            BY <2>1, <3>2, <3>3 DEF WorkerInv
        <3>6. \A d \in Executions : worker'[d].result = "PASSED" => worker[d].result = "PASSED"
            BY <3>2, <3>3
        <3>. QED  BY <2>1, <3>4, <3>5, <3>6, GatewayKept
    <2>. QED  BY <1>3, <2>2, <2>3 DEF TakeFence, Attempt
<1>4. CASE Heartbeat(e)
    <2>1. worker[e].pc = "wait" /\ Kept /\ accepted' = accepted
        BY <1>4, DisturbedInBounds DEF Heartbeat, Attempt, Disturb
    <2>2. CASE WorkerTo(e, "post", "HOLD") /\ UNCHANGED row
        BY <1>2, <2>1, <2>2 DEF Verdicts
    <2>3. CASE row' = [row EXCEPT !.expires = clock + LeaseTicks] /\ UNCHANGED worker
        <3>1. clock + LeaseTicks \in ClockTime
            BY BehaviorGateAssumption DEF TypeOK, ClockTime
        <3>2. row' \in Row /\ row'.token = row.token /\ row'.status = row.status
            BY <1>1, <2>3, <3>1 DEF Row
        <3>3. TypeOK' /\ WorkerInv'
            BY <2>1, <2>3, <3>2 DEF TypeOK, WorkerInv
        <3>. QED  BY <2>1, <2>3, <3>2, <3>3, GatewayKept
    <2>. QED  BY <1>4, <2>2, <2>3 DEF Heartbeat, Attempt
<1>5. CASE CancellationTick(e)
    <2>1. /\ worker[e].pc = "wait" /\ Kept /\ UNCHANGED <<row, accepted>>
          /\ WorkerTo(e, "post", "HOLD")
        BY <1>5, DisturbedInBounds DEF CancellationTick
    <2>. QED  BY <1>2, <2>1 DEF Verdicts
<1>6. CASE RequestFails(e)
    <2>1. /\ worker[e].pc = "wait" /\ Kept /\ UNCHANGED <<row, accepted>>
          /\ WorkerTo(e, "post", "HOLD")
        BY <1>6, DisturbedInBounds DEF RequestFails, Disturb
    <2>. QED  BY <1>2, <2>1 DEF Verdicts
<1>7. CASE PostFence(e)
    <2>1. /\ worker[e].pc = "post" /\ Kept /\ UNCHANGED <<row, accepted>>
          /\ \/ WorkerTo(e, "finish", "HOLD")
             \/ WorkerTo(e, "finish", worker[e].result)
        BY <1>7, DisturbedInBounds DEF PostFence, Attempt, Disturb
    <2>. QED  BY <1>1, <1>2, <2>1 DEF Verdicts
<1>8. CASE Finish(e)
    <2>1. /\ worker[e].pc = "finish" /\ Kept /\ WorkerTo(e, "done", worker[e].result)
        BY <1>8, DisturbedInBounds DEF Finish
    <2>2. /\ worker'[e].pc = "done" /\ worker'[e].result = worker[e].result
          /\ \A d \in Executions \ {e} : worker'[d] = worker[d]
        BY <1>1, <2>1, WorkerReplaced
    <2>3. accepted[e] # "PASSED"
        BY <2>1 DEF WorkerInv
    <2>4. CASE ~HoldsRow(e)
        <3>1. UNCHANGED <<row, accepted>>
            BY <1>8, <2>4 DEF Finish
        <3>2. \A d \in Executions : accepted'[d] = "PASSED" =>
                /\ worker'[d].pc = "done" /\ worker'[d].result = "PASSED"
                /\ row.token = d /\ row'.status \in {"ready", "cancelled"}
            BY <2>2, <2>3, <3>1 DEF WorkerInv
        <3>3. accepted' \in [Executions -> Verdicts]
            BY <3>1 DEF TypeOK
        <3>. QED  BY <1>1, <2>1, <3>1, <3>2, <3>3, WorkerMoves
    <2>5. CASE HoldsRow(e)
        <3>1. /\ row' = [row EXCEPT !.status = "ready"] /\ row.token = e
              /\ row.status = "running"
              /\ accepted' = [accepted EXCEPT ![e] = worker[e].result]
            BY <1>8, <2>5 DEF Finish, HoldsRow
        <3>2. row' \in Row /\ row'.token = row.token /\ row'.status = "ready"
            BY <1>1, <3>1 DEF Row
        <3>3. accepted' \in [Executions -> Verdicts]
            BY <1>1, <3>1 DEF TypeOK
        <3>4. \A d \in Executions : accepted'[d] = "PASSED" =>
                /\ worker'[d].pc = "done" /\ worker'[d].result = "PASSED"
                /\ row.token = d /\ row'.status \in {"ready", "cancelled"}
            BY <2>2, <3>1, <3>2 DEF WorkerInv, TypeOK
        <3>. QED  BY <1>1, <2>1, <3>2, <3>3, <3>4, WorkerMoves
    <2>. QED  BY <2>4, <2>5
<1>9. CASE WorkerCrash(e)
    <2>1. /\ worker[e].pc \in {"fence", "persist", "wait", "post", "finish"}
          /\ Kept /\ UNCHANGED <<row, accepted>>
          /\ WorkerTo(e, "dead", worker[e].result)
        BY <1>9, DisturbedInBounds DEF WorkerCrash, Disturb
    <2>. QED  BY <1>1, <1>2, <2>1
<1>. QED  BY <1>3, <1>4, <1>5, <1>6, <1>7, <1>8, <1>9

\* Asking the gateway and hearing its answer.
LEMMA RequestSteps ==
    ASSUME GateInv, NEW e \in Executions, PersistCapability(e) \/ Response(e)
    PROVE  GateInv'
<1>. USE DEF GateInv
<1>1. /\ handler[e] \in HandlerState /\ handler[e].reply \in Verdicts
      /\ NoHandler \in HandlerState
    <2>1. 1 \in CommandIds /\ 0 \in 0..Reaps
        BY BehaviorGateAssumption DEF CommandIds
    <2>. QED  BY <2>1 DEF TypeOK, HandlerState, NoHandler, References, Verdicts
<1>2. CASE PersistCapability(e)
    <2>1. /\ worker[e].pc = "persist" /\ disturbed' \in 0..MaxDisturbances
          /\ UNCHANGED <<clock, run, row, touched, commands, enforceable, image, container,
                         ranOn, excused, accepted>>
        BY <1>2, DisturbedInBounds DEF PersistCapability, Attempt, Disturb
    <2>2. /\ handler[e] = NoHandler /\ worker[e].result = "none" /\ accepted[e] # "PASSED"
        BY <2>1 DEF WorkerInv
    <2>3. CASE WorkerTo(e, "finish", "HOLD") /\ UNCHANGED <<capabilities, handler>>
        <3>1. \A d \in Executions \ {e} : worker'[d] = worker[d]
            BY <2>3, WorkerReplaced DEF Verdicts
        <3>2. \A d \in Executions : accepted'[d] = "PASSED" =>
                /\ worker'[d].pc = "done" /\ worker'[d].result = "PASSED"
                /\ row.token = d /\ row'.status \in {"ready", "cancelled"}
            BY <2>1, <2>2, <3>1 DEF WorkerInv
        <3>3. row' \in Row /\ accepted' \in [Executions -> Verdicts]
            BY <2>1 DEF TypeOK
        <3>. QED  BY <2>1, <2>3, <3>2, <3>3, WorkerMoves DEF Verdicts
    <2>4. CASE /\ capabilities' = capabilities \cup {e}
               /\ WorkerTo(e, "wait", "none")
               /\ Becomes(e, [handler[e] EXCEPT !.pc = "received"])
        <3>1. /\ worker' \in [Executions -> WorkerState]
              /\ worker'[e].pc = "wait" /\ worker'[e].result = "none"
              /\ \A d \in Executions \ {e} : worker'[d] = worker[d]
            BY <2>4, WorkerReplaced DEF Verdicts
        <3>2. PICK y \in HandlerState :
                /\ Becomes(e, y) /\ y.pc = "received" /\ y.command = 1 /\ y.cli = "none"
                /\ y.receipt = "none" /\ y.reply = "none"
            <4>. DEFINE z == [handler[e] EXCEPT !.pc = "received"]
            <4>1. z \in HandlerState
                BY <1>1 DEF HandlerState
            <4>2. /\ z.pc = "received" /\ z.command = 1 /\ z.cli = "none"
                  /\ z.receipt = "none" /\ z.reply = "none"
                BY <2>2 DEF NoHandler
            <4>. QED  BY <2>4, <4>1, <4>2
        <3>3. /\ handler' \in [Executions -> HandlerState] /\ handler'[e] = y
              /\ \A d \in Executions \ {e} : handler'[d] = handler[d]
            BY <3>2, HandlerReplaced
        <3>4. TypeOK'
            BY <2>1, <2>4, <3>1, <3>3 DEF TypeOK
        <3>5. commands \in Nat /\ 1 <= commands
            BY BehaviorGateAssumption DEF TypeOK, CommandIds
        <3>6. ShapeInv'
            BY <2>1, <3>2, <3>3, <3>5 DEF ShapeInv
        <3>7. WorkerInv'
            BY <2>1, <2>2, <3>1, <3>3 DEF WorkerInv
        <3>8. ASSUME NEW d, NEW c PROVE Proven(d, c)' <=> Proven(d, c)
            BY <2>1 DEF Proven
        <3>9. EvidenceInv'
            <4>. SUFFICES ASSUME NEW d \in Executions
                          PROVE  /\ handler'[d].cli \in {"run", "exited"} =>
                                     /\ handler'[d].command \in enforceable /\ d \notin touched
                                     /\ handler'[d].image \in Labelled
                                     /\ row.token = d =>
                                          ranOn[<<d, handler'[d].command>>][1]
                                            = handler'[d].image
                                 /\ \A c \in 1..commands :
                                      c < handler'[d].command => Proven(d, c)'
                                 /\ handler'[d].receipt = "PASSED" =>
                                      Proven(d, handler[d].command)'
                                 /\ handler'[d].reply = "PASSED" \/ worker'[d].result = "PASSED"
                                      => \A c \in 1..commands : Proven(d, c)'
                BY <2>1 DEF EvidenceInv, behaviorContainerName
            <4>1. CASE d = e
                <5>1. \A c \in 1..commands : ~(c < 1)
                    BY <3>5
                <5>. QED  BY <3>1, <3>2, <3>3, <4>1, <5>1
            <4>2. CASE d # e
                <5>1. handler'[d] = handler[d] /\ worker'[d] = worker[d]
                    BY <3>1, <3>3, <4>2
                <5>2. handler[d].receipt = "PASSED" => Proven(d, handler[d].command)'
                    BY <2>1, <5>1 DEF Proven, EvidenceInv
                <5>. QED  BY <3>8, <5>1, <5>2 DEF EvidenceInv, behaviorContainerName
            <4>. QED  BY <4>1, <4>2
        <3>10. NoOrphan'
            <4>. SUFFICES ASSUME NEW n \in Names, container[n] = "running",
                                 n \notin excused
                          PROVE  ClientOf(n)' \in Live
                BY <2>1 DEF NoOrphan, Live
            <4>1. ClientOf(n) \in Live /\ n[1] \in Executions
                BY DEF NoOrphan, Live, Names
            <4>2. n[1] # e
                BY <2>2, <4>1 DEF ClientOf, Live, NoHandler
            <4>. QED  BY <3>3, <4>1, <4>2 DEF ClientOf
        <3>. QED  BY <3>4, <3>6, <3>7, <3>9, <3>10
    <2>. QED  BY <1>2, <2>3, <2>4 DEF PersistCapability, Attempt
<1>3. CASE Response(e)
    <2>1. /\ worker[e].pc = "wait" /\ handler[e].pc = "replied"
          /\ WorkerTo(e, "post", handler[e].reply) /\ Becomes(e, NoHandler)
          /\ UNCHANGED <<clock, run, row, capabilities, touched, commands, enforceable, image,
                         container, ranOn, excused, accepted, disturbed>>
        BY <1>3 DEF Response
    <2>2. /\ worker' \in [Executions -> WorkerState]
          /\ worker'[e].pc = "post" /\ worker'[e].result = handler[e].reply
          /\ \A d \in Executions \ {e} : worker'[d] = worker[d]
        BY <1>1, <2>1, WorkerReplaced
    <2>3. /\ handler' \in [Executions -> HandlerState] /\ handler'[e] = NoHandler
          /\ \A d \in Executions \ {e} : handler'[d] = handler[d]
        BY <1>1, <2>1, HandlerReplaced
    <2>4. /\ NoHandler.pc = "none" /\ NoHandler.command = 1 /\ NoHandler.cli = "none"
          /\ NoHandler.receipt = "none" /\ NoHandler.reply = "none"
        BY DEF NoHandler
    <2>5. TypeOK'
        BY <2>1, <2>2, <2>3 DEF TypeOK
    <2>6. commands \in Nat /\ 1 <= commands
        BY BehaviorGateAssumption DEF TypeOK, CommandIds
    <2>7. ShapeInv'
        BY <2>1, <2>3, <2>4, <2>6 DEF ShapeInv
    <2>8. accepted[e] # "PASSED" /\ handler[e].cli = "none"
        BY <2>1 DEF WorkerInv, ShapeInv
    <2>9. WorkerInv'
        BY <2>1, <2>2, <2>3, <2>4, <2>8 DEF WorkerInv
    <2>10. ASSUME NEW d, NEW c PROVE Proven(d, c)' <=> Proven(d, c)
        BY <2>1 DEF Proven
    <2>11. EvidenceInv'
        <3>. SUFFICES ASSUME NEW d \in Executions
                      PROVE  /\ handler'[d].cli \in {"run", "exited"} =>
                                 /\ handler'[d].command \in enforceable /\ d \notin touched
                                 /\ handler'[d].image \in Labelled
                                 /\ row.token = d =>
                                      ranOn[<<d, handler'[d].command>>][1] = handler'[d].image
                             /\ \A c \in 1..commands :
                                  c < handler'[d].command => Proven(d, c)'
                             /\ handler'[d].receipt = "PASSED" =>
                                  Proven(d, handler[d].command)'
                             /\ handler'[d].reply = "PASSED" \/ worker'[d].result = "PASSED"
                                  => \A c \in 1..commands : Proven(d, c)'
            BY <2>1 DEF EvidenceInv, behaviorContainerName
        <3>1. CASE d = e
            <4>1. \A c \in 1..commands : ~(c < 1)
                BY <2>6
            <4>2. handler[e].reply = "PASSED" => \A c \in 1..commands : Proven(e, c)
                BY DEF EvidenceInv
            <4>. QED  BY <2>2, <2>3, <2>4, <2>10, <3>1, <4>1, <4>2
        <3>2. CASE d # e
            <4>1. handler'[d] = handler[d] /\ worker'[d] = worker[d]
                BY <2>2, <2>3, <3>2
            <4>2. handler[d].receipt = "PASSED" => Proven(d, handler[d].command)'
                BY <2>1, <4>1 DEF Proven, EvidenceInv
            <4>. QED  BY <2>10, <4>1, <4>2 DEF EvidenceInv, behaviorContainerName
        <3>. QED  BY <3>1, <3>2
    <2>12. NoOrphan'
        <3>. SUFFICES ASSUME NEW n \in Names, container[n] = "running", n \notin excused
                      PROVE  ClientOf(n)' \in Live
            BY <2>1 DEF NoOrphan, Live
        <3>1. ClientOf(n) \in Live /\ n[1] \in Executions
            BY DEF NoOrphan, Live, Names
        <3>2. n[1] # e
            BY <2>8, <3>1 DEF ClientOf, Live
        <3>. QED  BY <2>3, <3>1, <3>2 DEF ClientOf
    <2>. QED  BY <2>5, <2>7, <2>9, <2>11, <2>12
<1>. QED  BY <1>2, <1>3

-----------------------------------------------------------------------------
\* GateInv: through crashes of worker and gateway, lost leases, late containers
\* and rebuilt images, what workers, handlers, clients and receipts stand for
\* stays true of the containers that ran.
THEOREM GateInvariant == Spec => []GateInv
<1>1. Init => GateInv
    <2>. SUFFICES ASSUME Init PROVE GateInv
        OBVIOUS
    <2>1. /\ 1 \in CommandIds /\ 0 \in 0..Reaps /\ 0 \in 0..MaxClock /\ 0 \in ClockTime
          /\ 0 \in 0..MaxExecutions /\ 0 \in 0..MaxDisturbances
          /\ MaxDisturbances > 0 => 1 \in 0..MaxDisturbances
        BY BehaviorGateAssumption DEF CommandIds, ClockTime
    <2>2. NoHandler \in HandlerState /\ NoWorker \in WorkerState
        BY <2>1 DEF NoHandler, HandlerState, NoWorker, WorkerState, References, Verdicts
    <2>3. row \in Row
        BY <2>1 DEF Init, Row
    <2>4. TypeOK
        BY <2>1, <2>2, <2>3 DEF Init, TypeOK, Images, References, Verdicts
    <2>5. /\ commands \in Nat /\ 1 <= commands
          /\ \A c \in 1..commands : ~(c < 1)
        BY BehaviorGateAssumption DEF Init, CommandIds
    <2>6. \A e \in Executions : handler[e] = NoHandler /\ worker[e] = NoWorker
        BY DEF Init
    <2>7. ShapeInv
        BY <2>5, <2>6 DEF ShapeInv, NoHandler
    <2>8. WorkerInv
        BY <2>6 DEF WorkerInv, NoWorker, Init
    <2>9. EvidenceInv
        BY <2>5, <2>6 DEF EvidenceInv, NoHandler, NoWorker
    <2>10. NoOrphan
        BY DEF NoOrphan, Init
    <2>. QED  BY <2>4, <2>7, <2>8, <2>9, <2>10 DEF GateInv
<1>2. GateInv /\ [Next]_vars => GateInv'
    <2>. SUFFICES ASSUME GateInv, [Next]_vars PROVE GateInv'
        OBVIOUS
    <2>1. CASE UNCHANGED vars
        <3>1. TypeOK' /\ ShapeInv' /\ WorkerInv' /\ NoOrphan'
            BY <2>1 DEF vars, GateInv, TypeOK, ShapeInv, WorkerInv, NoOrphan, ClientOf
        <3>2. EvidenceInv'
            BY <2>1 DEF vars, GateInv, EvidenceInv, Proven, behaviorContainerName
        <3>. QED  BY <3>1, <3>2 DEF GateInv
    <2>2. ASSUME NEW e \in Executions, Worker(e) PROVE GateInv'
        BY <2>2, WorkerSteps, RequestSteps DEF Worker
    <2>3. ASSUME NEW e \in Executions, Gateway(e) PROVE GateInv'
        BY <2>3, PreparationSteps, LaunchStep, ReapStep, CompleteStep, StopSteps,
           AnswerSteps
        DEF Gateway
    <2>4. ASSUME NEW e \in Executions, Claim(e) \/ WorkerCrash(e) \/ StopAtLimit(e)
                                        \/ ClientDies(e)
          PROVE  GateInv'
        BY <2>4, ClaimStep, WorkerSteps, StopSteps, ClientDiesStep
    <2>5. ASSUME NEW n \in Names, DaemonCreates(n) \/ ContainerExits(n) PROVE GateInv'
        BY <2>5, DaemonCreatesStep, ContainerExitsStep
    <2>. QED  BY <2>1, <2>2, <2>3, <2>4, <2>5, RowSteps, GatewayCrashStep DEF Next, Done
<1>. QED  BY <1>1, <1>2, PTL DEF Spec

\* The states of rows, processes and containers are those the code names.
THEOREM TypeCorrect == Spec => []TypeOK
<1>1. GateInv => TypeOK
    BY DEF GateInv
<1>. QED  BY <1>1, GateInvariant, PTL

\* A gate the row records as passed earned it: every command, in its own
\* container, admitted and on one attested image (runBehaviorGateRequest).
THEOREM PassedEarned == Spec => []PassedIsEarned
<1>1. ASSUME GateInv PROVE PassedIsEarned
    <2>1. ASSUME NEW e \in Executions, accepted[e] = "PASSED"
          PROVE  /\ row.token = e /\ \A c \in 1..commands : Proven(e, c)
                 /\ 1 \in 1..commands
        <3>1. worker[e].result = "PASSED" /\ row.token = e
            BY <1>1, <2>1 DEF GateInv, WorkerInv
        <3>2. 1 \in 1..commands
            BY <1>1, BehaviorGateAssumption DEF GateInv, TypeOK, CommandIds
        <3>. QED  BY <1>1, <3>1, <3>2 DEF GateInv, EvidenceInv
    <2>2. PassedIsOwnWork
        BY <2>1 DEF PassedIsOwnWork, Proven
    <2>3. PassedOnOneImage
        BY <2>1 DEF PassedOnOneImage, Proven
    <2>. QED  BY <2>2, <2>3 DEF PassedIsEarned
<1>. QED  BY <1>1, GateInvariant, PTL

\* No container runs on without a handler that answers for it
\* (verifyNamedContainerRemovedAfterAbort).
THEOREM NoneOrphaned == Spec => []NoOrphan
<1>1. GateInv => NoOrphan
    BY DEF GateInv
<1>. QED  BY <1>1, GateInvariant, PTL

\* A passed gate is that of the latest execution of the task, although the
\* lease may lapse after the worker's last look at it (Finish).
THEOREM PassedCurrent == Spec => []PassedIsCurrent
<1>1. ASSUME GateInv PROVE PassedIsCurrent
    <2>1. \A e \in Executions : /\ accepted[e] = "PASSED" => row.token = e
                                /\ e > row.token => worker[e].pc = "none"
        BY <1>1 DEF GateInv, WorkerInv
    <2>. QED  BY <2>1 DEF PassedIsCurrent
<1>. QED  BY <1>1, GateInvariant, PTL

=============================================================================
