--------------------------- MODULE RuntimeDriver ---------------------------
(***************************************************************************)
(* The event driver of a context-engine process: who calls reconcileRun,   *)
(* and when.  A change of a run is announced by NOTIFY, which is lost when  *)
(* nobody listens; a periodic sweep of the runs table makes up for that.    *)
(* JavaScript runs one callback to its next await, so an action is such a   *)
(* stretch of AgentRuntimeEventDriver, and the awaits are what interleaves. *)
(*                                                                         *)
(* The control plane creates its driver in initialize(), which every       *)
(* request calls first and which awaits between looking at `initialized`   *)
(* and setting it.  A driver is therefore named after the request that     *)
(* constructed it.  All drivers of the process share one lease owner       *)
(* ("context-engine:<pid>"); other processes are the "rival".              *)
(***************************************************************************)
EXTENDS RunQueue

CONSTANTS
    Drivers,           \* the requests that may construct a driver
    Runs,              \* run identifiers, numbered by created_at
    ReconcileParallel, \* passes of one batch
    SweepLimit,        \* LIMIT of listRunnableRuns
    MaxChanges,        \* bound: how often the runs change
    Disturbances,      \* the kinds of failure considered
    MaxDisturbances    \* bound: how often the environment interferes

DisturbanceKinds ==
    {"start_failure", "listen_failure", "listener_lost", "sweep_failure",
     "pass_failure", "release_failure", "rival", "crash", "stop"}

ASSUME RunsAssumption == Runs \subseteq Nat /\ IsFiniteSet(Runs)
ASSUME ReconcileParallelAssumption == ReconcileParallel \in Nat \ {0}
ASSUME SweepLimitAssumption == SweepLimit \in Nat \ {0}
ASSUME BoundsAssumption ==
    /\ MaxChanges \in Nat
    /\ MaxDisturbances \in Nat
    /\ Disturbances \subseteq DisturbanceKinds

NoDriver == "no driver"
ASSUME NoDriverAssumption == NoDriver \notin Drivers

VARIABLES
    status,      \* agent_runs.status: "absent", "active" (routed, running), "ended"
    work,        \* does the run hold something no pass has looked at yet
    lease,       \* reconcile_lease_owner: "free", "self" (this process), "rival"
    initialized, \* AgentRuntimeControlPlane.initialized
    loading,     \* requests between the test of `initialized` and its assignment
    current,     \* AgentRuntimeControlPlane.driver
    owed,        \* runs the control plane has still to wake after its commit
    step,        \* where start() of a driver is
    started, store, listening, timer, stopping,
    notices,     \* notifications on their way to the listener
    pending,     \* the Set `pending`, in insertion order
    scheduled,   \* drainScheduled
    drain,       \* "none", "busy" (draining), "ending" (drainInFlight only)
    sweep,       \* where repairSweep is
    swept,       \* the rows repairSweep has read
    pass,        \* reconcileOne per run: "idle", "load", "hold" (owns the lease)
    changes, disturbed  \* bounds

rows == <<status, work, lease>>
control == <<initialized, loading, current, owed>>
startup == <<step, store, listening, stopping>>
sweeping == <<timer, sweep, swept>>
queueing == <<pending, scheduled, drain, pass>>
vars == <<rows, control, startup, started, sweeping, queueing, notices,
          changes, disturbed>>

TypeOK ==
    /\ status \in [Runs -> {"absent", "active", "ended"}]
    /\ work \in [Runs -> BOOLEAN]
    /\ lease \in [Runs -> {"free", "self", "rival"}]
    /\ initialized \in BOOLEAN
    /\ loading \subseteq Drivers
    /\ current \in Drivers \cup {NoDriver}
    /\ owed \subseteq Runs
    /\ step \in [Drivers -> {"none", "open", "listen", "sweep", "done", "failed"}]
    /\ started \in [Drivers -> BOOLEAN]
    /\ store \in [Drivers -> BOOLEAN]
    /\ listening \in [Drivers -> BOOLEAN]
    /\ timer \in [Drivers -> BOOLEAN]
    /\ stopping \in [Drivers -> {"no", "clear", "wait", "closed"}]
    /\ notices \in [Drivers -> SUBSET Runs]
    /\ pending \in [Drivers -> Seq(Runs)]
    /\ scheduled \in [Drivers -> BOOLEAN]
    /\ drain \in [Drivers -> {"none", "busy", "ending"}]
    /\ sweep \in [Drivers -> {"none", "list", "add", "wait", "ended"}]
    /\ swept \in [Drivers -> SUBSET Runs]
    /\ pass \in [Drivers -> [Runs -> {"idle", "load", "hold"}]]
    /\ changes \in 0..MaxChanges
    /\ disturbed \in 0..MaxDisturbances

AllIdle == [r \in Runs |-> "idle"]

\* A service that has just come up on a database that holds older runs.
Init ==
    /\ \E old \in SUBSET Runs :
          /\ status = [r \in Runs |-> IF r \in old THEN "active" ELSE "absent"]
          /\ work = [r \in Runs |-> r \in old]
    /\ lease = [r \in Runs |-> "free"]
    /\ initialized = FALSE
    /\ loading = {}
    /\ current = NoDriver
    /\ owed = {}
    /\ step = [d \in Drivers |-> "none"]
    /\ started = [d \in Drivers |-> FALSE]
    /\ store = [d \in Drivers |-> FALSE]
    /\ listening = [d \in Drivers |-> FALSE]
    /\ timer = [d \in Drivers |-> FALSE]
    /\ stopping = [d \in Drivers |-> "no"]
    /\ notices = [d \in Drivers |-> {}]
    /\ pending = [d \in Drivers |-> <<>>]
    /\ scheduled = [d \in Drivers |-> FALSE]
    /\ drain = [d \in Drivers |-> "none"]
    /\ sweep = [d \in Drivers |-> "none"]
    /\ swept = [d \in Drivers |-> {}]
    /\ pass = [d \in Drivers |-> AllIdle]
    /\ changes = 0
    /\ disturbed = 0

Disturb(kind) ==
    /\ kind \in Disturbances
    /\ disturbed < MaxDisturbances
    /\ disturbed' = disturbed + 1

Changed ==
    /\ changes < MaxChanges
    /\ changes' = changes + 1

-----------------------------------------------------------------------------
(* The queue of runs to reconcile.                                          *)

\* scheduleDrain, after which drainScheduled has this value.
ScheduleDrain(d, queue, phase) ==
    scheduled[d] \/ (started[d] /\ phase # "busy" /\ queue # <<>>)

\* wake
Wake(d, r) ==
    LET queue == Enqueue(pending[d], r)
    IN  IF started[d]
        THEN /\ pending' = [pending EXCEPT ![d] = queue]
             /\ scheduled' = [scheduled EXCEPT ![d] = ScheduleDrain(d, queue, drain[d])]
        ELSE UNCHANGED <<pending, scheduled>>

\* One turn of the loop in drain(): the next batch, or the end of the loop.
DrainTurn(d, queue) ==
    IF queue # <<>> /\ started[d]
    THEN /\ pending' = [pending EXCEPT ![d] = Rest(queue, ReconcileParallel)]
         /\ pass' = [pass EXCEPT ![d] =
                [r \in Runs |-> IF r \in Batch(queue, ReconcileParallel) THEN "load" ELSE @[r]]]
         /\ drain' = [drain EXCEPT ![d] = "busy"]
    ELSE /\ pending' = [pending EXCEPT ![d] = queue]
         /\ drain' = [drain EXCEPT ![d] = "ending"]
         /\ UNCHANGED pass

\* drain(), called with the queue as it then is: it joins the drain in flight,
\* does nothing in a stopped driver, and otherwise starts the loop.
Drain(d, queue) ==
    IF drain[d] = "none" /\ started[d]
    THEN DrainTurn(d, queue)
    ELSE /\ pending' = [pending EXCEPT ![d] = queue]
         /\ UNCHANGED <<drain, pass>>

-----------------------------------------------------------------------------
(* The control plane: initialize() and the operations that wake a run.      *)

\* initialize() finds `initialized` unset and awaits the catalogs.
Request(d) ==
    /\ ~initialized
    /\ step[d] = "none"
    /\ d \notin loading
    /\ loading' = loading \cup {d}
    /\ UNCHANGED <<rows, initialized, current, owed, startup, started, sweeping,
                   queueing, notices, changes, disturbed>>

\* The rest of initialize(), down to the first await of start().
Construct(d) ==
    /\ d \in loading
    /\ loading' = loading \ {d}
    /\ current' = d
    /\ initialized' = TRUE
    /\ started' = [started EXCEPT ![d] = TRUE]
    /\ step' = [step EXCEPT ![d] = "open"]
    /\ UNCHANGED <<rows, owed, store, listening, stopping, sweeping, queueing,
                   notices, changes, disturbed>>

\* NOTIFY reaches the sessions that listen when the transaction commits.
Notify(r) == notices' = [d \in Drivers |->
                            IF listening[d] THEN notices[d] \cup {r} ELSE notices[d]]

\* agent_start: createRun commits and notifies; the wake comes later.
StartRun(r) ==
    /\ initialized
    /\ status[r] = "absent"
    /\ status' = [status EXCEPT ![r] = "active"]
    /\ work' = [work EXCEPT ![r] = TRUE]
    /\ Notify(r)
    /\ owed' = owed \cup {r}
    /\ Changed
    /\ UNCHANGED <<lease, initialized, loading, current, startup, started, sweeping,
                   queueing, disturbed>>

\* resume: requestReconcile commits and notifies; the wake comes later.
Resume(r) ==
    /\ initialized
    /\ status[r] = "active"
    /\ Notify(r)
    /\ owed' = owed \cup {r}
    /\ Changed
    /\ UNCHANGED <<rows, initialized, loading, current, startup, started, sweeping,
                   queueing, disturbed>>

\* cancel: the run ends, requestReconcile notifies; the wake comes later.
Cancel(r) ==
    /\ initialized
    /\ status[r] = "active"
    /\ status' = [status EXCEPT ![r] = "ended"]
    /\ Notify(r)
    /\ owed' = owed \cup {r}
    /\ Changed
    /\ UNCHANGED <<work, lease, initialized, loading, current, startup, started,
                   sweeping, queueing, disturbed>>

\* this.driver.wake(runId), the last thing start, resume and cancel do.
ControlWake(r) ==
    /\ r \in owed
    /\ owed' = owed \ {r}
    /\ Wake(current, r)
    /\ UNCHANGED <<rows, initialized, loading, current, startup, started, sweeping,
                   drain, pass, notices, changes, disturbed>>

-----------------------------------------------------------------------------
(* start(), stop() and the process itself.                                  *)

StartOpen(d) ==
    /\ step[d] = "open"
    /\ store' = [store EXCEPT ![d] = TRUE]
    /\ step' = [step EXCEPT ![d] = "listen"]
    /\ UNCHANGED <<rows, control, listening, stopping, started, sweeping, queueing,
                   notices, changes, disturbed>>

\* The store cannot be opened: start() throws, and so does initialize(), which
\* nobody will run again because `initialized` is set.
StartOpenFails(d) ==
    /\ step[d] = "open"
    /\ Disturb("start_failure")
    /\ step' = [step EXCEPT ![d] = "failed"]
    /\ started' = [started EXCEPT ![d] = FALSE]
    /\ UNCHANGED <<rows, control, store, listening, stopping, sweeping, queueing,
                   notices, changes>>

\* Connected or not, start() goes on to the first sweep, which returns at once
\* in a driver that was stopped meanwhile.
FirstSweep(d) ==
    IF started[d]
    THEN /\ step' = [step EXCEPT ![d] = "sweep"]
         /\ sweep' = [sweep EXCEPT ![d] = "list"]
    ELSE /\ step' = [step EXCEPT ![d] = "done"]
         /\ UNCHANGED sweep

\* A listener that stop() has ended meanwhile does not come up.
StartListen(d) ==
    /\ step[d] = "listen"
    /\ listening' = [listening EXCEPT ![d] = started[d]]
    /\ FirstSweep(d)
    /\ UNCHANGED <<rows, control, store, stopping, started, timer, swept, queueing,
                   notices, changes, disturbed>>

StartListenFails(d) ==
    /\ step[d] = "listen"
    /\ Disturb("listen_failure")
    /\ FirstSweep(d)
    /\ UNCHANGED <<rows, control, store, listening, stopping, started, timer, swept,
                   queueing, notices, changes>>

\* The connection of the listener breaks.  Its error handler takes a note and
\* nothing reconnects it.
ListenerLost(d) ==
    /\ listening[d]
    /\ Disturb("listener_lost")
    /\ listening' = [listening EXCEPT ![d] = FALSE]
    /\ notices' = [notices EXCEPT ![d] = {}]
    /\ UNCHANGED <<rows, control, step, store, stopping, started, sweeping, queueing,
                   changes>>

\* stop(), to its first await ...
Stop(d) ==
    /\ started[d]
    /\ Disturb("stop")
    /\ started' = [started EXCEPT ![d] = FALSE]
    /\ timer' = [timer EXCEPT ![d] = FALSE]
    /\ listening' = [listening EXCEPT ![d] = FALSE]
    /\ notices' = [notices EXCEPT ![d] = {}]
    /\ stopping' = [stopping EXCEPT ![d] = "clear"]
    /\ UNCHANGED <<rows, control, step, store, sweep, swept, queueing, changes>>

\* ... the queue is cleared and what is in flight awaited ...
StopClear(d) ==
    /\ stopping[d] = "clear"
    /\ pending' = [pending EXCEPT ![d] = <<>>]
    /\ stopping' = [stopping EXCEPT ![d] = "wait"]
    /\ UNCHANGED <<rows, control, step, store, listening, started, sweeping, scheduled,
                   drain, pass, notices, changes, disturbed>>

\* Mutant: the drain in flight is not awaited.
StopCloseEarly(d) ==
    /\ stopping[d] = "wait"
    /\ sweep[d] = "none"
    /\ store' = [store EXCEPT ![d] = FALSE]
    /\ stopping' = [stopping EXCEPT ![d] = "closed"]
    /\ UNCHANGED <<rows, control, step, listening, started, sweeping, queueing,
                   notices, changes, disturbed>>

\* ... and the store closed.
StopClose(d) ==
    /\ stopping[d] = "wait"
    /\ sweep[d] = "none"
    /\ drain[d] = "none"
    /\ store' = [store EXCEPT ![d] = FALSE]
    /\ stopping' = [stopping EXCEPT ![d] = "closed"]
    /\ UNCHANGED <<rows, control, step, listening, started, sweeping, queueing,
                   notices, changes, disturbed>>

\* The process dies and a new one takes its place.  Its memory is gone; leases
\* it held belong to a dead process id.
Crash ==
    /\ initialized
    /\ Disturb("crash")
    /\ lease' = [r \in Runs |-> IF lease[r] = "self" THEN "rival" ELSE lease[r]]
    /\ work' = [r \in Runs |-> work[r] \/ \E d \in Drivers : pass[d][r] = "hold"]
    /\ initialized' = FALSE
    /\ loading' = {}
    /\ current' = NoDriver
    /\ owed' = {}
    /\ step' = [d \in Drivers |-> "none"]
    /\ started' = [d \in Drivers |-> FALSE]
    /\ store' = [d \in Drivers |-> FALSE]
    /\ listening' = [d \in Drivers |-> FALSE]
    /\ timer' = [d \in Drivers |-> FALSE]
    /\ stopping' = [d \in Drivers |-> "no"]
    /\ notices' = [d \in Drivers |-> {}]
    /\ pending' = [d \in Drivers |-> <<>>]
    /\ scheduled' = [d \in Drivers |-> FALSE]
    /\ drain' = [d \in Drivers |-> "none"]
    /\ sweep' = [d \in Drivers |-> "none"]
    /\ swept' = [d \in Drivers |-> {}]
    /\ pass' = [d \in Drivers |-> AllIdle]
    /\ UNCHANGED <<status, changes>>

-----------------------------------------------------------------------------
(* Wake-ups: notifications and the repair sweep.                            *)

\* The listener's notification handler.
Notification(d) ==
    /\ \E r \in notices[d] :
          /\ notices' = [notices EXCEPT ![d] = @ \ {r}]
          /\ Wake(d, r)
    /\ UNCHANGED <<rows, control, startup, started, sweeping, drain, pass,
                   changes, disturbed>>

\* The timer fires.  It is armed only when no sweep is in flight.
SweepTimer(d) ==
    /\ timer[d]
    /\ timer' = [timer EXCEPT ![d] = FALSE]
    /\ sweep' = [sweep EXCEPT ![d] = "list"]
    /\ UNCHANGED <<rows, control, startup, started, swept, queueing, notices,
                   changes, disturbed>>

\* listRunnableRuns: the oldest active runs, up to the limit.
RunnableRuns ==
    LET active == {r \in Runs : status[r] = "active"}
    IN  {r \in active : Cardinality({q \in active : q < r}) < SweepLimit}

SweepList(d) ==
    /\ sweep[d] = "list"
    /\ swept' = [swept EXCEPT ![d] = RunnableRuns]
    /\ sweep' = [sweep EXCEPT ![d] = "add"]
    /\ UNCHANGED <<rows, control, startup, started, timer, queueing, notices,
                   changes, disturbed>>

\* After the repair of the continuations: the runs read before it are queued
\* and drain() is called, in one stretch.
SweepAdd(d) ==
    /\ sweep[d] = "add"
    /\ Drain(d, EnqueueAll(pending[d], swept[d]))
    /\ swept' = [swept EXCEPT ![d] = {}]
    /\ sweep' = [sweep EXCEPT ![d] = IF drain'[d] = "none" THEN "ended" ELSE "wait"]
    /\ UNCHANGED <<rows, control, startup, started, timer, scheduled, notices,
                   changes, disturbed>>

\* Mutant: the timer is a one-shot timer.
SweepEndOneShot(d) ==
    /\ \/ sweep[d] = "ended"
       \/ sweep[d] = "wait" /\ drain[d] # "busy"
    /\ sweep' = [sweep EXCEPT ![d] = "none"]
    /\ timer' = [timer EXCEPT ![d] = started[d] /\ step[d] = "sweep"]
    /\ step' = [step EXCEPT ![d] = IF @ = "sweep" THEN "done" ELSE @]
    /\ UNCHANGED <<rows, control, store, listening, stopping, started, swept, queueing,
                   notices, changes, disturbed>>

\* The sweep's promise settles once the drain it awaits has.  The timer's
\* callback arms the next one; the first sweep returns to start(), which does
\* the same.
SweepEnd(d) ==
    /\ \/ sweep[d] = "ended"
       \/ sweep[d] = "wait" /\ drain[d] # "busy"
    /\ sweep' = [sweep EXCEPT ![d] = "none"]
    /\ timer' = [timer EXCEPT ![d] = started[d]]
    /\ step' = [step EXCEPT ![d] = IF @ = "sweep" THEN "done" ELSE @]
    /\ UNCHANGED <<rows, control, store, listening, stopping, started, swept, queueing,
                   notices, changes, disturbed>>

\* A query of the sweep fails.  The timer's callback catches that; the first
\* sweep throws through start(), before scheduleRepairSweep.
SweepFails(d) ==
    /\ sweep[d] \in {"list", "add"}
    /\ Disturb("sweep_failure")
    /\ sweep' = [sweep EXCEPT ![d] = "none"]
    /\ swept' = [swept EXCEPT ![d] = {}]
    /\ IF step[d] = "sweep"
       THEN /\ step' = [step EXCEPT ![d] = "failed"]
            /\ UNCHANGED timer
       ELSE /\ timer' = [timer EXCEPT ![d] = started[d]]
            /\ UNCHANGED step
    /\ UNCHANGED <<rows, control, store, listening, stopping, started, queueing,
                   notices, changes>>

-----------------------------------------------------------------------------
(* Draining the queue.                                                      *)

\* The microtask of scheduleDrain.
DrainMicrotask(d) ==
    /\ scheduled[d]
    /\ scheduled' = [scheduled EXCEPT ![d] = FALSE]
    /\ Drain(d, pending[d])
    /\ UNCHANGED <<rows, control, startup, started, sweeping, notices, changes,
                   disturbed>>

\* Promise.all of a batch resolves and the loop turns.
BatchDone(d) ==
    /\ drain[d] = "busy"
    /\ pass[d] = AllIdle
    /\ DrainTurn(d, pending[d])
    /\ UNCHANGED <<rows, control, startup, started, sweeping, scheduled, notices,
                   changes, disturbed>>

\* Mutant: nothing is scheduled again.
DrainFinallyForgets(d) ==
    /\ drain[d] = "ending"
    /\ drain' = [drain EXCEPT ![d] = "none"]
    /\ UNCHANGED <<rows, control, startup, started, sweeping, pending, scheduled, pass,
                   notices, changes, disturbed>>

\* The outer finally of drain().
DrainFinally(d) ==
    /\ drain[d] = "ending"
    /\ drain' = [drain EXCEPT ![d] = "none"]
    /\ scheduled' = [scheduled EXCEPT ![d] = ScheduleDrain(d, pending[d], "none")]
    /\ UNCHANGED <<rows, control, startup, started, sweeping, pending, pass, notices,
                   changes, disturbed>>

PassTo(d, r, phase) == pass' = [pass EXCEPT ![d][r] = phase]

\* reconcileOne up to the lease.  claimRunReconcile grants it to an owner that
\* has it already; the pass then deals with what it finds.
PassClaims(d, r) ==
    /\ pass[d][r] = "load"
    /\ store[d]
    /\ status[r] = "active"
    /\ lease[r] # "rival"
    /\ lease' = [lease EXCEPT ![r] = "self"]
    /\ work' = [work EXCEPT ![r] = FALSE]
    /\ PassTo(d, r, "hold")
    /\ UNCHANGED <<status, control, startup, started, sweeping, pending, scheduled,
                   drain, notices, changes, disturbed>>

\* The pass comes to nothing: no store yet, a terminal run, or no lease.
PassSkips(d, r) ==
    /\ pass[d][r] = "load"
    /\ ~store[d] \/ status[r] # "active" \/ lease[r] = "rival"
    /\ PassTo(d, r, "idle")
    /\ UNCHANGED <<rows, control, startup, started, sweeping, pending, scheduled, drain,
                   notices, changes, disturbed>>

\* releaseRunReconcile takes back the lease of this owner.
Release(r) == lease' = [lease EXCEPT ![r] = IF @ = "self" THEN "free" ELSE @]

\* The pass ends, and with it the run or not.
PassEnds(d, r) ==
    /\ pass[d][r] = "hold"
    /\ PassTo(d, r, "idle")
    /\ Release(r)
    /\ \/ UNCHANGED status
       \/ status' = [status EXCEPT ![r] = "ended"]
    /\ UNCHANGED <<work, control, startup, started, sweeping, pending, scheduled, drain,
                   notices, changes, disturbed>>

\* The pass throws: reconcileOne records that and goes on.
PassThrows(d, r) ==
    /\ pass[d][r] = "hold"
    /\ Disturb("pass_failure")
    /\ PassTo(d, r, "idle")
    /\ Release(r)
    /\ work' = [work EXCEPT ![r] = TRUE]
    /\ UNCHANGED <<status, control, startup, started, sweeping, pending, scheduled,
                   drain, notices, changes>>

\* The pass ends but cannot give its lease back; the error is swallowed.
ReleaseFails(d, r) ==
    /\ pass[d][r] = "hold"
    /\ Disturb("release_failure")
    /\ PassTo(d, r, "idle")
    /\ UNCHANGED <<rows, control, startup, started, sweeping, pending, scheduled, drain,
                   notices, changes>>

-----------------------------------------------------------------------------
(* Workers and other processes.                                             *)

\* A worker commits something about a run and notifies in the same transaction.
Change(r) ==
    /\ status[r] = "active"
    /\ work' = [work EXCEPT ![r] = TRUE]
    /\ Notify(r)
    /\ Changed
    /\ UNCHANGED <<status, lease, control, startup, started, sweeping, queueing,
                   disturbed>>

\* The message that was committed with a change goes through the broker, and the
\* worker that consumes it notifies once more; it may come late, or twice.
ConsumeScheduler(r) ==
    /\ status[r] # "absent"
    /\ Notify(r)
    /\ Changed
    /\ UNCHANGED <<rows, control, startup, started, sweeping, queueing,
                   disturbed>>

\* A task lease or a retry window runs out, which nobody announces.
SilentChange(r) ==
    /\ status[r] = "active"
    /\ work' = [work EXCEPT ![r] = TRUE]
    /\ Changed
    /\ UNCHANGED <<status, lease, control, startup, started, sweeping, queueing,
                   notices, disturbed>>

\* Another process reconciles the run.  The lease of a pass is not renewed while
\* the pass runs, so it lapses under a pass that takes longer, and under one that
\* ended without giving it back.
RivalClaims(r) ==
    /\ status[r] = "active"
    /\ Disturb("rival")
    /\ lease[r] # "rival"
    /\ lease' = [lease EXCEPT ![r] = "rival"]
    /\ work' = [work EXCEPT ![r] = FALSE]
    /\ UNCHANGED <<status, control, startup, started, sweeping, queueing, notices,
                   changes>>

\* It is done, or it died and its lease lapses with the work not done.
RivalReleases(r) ==
    /\ lease[r] = "rival"
    /\ lease' = [lease EXCEPT ![r] = "free"]
    /\ \/ UNCHANGED work
       \/ work' = [work EXCEPT ![r] = TRUE]
    /\ UNCHANGED <<status, control, startup, started, sweeping, queueing, notices,
                   changes, disturbed>>

-----------------------------------------------------------------------------
DriverStep(d) ==
    \/ Construct(d)
    \/ StartOpen(d) \/ StartListen(d)
    \/ StopClear(d) \/ StopClose(d)
    \/ Notification(d)
    \/ SweepTimer(d) \/ SweepList(d) \/ SweepAdd(d) \/ SweepEnd(d)
    \/ DrainMicrotask(d) \/ BatchDone(d) \/ DrainFinally(d)

PassStep(d, r) == PassClaims(d, r) \/ PassSkips(d, r) \/ PassEnds(d, r)

DriverFails(d) ==
    \/ StartOpenFails(d) \/ StartListenFails(d) \/ ListenerLost(d)
    \/ SweepFails(d) \/ Stop(d)
    \/ \E r \in Runs : PassThrows(d, r) \/ ReleaseFails(d, r)

Environment ==
    \/ \E d \in Drivers : Request(d)
    \/ \E r \in Runs : \/ StartRun(r) \/ Resume(r) \/ Cancel(r)
                       \/ Change(r) \/ ConsumeScheduler(r) \/ SilentChange(r)
                       \/ RivalClaims(r)
    \/ Crash

Next ==
    \/ \E d \in Drivers : DriverStep(d) \/ DriverFails(d)
    \/ \E d \in Drivers, r \in Runs : PassStep(d, r)
    \/ \E r \in Runs : ControlWake(r) \/ RivalReleases(r)
    \/ Environment

\* Promises settle, microtasks run, the timer fires, a lease lapses.  That a
\* request ever comes is not assumed.
Fairness ==
    /\ \A d \in Drivers :
          /\ WF_vars(Construct(d))
          /\ WF_vars(StartOpen(d)) /\ WF_vars(StartListen(d))
          /\ WF_vars(StopClear(d)) /\ WF_vars(StopClose(d))
          /\ WF_vars(Notification(d))
          /\ WF_vars(SweepTimer(d)) /\ WF_vars(SweepList(d))
          /\ WF_vars(SweepAdd(d)) /\ WF_vars(SweepEnd(d))
          /\ WF_vars(DrainMicrotask(d)) /\ WF_vars(BatchDone(d))
          /\ WF_vars(DrainFinally(d))
          /\ \A r \in Runs : WF_vars(PassStep(d, r))
    /\ \A r \in Runs : WF_vars(ControlWake(r)) /\ WF_vars(RivalReleases(r))

Spec == Init /\ [][Next]_vars
FairSpec == Spec /\ Fairness

-----------------------------------------------------------------------------
(* What makes the properties inductive.                                     *)

\* Whoever owes a wake has a driver to wake.
ControlInv == initialized \/ owed # {} => current \in Drivers

\* A driver nobody constructed yet has nothing in its memory.
FreshInv ==
    \A d \in Drivers :
        /\ d \in loading => step[d] = "none"
        /\ step[d] = "none" =>
              /\ ~started[d] /\ ~scheduled[d]
              /\ pending[d] = <<>>
              /\ stopping[d] = "no"

\* Only a driver that has opened its store sweeps, and a timer is armed only
\* in a driver that runs.
SweepInv ==
    \A d \in Drivers :
        /\ sweep[d] # "none" => step[d] \in {"sweep", "done"}
        /\ timer[d] => started[d] /\ step[d] = "done"
        /\ started[d] /\ step[d] \notin {"none", "open"} => store[d]
        /\ stopping[d] # "no" => ~started[d]

\* Passes run only inside the loop of drain(), and drains in live drivers.
DrainInv ==
    \A d \in Drivers :
        /\ drain[d] # "none" => step[d] # "none"
        /\ drain[d] # "busy" => pass[d] = AllIdle

-----------------------------------------------------------------------------
(* Properties.                                                              *)

\* A run that waits in the queue of a running driver has somebody to take it
\* out: a drain is in flight or a microtask will start one.  The case the
\* comment at the end of drain() speaks of (a wake between the last look at the
\* queue and the end of the drain) is the one that could strand it until the
\* next sweep.
NoStrandedWake ==
    \A d \in Drivers :
        started[d] /\ pending[d] # <<>> => scheduled[d] \/ drain[d] # "none"

\* However wakes, microtasks and sweeps call drain(), a driver runs at most
\* ReconcileParallel passes at a time.
ParallelBound ==
    \A d \in Drivers :
        Cardinality({r \in Runs : pass[d][r] # "idle"}) <= ReconcileParallel

\* stop() closes the store only when no pass and no sweep is using it any more.
StoreOpenWhileUsed ==
    \A d \in Drivers :
        \/ store[d]
        \/ /\ sweep[d] \notin {"list", "add"}
           /\ \A r \in Runs : pass[d][r] # "hold"

\* In a process whose driver has started and is not stopped or killed, whatever
\* happens to a run is looked at, notified or not: the sweep makes up for lost
\* notifications, failed passes and leases of other processes.
EveryChangeReconciled ==
    \A d \in Drivers, r \in Runs :
        (step[d] = "done" /\ status[r] = "active" /\ work[r])
            ~> (status[r] = "ended" \/ ~work[r] \/ ~started[d])
=============================================================================
