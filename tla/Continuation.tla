---------------------------- MODULE Continuation ----------------------------
(***************************************************************************)
(* Waking a parked session when its run has ended.  The run's end makes a  *)
(* delivery row and an outbox row (materializeContinuationWake), the relay *)
(* publishes the row to RabbitMQ, at least once, and handlers of the Rust  *)
(* worker (agent_continuation.rs) claim the message and the delivery, look *)
(* for the wake in the session, post it and follow the turn it starts.     *)
(*                                                                         *)
(* The sessions of all runs are one session here, the case in which their  *)
(* wakes meet.  A claim owner is a fresh uuid in the code: a row still     *)
(* held for a handler that is gone is held by "lost".  Time is what may    *)
(* have passed: a lease lapses, a retry falls due, a dispatch grows older  *)
(* than the ambiguity window and then than the completion window.          *)
(***************************************************************************)
EXTENDS Naturals, Sequences, FiniteSets

CONSTANTS
    Runs,            \* runs, numbered
    LegacyRuns,      \* those whose continuation may lack a prompt identity
    UnheardRuns,     \* those that end with an event their continuation does not
                     \* wake on (wake_events_json)
    Earlier,         \* the runs that have ended before, in that order
    Handlers,        \* concurrent handlers of the worker
    RepairLimit,     \* the limit of repairTerminalContinuationWakes
    Disturbances,    \* the kinds of disturbance considered
    MaxDisturbances  \* bound: how often the environment interferes

DisturbanceKinds == {"crash", "stall", "redeliver", "http", "database",
                     "collision", "cancel", "pass_failure"}

ASSUME ContinuationAssumption ==
    /\ Runs \subseteq Nat /\ LegacyRuns \subseteq Runs
    /\ IsFiniteSet(Handlers) /\ Handlers \cap {"none", "lost"} = {}
    /\ RepairLimit \in Nat \ {0} /\ MaxDisturbances \in Nat
    /\ Disturbances \subseteq DisturbanceKinds
ASSUME EndsAssumption == UnheardRuns \subseteq Runs /\ Earlier \in Seq(Runs)

VARIABLES
    legacy,    \* runs whose continuation has no prompt identity
    ended,     \* the runs that have ended, in the order of completed_at
    cont,      \* agent_continuations.status, "unbound" without a row
    caller,    \* who still has to call materializeContinuationWake for a run
    delivery,  \* agent_continuation_deliveries of a run
    inbox,     \* agent_runtime_inbox of the run's message
    outbox,    \* the outbox row of the wake: "none", "pending", "published"
    queue,     \* how often RabbitMQ holds the message
    handler,   \* the handlers of the worker
    lock,      \* who holds the advisory lock of the session
    inflight,  \* runs whose prompt is on its way to OpenCode
    posted,    \* how often the prompt of a run was posted (history)
    target,    \* the wake message in the session
    turn,      \* the assistant turn that answers it
    busy,      \* the session is busy with a turn of its own
    disturbed  \* bound

vars == <<legacy, ended, cont, caller, delivery, inbox, outbox, queue, handler,
          lock, inflight, posted, target, turn, busy, disturbed>>
rows    == <<delivery, inbox, outbox, queue>>
runs    == <<legacy, ended, cont, caller>>
session == <<inflight, posted, target, turn, busy>>

Disturb(kind) == /\ kind \in Disturbances
                 /\ disturbed < MaxDisturbances /\ disturbed' = disturbed + 1
Quiet == disturbed' = disturbed

Idle == [pc |-> "idle", run |-> 0, started |-> FALSE, prior |-> "none",
         next |-> "none"]
NoDelivery == [status |-> "none", owner |-> "none", lapsed |-> FALSE,
               started |-> FALSE, age |-> 0, due |-> TRUE, accepted |-> FALSE]
NoInbox    == [status |-> "none", owner |-> "none", lapsed |-> FALSE]

Init ==
    /\ legacy \in SUBSET LegacyRuns
    /\ ended = Earlier
    /\ cont \in [Runs -> {"unbound", "parked"}]
    /\ caller = [r \in Runs |-> "none"]
    /\ delivery = [r \in Runs |-> NoDelivery] /\ inbox = [r \in Runs |-> NoInbox]
    /\ outbox = [r \in Runs |-> "none"] /\ queue = [r \in Runs |-> 0]
    /\ handler = [h \in Handlers |-> Idle] /\ lock = "none"
    /\ inflight = {} /\ posted = [r \in Runs |-> 0]
    /\ target = [r \in Runs |-> "absent"] /\ turn = [r \in Runs |-> "none"]
    /\ busy \in BOOLEAN /\ disturbed = 0

-----------------------------------------------------------------------------
(* The control plane: ends of runs, bindings, wakes. *)

HasEnded(r) == \E i \in DOMAIN ended : ended[i] = r

\* finalizeExecution and cancelRun: the run ends first, the wake comes after.
EndRun(r) ==
    /\ ~HasEnded(r) /\ caller[r] = "none"
    /\ ended' = Append(ended, r)
    /\ caller' = [caller EXCEPT ![r] = "finalizer"]
    /\ UNCHANGED <<legacy, cont, rows, handler, lock, session, disturbed>>

\* bindContinuation: the run is looked at, the row is inserted, and only then
\* the run is read again.
BindContinuation(r) ==
    /\ cont[r] = "unbound" /\ ~HasEnded(r) /\ caller[r] = "none"
    /\ caller' = [caller EXCEPT ![r] = "binder"]
    /\ UNCHANGED <<legacy, ended, cont, rows, handler, lock, session, disturbed>>

registerContinuation(r) ==
    /\ caller[r] = "binder" /\ cont[r] = "unbound"
    /\ cont' = [cont EXCEPT ![r] = "parked"]
    /\ UNCHANGED <<legacy, ended, caller, rows, handler, lock, session, disturbed>>

\* The run of a binder may end while it binds; its own finalizer finds no row.
EndWhileBinding(r) ==
    /\ caller[r] = "binder" /\ cont[r] = "unbound" /\ ~HasEnded(r)
    /\ ended' = Append(ended, r)
    /\ UNCHANGED <<legacy, cont, caller, rows, handler, lock, session, disturbed>>

\* One transaction: the delivery of this end of the run, unless there is one
\* already, the state of the continuation and the outbox row.
Wake(r) ==
    IF HasEnded(r) /\ cont[r] \notin {"unbound", "cancelled"}
         /\ r \notin UnheardRuns /\ delivery[r].status = "none"
    THEN /\ delivery' = [delivery EXCEPT ![r].status = "pending"]
         /\ cont' = [cont EXCEPT ![r] = "wake_pending"]
         /\ outbox' = [outbox EXCEPT ![r] = "pending"]
    ELSE UNCHANGED <<delivery, cont, outbox>>

materializeContinuationWake(r) ==
    /\ caller[r] # "none" /\ (caller[r] = "binder" => cont[r] # "unbound")
    /\ Wake(r)
    /\ caller' = [caller EXCEPT ![r] = "none"]
    /\ UNCHANGED <<legacy, ended, inbox, queue, handler, lock, session, disturbed>>

\* The process dies between the end of the run and its wake.
WakeLost(r) ==
    /\ caller[r] # "none" /\ Disturb("pass_failure")
    /\ caller' = [caller EXCEPT ![r] = "none"]
    /\ UNCHANGED <<legacy, ended, cont, rows, handler, lock, session>>

\* The rows the sweep's query has up to that of r: ended runs in the order of
\* completed_at, those whose wake was made long ago included.
UpTo(r) == {i \in DOMAIN ended :
              /\ cont[ended[i]] \notin {"unbound", "cancelled"}
              /\ \E k \in DOMAIN ended : ended[k] = r /\ i <= k}

\* Mutant: the sweep stops one short of its limit.
Repairable_Short(r) ==
    /\ HasEnded(r) /\ cont[r] \notin {"unbound", "cancelled"}
    /\ Cardinality(UpTo(r)) < RepairLimit

\* The repair sweep of the driver selects the first RepairLimit rows.
Repairable(r) ==
    /\ HasEnded(r) /\ cont[r] \notin {"unbound", "cancelled"}
    /\ Cardinality(UpTo(r)) <= RepairLimit

repairTerminalContinuationWakes(r) ==
    /\ Repairable(r) /\ Wake(r)
    /\ UNCHANGED <<legacy, ended, caller, inbox, queue, handler, lock, session, disturbed>>

\* The delivery keeps its lease, and its handler goes on.
cancelContinuation(r) ==
    /\ Disturb("cancel")
    /\ cont[r] \notin {"unbound", "cancelled"}
    /\ cont' = [cont EXCEPT ![r] = "cancelled"]
    /\ delivery' =
         IF delivery[r].status \in {"pending", "claimed", "deferred"} /\ ~delivery[r].accepted
         THEN [delivery EXCEPT ![r].status = "dead"] ELSE delivery
    /\ UNCHANGED <<legacy, ended, caller, inbox, outbox, queue, handler, lock, session>>

-----------------------------------------------------------------------------
(* The relay and RabbitMQ. *)

\* A relay that dies between the publication and its record publishes again.
Publish(r) ==
    /\ outbox[r] = "pending"
    /\ queue' = [queue EXCEPT ![r] = @ + 1]
    /\ \/ outbox' = [outbox EXCEPT ![r] = "published"] /\ Quiet
       \/ outbox' = outbox /\ Disturb("redeliver")
    /\ UNCHANGED <<runs, delivery, inbox, handler, lock, session>>

\* The channel of a handler closes: its message goes back, the handler goes on.
Redeliver(h) ==
    /\ handler[h].pc # "idle" /\ Disturb("redeliver")
    /\ queue' = [queue EXCEPT ![handler[h].run] = @ + 1]
    /\ UNCHANGED <<runs, delivery, inbox, outbox, handler, lock, session>>

-----------------------------------------------------------------------------
(* A handler: handle_delivery and process_claimed. *)

At(h, pc) == handler[h].pc = pc
Goto(h, pc) == handler' = [handler EXCEPT ![h].pc = pc]
\* The outcome of process_claimed; the lock is released on the way out.
Leave(h, outcome) == handler' = [handler EXCEPT ![h].pc = "leave", ![h].next = outcome]
DeferAs(h, status) == handler' = [handler EXCEPT ![h].pc = "defer", ![h].next = status]

LeaseActive(row) == row.owner # "none" /\ ~row.lapsed
OwnsDelivery(h) == delivery[handler[h].run].owner = h
OwnsInbox(h) == /\ inbox[handler[h].run].owner = h
                /\ inbox[handler[h].run].status = "claimed"

\* A handler that is gone releases nothing: its rows wait for their leases.
Forgotten(table, H) ==
    [r \in Runs |-> IF table[r].owner \in H
                    THEN [table[r] EXCEPT !.owner = IF table[r].lapsed THEN "none" ELSE "lost",
                                          !.lapsed = FALSE]
                    ELSE table[r]]

Freed(table, r) == IF table[r].owner = "lost"
                   THEN [table EXCEPT ![r].owner = "none"] ELSE table
Expired(table, h) ==
    [r \in Runs |-> IF table[r].owner = h THEN [table[r] EXCEPT !.lapsed = TRUE]
                    ELSE table[r]]

claim_inbox(h, r) ==
    /\ At(h, "idle") /\ queue[r] > 0 /\ queue' = [queue EXCEPT ![r] = @ - 1]
    /\ \/ /\ inbox[r].status \in {"processed", "dead"}      \* acked, or dropped
          /\ UNCHANGED <<inbox, handler>>
       \/ /\ inbox[r].status \notin {"processed", "dead"} /\ LeaseActive(inbox[r])
          /\ handler' = [handler EXCEPT ![h] = [Idle EXCEPT !.pc = "requeue", !.run = r]]
          /\ UNCHANGED inbox
       \/ /\ inbox[r].status \notin {"processed", "dead"} /\ ~LeaseActive(inbox[r])
          /\ inbox' = [inbox EXCEPT ![r] =
                         [status |-> "claimed", owner |-> h, lapsed |-> FALSE]]
          /\ handler' = [handler EXCEPT ![h] = [Idle EXCEPT !.pc = "claim", !.run = r]]
    /\ UNCHANGED <<runs, delivery, outbox, lock, session, disturbed>>

\* Mutant: a delivery that is not due is taken for one that is done.
ClaimVerdict_NotDueIsDone(r) ==
    LET d == delivery[r] IN
    IF d.status \in {"ambiguous", "observed"} \/ cont[r] = "cancelled" \/ ~d.due
    THEN "processed" ELSE IF d.status = "dead" \/ r \in legacy THEN "dead"
    ELSE IF LeaseActive(d) THEN "postpone" ELSE "lock"

\* Where load_and_claim_delivery sends the handler.  The delivery of an
\* envelope exists and is the envelope's, and its adapter is OpenCode: keys
\* are derived, and no other adapter is registered.
ClaimVerdict(r) ==
    LET d == delivery[r] IN
    CASE r \in legacy -> "dead"
      [] r \notin legacy /\ (cont[r] \in {"cancelled", "manual_review"}
                               \/ d.status \in {"ambiguous", "observed"}) -> "processed"
      [] r \notin legacy /\ cont[r] \notin {"cancelled", "manual_review"}
           /\ d.status = "dead" -> "dead"
      [] OTHER -> IF ~d.due \/ LeaseActive(d) THEN "postpone" ELSE "lock"

load_and_claim_delivery(h) ==
    LET r == handler[h].run IN
    /\ At(h, "claim")
    /\ handler' = [handler EXCEPT ![h].pc = ClaimVerdict(r),
                                  ![h].started = delivery[r].started,
                                  ![h].prior = delivery[r].status]
    /\ delivery' = IF ClaimVerdict(r) # "lock" THEN delivery ELSE
         [delivery EXCEPT ![r].owner = h, ![r].lapsed = FALSE,
            ![r].status = IF @ \in {"dispatching", "accepted"} THEN @ ELSE "claimed"]
    /\ UNCHANGED <<runs, inbox, outbox, queue, lock, session, disturbed>>

\* Nothing to do, or not yet: the inbox row alone is settled.
SettleInbox(h, pc, status, after) ==
    LET r == handler[h].run IN
    /\ At(h, pc)
    /\ IF OwnsInbox(h)
       THEN /\ inbox' = [inbox EXCEPT ![r].status = status, ![r].owner = "none", ![r].lapsed = FALSE]
            /\ handler' = [handler EXCEPT ![h] = IF after = "idle" THEN Idle
                                                 ELSE [@ EXCEPT !.pc = after]]
       ELSE inbox' = inbox /\ Goto(h, "release")
    /\ UNCHANGED <<runs, delivery, outbox, queue, lock, session, disturbed>>
mark_inbox_processed_owned(h) == SettleInbox(h, "processed", "processed", "idle")
defer_inbox_owned(h) == SettleInbox(h, "postpone", "deferred", "requeue")

acquire_session_lock(h) ==
    /\ At(h, "lock")
    /\ IF lock = "none" THEN lock' = h /\ Goto(h, "look")
                        ELSE lock' = lock /\ DeferAs(h, "deferred")
    /\ UNCHANGED <<runs, rows, session, disturbed>>

\* The status a dispatch that has begun keeps while it is deferred.
StillDispatching(h) == IF handler[h].prior = "accepted" THEN "accepted" ELSE "dispatching"
ambiguity_window_active(r) == delivery[r].age = 0
continuation_completion_window_expired(r) == delivery[r].started /\ delivery[r].age = 2

\* The wake is looked for before anything is posted.
get_target_message(h) ==
    LET r == handler[h].run
        started == handler[h].started
    IN
    /\ At(h, "look")
    /\ CASE target[r] = "match"     -> Goto(h, "turn")
         [] target[r] = "collision" -> Leave(h, "dead")
         [] target[r] = "pending" /\ ~started -> DeferAs(h, "deferred")
         [] target[r] \in {"pending", "absent"} /\ started ->
              IF ambiguity_window_active(r) THEN DeferAs(h, StillDispatching(h))
              ELSE Leave(h, "ambiguous")
         [] OTHER -> Goto(h, "probe")
    /\ UNCHANGED <<runs, rows, lock, session, disturbed>>

\* The latest assistant message below the wake.  The completion window is only
\* asked for when the dispatch was found, not when it was just made.
continuation_turn_state(h, pc) ==
    LET r == handler[h].run IN
    /\ At(h, pc)
    /\ CASE turn[r] = "done"   -> Goto(h, "observe")
         [] turn[r] = "failed" -> Leave(h, "ambiguous")
         [] OTHER -> IF pc = "turn" /\ handler[h].started
                         /\ continuation_completion_window_expired(r)
                     THEN Leave(h, "ambiguous") ELSE DeferAs(h, "accepted")
    /\ UNCHANGED <<runs, rows, lock, session, disturbed>>

session_is_busy(h) ==
    /\ At(h, "probe")
    /\ IF busy \/ \E r \in Runs : turn[r] = "running"
       THEN DeferAs(h, "deferred") ELSE Goto(h, "begin")
    /\ UNCHANGED <<runs, rows, lock, session, disturbed>>

\* Mutant: the dispatch is not fenced by the lease.
mark_dispatching_Unfenced(h) ==
    LET r == handler[h].run IN
    /\ At(h, "begin")
    /\ delivery' = [delivery EXCEPT ![r].status = "dispatching",
                                    ![r].started = TRUE, ![r].age = 0]
    /\ Goto(h, "post")
    /\ UNCHANGED <<runs, inbox, outbox, queue, lock, session, disturbed>>

\* attempts and dispatch_started_at are set together, and a dispatch that has
\* started is never begun again: the attempt budget is not what ends it.
mark_dispatching(h) ==
    LET r == handler[h].run IN
    /\ At(h, "begin")
    /\ IF OwnsDelivery(h)
       THEN /\ delivery' = [delivery EXCEPT ![r].status = "dispatching",
                                            ![r].started = TRUE, ![r].age = 0]
            /\ Goto(h, "post")
       ELSE delivery' = delivery /\ Leave(h, "error")
    /\ UNCHANGED <<runs, inbox, outbox, queue, lock, session, disturbed>>

spawn_terminal_prompt(h) ==
    LET r == handler[h].run IN
    /\ At(h, "post")
    /\ inflight' = inflight \cup {r} /\ posted' = [posted EXCEPT ![r] = @ + 1]
    /\ Goto(h, "verify")
    /\ UNCHANGED <<runs, rows, lock, target, turn, busy, disturbed>>

verify_after_dispatch(h) ==
    LET r == handler[h].run IN
    /\ At(h, "verify")
    /\ CASE target[r] = "match"     -> Goto(h, "accept")
         [] target[r] = "collision" -> Leave(h, "dead")
         [] OTHER                   -> DeferAs(h, "dispatching")
    /\ UNCHANGED <<runs, rows, lock, session, disturbed>>

mark_accepted(h) ==
    LET r == handler[h].run IN
    /\ At(h, "accept")
    /\ IF OwnsDelivery(h)
       THEN /\ delivery' = [delivery EXCEPT ![r].status = "accepted", ![r].accepted = TRUE]
            /\ Goto(h, "follow")
       ELSE delivery' = delivery /\ Leave(h, "error")
    /\ UNCHANGED <<runs, inbox, outbox, queue, lock, session, disturbed>>

\* Both rows change in one transaction, or neither.
Commit(h, dstatus, istatus) ==
    LET r == handler[h].run IN
    /\ delivery' = [delivery EXCEPT ![r].status = dstatus, ![r].owner = "none", ![r].lapsed = FALSE,
                                    ![r].due = dstatus \in {"observed", "ambiguous", "dead"}]
    /\ inbox' = [inbox EXCEPT ![r].status = istatus, ![r].owner = "none", ![r].lapsed = FALSE]

OfCurrent(r, status) == cont' = [cont EXCEPT ![r] = status]

defer_delivery(h) ==
    /\ At(h, "defer")
    /\ IF OwnsDelivery(h) /\ OwnsInbox(h)
       THEN Commit(h, handler[h].next, "deferred") /\ Leave(h, "requeue")
       ELSE UNCHANGED <<delivery, inbox>> /\ Leave(h, "error")
    /\ UNCHANGED <<runs, outbox, queue, lock, session, disturbed>>

mark_observed(h) ==
    /\ At(h, "observe")
    /\ IF OwnsDelivery(h) /\ OwnsInbox(h)
       THEN /\ Commit(h, "observed", "processed")
            /\ OfCurrent(handler[h].run, "delivered") /\ Leave(h, "ack")
       ELSE UNCHANGED <<delivery, inbox, cont>> /\ Leave(h, "error")
    /\ UNCHANGED <<legacy, ended, caller, outbox, queue, lock, session, disturbed>>

\* process_claimed is over: the lock goes, and the outcome is acted on.
release_session_lock(h) ==
    /\ At(h, "leave")
    /\ lock' = IF lock = h THEN "none" ELSE lock
    /\ LET outcome == handler[h].next IN
       handler' = [handler EXCEPT ![h] =
           CASE outcome = "ack"   -> Idle
             [] outcome = "error" -> [@ EXCEPT !.pc = "release"]
             [] OTHER             -> [@ EXCEPT !.pc = outcome, !.next = "claimed"]]
    /\ UNCHANGED <<runs, rows, session, disturbed>>

mark_delivery_ambiguous(h) ==
    /\ At(h, "ambiguous")
    /\ IF OwnsDelivery(h) /\ OwnsInbox(h)
       THEN /\ Commit(h, "ambiguous", "processed")
            /\ OfCurrent(handler[h].run, "manual_review")
            /\ handler' = [handler EXCEPT ![h] = Idle]
       ELSE /\ delivery' = Forgotten(delivery, {h}) /\ inbox' = Forgotten(inbox, {h})
            /\ cont' = cont /\ Goto(h, "requeue")
    /\ UNCHANGED <<legacy, ended, caller, outbox, queue, lock, session, disturbed>>

\* A delivery that was not claimed (no prompt identity) is not this handler's
\* to bury: the message goes back with its inbox row still claimed.
mark_delivery_dead(h) ==
    LET r == handler[h].run
        bury == handler[h].next = "claimed" \/ r \in legacy
    IN
    /\ At(h, "dead")
    /\ IF OwnsInbox(h) /\ (bury => OwnsDelivery(h))
       THEN /\ delivery' = IF bury THEN [delivery EXCEPT ![r].status = "dead",
                                                         ![r].owner = "none", ![r].lapsed = FALSE]
                           ELSE delivery
            /\ inbox' = [inbox EXCEPT ![r].status = "dead", ![r].owner = "none", ![r].lapsed = FALSE]
            /\ handler' = [handler EXCEPT ![h] = Idle]
       ELSE /\ delivery' = Forgotten(delivery, {h}) /\ inbox' = Forgotten(inbox, {h})
            /\ Goto(h, "requeue")
    /\ UNCHANGED <<runs, outbox, queue, lock, session, disturbed>>

release_claim_after_error(h) ==
    LET r == handler[h].run IN
    /\ At(h, "release")
    /\ IF OwnsInbox(h)
       THEN /\ inbox' = [inbox EXCEPT ![r].status = "deferred", ![r].owner = "none", ![r].lapsed = FALSE]
            /\ delivery' = IF OwnsDelivery(h) THEN [delivery EXCEPT ![r].owner = "none", ![r].lapsed = FALSE]
                           ELSE delivery
       ELSE delivery' = Forgotten(delivery, {h}) /\ inbox' = Forgotten(inbox, {h})
    /\ Goto(h, "requeue")
    /\ UNCHANGED <<runs, outbox, queue, lock, session, disturbed>>

\* After its delay, the time to the next attempt, the message is nacked back
\* into the queue.
Nack(h) ==
    /\ At(h, "requeue")
    /\ queue' = [queue EXCEPT ![handler[h].run] = @ + 1]
    /\ delivery' = [delivery EXCEPT ![handler[h].run].due = TRUE]
    /\ handler' = [handler EXCEPT ![h] = Idle]
    /\ UNCHANGED <<runs, inbox, outbox, lock, session, disturbed>>

\* A request to OpenCode fails.
HttpFails(h) ==
    /\ handler[h].pc \in {"look", "turn", "probe", "verify", "follow"} /\ Disturb("http")
    /\ Leave(h, "error")
    /\ UNCHANGED <<runs, rows, lock, session>>

\* The handler's connection is lost, and with it the lock and every update.
DatabaseFails(h) ==
    /\ handler[h].pc \notin {"idle", "requeue"} /\ Disturb("database")
    /\ lock' = IF lock = h THEN "none" ELSE lock
    /\ delivery' = Forgotten(delivery, {h}) /\ inbox' = Forgotten(inbox, {h})
    /\ Goto(h, "requeue")
    /\ UNCHANGED <<runs, outbox, queue, session>>

\* The worker dies: its messages go back, prompts under way may be lost.
Crash ==
    /\ Disturb("crash") /\ \E h \in Handlers : ~At(h, "idle")
    /\ queue' = [r \in Runs |-> queue[r] +
                   Cardinality({h \in Handlers : ~At(h, "idle") /\ handler[h].run = r})]
    /\ delivery' = [r \in Runs |-> [Forgotten(delivery, Handlers)[r] EXCEPT !.due = TRUE]]
    /\ inbox' = Forgotten(inbox, Handlers)
    /\ handler' = [h \in Handlers |-> Idle] /\ lock' = "none"
    /\ inflight' \in SUBSET inflight
    /\ UNCHANGED <<runs, outbox, posted, target, turn, busy>>

-----------------------------------------------------------------------------
(* Time and the session. *)

\* A lease nobody renews runs out.
LeasesLapse(r) ==
    /\ "lost" \in {inbox[r].owner, delivery[r].owner}
    /\ inbox' = Freed(inbox, r) /\ delivery' = Freed(delivery, r)
    /\ UNCHANGED <<runs, outbox, queue, handler, lock, session, disturbed>>
\* A handler stalls until its leases have run out and the broker has given its
\* message to another: it goes on all the same.
Stall(h) ==
    /\ handler[h].pc # "idle" /\ Disturb("stall")
    /\ inbox' = Expired(inbox, h) /\ delivery' = Expired(delivery, h)
    /\ queue' = [queue EXCEPT ![handler[h].run] = @ + 1]
    /\ UNCHANGED <<runs, outbox, handler, lock, session>>
DispatchAges(r) ==
    /\ delivery[r].started /\ delivery[r].age < 2
    /\ delivery[r].status \notin {"observed", "ambiguous", "dead"}
    /\ delivery' = [delivery EXCEPT ![r].age = @ + 1]
    /\ UNCHANGED <<runs, inbox, outbox, queue, handler, lock, session, disturbed>>

\* The prompt reaches OpenCode, or its transport fails (dispatch_terminal_prompt).
PromptArrives(r) ==
    /\ r \in inflight /\ inflight' = inflight \ {r}
    /\ \/ target' = [target EXCEPT ![r] = "pending"] /\ Quiet
       \/ target' = [target EXCEPT ![r] = "collision"] /\ Disturb("collision")
       \/ target' = target /\ Disturb("http")
    /\ UNCHANGED <<runs, rows, handler, lock, posted, turn, busy>>
TurnStarts(r) ==
    /\ target[r] = "pending"
    /\ target' = [target EXCEPT ![r] = "match"] /\ turn' = [turn EXCEPT ![r] = "running"]
    /\ UNCHANGED <<runs, rows, handler, lock, inflight, posted, busy, disturbed>>
TurnEnds(r) ==
    /\ turn[r] = "running" /\ \E s \in {"done", "failed"} : turn' = [turn EXCEPT ![r] = s]
    /\ UNCHANGED <<runs, rows, handler, lock, inflight, posted, target, busy, disturbed>>
OwnTurnEnds ==
    /\ busy /\ busy' = FALSE
    /\ UNCHANGED <<runs, rows, handler, lock, inflight, posted, target, turn, disturbed>>

-----------------------------------------------------------------------------

HandlerStep(h) ==
    \/ load_and_claim_delivery(h)
    \/ mark_inbox_processed_owned(h) \/ defer_inbox_owned(h)
    \/ acquire_session_lock(h) \/ get_target_message(h)
    \/ continuation_turn_state(h, "turn") \/ continuation_turn_state(h, "follow")
    \/ session_is_busy(h) \/ mark_dispatching(h) \/ spawn_terminal_prompt(h)
    \/ verify_after_dispatch(h) \/ mark_accepted(h) \/ defer_delivery(h)
    \/ mark_observed(h) \/ release_session_lock(h) \/ mark_delivery_ambiguous(h)
    \/ mark_delivery_dead(h) \/ release_claim_after_error(h) \/ Nack(h)

ControlStep(r) ==
    \/ EndRun(r) \/ BindContinuation(r) \/ registerContinuation(r)
    \/ EndWhileBinding(r) \/ materializeContinuationWake(r)
    \/ repairTerminalContinuationWakes(r) \/ cancelContinuation(r) \/ WakeLost(r)
    \/ Publish(r)

WorldStep(r) ==
    \/ LeasesLapse(r) \/ DispatchAges(r)
    \/ PromptArrives(r) \/ TurnStarts(r) \/ TurnEnds(r)

Next ==
    \/ \E h \in Handlers : \/ HandlerStep(h) \/ Redeliver(h) \/ Stall(h) \/ HttpFails(h) \/ DatabaseFails(h)
                           \/ \E r \in Runs : claim_inbox(h, r)
    \/ \E r \in Runs : ControlStep(r) \/ WorldStep(r)
    \/ Crash \/ OwnTurnEnds

Spec == Init /\ [][Next]_vars

\* What goes on without the worker: the process that ended or bound a run
\* makes its wake, the sweep and the relay run, a lease nobody renews lapses,
\* time passes, a prompt under way arrives, and a turn ends.
Background(r) ==
    \/ materializeContinuationWake(r) \/ repairTerminalContinuationWakes(r)
    \/ Publish(r) \/ LeasesLapse(r) \/ DispatchAges(r)
    \/ (PromptArrives(r) /\ Quiet) \/ TurnStarts(r) \/ TurnEnds(r)

\* Each step of the background can be taken only so often: to be fair to them
\* together is enough.  Nothing is assumed of runs ending, of continuations
\* being bound and of disturbances.
Fairness ==
    /\ \A h \in Handlers : WF_vars(HandlerStep(h))
    /\ \A r \in Runs : SF_vars(\E h \in Handlers : claim_inbox(h, r))  \* the queue is FIFO
    /\ WF_vars(OwnTurnEnds \/ \E r \in Runs : Background(r))
FairSpec == Spec /\ Fairness
-----------------------------------------------------------------------------
(* Properties *)

DeliveryStatus == {"none", "pending", "claimed", "deferred", "dispatching",
                   "accepted", "observed", "ambiguous", "dead"}
Outcome == {"dead", "ambiguous", "error", "requeue", "ack"}
\* What process_claimed does under the advisory lock.
UnderLock == {"look", "turn", "probe", "begin", "post", "verify", "accept",
              "follow", "observe"}
Pc == UnderLock \cup {"idle", "claim", "processed", "postpone", "lock", "defer", "leave",
                      "dead", "ambiguous", "release", "requeue"}

HandlerRow == [pc : Pc, run : Runs \cup {0}, started : BOOLEAN, prior : DeliveryStatus,
               next : Outcome \cup {"none", "claimed", "deferred", "dispatching", "accepted"}]
DeliveryRow == [status : DeliveryStatus, owner : Handlers \cup {"none", "lost"},
                lapsed : BOOLEAN, started : BOOLEAN, age : 0 .. 2, due : BOOLEAN,
                accepted : BOOLEAN]
InboxRow == [status : {"none", "claimed", "deferred", "processed", "dead"},
             owner : Handlers \cup {"none", "lost"}, lapsed : BOOLEAN]

TypeOK ==
    /\ legacy \subseteq LegacyRuns /\ ended \in Seq(Runs)
    /\ cont \in [Runs -> {"unbound", "parked", "wake_pending", "delivered",
                          "cancelled", "manual_review"}]
    /\ caller \in [Runs -> {"none", "finalizer", "binder"}]
    /\ delivery \in [Runs -> DeliveryRow] /\ inbox \in [Runs -> InboxRow]
    /\ outbox \in [Runs -> {"none", "pending", "published"}]
    /\ queue \in [Runs -> Nat] /\ lock \in Handlers \cup {"none"}
    /\ inflight \subseteq Runs /\ posted \in [Runs -> Nat]
    /\ target \in [Runs -> {"absent", "pending", "match", "collision"}]
    /\ turn \in [Runs -> {"none", "running", "done", "failed"}]
    /\ busy \in BOOLEAN /\ disturbed \in 0 .. MaxDisturbances
    /\ handler \in [Handlers -> HandlerRow]
    /\ \A h \in Handlers :
         /\ handler[h].pc # "idle" => handler[h].run \in Runs
         /\ handler[h].pc = "leave" => handler[h].next \in Outcome
         /\ handler[h].pc = "defer" => handler[h].next \in {"deferred", "dispatching", "accepted"}

\* However messages are duplicated, leases lapse under their handlers, workers
\* crash and requests fail, the prompt of a run is posted at most once, and
\* never for a continuation without a prompt identity (process_claimed).
PromptOnce == \A r \in Runs : posted[r] <= (IF r \in legacy THEN 0 ELSE 1)

\* A message is acknowledged for good only when there is nothing left to do:
\* the turn was seen to end, a person has to look, or the wake was called off.
AckedIsSettled ==
    \A r \in Runs : inbox[r].status = "processed" =>
        delivery[r].status \in {"observed", "ambiguous"} \/ cont[r] = "cancelled"

\* What the tables say of the session is so: a delivery is observed only when
\* the wake stands in the session and its turn has ended, and a continuation
\* that waits for a person has had its prompt begun (mark_observed,
\* mark_delivery_ambiguous).
ObservedIsReal ==
    \A r \in Runs :
        /\ delivery[r].status = "observed" => target[r] = "match" /\ turn[r] = "done"
        /\ cont[r] = "manual_review" => delivery[r].started

\* The rows tell the truth about a wake: what they call finished is, and what
\* they say was seen in the session was (mark_observed, claim_inbox).
RowsTellTheTruth == AckedIsSettled /\ ObservedIsReal

(* The inductive invariant behind them. *)

\* Who works on a session holds its lock, and works on a wake with a prompt
\* identity (acquire_session_lock, load_and_claim_delivery).
LockInv ==
    \A h \in Handlers :
        /\ handler[h].pc \in UnderLock => lock = h
        /\ handler[h].pc \in UnderLock \cup {"lock"} => handler[h].run \notin legacy

\* What a handler read of its delivery still holds for as long as the row is
\* its own, and that a dispatch has begun is never taken back.
ReadInv ==
    \A h \in Handlers : LET r == handler[h].run IN
        /\ handler[h].pc # "idle" /\ handler[h].started => delivery[r].started
        /\ handler[h].pc \in {"lock", "look", "probe", "begin"} /\ delivery[r].owner = h
             => handler[h].started = delivery[r].started
        /\ handler[h].pc \in {"probe", "begin"} => ~handler[h].started

\* A prompt is posted after its dispatch was recorded, by the one handler that
\* recorded it.
PostInv ==
    /\ \A r \in Runs : /\ posted[r] > 0 => delivery[r].started
                       /\ r \in legacy => posted[r] = 0
                       /\ posted[r] <= 1
    /\ \A h \in Handlers : handler[h].pc = "post" =>
         delivery[handler[h].run].started /\ posted[handler[h].run] = 0

\* What stands in the session comes from the posted prompt, and what a handler
\* saw there is still so.
SessionInv ==
    /\ \A r \in Runs :
         /\ posted[r] = 0 => r \notin inflight /\ target[r] = "absent"
         /\ r \in inflight => target[r] = "absent"
         /\ turn[r] # "none" => target[r] = "match"
    /\ \A h \in Handlers : LET r == handler[h].run IN
         /\ handler[h].pc \in {"turn", "accept", "follow", "observe"} => target[r] = "match"
         /\ handler[h].pc = "observe" => turn[r] = "done"
         /\ (handler[h].pc = "ambiguous"
              \/ (handler[h].pc = "leave" /\ handler[h].next = "ambiguous"))
               => delivery[r].started

\* A settled delivery belongs to nobody, a continuation that waits for a person
\* has such a delivery, and a handler that found nothing to do is right.
SettledInv ==
    /\ \A r \in Runs :
         /\ delivery[r].status \in {"observed", "ambiguous"} => delivery[r].owner = "none"
         /\ cont[r] = "manual_review" => delivery[r].status = "ambiguous"
    /\ \A h \in Handlers : handler[h].pc = "processed" =>
         LET r == handler[h].run IN
         delivery[r].status \in {"observed", "ambiguous"} \/ cont[r] = "cancelled"

Inv == /\ TypeOK /\ LockInv /\ ReadInv /\ PostInv /\ SessionInv /\ SettledInv
       /\ RowsTellTheTruth

\* The wake of a run was lost before it was made, and the runs that ended
\* earlier fill the limit of the sweep that would make it.
Starved(r) == /\ caller[r] = "none" /\ delivery[r].status = "none"
              /\ Cardinality(UpTo(r)) > RepairLimit

\* A run that ends with an event its continuation waits for wakes its session,
\* or is left to a person, or is called off: no crash between the steps loses
\* the wake for good.  The one exception is the code's: the sweep selects the
\* oldest ended runs, delivered ones too, so a wake lost behind RepairLimit of
\* them is not repaired (repairTerminalContinuationWakes).
WakeSettles ==
    \A r \in Runs \ UnheardRuns :
        (HasEnded(r) /\ cont[r] # "unbound" /\ r \notin legacy)
          ~> (\/ delivery[r].status \in {"observed", "ambiguous", "dead"}
              \/ cont[r] = "cancelled" \/ Starved(r))
====
