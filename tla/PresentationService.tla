------------------------ MODULE PresentationService ------------------------
(***************************************************************************)
(* RuntimePresentationService: shows the state of the runs to the people   *)
(* who watch them.  notify() never waits for a projection; notifications   *)
(* of a run are coalesced, and one that comes while the run is projected    *)
(* marks it dirty, so that it is projected once more.                       *)
(*                                                                         *)
(* A projection ends at the latest by its time limit.  What a projector does *)
(* after that (nothing stops it) is out of the service's sight and not here. *)
(***************************************************************************)
EXTENDS RunQueue

CONSTANTS
    Runs,
    MaxProjections,      \* projections at a time
    MaxNotifications  \* bound: how often a run changes

ASSUME RunsAssumption == IsFiniteSet(Runs)
ASSUME MaxProjectionsAssumption == MaxProjections \in Nat \ {0}
ASSUME NotificationsAssumption == MaxNotifications \in Nat

VARIABLES
    pending,       \* the Set `pending`, in insertion order
    active, dirty, \* the Sets of the same names
    scheduled,     \* a microtask will call pump()
    stopped,
    waiting,       \* does stop() of the driver await idle()
    closed,        \* has the driver closed the store
    unseen,        \* history: runs changed since their last projection began
    notifications  \* bound

presentationVars ==
    <<pending, active, dirty, scheduled, stopped, waiting, closed, unseen, notifications>>

PresentationTypeOK ==
    /\ pending \in Seq(Runs)
    /\ active \subseteq Runs
    /\ dirty \subseteq Runs
    /\ scheduled \in BOOLEAN
    /\ stopped \in BOOLEAN
    /\ waiting \in BOOLEAN
    /\ closed \in BOOLEAN
    /\ unseen \subseteq Runs
    /\ notifications \in 0..MaxNotifications

PresentationInit ==
    /\ pending = <<>>
    /\ active = {}
    /\ dirty = {}
    /\ scheduled = FALSE
    /\ stopped = FALSE
    /\ waiting = FALSE
    /\ closed = FALSE
    /\ unseen = {}
    /\ notifications = 0

\* Mutant: the run is not marked dirty while it is projected.
NotifyCoalesced(r) ==
    /\ ~stopped
    /\ notifications < MaxNotifications
    /\ notifications' = notifications + 1
    /\ unseen' = unseen \cup {r}
    /\ pending' = IF r \in active THEN pending ELSE Enqueue(pending, r)
    /\ scheduled' = TRUE
    /\ UNCHANGED <<active, dirty, stopped, waiting, closed>>

\* A pass over the run has ended and the driver calls notify().
Notify(r) ==
    /\ ~stopped
    /\ notifications < MaxNotifications
    /\ notifications' = notifications + 1
    /\ unseen' = unseen \cup {r}
    /\ IF r \in active
       THEN dirty' = dirty \cup {r} /\ UNCHANGED pending
       ELSE pending' = Enqueue(pending, r) /\ UNCHANGED dirty
    /\ scheduled' = TRUE
    /\ UNCHANGED <<active, stopped, waiting, closed>>

\* How many more projections the loop of pump() may begin.
Room(running) == MaxProjections - Cardinality(running)

\* pump(), called with the queue and the active set as they then are.  The
\* projection of a run it takes begins, and reads the state of the run.
Pump(queue, running) ==
    LET room == IF stopped THEN 0 ELSE Room(running)
        begun == Batch(queue, room)
    IN  /\ pending' = Rest(queue, room)
        /\ active' = running \cup begun
        /\ unseen' = unseen \ begun

\* The microtask of schedule().
PumpMicrotask ==
    /\ scheduled
    /\ scheduled' = FALSE
    /\ Pump(pending, active)
    /\ UNCHANGED <<dirty, stopped, waiting, closed, notifications>>

\* Mutant: a dirty run is not queued again.
SettleForgetsDirty(r) ==
    /\ dirty' = dirty \ {r}
    /\ Pump(pending, active \ {r})

\* The finally of a projection.
SettleProjection(r) ==
    /\ dirty' = dirty \ {r}
    /\ Pump(IF r \in dirty /\ ~stopped THEN Enqueue(pending, r) ELSE pending,
            active \ {r})

\* A projection ends: well, by its time limit, or with an error that onError
\* reports.
ProjectionEnds(r) ==
    /\ r \in active
    /\ SettleProjection(r)
    /\ UNCHANGED <<scheduled, stopped, waiting, closed, notifications>>

\* isIdle
IsIdle == ~scheduled /\ pending = <<>> /\ active = {}

\* The driver's stop(): this service stops, then its idle() is awaited ...
Stop ==
    /\ ~stopped
    /\ stopped' = TRUE
    /\ waiting' = TRUE
    /\ pending' = <<>>
    /\ dirty' = {}
    /\ unseen' = {}
    /\ UNCHANGED <<active, scheduled, closed, notifications>>

\* ... and then the store is closed.
CloseStore ==
    /\ waiting
    /\ IsIdle
    /\ waiting' = FALSE
    /\ closed' = TRUE
    /\ UNCHANGED <<pending, active, dirty, scheduled, stopped, unseen,
                   notifications>>

PresentationNext ==
    \/ \E r \in Runs : Notify(r) \/ ProjectionEnds(r)
    \/ PumpMicrotask
    \/ Stop
    \/ CloseStore

Fairness ==
    /\ WF_presentationVars(PumpMicrotask)
    /\ WF_presentationVars(CloseStore)
    /\ \A r \in Runs : WF_presentationVars(ProjectionEnds(r))

PresentationSpec == PresentationInit /\ [][PresentationNext]_presentationVars
FairSpec == PresentationSpec /\ Fairness

-----------------------------------------------------------------------------
\* Nothing shown is out of date for good: a run that changed after its last
\* projection began is in the queue, or dirty while its projection is active.
ChangeIsRemembered ==
    \A r \in unseen : r \in ToSet(pending) \/ (r \in dirty /\ r \in active)

\* The queue of a service that runs is never left alone: while runs wait in it,
\* pump() is scheduled or an active projection will call it at its end.
QueueIsServed == ~stopped /\ pending # <<>> => scheduled \/ active # {}

\* Coalescing never runs two projections too many, whichever of notify, the
\* microtask and the end of a projection pumps.
ProjectionBound == Cardinality(active) <= MaxProjections

\* The driver's stop() closes the store only after the last projection, and
\* none begins afterwards: neither a late notification nor a microtask that was
\* scheduled before the stop starts one on the closed store.
NoProjectionOnClosedStore == closed => active = {}

\* What makes these inductive: a dirty run is being projected, and a service
\* that was stopped owes nothing, and only such a service is closed.
PresentationInv ==
    /\ dirty \subseteq active
    /\ stopped => unseen = {}
    /\ waiting \/ closed => stopped

\* Every change of a run is shown in the end, unless the service is stopped.
EveryChangeShown == \A r \in Runs : (r \in unseen) ~> (r \notin unseen)

=============================================================================
