-------------------------- MODULE Periphery_proofs --------------------------
(***************************************************************************)
(* The parts around the task runtime.  Each is a specification of its own  *)
(* and each section stands alone: they share the library's theorems only.  *)
(***************************************************************************)
EXTENDS PresentationService, Qualification, DirectExecution, ContextCache,
        FiniteSetTheorems, WellFoundedInduction, TLAPS

(***************************************************************************)
(* The presentation service (PresentationService) forgets no change and    *)
(* respects its limit, for every set of runs and every limit.              *)
(***************************************************************************)
-----------------------------------------------------------------------------
(* What the operations of a queue of runs preserve.                         *)

\* Adding a run leaves a queue of runs that holds it and what was there.
LEMMA EnqueueFacts ==
    ASSUME NEW S, NEW queue \in Seq(S), NEW r \in S
    PROVE  /\ Enqueue(queue, r) \in Seq(S)
           /\ Enqueue(queue, r) # <<>>
           /\ ToSet(Enqueue(queue, r)) = ToSet(queue) \cup {r}
<1>1. CASE r \in ToSet(queue)
    BY <1>1 DEF Enqueue, ToSet
<1>2. CASE r \notin ToSet(queue)
    <2>1. Enqueue(queue, r) = Append(queue, r)
        BY <1>2 DEF Enqueue
    <2>2. /\ Append(queue, r) \in Seq(S)
          /\ Len(Append(queue, r)) = Len(queue) + 1
          /\ \A i \in 1..Len(queue) : Append(queue, r)[i] = queue[i]
          /\ Append(queue, r)[Len(queue) + 1] = r
        OBVIOUS
    <2>3. DOMAIN Append(queue, r) = 1..(Len(queue) + 1) /\ DOMAIN queue = 1..Len(queue)
        BY <2>2
    <2>4. ToSet(Append(queue, r)) = ToSet(queue) \cup {r}
        BY <2>2, <2>3 DEF ToSet
    <2>. QED  BY <2>1, <2>2, <2>4
<1>. QED  BY <1>1, <1>2

\* A batch and the rest make up the queue, and the batch has at most n runs.
LEMMA BatchFacts ==
    ASSUME NEW S, NEW queue \in Seq(S), NEW n \in Nat
    PROVE  /\ Rest(queue, n) \in Seq(S)
           /\ Batch(queue, n) \in SUBSET S
           /\ ToSet(queue) = Batch(queue, n) \cup ToSet(Rest(queue, n))
           /\ IsFiniteSet(Batch(queue, n))
           /\ Cardinality(Batch(queue, n)) <= n
           /\ Rest(queue, n) # <<>> => Len(queue) > n
           /\ n = 0 => Batch(queue, n) = {} /\ Rest(queue, n) = queue
           /\ n > 0 /\ queue # <<>> => Batch(queue, n) # {}
<1>. DEFINE k == BatchSize(queue, n)
            front == SubSeq(queue, 1, k)
<1>1. k \in Nat /\ k <= Len(queue) /\ k <= n /\ (k = n \/ k = Len(queue))
    BY DEF BatchSize
<1>. HIDE DEF k
<1>2. /\ front \in Seq(S)
      /\ Len(front) = k
      /\ \A i \in 1..k : front[i] = queue[i]
    BY <1>1
<1>3. /\ SubSeq(queue, k + 1, Len(queue)) \in Seq(S)
      /\ Len(SubSeq(queue, k + 1, Len(queue))) = Len(queue) - k
      /\ \A i \in 1..(Len(queue) - k) :
            SubSeq(queue, k + 1, Len(queue))[i] = queue[k + i]
    BY <1>1
<1>4. Batch(queue, n) = ToSet(front) /\ Rest(queue, n) = SubSeq(queue, k + 1, Len(queue))
    BY DEF Batch, Rest, k
<1>5. ToSet(front) = {queue[i] : i \in 1..k}
    BY <1>2 DEF ToSet
<1>6. ToSet(Rest(queue, n)) = {queue[i] : i \in (k + 1)..Len(queue)}
    <2>. DEFINE R == Rest(queue, n)
    <2>1. DOMAIN R = 1..(Len(queue) - k)
        BY <1>3, <1>4
    <2>2. ToSet(R) = {R[i] : i \in 1..(Len(queue) - k)}
        BY <2>1 DEF ToSet
    <2>3. \A i \in 1..(Len(queue) - k) : R[i] = queue[k + i] /\ k + i \in (k + 1)..Len(queue)
        BY <1>1, <1>3, <1>4
    <2>4. \A j \in (k + 1)..Len(queue) :
             j - k \in 1..(Len(queue) - k) /\ R[j - k] = queue[j]
        <3>. TAKE j \in (k + 1)..Len(queue)
        <3>1. j - k \in 1..(Len(queue) - k) /\ k + (j - k) = j
            BY <1>1
        <3>. QED  BY <2>3, <3>1
    <2>. HIDE DEF R
    <2>5. {R[i] : i \in 1..(Len(queue) - k)} = {queue[i] : i \in (k + 1)..Len(queue)}
        BY <2>3, <2>4
    <2>. QED  BY <2>2, <2>5 DEF R
<1>7. ToSet(queue) = Batch(queue, n) \cup ToSet(Rest(queue, n))
    <2>1. ToSet(queue) = {queue[i] : i \in 1..Len(queue)}
        BY DEF ToSet
    <2>2. 1..Len(queue) = (1..k) \cup ((k + 1)..Len(queue))
        BY <1>1
    <2>. QED  BY <1>4, <1>5, <1>6, <2>1, <2>2
<1>8. IsFiniteSet(1..k) /\ Cardinality(1..k) = k
    BY <1>1, FS_Interval
<1>9. IsFiniteSet(ToSet(front)) /\ Cardinality(ToSet(front)) <= k
    <2>. DEFINE f == [i \in 1..k |-> queue[i]]
    <2>1. f \in Surjection(1..k, ToSet(front))
        BY <1>5 DEF Surjection
    <2>. QED  BY <1>8, <2>1, FS_Surjection
<1>10. Rest(queue, n) # <<>> => Len(queue) > n
    BY <1>1, <1>3, <1>4
<1>11. n = 0 => Batch(queue, n) = {} /\ Rest(queue, n) = queue
    <2>. SUFFICES ASSUME n = 0 PROVE Batch(queue, n) = {} /\ Rest(queue, n) = queue
        OBVIOUS
    <2>1. k = 0
        BY <1>1
    <2>2. 1..k = {}
        BY <2>1
    <2>. QED  BY <1>3, <1>4, <1>5, <2>1, <2>2
<1>12. Batch(queue, n) \in SUBSET S
    BY <1>1, <1>4, <1>5
<1>13. Cardinality(ToSet(front)) <= n
    <2>1. Cardinality(ToSet(front)) \in Nat
        BY <1>9, FS_CardinalityType
    <2>. QED  BY <1>1, <1>9, <2>1
<1>14. n > 0 /\ queue # <<>> => Batch(queue, n) # {}
    <2>. SUFFICES ASSUME n > 0, queue # <<>> PROVE Batch(queue, n) # {}
        OBVIOUS
    <2>1. Len(queue) > 0
        OBVIOUS
    <2>2. 1 \in 1..k
        BY <1>1, <2>1
    <2>. QED  BY <1>4, <1>5, <2>2
<1>. QED  BY <1>3, <1>4, <1>7, <1>9, <1>10, <1>11, <1>12, <1>13, <1>14

-----------------------------------------------------------------------------
(* The service.                                                             *)

\* The invariant of the service: what notify() has marked is served, within the limit.
ProjectionsInv ==
    /\ PresentationTypeOK
    /\ PresentationInv
    /\ ChangeIsRemembered
    /\ QueueIsServed
    /\ ProjectionBound
    /\ NoProjectionOnClosedStore

\* pump(): what it leaves is typed, forgets nothing, serves the queue and keeps
\* the limit, whatever queue and active set it is called with.
LEMMA PumpFacts ==
    ASSUME ProjectionsInv, NEW queue \in Seq(Runs), NEW busy \in SUBSET active,
           Pump(queue, busy)
    PROVE  /\ pending' \in Seq(Runs)
           /\ active' \in SUBSET Runs
           /\ unseen' \in SUBSET unseen
           /\ busy \subseteq active'
           /\ stopped => active' = busy
           /\ \A r \in unseen' : r \in ToSet(queue) => r \in ToSet(pending')
           /\ ~stopped /\ pending' # <<>> => active' # {}
           /\ Cardinality(active') <= MaxProjections
<1>. DEFINE room == IF stopped THEN 0 ELSE Room(busy)
            begun == Batch(queue, room)
<1>1. pending' = Rest(queue, room) /\ active' = busy \cup begun /\ unseen' = unseen \ begun
    BY DEF Pump
<1>2. IsFiniteSet(active) /\ IsFiniteSet(busy) /\ Cardinality(busy) <= Cardinality(active)
    BY RunsAssumption, FS_Subset DEF ProjectionsInv, PresentationTypeOK
<1>3. Cardinality(active) \in Nat /\ Cardinality(busy) \in Nat
    BY <1>2, FS_CardinalityType
<1>4. room \in Nat /\ Cardinality(busy) + room <= MaxProjections
    BY <1>2, <1>3, MaxProjectionsAssumption DEF ProjectionsInv, ProjectionBound, Room
<1>5. ~stopped => room = MaxProjections - Cardinality(busy)
    BY DEF Room
<1>. HIDE DEF room
<1>6. /\ Rest(queue, room) \in Seq(Runs)
      /\ begun \in SUBSET Runs
      /\ ToSet(queue) = begun \cup ToSet(Rest(queue, room))
      /\ IsFiniteSet(begun)
      /\ Cardinality(begun) <= room
      /\ Rest(queue, room) # <<>> => Len(queue) > room
      /\ room > 0 /\ queue # <<>> => begun # {}
    BY <1>4, BatchFacts
<1>7. Cardinality(begun) \in Nat
    BY <1>6, FS_CardinalityType
<1>. HIDE DEF begun
<1>8. Cardinality(active') <= MaxProjections
    <2>1. IsFiniteSet(busy \cup begun)
        BY <1>2, <1>6, FS_Union
    <2>2. Cardinality(busy \cup begun) <= Cardinality(busy) + Cardinality(begun)
        <3>1. Cardinality(busy \cup begun) =
                 Cardinality(busy) + Cardinality(begun) - Cardinality(busy \cap begun)
            BY <1>2, <1>6, FS_Union
        <3>2. Cardinality(busy \cap begun) \in Nat
            BY <1>2, FS_Subset, FS_CardinalityType
        <3>. QED  BY <1>3, <1>7, <3>1, <3>2
    <2>3. Cardinality(busy \cup begun) \in Nat
        BY <2>1, FS_CardinalityType
    <2>. QED  BY <1>1, <1>3, <1>4, <1>6, <1>7, <2>2, <2>3, MaxProjectionsAssumption
<1>9. ~stopped /\ pending' # <<>> => active' # {}
    <2>. SUFFICES ASSUME ~stopped, pending' # <<>> PROVE active' # {}
        OBVIOUS
    <2>1. CASE room > 0
        <3>1. queue # <<>>
            BY <1>1, <1>6, <1>4
        <3>. QED  BY <1>1, <1>6, <2>1, <3>1
    <2>2. CASE room = 0
        <3>1. Cardinality(busy) = MaxProjections
            BY <1>3, <1>5, <2>2, MaxProjectionsAssumption
        <3>2. busy # {}
            BY <3>1, FS_EmptySet, MaxProjectionsAssumption
        <3>. QED  BY <1>1, <3>2
    <2>. QED  BY <1>4, <2>1, <2>2
<1>10. active' \in SUBSET Runs
    BY <1>1, <1>6 DEF ProjectionsInv, PresentationTypeOK
<1>11. stopped => active' = busy
    <2>. SUFFICES ASSUME stopped PROVE begun = {}
        BY <1>1
    <2>1. room = 0
        BY DEF room
    <2>2. Cardinality(begun) = 0
        BY <1>6, <1>7, <2>1
    <2>. QED  BY <1>6, <2>2, FS_EmptySet
<1>. QED  BY <1>1, <1>6, <1>8, <1>9, <1>10, <1>11

\* The end of a projection preserves the invariant's parts it can disturb.
LEMMA SettleFacts ==
    ASSUME ProjectionsInv, NEW r \in Runs, r \in active, SettleProjection(r),
           UNCHANGED <<scheduled, stopped, waiting, closed>>
    PROVE  /\ pending' \in Seq(Runs)
           /\ active' \in SUBSET Runs
           /\ dirty' \in SUBSET Runs
           /\ unseen' \in SUBSET Runs
           /\ PresentationInv'
           /\ ChangeIsRemembered'
           /\ QueueIsServed'
           /\ ProjectionBound'
           /\ NoProjectionOnClosedStore'
<1>. DEFINE queue == IF r \in dirty /\ ~stopped THEN Enqueue(pending, r) ELSE pending
<1>1. queue \in Seq(Runs) /\ ToSet(pending) \subseteq ToSet(queue)
      /\ (r \in dirty /\ ~stopped => r \in ToSet(queue))
    <2>1. pending \in Seq(Runs)
        BY DEF ProjectionsInv, PresentationTypeOK
    <2>2. /\ Enqueue(pending, r) \in Seq(Runs)
          /\ ToSet(Enqueue(pending, r)) = ToSet(pending) \cup {r}
        BY <2>1, EnqueueFacts
    <2>3. CASE r \in dirty /\ ~stopped
        BY <2>2, <2>3, Zenon
    <2>4. CASE ~(r \in dirty /\ ~stopped)
        BY <2>1, <2>4, Zenon
    <2>. QED  BY <2>3, <2>4
<1>. HIDE DEF queue
<1>2. Pump(queue, active \ {r}) /\ dirty' = dirty \ {r}
    BY DEF SettleProjection, queue
<1>3. active \ {r} \in SUBSET active
    OBVIOUS
<1>4. /\ pending' \in Seq(Runs)
      /\ active' \in SUBSET Runs
      /\ unseen' \in SUBSET unseen
      /\ active \ {r} \subseteq active'
      /\ stopped => active' = active \ {r}
      /\ \A q \in unseen' : q \in ToSet(queue) => q \in ToSet(pending')
      /\ ~stopped /\ pending' # <<>> => active' # {}
      /\ Cardinality(active') <= MaxProjections
    BY <1>1, <1>2, <1>3, PumpFacts
<1>5. PresentationInv'
    BY <1>2, <1>4 DEF ProjectionsInv, PresentationInv
<1>6. ChangeIsRemembered'
    <2>. SUFFICES ASSUME NEW q \in unseen'
                  PROVE  q \in ToSet(pending') \/ (q \in dirty' /\ q \in active')
        BY DEF ChangeIsRemembered
    <2>1. q \in ToSet(pending) \/ (q \in dirty /\ q \in active)
        BY <1>4 DEF ProjectionsInv, ChangeIsRemembered
    <2>2. ~stopped
        BY <1>4 DEF ProjectionsInv, PresentationInv
    <2>. QED  BY <1>1, <1>2, <1>4, <2>1, <2>2
<1>. QED  BY <1>2, <1>4, <1>5, <1>6
          DEF ProjectionsInv, PresentationTypeOK, PresentationInv, QueueIsServed, ProjectionBound,
              NoProjectionOnClosedStore

\* The invariant holds initially and every step preserves it.
THEOREM PresentationInvariant == PresentationSpec => []ProjectionsInv
<1>1. PresentationInit => ProjectionsInv
    <2>. SUFFICES ASSUME PresentationInit PROVE ProjectionsInv
        OBVIOUS
    <2>1. PresentationTypeOK
        <3>1. <<>> \in Seq(Runs)
            OBVIOUS
        <3>2. 0 \in 0..MaxNotifications
            BY NotificationsAssumption
        <3>. QED  BY <3>1, <3>2, Zenon DEF PresentationInit, PresentationTypeOK
    <2>2. ProjectionBound
        BY FS_EmptySet, MaxProjectionsAssumption DEF PresentationInit, ProjectionBound
    <2>. QED  BY <2>1, <2>2 DEF PresentationInit, ProjectionsInv, PresentationInv,
                 ChangeIsRemembered, QueueIsServed,
                                  NoProjectionOnClosedStore
<1>2. ProjectionsInv /\ [PresentationNext]_presentationVars => ProjectionsInv'
    <2>. SUFFICES ASSUME ProjectionsInv, [PresentationNext]_presentationVars PROVE ProjectionsInv'
        OBVIOUS
    <2>1. ASSUME NEW r \in Runs, Notify(r) PROVE ProjectionsInv'
        <3>1. /\ Enqueue(pending, r) \in Seq(Runs)
              /\ ToSet(Enqueue(pending, r)) = ToSet(pending) \cup {r}
            BY EnqueueFacts DEF ProjectionsInv, PresentationTypeOK
        <3>2. notifications' \in 0..MaxNotifications
            BY <2>1, NotificationsAssumption DEF Notify, ProjectionsInv, PresentationTypeOK
        <3>3. PresentationTypeOK'
            BY <2>1, <3>1, <3>2 DEF Notify, ProjectionsInv, PresentationTypeOK
        <3>4. PresentationInv'
            BY <2>1 DEF Notify, ProjectionsInv, PresentationInv
        <3>5. ChangeIsRemembered'
            BY <2>1, <3>1 DEF Notify, ProjectionsInv, ChangeIsRemembered
        <3>. QED  BY <2>1, <3>3, <3>4, <3>5 DEF Notify, ProjectionsInv, QueueIsServed,
                     ProjectionBound,
                      NoProjectionOnClosedStore
    <2>2. ASSUME NEW r \in Runs, ProjectionEnds(r) PROVE ProjectionsInv'
        BY <2>2, SettleFacts DEF ProjectionEnds, ProjectionsInv, PresentationTypeOK
    <2>3. CASE PumpMicrotask
        <3>1. pending \in Seq(Runs) /\ active \in SUBSET active /\ Pump(pending, active)
            BY <2>3 DEF PumpMicrotask, ProjectionsInv, PresentationTypeOK
        <3>2. /\ pending' \in Seq(Runs)
              /\ active' \in SUBSET Runs
              /\ unseen' \in SUBSET unseen
              /\ active \subseteq active'
              /\ stopped => active' = active
              /\ \A q \in unseen' : q \in ToSet(pending) => q \in ToSet(pending')
              /\ ~stopped /\ pending' # <<>> => active' # {}
              /\ Cardinality(active') <= MaxProjections
            BY <3>1, PumpFacts
        <3>3. PresentationTypeOK'
            BY <2>3, <3>2 DEF PumpMicrotask, ProjectionsInv, PresentationTypeOK
        <3>4. PresentationInv'
            BY <2>3, <3>2 DEF PumpMicrotask, ProjectionsInv, PresentationInv
        <3>5. ChangeIsRemembered'
            BY <2>3, <3>2 DEF PumpMicrotask, ProjectionsInv, ChangeIsRemembered
        <3>. QED  BY <2>3, <3>2, <3>3, <3>4, <3>5
                  DEF PumpMicrotask, ProjectionsInv, PresentationInv, QueueIsServed, ProjectionBound,
                      NoProjectionOnClosedStore
    <2>4. CASE Stop
        BY <2>4 DEF Stop, ProjectionsInv, PresentationTypeOK, PresentationInv,
           ChangeIsRemembered, QueueIsServed,
                    ProjectionBound, NoProjectionOnClosedStore
    <2>5. CASE CloseStore
        BY <2>5 DEF CloseStore, IsIdle, ProjectionsInv, PresentationTypeOK, PresentationInv,
           ChangeIsRemembered,
                    QueueIsServed, ProjectionBound, NoProjectionOnClosedStore
    <2>6. CASE UNCHANGED presentationVars
        BY <2>6 DEF presentationVars, ProjectionsInv, PresentationTypeOK, PresentationInv,
           ChangeIsRemembered, QueueIsServed,
                    ProjectionBound, NoProjectionOnClosedStore
    <2>. QED  BY <2>1, <2>2, <2>3, <2>4, <2>5, <2>6 DEF PresentationNext
<1>. QED  BY <1>1, <1>2, PTL DEF PresentationSpec

\* A run that changed after its last projection began is still in the queue or
\* marked dirty: notify() and the end of a projection lose nothing between them.
THEOREM ChangeIsRememberedHolds == PresentationSpec => []ChangeIsRemembered
<1>1. ProjectionsInv => ChangeIsRemembered
    BY DEF ProjectionsInv
<1>. QED  BY <1>1, PresentationInvariant, PTL

\* While runs wait, pump() will be called again.
THEOREM QueueIsServedHolds == PresentationSpec => []QueueIsServed
<1>1. ProjectionsInv => QueueIsServed
    BY DEF ProjectionsInv
<1>. QED  BY <1>1, PresentationInvariant, PTL

\* Never more than MaxProjections projections at a time (maxParallel).
THEOREM ProjectionBoundHolds == PresentationSpec => []ProjectionBound
<1>1. ProjectionsInv => ProjectionBound
    BY DEF ProjectionsInv
<1>. QED  BY <1>1, PresentationInvariant, PTL

\* No projection is active once the store is closed, nor does one begin.
THEOREM NoProjectionOnClosedStoreHolds == PresentationSpec => []NoProjectionOnClosedStore
<1>1. ProjectionsInv => NoProjectionOnClosedStore
    BY DEF ProjectionsInv
<1>. QED  BY <1>1, PresentationInvariant, PTL

-----------------------------------------------------------------------------
(***************************************************************************)
(* The qualification controller (Qualification): a PASS names one candidate, *)
(* the faults it injects were recovered from, and nothing is left over.    *)
(***************************************************************************)
\* The two scopes, gate by gate.
LEMMA ScopeOrders ==
    /\ DOMAIN FullOrder = 1 .. 13 /\ Len(FullOrder) = 13
    /\ FullOrder[1] = "Q-ENTRY" /\ FullOrder[2] = "PRE-R0" /\ FullOrder[3] = "R-0"
    /\ FullOrder[4] = "R-1" /\ FullOrder[5] = "R-2" /\ FullOrder[6] = "R-3"
    /\ FullOrder[7] = "R-4" /\ FullOrder[8] = "R-5" /\ FullOrder[9] = "R-6"
    /\ FullOrder[10] = "R-7" /\ FullOrder[11] = "R-8" /\ FullOrder[12] = "R-9"
    /\ FullOrder[13] = "R-10"
    /\ DOMAIN Wave10Order = 1 .. 10 /\ Len(Wave10Order) = 10
    /\ Wave10Order[1] = "Q-ENTRY" /\ Wave10Order[2] = "PRE-R0" /\ Wave10Order[3] = "R-0"
    /\ Wave10Order[4] = "R-1" /\ Wave10Order[5] = "R-2" /\ Wave10Order[6] = "R-3"
    /\ Wave10Order[7] = "R-4" /\ Wave10Order[8] = "R-5" /\ Wave10Order[9] = "R-6"
    /\ Wave10Order[10] = "R-9"
BY DEF FullOrder, Wave10Order

\* No gate occurs twice in a scope.
LEMMA OrderIsInjective ==
    /\ \A i, j \in DOMAIN FullOrder : FullOrder[i] = FullOrder[j] => i = j
    /\ \A i, j \in DOMAIN Wave10Order : Wave10Order[i] = Wave10Order[j] => i = j
BY ScopeOrders, SMTT(60)

\* The gates are those of the full scope, and the cleanup gate.
LEMMA GateNames ==
    /\ Gates = {"Q-ENTRY", "PRE-R0", "R-0", "R-1", "R-2", "R-3", "R-4", "R-5", "R-6", "R-7",
                "R-8", "R-9", "R-10", "R-11"}
    /\ \A i \in DOMAIN FullOrder : FullOrder[i] \in Gates \ {"R-11"}
    /\ \A i \in DOMAIN Wave10Order : Wave10Order[i] \in Gates \ {"R-11"}
<1>1. DOMAIN FullOrder = {1, 2, 3, 4, 5, 6, 7, 8, 9, 10, 11, 12, 13}
    BY ScopeOrders
<1>2. Gates = {"Q-ENTRY", "PRE-R0", "R-0", "R-1", "R-2", "R-3", "R-4", "R-5", "R-6", "R-7",
               "R-8", "R-9", "R-10", "R-11"}
    BY <1>1, ScopeOrders DEF Gates
<1>3. \A i \in DOMAIN FullOrder : FullOrder[i] \in Gates \ {"R-11"}
    BY <1>2, ScopeOrders
<1>4. \A i \in DOMAIN Wave10Order : Wave10Order[i] \in Gates \ {"R-11"}
    BY <1>2, ScopeOrders
<1>. QED  BY <1>2, <1>3, <1>4

\* The gate after the i-th one of the scope.
LEMMA NextGateAt ==
    ASSUME scope \in {"full-promotion", "wave10-worker-loss"},
           NEW i \in DOMAIN GateOrder
    PROVE  NextGate(GateOrder[i]) =
             IF i = Len(GateOrder) THEN "R-11" ELSE GateOrder[i + 1]
<1>0. GateOrder = FullOrder \/ GateOrder = Wave10Order
    BY DEF GateOrder
<1>1. Len(GateOrder) \in DOMAIN GateOrder /\ DOMAIN GateOrder \subseteq Nat
    BY <1>0, ScopeOrders
<1>2. \A j \in DOMAIN GateOrder : GateOrder[i] = GateOrder[j] => i = j
    BY <1>0, OrderIsInjective
<1>3. Index(GateOrder[i]) = i
    BY <1>2 DEF Index
<1>. QED  BY <1>1, <1>2, <1>3 DEF NextGate

\* The step of the report a step of the system makes: the gate goes on, it passes
\* or holds, or the cleanup gate ends.
GoesOn ==
  \E s \in Steps :
    /\ pc' = <<pc[1], s>> /\ UNCHANGED ctl
    /\ pc[1] = "R-11" => s # "done"
CleanupPasses ==
  /\ results' = [results EXCEPT !["R-11"] = "PASS"]
  /\ pc' = <<"R-11", "done">>
  /\ UNCHANGED <<scope, divergence>>
ReportStep ==
  \/ UNCHANGED <<pc, ctl>>
  \/ GoesOn
  \/ pc[1] # "R-11" /\ (Pass \/ Hold)
  \/ pc[1] = "R-11" /\ (HoldCleanup \/ CleanupPasses)

\* Every step of the controller ends in one of these, and the world leaves the report alone.
LEMMA StepsOfTheReport ==
    ASSUME GatesTypeOK, [GatesNext]_gatesVars
    PROVE  ReportStep
<1>. SUFFICES ASSUME GatesTypeOK, GatesNext \/ UNCHANGED gatesVars PROVE ReportStep
    OBVIOUS
<1>1. CASE qEntry
    BY <1>1 DEF qEntry, At, Goto, ReportStep, GoesOn, CleanupPasses, Steps, ctl
<1>2. CASE preR0
    BY <1>2 DEF preR0, At, Goto, ReportStep, GoesOn, CleanupPasses, Steps, ctl
<1>3. CASE ProbeUp("dns", "dns-up")
    BY <1>3 DEF ProbeUp, Starts, At, Goto, ReportStep, GoesOn, CleanupPasses, Steps, ctl
<1>4. CASE ProbeDown("dns", "tei-up")
    BY <1>4 DEF ProbeDown, Removes, At, Goto, ReportStep, GoesOn, CleanupPasses, Steps, ctl
<1>5. CASE ProbeUp("tei", "tei-up")
    BY <1>5 DEF ProbeUp, Starts, At, Goto, ReportStep, GoesOn, CleanupPasses, Steps, ctl
<1>6. CASE ProbeDown("tei", "end")
    BY <1>6 DEF ProbeDown, Removes, At, Goto, ReportStep, GoesOn, CleanupPasses, Steps, ctl
<1>7. CASE r0
    BY <1>7 DEF r0, At, Goto, ReportStep, GoesOn, CleanupPasses, Steps, ctl
<1>8. CASE r1
    BY <1>8 DEF r1, At, Goto, ReportStep, GoesOn, CleanupPasses, Steps, ctl
<1>9. CASE r2
    BY <1>9 DEF r2, At, Goto, ReportStep, GoesOn, CleanupPasses, Steps, ctl
<1>10. CASE r3Consumers
    BY <1>10 DEF r3Consumers, Starts, At, Goto, ReportStep, GoesOn, CleanupPasses, Steps,
       ctl
<1>11. CASE r3
    <2>1. pc[1] = "R-3"
        BY <1>11, Zenon DEF r3, At
    <2>2. Goto("image") \/ Pass \/ Hold
        BY <1>11, Zenon DEF r3
    <2>. QED  BY <2>1, <2>2 DEF Goto, ReportStep, GoesOn, Steps
<1>12. CASE buildConsumerEnv
    BY <1>12 DEF buildConsumerEnv, Starts, At, Goto, ReportStep, GoesOn, CleanupPasses,
       Steps, ctl
<1>13. CASE r4
    BY <1>13 DEF r4, ComposeUp, At, Goto, ReportStep, GoesOn, CleanupPasses, Steps, ctl
<1>14. CASE r5
    BY <1>14 DEF r5, Starts, At, Goto, ReportStep, GoesOn, CleanupPasses, Steps, ctl
<1>15. CASE r6
    BY <1>15 DEF r6, startQualifiedOpenCode, Starts, At, Goto, ReportStep, GoesOn,
       CleanupPasses, Steps, ctl
<1>16. CASE r7
    BY <1>16 DEF r7, sendWorkload, waitForRunId, waitForTerminalRun, Quiet, At, Goto,
       ReportStep, GoesOn, CleanupPasses, Steps, ctl
<1>17. CASE r8
    BY <1>17 DEF r8, waitForContinuationObserved, Quiet, At, Goto, ReportStep, GoesOn,
       CleanupPasses, Steps, ctl
<1>18. CASE r9Arm
    BY <1>18 DEF r9Arm, Recreate, Checks, sendWorkload, waitForRunId, Quiet, At, Goto,
       ReportStep, GoesOn, CleanupPasses, Steps, ctl
<1>19. CASE r9Boundary
    BY <1>19 DEF r9Boundary, At, Goto, ReportStep, GoesOn, CleanupPasses, Steps, ctl
<1>20. CASE r9Window
    BY <1>20 DEF r9Window, Quiet, At, Goto, ReportStep, GoesOn, CleanupPasses, Steps, ctl
<1>21. CASE r9Kill
    BY <1>21 DEF r9Kill, At, Goto, ReportStep, GoesOn, CleanupPasses, Steps, ctl
<1>22. CASE r9Expire
    BY <1>22 DEF r9Expire, Quiet, At, Goto, ReportStep, GoesOn, CleanupPasses, Steps, ctl
<1>23. CASE r9Replacement
    BY <1>23 DEF r9Replacement, Quiet, At, Goto, ReportStep, GoesOn, CleanupPasses, Steps,
       ctl
<1>24. CASE r9Receipt
    BY <1>24 DEF r9Receipt, Quiet, At, Goto, ReportStep, GoesOn, CleanupPasses, Steps, ctl
<1>25. CASE r9ReplacementBehavior
    BY <1>25 DEF r9ReplacementBehavior, Quiet, At, Goto, ReportStep, GoesOn, CleanupPasses,
       Steps, ctl
<1>26. CASE r9Evidence
    BY <1>26 DEF r9Evidence, waitForTerminalRun, Quiet, At, Goto, ReportStep, GoesOn,
       CleanupPasses, Steps, ctl
<1>27. CASE r9Disarm
    BY <1>27 DEF r9Disarm, Recreate, Checks, Quiet, At, Goto, ReportStep, GoesOn,
       CleanupPasses, Steps, ctl
<1>28. CASE r10
    BY <1>28 DEF r10, r10Restarts, Checks, sendWorkload, waitForRunId,
       waitForR10PreOutageBoundary, r10Outage, Removes, r10Deferred, waitForTerminalRun,
       startQualifiedOpenCode, Starts, waitForContinuationObserved, Quiet, At, Goto,
       ReportStep, GoesOn, CleanupPasses, Steps, ctl
<1>29. CASE cleanupHosts
    BY <1>29 DEF cleanupHosts, At, Goto, ReportStep, GoesOn, CleanupPasses, Steps, ctl
<1>30. CASE cleanupStack
    BY <1>30 DEF cleanupStack, At, Goto, ReportStep, GoesOn, CleanupPasses, Steps, ctl
<1>31. CASE cleanupDirectory("auth", "consumers")
    BY <1>31 DEF cleanupDirectory, At, Goto, ReportStep, GoesOn, CleanupPasses, Steps, ctl
<1>32. CASE cleanupDirectory("consumers", "source")
    BY <1>32 DEF cleanupDirectory, At, Goto, ReportStep, GoesOn, CleanupPasses, Steps, ctl
<1>33. CASE cleanupSource
    BY <1>33 DEF cleanupSource, At, Goto, ReportStep, GoesOn, CleanupPasses, Steps, ctl
<1>34. CASE SourceMoves
    BY <1>34 DEF SourceMoves, Env, At, Goto, ReportStep, GoesOn, CleanupPasses, Steps, ctl
<1>35. CASE HostDies
    BY <1>35 DEF HostDies, Env, At, Goto, ReportStep, GoesOn, CleanupPasses, Steps, ctl
<1>36. CASE RunMoves
    BY <1>36 DEF RunMoves, Env, At, Goto, ReportStep, GoesOn, CleanupPasses, Steps, ctl
<1>37. CASE DeliveryMoves
    BY <1>37 DEF DeliveryMoves, Env, At, Goto, ReportStep, GoesOn, CleanupPasses, Steps, ctl
<1>38. CASE ExecutorMoves
    BY <1>38 DEF ExecutorMoves, Env, At, Goto, ReportStep, GoesOn, CleanupPasses, Steps, ctl
<1>39. CASE ResultApplied
    BY <1>39 DEF ResultApplied, Env, At, Goto, ReportStep, GoesOn, CleanupPasses, Steps, ctl
<1>40. CASE Recovery
    BY <1>40 DEF Recovery, Env, At, Goto, ReportStep, GoesOn, CleanupPasses, Steps, ctl
<1>41. CASE ServiceDies
    BY <1>41 DEF ServiceDies, Env, At, Goto, ReportStep, GoesOn, CleanupPasses, Steps, ctl
<1>42. CASE UNCHANGED gatesVars
    BY <1>42 DEF gatesVars, ctl, held, world, At, Goto, ReportStep, GoesOn, CleanupPasses,
       Steps, ctl
<1>. QED  BY <1>1, <1>2, <1>3, <1>4, <1>5, <1>6, <1>7, <1>8, <1>9, <1>10, <1>11, <1>12,
             <1>13, <1>14, <1>15, <1>16, <1>17, <1>18, <1>19, <1>20, <1>21, <1>22, <1>23,
             <1>24, <1>25, <1>26, <1>27, <1>28, <1>29, <1>30, <1>31, <1>32, <1>33, <1>34,
             <1>35, <1>36, <1>37, <1>38, <1>39, <1>40, <1>41, <1>42
          DEF GatesNext, Controller, preR0Networking, cleanup, Finished

\* What the order of a scope is used for below.
LEMMA OrderFacts ==
    ASSUME scope \in {"full-promotion", "wave10-worker-loss"}
    PROVE  /\ Len(GateOrder) \in DOMAIN GateOrder /\ Len(GateOrder) \in Nat
           /\ \A i \in DOMAIN GateOrder : i \in Nat /\ 1 <= i /\ i <= Len(GateOrder)
           /\ \A i \in DOMAIN GateOrder : i # Len(GateOrder) => i + 1 \in DOMAIN GateOrder
           /\ \A i, j \in DOMAIN GateOrder : GateOrder[i] = GateOrder[j] => i = j
           /\ \A i \in DOMAIN GateOrder : GateOrder[i] \in Gates \ {"R-11"}
           /\ \A i \in DOMAIN GateOrder :
                GateOrder[i] \in {"R-7", "R-8", "R-10"} => scope = "full-promotion"
<1>1. CASE scope = "full-promotion"
    <2>1. GateOrder = FullOrder
        BY <1>1 DEF GateOrder
    <2>. QED  BY <1>1, <2>1, ScopeOrders, OrderIsInjective, GateNames
<1>2. CASE scope = "wave10-worker-loss"
    <2>1. GateOrder = Wave10Order
        BY <1>2 DEF GateOrder
    <2>2. \A i \in DOMAIN Wave10Order : Wave10Order[i] \notin {"R-7", "R-8", "R-10"}
        BY ScopeOrders
    <2>. QED  BY <2>1, <2>2, ScopeOrders, OrderIsInjective, GateNames
<1>. QED  BY <1>1, <1>2

\* The gates pass in the order of the scope: the part of the induction that is
\* about the report alone.
LEMMA ReportInduction ==
    ASSUME ReportTypes, OrderInv, ReportStep
    PROVE  ReportTypes' /\ OrderInv'
<1>. DEFINE Verdicts == {"PENDING", "PASS", "HOLD", "NOT RUN"}
<1>t. /\ scope \in {"full-promotion", "wave10-worker-loss"}
      /\ results \in [Gates -> Verdicts] /\ divergence \in Gates \cup {None}
    BY DEF ReportTypes
<1>0. /\ pc[1] \in Gates /\ pc[2] \in Steps /\ pc = <<pc[1], pc[2]>>
      /\ "R-11" \in Gates /\ "R-10" \in Gates
    <2>1. pc \in Gates \X Steps
        BY DEF ReportTypes
    <2>3. pc[1] \in Gates /\ pc[2] \in Steps /\ pc = <<pc[1], pc[2]>>
        BY <2>1
    <2>2. "R-11" \in Gates /\ "R-10" \in Gates
        BY GateNames
    <2>. QED  BY <1>t, <2>2, <2>3
<1>1. CASE UNCHANGED <<pc, ctl>>
    BY <1>t, <1>1 DEF ctl, ReportTypes, OrderInv, GateOrder, Over, At
<1>2. CASE GoesOn
    <2>1. PICK s \in Steps : /\ pc' = <<pc[1], s>> /\ UNCHANGED ctl
                             /\ pc[1] = "R-11" => s # "done"
        BY <1>2 DEF GoesOn
    <2>2. pc'[1] = pc[1] /\ pc'[2] = s
        BY <2>1
    <2>3. GateOrder' = GateOrder /\ ~Over'
        BY <2>1, <2>2 DEF GateOrder, Over, At, ctl
    <2>4. ReportTypes'
        BY <1>t, <1>0, <2>1 DEF ctl, ReportTypes
    <2>. QED  BY <2>1, <2>2, <2>3, <2>4 DEF ctl, OrderInv
<1>3. CASE pc[1] # "R-11" /\ Pass
    <2>1. PICK i \in DOMAIN GateOrder : pc[1] = GateOrder[i]
        BY <1>3 DEF OrderInv
    <2>2. /\ scope' = scope /\ divergence' = divergence /\ divergence = None
          /\ results' = [results EXCEPT ![pc[1]] = "PASS"]
          /\ pc' = <<NextGate(pc[1]), "enter">> /\ GateOrder' = GateOrder
        BY <1>3 DEF Pass, GateOrder, OrderInv
    <2>3. NextGate(pc[1]) = IF i = Len(GateOrder) THEN "R-11" ELSE GateOrder[i + 1]
        BY <1>t, <2>1, NextGateAt
    <2>4. /\ i # Len(GateOrder) => i + 1 \in DOMAIN GateOrder
          /\ i \in Nat /\ i <= Len(GateOrder)
        BY <1>t, <2>1, OrderFacts
    <2>5. /\ pc'[1] = NextGate(pc[1]) /\ pc'[2] = "enter" /\ NextGate(pc[1]) \in Gates
          /\ ~Over'
        BY <1>t, <1>0, <2>2, <2>3, <2>4, OrderFacts DEF Over, At
    <2>6. ReportTypes'
        BY <1>t, <1>0, <2>2, <2>5 DEF Steps, ReportTypes
    <2>7. \A j \in DOMAIN GateOrder :
            results'[GateOrder[j]] = IF j < i + 1 THEN "PASS" ELSE "PENDING"
        <3>. SUFFICES ASSUME NEW j \in DOMAIN GateOrder
                      PROVE  results'[GateOrder[j]] = IF j < i + 1 THEN "PASS" ELSE "PENDING"
            OBVIOUS
        <3>1. results[GateOrder[j]] = IF j < i THEN "PASS" ELSE "PENDING"
            BY <2>1 DEF OrderInv
        <3>2. i \in Nat /\ j \in Nat /\ GateOrder[j] \in Gates
            BY <1>t, <2>1, OrderFacts
        <3>3. CASE j = i
            <4>1. results'[GateOrder[j]] = "PASS"
                BY <1>t, <3>2, <3>3, <2>1, <2>2
            <4>2. j < i + 1
                BY <3>2, <3>3
            <4>. QED  BY <4>1, <4>2
        <3>4. CASE j # i
            <4>1. results'[GateOrder[j]] = results[GateOrder[j]]
                BY <1>t, <3>4, <3>2, <2>1, <2>2, OrderFacts
            <4>2. (j < i + 1) <=> (j < i)
                BY <3>2, <3>4
            <4>. QED  BY <4>1, <4>2, <3>1
        <3>. QED  BY <3>3, <3>4
    <2>8. results'["R-10"] = "PASS" => scope = "full-promotion"
        <3>1. CASE pc[1] = "R-10"
            BY <1>t, <3>1, <2>1, OrderFacts
        <3>2. CASE pc[1] # "R-10"
            BY <1>t, <3>2, <1>0, <2>2 DEF OrderInv
        <3>. QED  BY <3>1, <3>2
    <2>9. CASE i = Len(GateOrder)
        <3>1. \A j \in DOMAIN GateOrder : j < i + 1
            <4>1. /\ Len(GateOrder) \in Nat
                  /\ \A j \in DOMAIN GateOrder : j \in Nat /\ j <= Len(GateOrder)
                BY <1>t, OrderFacts
            <4>. QED  BY <2>9, <4>1
        <3>2. pc'[1] = "R-11" /\ \A j \in DOMAIN GateOrder : GateOrder[j] # "R-11"
            BY <1>t, <2>9, <2>5, <2>3, OrderFacts
        <3>. QED  BY <3>1, <3>2, <2>2, <2>5, <2>6, <2>7, <2>8 DEF OrderInv
    <2>10. CASE i # Len(GateOrder)
        <3>1. i + 1 \in DOMAIN GateOrder /\ pc'[1] = GateOrder[i + 1] /\ pc'[1] # "R-11"
            BY <1>t, <2>10, <2>1, <2>3, <2>4, <2>5, OrderFacts
        <3>2. \A k \in DOMAIN GateOrder : pc'[1] = GateOrder[k] => k = i + 1
            BY <1>t, <3>1, OrderFacts
        <3>. QED  BY <3>1, <3>2, <2>2, <2>5, <2>6, <2>7, <2>8 DEF OrderInv
    <2>. QED  BY <2>9, <2>10
<1>4. CASE pc[1] # "R-11" /\ Hold
    <2>1. /\ scope' = scope /\ GateOrder' = GateOrder /\ pc' = <<"R-11", "enter">>
          /\ divergence' = pc[1] /\ divergence' # None /\ divergence' \in Gates
        BY <1>t, <1>4, <1>0, GateNames DEF Hold, GateOrder, OrderInv, None
    <2>2. results' = [g \in Gates |->
            IF g = pc[1] THEN "HOLD"
            ELSE IF g # "R-11" /\ results[g] = "PENDING" THEN "NOT RUN" ELSE results[g]]
        BY <1>4 DEF Hold
    <2>3. results' \in [Gates -> Verdicts]
        BY <1>t, <2>2
    <2>4. ReportTypes' /\ pc'[1] = "R-11" /\ pc'[2] = "enter" /\ ~Over'
        BY <1>t, <1>0, <2>1, <2>3 DEF Steps, Over, At, ReportTypes
    <2>5. results'["R-10"] = "PASS" => scope = "full-promotion"
        BY <1>t, <1>0, <2>2 DEF OrderInv
    <2>. QED  BY <1>t, <2>1, <2>4, <2>5, OrderFacts DEF OrderInv
<1>5. CASE pc[1] = "R-11" /\ HoldCleanup
    <2>1. /\ scope' = scope /\ GateOrder' = GateOrder /\ pc' = <<"R-11", "done">>
          /\ divergence' # None /\ divergence' \in Gates
          /\ results' = [results EXCEPT !["R-11"] = "HOLD"]
        BY <1>t, <1>5, <1>0 DEF HoldCleanup, GateOrder, None
    <2>2. ReportTypes' /\ pc'[1] = "R-11"
        BY <1>t, <1>0, <2>1 DEF Steps, ReportTypes
    <2>. QED  BY <1>t, <1>0, <2>1, <2>2, OrderFacts DEF OrderInv
<1>6. CASE pc[1] = "R-11" /\ CleanupPasses
    <2>1. /\ scope' = scope /\ GateOrder' = GateOrder /\ pc' = <<"R-11", "done">>
          /\ divergence' = divergence /\ results' = [results EXCEPT !["R-11"] = "PASS"]
        BY <1>6 DEF CleanupPasses, GateOrder
    <2>2. ReportTypes' /\ pc'[1] = "R-11"
        BY <1>t, <1>0, <2>1 DEF Steps, ReportTypes
    <2>3. \A j \in DOMAIN GateOrder :
            GateOrder[j] \in Gates \ {"R-11"} /\ results'[GateOrder[j]] = results[GateOrder[j]]
        BY <1>t, <2>1, OrderFacts
    <2>. QED  BY <1>t, <1>0, <1>6, <2>1, <2>2, <2>3 DEF OrderInv
<1>. QED  BY <1>1, <1>2, <1>3, <1>4, <1>5, <1>6 DEF ReportStep

\* The checkout, the recorded identity and the locals of the gates keep their types.
LEMMA SourceTypesStep ==
    ASSUME GatesTypeOK, [GatesNext]_gatesVars
    PROVE  SourceTypes'
<1>. SUFFICES ASSUME GatesTypeOK, GatesNext \/ UNCHANGED gatesVars PROVE SourceTypes'
    OBVIOUS
<1>t. SourceTypes /\ WorldTypes
    BY DEF GatesTypeOK
<1>1. CASE qEntry
    BY <1>1, <1>t DEF qEntry, SourceTypes, held, world
<1>2. CASE preR0
    BY <1>2, <1>t DEF preR0, SourceTypes, IdentityRecord, SeenRecord
<1>3. CASE ProbeUp("dns", "dns-up")
    BY <1>3, <1>t DEF ProbeUp, Starts, SourceTypes, held, world
<1>4. CASE ProbeDown("dns", "tei-up")
    BY <1>4, <1>t DEF ProbeDown, Removes, SourceTypes, held, world
<1>5. CASE ProbeUp("tei", "tei-up")
    BY <1>5, <1>t DEF ProbeUp, Starts, SourceTypes, held, world
<1>6. CASE ProbeDown("tei", "end")
    BY <1>6, <1>t DEF ProbeDown, Removes, SourceTypes, held, world
<1>7. CASE r0
    <2>1. TreeSha256 \in Trees
        BY <1>t DEF TreeSha256, Trees, SourceTypes
    <2>2. /\ src' = src
          /\ identity' = identity \/ identity' = [identity EXCEPT !.head = seen.read, !.tree = {TreeSha256}]
          /\ seen' = seen \/ seen' = [seen EXCEPT !.read = {src.head}]
        BY <1>7, Zenon DEF r0
    <2>3. /\ [identity EXCEPT !.head = seen.read, !.tree = {TreeSha256}] \in IdentityRecord
          /\ [seen EXCEPT !.read = {src.head}] \in SeenRecord
        BY <1>t, <2>1 DEF SourceTypes, IdentityRecord, SeenRecord
    <2>. QED  BY <1>t, <2>2, <2>3 DEF SourceTypes
<1>8. CASE r1
    BY <1>8, <1>t DEF r1, SourceTypes, held, world
<1>9. CASE r2
    BY <1>9, <1>t DEF r2, SourceTypes, held, world
<1>10. CASE r3Consumers
    BY <1>10, <1>t DEF r3Consumers, Starts, SourceTypes, held, world
<1>11. CASE r3
    <2>1. <<src.head, FALSE>> \in Trees
        BY <1>t DEF Trees, SourceTypes
    <2>2. /\ src' = src /\ seen' = seen
          /\ identity' = identity \/ identity' = [identity EXCEPT !.sub = {<<src.head, FALSE>>}]
        BY <1>11, Zenon DEF r3
    <2>3. [identity EXCEPT !.sub = {<<src.head, FALSE>>}] \in IdentityRecord
        BY <1>t, <2>1 DEF SourceTypes, IdentityRecord
    <2>. QED  BY <1>t, <2>2, <2>3 DEF SourceTypes
<1>12. CASE buildConsumerEnv
    BY <1>12, <1>t DEF buildConsumerEnv, Starts, SourceTypes, held, world
<1>13. CASE r4
    BY <1>13, <1>t DEF r4, ComposeUp, SourceTypes, held, world
<1>14. CASE r5
    BY <1>14, <1>t DEF r5, Starts, SourceTypes, held, world
<1>15. CASE r6
    BY <1>15, <1>t DEF r6, startQualifiedOpenCode, Starts, SourceTypes, held, world
<1>16. CASE r7
    BY <1>16, <1>t DEF r7, sendWorkload, waitForRunId, waitForTerminalRun, Quiet,
       SourceTypes, held, world
<1>17. CASE r8
    BY <1>17, <1>t DEF r8, waitForContinuationObserved, Quiet, SourceTypes, held, world
<1>18. CASE r9Arm
    BY <1>18, <1>t DEF r9Arm, Recreate, Checks, sendWorkload, waitForRunId, Quiet,
       SourceTypes, held, world
<1>19. CASE r9Boundary
    BY <1>19, <1>t DEF r9Boundary, SourceTypes, SeenRecord, WorldTypes, TaskRecord
<1>20. CASE r9Window
    BY <1>20, <1>t DEF r9Window, Quiet, SourceTypes, SeenRecord, WorldTypes, TaskRecord
<1>21. CASE r9Kill
    BY <1>21, <1>t DEF r9Kill, SourceTypes, SeenRecord
<1>22. CASE r9Expire
    BY <1>22, <1>t DEF r9Expire, Quiet, SourceTypes, held, world
<1>23. CASE r9Replacement
    BY <1>23, <1>t DEF r9Replacement, Quiet, SourceTypes, held, world
<1>24. CASE r9Receipt
    BY <1>24, <1>t DEF r9Receipt, Quiet, SourceTypes, held, world
<1>25. CASE r9ReplacementBehavior
    BY <1>25, <1>t DEF r9ReplacementBehavior, Quiet, SourceTypes, held, world
<1>26. CASE r9Evidence
    BY <1>26, <1>t DEF r9Evidence, waitForTerminalRun, Quiet, SourceTypes, held, world
<1>27. CASE r9Disarm
    BY <1>27, <1>t DEF r9Disarm, Recreate, Checks, Quiet, SourceTypes, held, world
<1>28. CASE r10
    BY <1>28, <1>t DEF r10, r10Restarts, Checks, sendWorkload, waitForRunId,
       waitForR10PreOutageBoundary, r10Outage, Removes, r10Deferred, waitForTerminalRun,
       startQualifiedOpenCode, Starts, waitForContinuationObserved, Quiet, SourceTypes,
       held, world
<1>29. CASE cleanupHosts
    BY <1>29, <1>t DEF cleanupHosts, SourceTypes, held, world
<1>30. CASE cleanupStack
    BY <1>30, <1>t DEF cleanupStack, SourceTypes, held, world
<1>31. CASE cleanupDirectory("auth", "consumers")
    BY <1>31, <1>t DEF cleanupDirectory, SourceTypes, held, world
<1>32. CASE cleanupDirectory("consumers", "source")
    BY <1>32, <1>t DEF cleanupDirectory, SourceTypes, held, world
<1>33. CASE cleanupSource
    <2>1. TreeSha256 \in Trees
        BY <1>t DEF TreeSha256, Trees, SourceTypes
    <2>2. src' = src /\ seen' = seen /\ identity' = [identity EXCEPT !.post = {TreeSha256}]
        BY <1>33 DEF cleanupSource
    <2>. QED  BY <1>t, <2>1, <2>2 DEF SourceTypes, IdentityRecord
<1>34. CASE SourceMoves
    <2>1. [src EXCEPT !.dirty = TRUE] \in [head : {0, 1}, dirty : BOOLEAN]
        BY <1>t DEF SourceTypes
    <2>2. /\ [src EXCEPT !.head = 1] \in [head : {0, 1}, dirty : BOOLEAN]
          /\ [head |-> 0, dirty |-> FALSE] \in [head : {0, 1}, dirty : BOOLEAN]
        BY <1>t DEF SourceTypes
    <2>3. src' \in {[src EXCEPT !.head = 1], [src EXCEPT !.dirty = TRUE], [head |-> 0, dirty |-> FALSE]}
        BY <1>34 DEF SourceMoves
    <2>4. identity' = identity /\ seen' = seen
        BY <1>34 DEF SourceMoves, Env
    <2>. QED  BY <1>t, <2>1, <2>2, <2>3, <2>4 DEF SourceTypes
<1>35. CASE HostDies
    BY <1>35, <1>t DEF HostDies, Env, SourceTypes, held, world
<1>36. CASE RunMoves
    BY <1>36, <1>t DEF RunMoves, Env, SourceTypes, held, world
<1>37. CASE DeliveryMoves
    BY <1>37, <1>t DEF DeliveryMoves, Env, SourceTypes, held, world
<1>38. CASE ExecutorMoves
    BY <1>38, <1>t DEF ExecutorMoves, Env, SourceTypes, held, world
<1>39. CASE ResultApplied
    BY <1>39, <1>t DEF ResultApplied, Env, SourceTypes, held, world
<1>40. CASE Recovery
    BY <1>40, <1>t DEF Recovery, Env, SourceTypes, held, world
<1>41. CASE ServiceDies
    BY <1>41, <1>t DEF ServiceDies, Env, SourceTypes, held, world
<1>42. CASE UNCHANGED gatesVars
    BY <1>42, <1>t DEF gatesVars, ctl, held, world, SourceTypes, held, world
<1>. QED  BY <1>1, <1>2, <1>3, <1>4, <1>5, <1>6, <1>7, <1>8, <1>9, <1>10, <1>11, <1>12,
             <1>13, <1>14, <1>15, <1>16, <1>17, <1>18, <1>19, <1>20, <1>21, <1>22, <1>23,
             <1>24, <1>25, <1>26, <1>27, <1>28, <1>29, <1>30, <1>31, <1>32, <1>33, <1>34,
             <1>35, <1>36, <1>37, <1>38, <1>39, <1>40, <1>41, <1>42
          DEF GatesNext, Controller, preR0Networking, cleanup, Finished

\* The resources that exist, are named, could not be removed or are armed are
\* resources and containers of the controller's.
LEMMA HeldTypesStep ==
    ASSUME GatesTypeOK, [GatesNext]_gatesVars
    PROVE  HeldTypes'
<1>. SUFFICES ASSUME GatesTypeOK, GatesNext \/ UNCHANGED gatesVars PROVE HeldTypes'
    OBVIOUS
<1>t. HeldTypes
    BY DEF GatesTypeOK
<1>1. CASE qEntry
    BY <1>1, <1>t DEF qEntry, HeldTypes, Resources, held, world
<1>2. CASE preR0
    BY <1>2, <1>t DEF preR0, HeldTypes, Resources, held, world
<1>3. CASE ProbeUp("dns", "dns-up")
    BY <1>3, <1>t DEF ProbeUp, Starts, HeldTypes, Resources, held, world
<1>4. CASE ProbeDown("dns", "tei-up")
    BY <1>4, <1>t DEF ProbeDown, Removes, HeldTypes, Resources, held, world
<1>5. CASE ProbeUp("tei", "tei-up")
    BY <1>5, <1>t DEF ProbeUp, Starts, HeldTypes, Resources, held, world
<1>6. CASE ProbeDown("tei", "end")
    BY <1>6, <1>t DEF ProbeDown, Removes, HeldTypes, Resources, held, world
<1>7. CASE r0
    BY <1>7, <1>t DEF r0, HeldTypes, Resources, held, world
<1>8. CASE r1
    BY <1>8, <1>t DEF r1, HeldTypes, Resources, held, world
<1>9. CASE r2
    BY <1>9, <1>t DEF r2, HeldTypes, Resources, held, world
<1>10. CASE r3Consumers
    BY <1>10, <1>t DEF r3Consumers, Starts, HeldTypes, Resources, held, world
<1>11. CASE r3
    BY <1>11, <1>t DEF r3, HeldTypes, Resources, held, world
<1>12. CASE buildConsumerEnv
    BY <1>12, <1>t DEF buildConsumerEnv, Starts, HeldTypes, Resources, held, world
<1>13. CASE r4
    BY <1>13, <1>t DEF r4, ComposeUp, HeldTypes, Resources, held, world
<1>14. CASE r5
    BY <1>14, <1>t DEF r5, Starts, HeldTypes, Resources, held, world
<1>15. CASE r6
    BY <1>15, <1>t DEF r6, startQualifiedOpenCode, Starts, HeldTypes, Resources, held, world
<1>16. CASE r7
    BY <1>16, <1>t DEF r7, sendWorkload, waitForRunId, waitForTerminalRun, Quiet, HeldTypes,
       Resources, held, world
<1>17. CASE r8
    BY <1>17, <1>t DEF r8, waitForContinuationObserved, Quiet, HeldTypes, Resources, held,
       world
<1>18. CASE r9Arm
    <2>1. /\ live' = live /\ handle' = handle /\ kept' = kept
          /\ \E service \in {"context", "worker"} :
               armed' = armed \cup {service} \/ armed' = armed
        BY <1>18 DEF r9Arm, Recreate, Checks, sendWorkload, waitForRunId, Quiet, held
    <2>. QED  BY <2>1, <1>t DEF HeldTypes
<1>19. CASE r9Boundary
    BY <1>19, <1>t DEF r9Boundary, HeldTypes, Resources, held, world
<1>20. CASE r9Window
    BY <1>20, <1>t DEF r9Window, Quiet, HeldTypes, Resources, held, world
<1>21. CASE r9Kill
    BY <1>21, <1>t DEF r9Kill, HeldTypes, Resources, held, world
<1>22. CASE r9Expire
    BY <1>22, <1>t DEF r9Expire, Quiet, HeldTypes, Resources, held, world
<1>23. CASE r9Replacement
    BY <1>23, <1>t DEF r9Replacement, Quiet, HeldTypes, Resources, held, world
<1>24. CASE r9Receipt
    BY <1>24, <1>t DEF r9Receipt, Quiet, HeldTypes, Resources, held, world
<1>25. CASE r9ReplacementBehavior
    BY <1>25, <1>t DEF r9ReplacementBehavior, Quiet, HeldTypes, Resources, held, world
<1>26. CASE r9Evidence
    BY <1>26, <1>t DEF r9Evidence, waitForTerminalRun, Quiet, HeldTypes, Resources, held,
       world
<1>27. CASE r9Disarm
    <2>1. /\ live' = live /\ handle' = handle /\ kept' = kept
          /\ \E service \in {"context", "worker"} :
               armed' = armed \ {service} \/ armed' = armed
        BY <1>27 DEF r9Disarm, Recreate, Checks, Quiet, held
    <2>. QED  BY <2>1, <1>t DEF HeldTypes
<1>28. CASE r10
    BY <1>28, <1>t DEF r10, r10Restarts, Checks, sendWorkload, waitForRunId,
       waitForR10PreOutageBoundary, r10Outage, Removes, r10Deferred, waitForTerminalRun,
       startQualifiedOpenCode, Starts, waitForContinuationObserved, Quiet, HeldTypes,
       Resources, held, world
<1>29. CASE cleanupHosts
    BY <1>29, <1>t DEF cleanupHosts, HeldTypes
<1>30. CASE cleanupStack
    BY <1>30, <1>t DEF cleanupStack, HeldTypes, Resources, held, world
<1>31. CASE cleanupDirectory("auth", "consumers")
    BY <1>31, <1>t DEF cleanupDirectory, HeldTypes, Resources, held, world
<1>32. CASE cleanupDirectory("consumers", "source")
    BY <1>32, <1>t DEF cleanupDirectory, HeldTypes, Resources, held, world
<1>33. CASE cleanupSource
    BY <1>33, <1>t DEF cleanupSource, HeldTypes, Resources, held, world
<1>34. CASE SourceMoves
    BY <1>34, <1>t DEF SourceMoves, Env, HeldTypes, Resources, held, world
<1>35. CASE HostDies
    BY <1>35, <1>t DEF HostDies, Env, HeldTypes, Resources, held, world
<1>36. CASE RunMoves
    BY <1>36, <1>t DEF RunMoves, Env, HeldTypes, Resources, held, world
<1>37. CASE DeliveryMoves
    BY <1>37, <1>t DEF DeliveryMoves, Env, HeldTypes, Resources, held, world
<1>38. CASE ExecutorMoves
    BY <1>38, <1>t DEF ExecutorMoves, Env, HeldTypes, Resources, held, world
<1>39. CASE ResultApplied
    BY <1>39, <1>t DEF ResultApplied, Env, HeldTypes, Resources, held, world
<1>40. CASE Recovery
    BY <1>40, <1>t DEF Recovery, Env, HeldTypes, Resources, held, world
<1>41. CASE ServiceDies
    BY <1>41, <1>t DEF ServiceDies, Env, HeldTypes, Resources, held, world
<1>42. CASE UNCHANGED gatesVars
    BY <1>42, <1>t DEF gatesVars, ctl, held, world, HeldTypes, Resources, held, world
<1>. QED  BY <1>1, <1>2, <1>3, <1>4, <1>5, <1>6, <1>7, <1>8, <1>9, <1>10, <1>11, <1>12,
             <1>13, <1>14, <1>15, <1>16, <1>17, <1>18, <1>19, <1>20, <1>21, <1>22, <1>23,
             <1>24, <1>25, <1>26, <1>27, <1>28, <1>29, <1>30, <1>31, <1>32, <1>33, <1>34,
             <1>35, <1>36, <1>37, <1>38, <1>39, <1>40, <1>41, <1>42
          DEF GatesNext, Controller, preR0Networking, cleanup, Finished

\* The number of disturbances stays within its bound.
LEMMA DisturbancesStep ==
    ASSUME GatesTypeOK, [GatesNext]_gatesVars
    PROVE  disturbances' \in 0 .. DisturbanceBound
<1>. SUFFICES ASSUME GatesTypeOK, GatesNext \/ UNCHANGED gatesVars
              PROVE  disturbances' \in 0 .. DisturbanceBound
    OBVIOUS
<1>t. disturbances \in 0 .. DisturbanceBound
    BY DEF GatesTypeOK
<1>d. OneMoreDisturbance => disturbances' \in 0 .. DisturbanceBound
    BY <1>t, DisturbanceAssumption DEF OneMoreDisturbance
<1>1. CASE qEntry
    BY <1>1, <1>t, <1>d DEF qEntry, held, world
<1>2. CASE preR0
    BY <1>2, <1>t, <1>d DEF preR0, held, world
<1>3. CASE ProbeUp("dns", "dns-up")
    BY <1>3, <1>t, <1>d DEF ProbeUp, Starts, held, world
<1>4. CASE ProbeDown("dns", "tei-up")
    BY <1>4, <1>t, <1>d DEF ProbeDown, Removes, held, world
<1>5. CASE ProbeUp("tei", "tei-up")
    BY <1>5, <1>t, <1>d DEF ProbeUp, Starts, held, world
<1>6. CASE ProbeDown("tei", "end")
    BY <1>6, <1>t, <1>d DEF ProbeDown, Removes, held, world
<1>7. CASE r0
    BY <1>7, <1>t, <1>d DEF r0, held, world
<1>8. CASE r1
    BY <1>8, <1>t, <1>d DEF r1, held, world
<1>9. CASE r2
    BY <1>9, <1>t, <1>d DEF r2, held, world
<1>10. CASE r3Consumers
    BY <1>10, <1>t, <1>d DEF r3Consumers, Starts, held, world
<1>11. CASE r3
    BY <1>11, <1>t, <1>d DEF r3, held, world
<1>12. CASE buildConsumerEnv
    BY <1>12, <1>t, <1>d DEF buildConsumerEnv, Starts, held, world
<1>13. CASE r4
    BY <1>13, <1>t, <1>d DEF r4, ComposeUp, held, world
<1>14. CASE r5
    BY <1>14, <1>t, <1>d DEF r5, Starts, held, world
<1>15. CASE r6
    BY <1>15, <1>t, <1>d DEF r6, startQualifiedOpenCode, Starts, held, world
<1>16. CASE r7
    BY <1>16, <1>t, <1>d DEF r7, sendWorkload, waitForRunId, waitForTerminalRun, Quiet,
       held, world
<1>17. CASE r8
    BY <1>17, <1>t, <1>d DEF r8, waitForContinuationObserved, Quiet, held, world
<1>18. CASE r9Arm
    BY <1>18, <1>t, <1>d DEF r9Arm, Recreate, Checks, sendWorkload, waitForRunId, Quiet,
       held, world
<1>19. CASE r9Boundary
    BY <1>19, <1>t, <1>d DEF r9Boundary, held, world
<1>20. CASE r9Window
    BY <1>20, <1>t, <1>d DEF r9Window, Quiet, held, world
<1>21. CASE r9Kill
    BY <1>21, <1>t, <1>d DEF r9Kill, held, world
<1>22. CASE r9Expire
    BY <1>22, <1>t, <1>d DEF r9Expire, Quiet, held, world
<1>23. CASE r9Replacement
    BY <1>23, <1>t, <1>d DEF r9Replacement, Quiet, held, world
<1>24. CASE r9Receipt
    BY <1>24, <1>t, <1>d DEF r9Receipt, Quiet, held, world
<1>25. CASE r9ReplacementBehavior
    BY <1>25, <1>t, <1>d DEF r9ReplacementBehavior, Quiet, held, world
<1>26. CASE r9Evidence
    BY <1>26, <1>t, <1>d DEF r9Evidence, waitForTerminalRun, Quiet, held, world
<1>27. CASE r9Disarm
    BY <1>27, <1>t, <1>d DEF r9Disarm, Recreate, Checks, Quiet, held, world
<1>28. CASE r10
    BY <1>28, <1>t, <1>d DEF r10, r10Restarts, Checks, sendWorkload, waitForRunId,
       waitForR10PreOutageBoundary, r10Outage, Removes, r10Deferred, waitForTerminalRun,
       startQualifiedOpenCode, Starts, waitForContinuationObserved, Quiet, held, world
<1>29. CASE cleanupHosts
    <2>1. PICK stuck \in SUBSET (handle \cap live \cap {"opencode", "headroom", "dns", "tei"}) :
            /\ Cardinality(stuck) + disturbances <= DisturbanceBound
            /\ disturbances' = disturbances + Cardinality(stuck)
        BY <1>29 DEF cleanupHosts
    <2>2. IsFiniteSet({"opencode", "headroom", "dns", "tei"})
        <3>1. IsFiniteSet({"opencode"})
            BY FS_Singleton
        <3>2. IsFiniteSet({"opencode"} \cup {"headroom"})
            BY <3>1, FS_AddElement
        <3>3. IsFiniteSet(({"opencode"} \cup {"headroom"}) \cup {"dns"})
            BY <3>2, FS_AddElement
        <3>4. IsFiniteSet((({"opencode"} \cup {"headroom"}) \cup {"dns"}) \cup {"tei"})
            BY <3>3, FS_AddElement
        <3>5. {"opencode", "headroom", "dns", "tei"} =
                (({"opencode"} \cup {"headroom"}) \cup {"dns"}) \cup {"tei"}
            OBVIOUS
        <3>. QED  BY <3>4, <3>5
    <2>3. IsFiniteSet(stuck)
        BY <2>2, FS_Subset
    <2>4. Cardinality(stuck) \in Nat
        BY <2>3, FS_CardinalityType
    <2>. QED  BY <2>1, <2>4, <1>t, DisturbanceAssumption
<1>30. CASE cleanupStack
    BY <1>30, <1>t, <1>d DEF cleanupStack, held, world
<1>31. CASE cleanupDirectory("auth", "consumers")
    BY <1>31, <1>t, <1>d DEF cleanupDirectory, held, world
<1>32. CASE cleanupDirectory("consumers", "source")
    BY <1>32, <1>t, <1>d DEF cleanupDirectory, held, world
<1>33. CASE cleanupSource
    BY <1>33, <1>t, <1>d DEF cleanupSource, held, world
<1>34. CASE SourceMoves
    BY <1>34, <1>t, <1>d DEF SourceMoves, Env, held, world
<1>35. CASE HostDies
    BY <1>35, <1>t, <1>d DEF HostDies, Env, held, world
<1>36. CASE RunMoves
    BY <1>36, <1>t, <1>d DEF RunMoves, Env, held, world
<1>37. CASE DeliveryMoves
    BY <1>37, <1>t, <1>d DEF DeliveryMoves, Env, held, world
<1>38. CASE ExecutorMoves
    BY <1>38, <1>t, <1>d DEF ExecutorMoves, Env, held, world
<1>39. CASE ResultApplied
    BY <1>39, <1>t, <1>d DEF ResultApplied, Env, held, world
<1>40. CASE Recovery
    BY <1>40, <1>t, <1>d DEF Recovery, Env, held, world
<1>41. CASE ServiceDies
    BY <1>41, <1>t, <1>d DEF ServiceDies, Env, held, world
<1>42. CASE UNCHANGED gatesVars
    BY <1>42, <1>t, <1>d DEF gatesVars, ctl, held, world, held, world
<1>. QED  BY <1>1, <1>2, <1>3, <1>4, <1>5, <1>6, <1>7, <1>8, <1>9, <1>10, <1>11, <1>12,
             <1>13, <1>14, <1>15, <1>16, <1>17, <1>18, <1>19, <1>20, <1>21, <1>22, <1>23,
             <1>24, <1>25, <1>26, <1>27, <1>28, <1>29, <1>30, <1>31, <1>32, <1>33, <1>34,
             <1>35, <1>36, <1>37, <1>38, <1>39, <1>40, <1>41, <1>42
          DEF GatesNext, Controller, preR0Networking, cleanup, Finished

\* A worker that died leaves a well-formed task.
LEMMA DeadIsATask ==
    ASSUME NEW t \in TaskRecord
    PROVE  Dead(t) \in TaskRecord
<1>1. t.lost \cup {t.exec} \in SUBSET Nat /\ t.lost \in SUBSET Nat
    BY DEF TaskRecord
<1>. DEFINE l == IF t.phase \in {None, "lost", "closed"} THEN t.lost ELSE t.lost \cup {t.exec}
            p == IF t.phase \in {None, "closed"} THEN t.phase ELSE "lost"
<1>2. Dead(t) = [t EXCEPT !.up = FALSE, !.lost = l, !.phase = p]
    BY DEF Dead
<1>3. l \in SUBSET Nat
    BY <1>1
<1>4. p \in {None, "model", "resuming", "ready", "started", "behavior", "done", "closed", "lost"}
    BY DEF TaskRecord
<1>. HIDE DEF l, p
<1>. QED  BY <1>2, <1>3, <1>4 DEF TaskRecord

\* The run, the host, the task and the delivery keep their types.
LEMMA WorldTypesStep ==
    ASSUME GatesTypeOK, [GatesNext]_gatesVars
    PROVE  WorldTypes'
<1>. SUFFICES ASSUME GatesTypeOK, GatesNext \/ UNCHANGED gatesVars PROVE WorldTypes'
    OBVIOUS
<1>t. WorldTypes
    BY DEF GatesTypeOK
<1>tt. task \in TaskRecord
    BY <1>t DEF WorldTypes
<1>1. CASE qEntry
    BY <1>1, <1>t DEF qEntry, WorldTypes, held, world, None
<1>2. CASE preR0
    BY <1>2, <1>t DEF preR0, WorldTypes, held, world, None
<1>3. CASE ProbeUp("dns", "dns-up")
    BY <1>3, <1>t DEF ProbeUp, Starts, WorldTypes, held, world, None
<1>4. CASE ProbeDown("dns", "tei-up")
    BY <1>4, <1>t DEF ProbeDown, Removes, WorldTypes, held, world, None
<1>5. CASE ProbeUp("tei", "tei-up")
    BY <1>5, <1>t DEF ProbeUp, Starts, WorldTypes, held, world, None
<1>6. CASE ProbeDown("tei", "end")
    BY <1>6, <1>t DEF ProbeDown, Removes, WorldTypes, held, world, None
<1>7. CASE r0
    BY <1>7, <1>t DEF r0, WorldTypes, held, world, None
<1>8. CASE r1
    BY <1>8, <1>t DEF r1, WorldTypes, held, world, None
<1>9. CASE r2
    BY <1>9, <1>t DEF r2, WorldTypes, held, world, None
<1>10. CASE r3Consumers
    BY <1>10, <1>t DEF r3Consumers, Starts, WorldTypes, held, world, None
<1>11. CASE r3
    BY <1>11, <1>t DEF r3, WorldTypes, held, world, None
<1>12. CASE buildConsumerEnv
    BY <1>12, <1>t DEF buildConsumerEnv, Starts, WorldTypes, held, world, None
<1>13. CASE r4
    BY <1>13, <1>t DEF r4, ComposeUp, WorldTypes, held, world, None
<1>14. CASE r5
    BY <1>14, <1>t DEF r5, Starts, WorldTypes, held, world, None
<1>15. CASE r6
    BY <1>15, <1>t DEF r6, startQualifiedOpenCode, Starts, WorldTypes, held, world, None
<1>16. CASE r7
    BY <1>16, <1>t DEF r7, sendWorkload, waitForRunId, waitForTerminalRun, Quiet,
       WorldTypes, world, NoDelivery, DeliveryRecord, None
<1>17. CASE r8
    BY <1>17, <1>t DEF r8, waitForContinuationObserved, Quiet, WorldTypes, held, world, None
<1>18. CASE r9Arm
    BY <1>18, <1>t DEF r9Arm, Recreate, Checks, sendWorkload, waitForRunId, Quiet,
       WorldTypes, world, NoDelivery, DeliveryRecord, None
<1>19. CASE r9Boundary
    BY <1>19, <1>t DEF r9Boundary, WorldTypes, held, world, None
<1>20. CASE r9Window
    BY <1>20, <1>t DEF r9Window, Quiet, WorldTypes, held, world, None
<1>21. CASE r9Kill
    <2>1. Dead(task) \in TaskRecord
        BY <1>tt, DeadIsATask
    <2>. QED  BY <1>21, <1>t, <2>1 DEF r9Kill, WorldTypes
<1>22. CASE r9Expire
    <2>1. [task EXCEPT !.expired = TRUE] \in TaskRecord
        BY <1>tt DEF TaskRecord, None
    <2>. QED  BY <1>22, <1>t, <1>tt, <2>1 DEF r9Expire, Quiet, WorldTypes, world
<1>23. CASE r9Replacement
    BY <1>23, <1>t DEF r9Replacement, Quiet, WorldTypes, held, world, None
<1>24. CASE r9Receipt
    BY <1>24, <1>t DEF r9Receipt, Quiet, WorldTypes, held, world, None
<1>25. CASE r9ReplacementBehavior
    BY <1>25, <1>t DEF r9ReplacementBehavior, Quiet, WorldTypes, held, world, None
<1>26. CASE r9Evidence
    BY <1>26, <1>t DEF r9Evidence, waitForTerminalRun, Quiet, WorldTypes, held, world, None
<1>27. CASE r9Disarm
    BY <1>27, <1>t DEF r9Disarm, Recreate, Checks, Quiet, WorldTypes, held, world, None
<1>28. CASE r10
    BY <1>28, <1>t DEF r10, r10Restarts, Checks, sendWorkload, waitForRunId,
       waitForR10PreOutageBoundary, r10Outage, Removes, r10Deferred, waitForTerminalRun,
       startQualifiedOpenCode, Starts, waitForContinuationObserved, Quiet, WorldTypes,
       world, NoDelivery, DeliveryRecord, None
<1>29. CASE cleanupHosts
    BY <1>29, <1>t DEF cleanupHosts, WorldTypes, held, world, None
<1>30. CASE cleanupStack
    BY <1>30, <1>t DEF cleanupStack, WorldTypes, held, world, None
<1>31. CASE cleanupDirectory("auth", "consumers")
    BY <1>31, <1>t DEF cleanupDirectory, WorldTypes, held, world, None
<1>32. CASE cleanupDirectory("consumers", "source")
    BY <1>32, <1>t DEF cleanupDirectory, WorldTypes, held, world, None
<1>33. CASE cleanupSource
    BY <1>33, <1>t DEF cleanupSource, WorldTypes, held, world, None
<1>34. CASE SourceMoves
    BY <1>34, <1>t DEF SourceMoves, Env, WorldTypes, held, world, None
<1>35. CASE HostDies
    BY <1>35, <1>t DEF HostDies, Env, WorldTypes, held, world, None
<1>36. CASE RunMoves
    BY <1>36, <1>t DEF RunMoves, Env, WorldTypes, held, world, None
<1>37. CASE DeliveryMoves
    BY <1>37, <1>t DEF DeliveryMoves, Env, WorldTypes, DeliveryRecord, None
<1>38. CASE ExecutorMoves
    <2>1. [task EXCEPT !.exec = 1, !.phase = "model"] \in TaskRecord
        BY <1>tt DEF TaskRecord, None
    <2>2. [task EXCEPT !.checkpoint = TRUE, !.phase = "ready"] \in TaskRecord
        BY <1>tt DEF TaskRecord, None
    <2>3. [task EXCEPT !.phase = "ready"] \in TaskRecord
        BY <1>tt DEF TaskRecord, None
    <2>4. [task EXCEPT !.resumed = @ \cup {task.exec}, !.phase = "ready"] \in TaskRecord
        BY <1>tt DEF TaskRecord, None
    <2>5. [task EXCEPT !.started = @ \cup {task.exec}, !.phase = "started"] \in TaskRecord
        BY <1>tt DEF TaskRecord, None
    <2>6. [task EXCEPT !.box = @ \cup {task.exec}, !.phase = "behavior"] \in TaskRecord
        BY <1>tt DEF TaskRecord, None
    <2>7. [task EXCEPT !.box = @ \ {task.exec}, !.passed = @ \cup {task.exec},
                    !.phase = "done"] \in TaskRecord
        BY <1>tt DEF TaskRecord, None
    <2>. QED  BY <1>38, <1>t, <1>tt, <2>1, <2>2, <2>3, <2>4, <2>5, <2>6, <2>7 DEF
                 ExecutorMoves, Env, WorldTypes
<1>39. CASE ResultApplied
    <2>. DEFINE projected == task.projected \cup ({task.exec} \cap task.resumed)
    <2>0. projected \in SUBSET Nat /\ task.exec + 1 \in Nat /\ task.attempt + 1 \in Nat
        BY <1>tt DEF TaskRecord
    <2>3. \/ /\ watched' = "closed"
             /\ task' = [task EXCEPT !.projected = projected, !.phase = "closed",
                                     !.closedBy = task.exec]
          \/ /\ watched' = watched
             /\ task' = [task EXCEPT !.projected = projected, !.phase = "model",
                                     !.rejected = @ \cup {task.exec}, !.exec = @ + 1,
                                     !.attempt = @ + 1, !.checkpoint = FALSE]
        BY <1>39 DEF ResultApplied
    <2>. HIDE DEF projected
    <2>1. [task EXCEPT !.projected = projected, !.phase = "closed", !.closedBy = task.exec]
            \in TaskRecord
        BY <1>tt, <2>0 DEF TaskRecord, None
    <2>2. [task EXCEPT !.projected = projected, !.phase = "model",
                       !.rejected = @ \cup {task.exec}, !.exec = @ + 1,
                       !.attempt = @ + 1, !.checkpoint = FALSE] \in TaskRecord
        BY <1>tt, <2>0 DEF TaskRecord, None
    <2>. QED  BY <1>39, <1>t, <2>1, <2>2, <2>3 DEF ResultApplied, WorldTypes
<1>40. CASE Recovery
    <2>1. [task EXCEPT !.up = TRUE, !.restarts = @ + 1] \in TaskRecord
        <3>1. task.exec + 1 \in Nat /\ task.restarts + 1 \in Nat
            BY <1>tt DEF TaskRecord
        <3>. QED  BY <1>tt, <3>1 DEF TaskRecord, None
    <2>2. \A x \in task.box \cap task.lost : [task EXCEPT !.box = @ \ {x}] \in TaskRecord
        BY <1>tt DEF TaskRecord, None
    <2>3. [task EXCEPT !.expired = TRUE] \in TaskRecord
        BY <1>tt DEF TaskRecord, None
    <2>4. [task EXCEPT !.exec = @ + 1, !.expired = FALSE,
                    !.phase = IF task.checkpoint THEN "resuming" ELSE "model"] \in TaskRecord
        <3>1. task.exec + 1 \in Nat /\ task.restarts + 1 \in Nat
            BY <1>tt DEF TaskRecord
        <3>. QED  BY <1>tt, <3>1 DEF TaskRecord, None
    <2>. QED  BY <1>40, <1>t, <1>tt, <2>1, <2>2, <2>3, <2>4 DEF Recovery, Env, WorldTypes
<1>41. CASE ServiceDies
    <2>1. Dead(task) \in TaskRecord
        BY <1>tt, DeadIsATask
    <2>2. [task EXCEPT !.gateway = @ + 1, !.box = {}] \in TaskRecord
        <3>1. task.gateway + 1 \in Nat
            BY <1>tt DEF TaskRecord
        <3>. QED  BY <1>tt, <3>1 DEF TaskRecord
    <2>. QED  BY <1>41, <1>t, <2>1, <2>2 DEF ServiceDies, Env, WorldTypes
<1>42. CASE UNCHANGED gatesVars
    BY <1>42, <1>t DEF gatesVars, ctl, held, world, WorldTypes, held, world, None
<1>. QED  BY <1>1, <1>2, <1>3, <1>4, <1>5, <1>6, <1>7, <1>8, <1>9, <1>10, <1>11, <1>12,
             <1>13, <1>14, <1>15, <1>16, <1>17, <1>18, <1>19, <1>20, <1>21, <1>22, <1>23,
             <1>24, <1>25, <1>26, <1>27, <1>28, <1>29, <1>30, <1>31, <1>32, <1>33, <1>34,
             <1>35, <1>36, <1>37, <1>38, <1>39, <1>40, <1>41, <1>42
          DEF GatesNext, Controller, preR0Networking, cleanup, Finished

\* Where the report stands while a gate runs: what has passed and what has not.
GateFacts ==
  /\ pc[1] \in {"Q-ENTRY", "PRE-R0", "R-0"} => results["R-0"] # "PASS"
  /\ pc[1] \in {"Q-ENTRY", "PRE-R0", "R-0", "R-1", "R-2", "R-3"} => results["R-3"] # "PASS"
  /\ pc[1] = "R-3" => results["R-0"] = "PASS"
  /\ pc[1] \notin {"R-10", "R-11"} => results["R-9"] # "PASS" /\ results["R-10"] # "PASS"
  /\ pc[1] = "R-10" => results["R-10"] # "PASS" /\ results["R-9"] = "PASS"
  /\ pc[1] = "R-11" /\ divergence = None => results["R-3"] = "PASS"
  /\ pc[1] \in {"R-7", "R-8", "R-10"} => scope = "full-promotion"

\* What the order of the gates tells about the gate the controller is at.
LEMMA WhereTheReportStands ==
    ASSUME ReportTypes, OrderInv
    PROVE  GateFacts
<1>1. CASE pc[1] = "R-11"
    <2>1. CASE scope = "full-promotion"
        BY <1>1, <2>1, ScopeOrders DEF GateFacts, OrderInv, GateOrder
    <2>2. CASE scope = "wave10-worker-loss"
        BY <1>1, <2>2, ScopeOrders DEF GateFacts, OrderInv, GateOrder
    <2>. QED  BY <2>1, <2>2 DEF ReportTypes
<1>2. CASE pc[1] # "R-11" /\ scope = "full-promotion"
    <2>1. GateOrder = FullOrder
        BY <1>2 DEF GateOrder
    <2>2. PICK i \in DOMAIN FullOrder : pc[1] = FullOrder[i]
        BY <1>2, <2>1 DEF OrderInv
    <2>3. \A j \in DOMAIN FullOrder : results[FullOrder[j]] = IF j < i THEN "PASS" ELSE "PENDING"
        BY <2>1, <2>2 DEF OrderInv
    <2>4. /\ results["R-0"] = IF 3 < i THEN "PASS" ELSE "PENDING"
          /\ results["R-3"] = IF 6 < i THEN "PASS" ELSE "PENDING"
          /\ results["R-9"] = IF 12 < i THEN "PASS" ELSE "PENDING"
          /\ results["R-10"] = IF 13 < i THEN "PASS" ELSE "PENDING"
        BY <2>3, ScopeOrders
    <2>5. /\ pc[1] \in {"Q-ENTRY", "PRE-R0", "R-0"} => i <= 3
          /\ pc[1] \in {"Q-ENTRY", "PRE-R0", "R-0", "R-1", "R-2", "R-3"} => i <= 6
          /\ pc[1] = "R-3" => i = 6
          /\ pc[1] # "R-10" => i <= 12
          /\ pc[1] = "R-10" => i = 13
          /\ i \in 1 .. 13
        BY <2>2, ScopeOrders
    <2>. QED  BY <1>2, <2>4, <2>5 DEF GateFacts
<1>3. CASE pc[1] # "R-11" /\ scope = "wave10-worker-loss"
    <2>1. GateOrder = Wave10Order
        BY <1>3 DEF GateOrder
    <2>2. PICK i \in DOMAIN Wave10Order : pc[1] = Wave10Order[i]
        BY <1>3, <2>1 DEF OrderInv
    <2>3. \A j \in DOMAIN Wave10Order :
            results[Wave10Order[j]] = IF j < i THEN "PASS" ELSE "PENDING"
        BY <2>1, <2>2 DEF OrderInv
    <2>4. /\ results["R-0"] = IF 3 < i THEN "PASS" ELSE "PENDING"
          /\ results["R-3"] = IF 6 < i THEN "PASS" ELSE "PENDING"
          /\ results["R-9"] = IF 10 < i THEN "PASS" ELSE "PENDING"
          /\ results["R-10"] # "PASS"
        BY <1>3, <2>3, ScopeOrders DEF OrderInv
    <2>5. /\ pc[1] \in {"Q-ENTRY", "PRE-R0", "R-0"} => i <= 3
          /\ pc[1] \in {"Q-ENTRY", "PRE-R0", "R-0", "R-1", "R-2", "R-3"} => i <= 6
          /\ pc[1] = "R-3" => i = 6
          /\ pc[1] \notin {"R-7", "R-8", "R-10"}
          /\ i \in 1 .. 10
        BY <2>2, ScopeOrders
    <2>. QED  BY <1>3, <2>4, <2>5 DEF GateFacts
<1>. QED  BY <1>1, <1>2, <1>3 DEF ReportTypes

\* The gate that follows a gate that passes.
LEMMA TheGateAfter ==
    ASSUME ReportTypes, OrderInv, pc[1] # "R-11"
    PROVE  /\ pc[1] = "Q-ENTRY" => NextGate(pc[1]) = "PRE-R0"
           /\ pc[1] = "PRE-R0" => NextGate(pc[1]) = "R-0"
           /\ pc[1] = "R-0" => NextGate(pc[1]) = "R-1"
           /\ pc[1] = "R-1" => NextGate(pc[1]) = "R-2"
           /\ pc[1] = "R-2" => NextGate(pc[1]) = "R-3"
           /\ pc[1] = "R-3" => NextGate(pc[1]) = "R-4"
           /\ pc[1] = "R-4" => NextGate(pc[1]) = "R-5"
           /\ pc[1] = "R-5" => NextGate(pc[1]) = "R-6"
           /\ pc[1] = "R-6" => NextGate(pc[1]) \in {"R-7", "R-9"}
           /\ pc[1] = "R-7" => NextGate(pc[1]) = "R-8"
           /\ pc[1] = "R-8" => NextGate(pc[1]) = "R-9"
           /\ pc[1] = "R-9" => NextGate(pc[1]) \in {"R-10", "R-11"}
           /\ pc[1] = "R-10" => NextGate(pc[1]) = "R-11"
<1>0. PICK i \in DOMAIN GateOrder : pc[1] = GateOrder[i]
    BY DEF OrderInv
<1>1. NextGate(pc[1]) = IF i = Len(GateOrder) THEN "R-11" ELSE GateOrder[i + 1]
    BY <1>0, NextGateAt DEF ReportTypes
<1>2. CASE scope = "full-promotion"
    <2>1. GateOrder = FullOrder
        BY <1>2 DEF GateOrder
    <2>2. i \in DOMAIN FullOrder /\ pc[1] = FullOrder[i]
        BY <1>0, <2>1
    <2>3. NextGate(pc[1]) = IF i = 13 THEN "R-11" ELSE FullOrder[i + 1]
        BY <1>1, <2>1, ScopeOrders
    <2>. QED  BY <2>2, <2>3, ScopeOrders
<1>3. CASE scope = "wave10-worker-loss"
    <2>1. GateOrder = Wave10Order
        BY <1>3 DEF GateOrder
    <2>2. i \in DOMAIN Wave10Order /\ pc[1] = Wave10Order[i]
        BY <1>0, <2>1
    <2>3. NextGate(pc[1]) = IF i = 10 THEN "R-11" ELSE Wave10Order[i + 1]
        BY <1>1, <2>1, ScopeOrders
    <2>. QED  BY <2>2, <2>3, ScopeOrders
<1>. QED  BY <1>2, <1>3 DEF ReportTypes

\* The gates whose PASS the invariant speaks of: none of them passes in this step.
NoNewPass == \A g \in {"R-0", "R-3", "R-9", "R-10"} : results'[g] = "PASS" => results[g] = "PASS"

\* The same, gate by gate.
LEMMA NoNewPassMeans ==
    NoNewPass <=> /\ results'["R-0"] = "PASS" => results["R-0"] = "PASS"
                  /\ results'["R-3"] = "PASS" => results["R-3"] = "PASS"
                  /\ results'["R-9"] = "PASS" => results["R-9"] = "PASS"
                  /\ results'["R-10"] = "PASS" => results["R-10"] = "PASS"
BY DEF NoNewPass

\* A pass moves on to the next gate and changes no other result.
LEMMA PassEffect ==
    ASSUME ReportTypes, OrderInv, Pass
    PROVE  /\ pc'[1] = NextGate(pc[1]) /\ pc'[2] = "enter" /\ divergence' = divergence
           /\ pc[1] # "R-0" /\ results'["R-0"] = "PASS" => results["R-0"] = "PASS"
           /\ pc[1] # "R-3" /\ results'["R-3"] = "PASS" => results["R-3"] = "PASS"
           /\ pc[1] # "R-9" /\ results'["R-9"] = "PASS" => results["R-9"] = "PASS"
           /\ pc[1] # "R-10" /\ results'["R-10"] = "PASS" => results["R-10"] = "PASS"
           /\ pc[1] = "R-9" => results'["R-9"] = "PASS"
<1>1. pc[1] \in Gates /\ {"R-0", "R-3", "R-9", "R-10"} \subseteq Gates
    <2>1. pc \in Gates \X Steps
        BY DEF ReportTypes
    <2>. QED  BY <2>1, GateNames
<1>2. results' = [results EXCEPT ![pc[1]] = "PASS"] /\ pc' = <<NextGate(pc[1]), "enter">>
      /\ divergence' = divergence
    BY DEF Pass
<1>3. results \in [Gates -> {"PENDING", "PASS", "HOLD", "NOT RUN"}]
    BY DEF ReportTypes
<1>. QED  BY <1>1, <1>2, <1>3

\* A hold moves on to the cleanup gate and makes no result a PASS.
LEMMA HoldEffect ==
    ASSUME ReportTypes, Hold
    PROVE  /\ pc'[1] = "R-11" /\ pc'[2] = "enter" /\ divergence' # None
           /\ NoNewPass
<1>1. pc[1] \in Gates /\ {"R-0", "R-3", "R-9", "R-10"} \subseteq Gates
    <2>1. pc \in Gates \X Steps
        BY DEF ReportTypes
    <2>. QED  BY <2>1, GateNames
<1>2. /\ results' = [g \in Gates |->
           IF g = pc[1] THEN "HOLD"
           ELSE IF g # "R-11" /\ results[g] = "PENDING" THEN "NOT RUN" ELSE results[g]]
      /\ pc' = <<"R-11", "enter">>
    BY DEF Hold
<1>3. divergence' # None
    BY <1>1, GateNames DEF Hold, None
<1>4. \A g \in Gates : results'[g] = "PASS" => results[g] = "PASS"
    BY <1>2
<1>. QED  BY <1>1, <1>2, <1>3, <1>4 DEF NoNewPass

\* A cleanup that fails ends the qualification with a divergence.
LEMMA HoldCleanupEffect ==
    ASSUME ReportTypes, HoldCleanup
    PROVE  /\ pc'[1] = "R-11" /\ pc'[2] = "done" /\ divergence' # None
           /\ NoNewPass
<1>1. results \in [Gates -> {"PENDING", "PASS", "HOLD", "NOT RUN"}]
    BY DEF ReportTypes
<1>2. /\ results' = [results EXCEPT !["R-11"] = "HOLD"]
      /\ pc' = <<"R-11", "done">>
    BY DEF HoldCleanup
<1>3. divergence' # None
    BY DEF HoldCleanup, None
<1>4. {"R-0", "R-3", "R-9", "R-10"} \subseteq Gates
    BY GateNames
<1>. QED  BY <1>1, <1>2, <1>3, <1>4 DEF NoNewPass

\* A cleanup that succeeds ends it with the divergence there was.
LEMMA CleanupPassesEffect ==
    ASSUME ReportTypes, CleanupPasses
    PROVE  /\ pc'[1] = "R-11" /\ pc'[2] = "done" /\ divergence' = divergence
           /\ NoNewPass
<1>1. results \in [Gates -> {"PENDING", "PASS", "HOLD", "NOT RUN"}]
    BY DEF ReportTypes
<1>2. /\ results' = [results EXCEPT !["R-11"] = "PASS"]
      /\ pc' = <<"R-11", "done">> /\ divergence' = divergence
    BY DEF CleanupPasses
<1>3. {"R-0", "R-3", "R-9", "R-10"} \subseteq Gates
    BY GateNames
<1>. QED  BY <1>1, <1>2, <1>3 DEF NoNewPass

\* A gate that goes on.
LEMMA GotoEffect ==
    ASSUME NEW s, Goto(s)
    PROVE  /\ pc'[1] = pc[1] /\ pc'[2] = s
           /\ results' = results /\ divergence' = divergence
BY DEF Goto, ctl

\* What the gates have compared of the candidate stays as they compared it.
LEMMA CandidateStep ==
    ASSUME QualificationInv, [GatesNext]_gatesVars
    PROVE  CandidateInv'
<1>. SUFFICES ASSUME QualificationInv, GatesNext \/ UNCHANGED gatesVars PROVE CandidateInv'
    OBVIOUS
<1>t. /\ ReportTypes /\ SourceTypes /\ HeldTypes /\ WorldTypes /\ OrderInv
      /\ CandidateInv
    BY DEF QualificationInv, GatesTypeOK
<1>g. GateFacts
    BY <1>t, WhereTheReportStands
<1>p. Pass => /\ pc'[1] = NextGate(pc[1]) /\ pc'[2] = "enter" /\ divergence' = divergence
              /\ pc[1] # "R-0" /\ results'["R-0"] = "PASS" => results["R-0"] = "PASS"
              /\ pc[1] # "R-3" /\ results'["R-3"] = "PASS" => results["R-3"] = "PASS"
              /\ pc[1] # "R-9" /\ results'["R-9"] = "PASS" => results["R-9"] = "PASS"
              /\ pc[1] # "R-10" /\ results'["R-10"] = "PASS" => results["R-10"] = "PASS"
              /\ pc[1] = "R-9" => results'["R-9"] = "PASS"
    BY <1>t, PassEffect
<1>h. Hold => /\ pc'[1] = "R-11" /\ pc'[2] = "enter" /\ divergence' # None
              /\ results'["R-0"] = "PASS" => results["R-0"] = "PASS"
              /\ results'["R-3"] = "PASS" => results["R-3"] = "PASS"
              /\ results'["R-9"] = "PASS" => results["R-9"] = "PASS"
              /\ results'["R-10"] = "PASS" => results["R-10"] = "PASS"
    BY <1>t, HoldEffect, NoNewPassMeans
<1>c. HoldCleanup => /\ pc'[1] = "R-11" /\ pc'[2] = "done" /\ divergence' # None
                     /\ results'["R-0"] = "PASS" => results["R-0"] = "PASS"
                     /\ results'["R-3"] = "PASS" => results["R-3"] = "PASS"
                     /\ results'["R-9"] = "PASS" => results["R-9"] = "PASS"
                     /\ results'["R-10"] = "PASS" => results["R-10"] = "PASS"
    BY <1>t, HoldCleanupEffect, NoNewPassMeans
<1>s. CleanupPasses => /\ pc'[1] = "R-11" /\ pc'[2] = "done" /\ divergence' = divergence
                       /\ results'["R-0"] = "PASS" => results["R-0"] = "PASS"
                       /\ results'["R-3"] = "PASS" => results["R-3"] = "PASS"
                       /\ results'["R-9"] = "PASS" => results["R-9"] = "PASS"
                       /\ results'["R-10"] = "PASS" => results["R-10"] = "PASS"
    BY <1>t, CleanupPassesEffect, NoNewPassMeans
<1>n. pc[1] # "R-11" =>
        /\ pc[1] = "Q-ENTRY" => NextGate(pc[1]) = "PRE-R0"
        /\ pc[1] = "PRE-R0" => NextGate(pc[1]) = "R-0"
        /\ pc[1] = "R-0" => NextGate(pc[1]) = "R-1"
        /\ pc[1] = "R-1" => NextGate(pc[1]) = "R-2"
        /\ pc[1] = "R-2" => NextGate(pc[1]) = "R-3"
        /\ pc[1] = "R-3" => NextGate(pc[1]) = "R-4"
        /\ pc[1] = "R-4" => NextGate(pc[1]) = "R-5"
        /\ pc[1] = "R-5" => NextGate(pc[1]) = "R-6"
        /\ pc[1] = "R-6" => NextGate(pc[1]) \in {"R-7", "R-9"}
        /\ pc[1] = "R-7" => NextGate(pc[1]) = "R-8"
        /\ pc[1] = "R-8" => NextGate(pc[1]) = "R-9"
        /\ pc[1] = "R-9" => NextGate(pc[1]) \in {"R-10", "R-11"}
        /\ pc[1] = "R-10" => NextGate(pc[1]) = "R-11"
    BY <1>t, TheGateAfter
<1>1. CASE qEntry
    BY <1>1, <1>t, <1>g, <1>p, <1>h, <1>c DEF qEntry, At, Goto, ctl, Over, CandidateInv,
       held, world, GateFacts
<1>2. CASE preR0
    BY <1>2, <1>t, <1>g, <1>p, <1>h, <1>c DEF preR0, At, Goto, ctl, Over, CandidateInv,
       held, world, GateFacts
<1>3. CASE ProbeUp("dns", "dns-up")
    BY <1>3, <1>t, <1>g, <1>p, <1>h, <1>c DEF ProbeUp, Starts, At, Goto, ctl, Over,
       CandidateInv, held, world, GateFacts
<1>4. CASE ProbeDown("dns", "tei-up")
    BY <1>4, <1>t, <1>g, <1>p, <1>h, <1>c DEF ProbeDown, Removes, At, Goto, ctl, Over,
       CandidateInv, held, world, GateFacts
<1>5. CASE ProbeUp("tei", "tei-up")
    BY <1>5, <1>t, <1>g, <1>p, <1>h, <1>c DEF ProbeUp, Starts, At, Goto, ctl, Over,
       CandidateInv, held, world, GateFacts
<1>6. CASE ProbeDown("tei", "end")
    BY <1>6, <1>t, <1>g, <1>p, <1>h, <1>c DEF ProbeDown, Removes, At, Goto, ctl, Over,
       CandidateInv, held, world, GateFacts
<1>7. CASE r0
    <2>1. CASE /\ At("R-0", "enter") /\ identity' = identity
               /\ ({src.head} = identity.preHead /\ Goto("tree")) \/ Hold
               /\ seen' = [seen EXCEPT !.read = {src.head}]
        <3>1. seen'.read = {src.head}
            BY <2>1, <1>t DEF SourceTypes, SeenRecord
        <3>. QED  BY <2>1, <3>1, <1>t, <1>g, <1>h DEF At, Goto, ctl, Over, CandidateInv,
                     GateFacts
    <2>2. CASE /\ At("R-0", "tree") /\ Pass
               /\ identity' = [identity EXCEPT !.head = seen.read, !.tree = {TreeSha256}]
        <3>1. identity'.head = seen.read /\ identity'.preHead = identity.preHead
            BY <2>2, <1>t DEF SourceTypes, IdentityRecord
        <3>. QED  BY <2>2, <3>1, <1>t, <1>g, <1>p DEF At, Over, CandidateInv, GateFacts
    <2>3. CASE At("R-0", "tree") /\ Hold /\ identity' = identity /\ seen' = seen
        BY <2>3, <1>t, <1>g, <1>h DEF At, Over, CandidateInv, GateFacts
    <2>. QED  BY <1>7, <2>1, <2>2, <2>3, Zenon DEF r0
<1>8. CASE r1
    BY <1>8, <1>t, <1>g, <1>p, <1>h, <1>c DEF r1, At, Goto, ctl, Over, CandidateInv, held,
       world, GateFacts
<1>9. CASE r2
    BY <1>9, <1>t, <1>g, <1>p, <1>h, <1>c DEF r2, At, Goto, ctl, Over, CandidateInv, held,
       world, GateFacts
<1>10. CASE r3Consumers
    BY <1>10, <1>t, <1>g, <1>p, <1>h, <1>c DEF r3Consumers, Starts, At, Goto, ctl, Over,
       CandidateInv, held, world, GateFacts
<1>11. CASE r3
    <2>1. CASE /\ At("R-3", "submodule") /\ Goto("image")
               /\ {src.head} = identity.head /\ {<<src.head, FALSE>>} = identity.tree
               /\ identity' = [identity EXCEPT !.sub = {<<src.head, FALSE>>}]
        <3>1. /\ identity'.tree = identity.tree /\ identity'.sub = {<<src.head, FALSE>>}
              /\ identity'.head = identity.head /\ identity'.preHead = identity.preHead
            BY <2>1, <1>t DEF SourceTypes, IdentityRecord
        <3>2. identity.head = identity.preHead /\ results["R-3"] # "PASS"
            BY <2>1, <1>t, <1>g DEF At, CandidateInv, GateFacts
        <3>3. CleanTrees({src.head}) = {<<src.head, FALSE>>}
            BY DEF CleanTrees
        <3>4. {<<src.head, FALSE>>} # {}
            OBVIOUS
        <3>5. identity'.tree = CleanTrees(identity'.preHead) /\ identity'.sub = identity'.tree
              /\ identity'.tree # {}
            BY <2>1, <3>1, <3>2, <3>3, <3>4
        <3>. QED  BY <2>1, <3>1, <3>2, <3>5 DEF At, Goto, ctl, Over, CandidateInv
    <2>2. CASE /\ At("R-3", "submodule") /\ Hold
               /\ identity' = [identity EXCEPT !.sub = {<<src.head, FALSE>>}]
        <3>1. /\ identity'.head = identity.head /\ identity'.preHead = identity.preHead
            BY <2>2, <1>t DEF SourceTypes, IdentityRecord
        <3>. QED  BY <2>2, <3>1, <1>t, <1>g, <1>h DEF At, Over, CandidateInv, GateFacts
    <2>3. CASE At("R-3", "image") /\ (Pass \/ Hold) /\ identity' = identity
        BY <2>3, <1>t, <1>g, <1>p, <1>h DEF At, Over, CandidateInv, GateFacts
    <2>. QED  BY <1>11, <2>1, <2>2, <2>3, Zenon DEF r3
<1>12. CASE buildConsumerEnv
    BY <1>12, <1>t, <1>g, <1>p, <1>h, <1>c DEF buildConsumerEnv, Starts, At, Goto, ctl,
       Over, CandidateInv, held, world, GateFacts
<1>13. CASE r4
    BY <1>13, <1>t, <1>g, <1>p, <1>h, <1>c DEF r4, ComposeUp, At, Goto, ctl, Over, CandidateInv, held,
       world, GateFacts
<1>14. CASE r5
    BY <1>14, <1>t, <1>g, <1>p, <1>h, <1>c DEF r5, Starts, At, Goto, ctl, Over,
       CandidateInv, held, world, GateFacts
<1>15. CASE r6
    BY <1>15, <1>t, <1>g, <1>p, <1>h, <1>c DEF r6, startQualifiedOpenCode, Starts, At, Goto,
       ctl, Over, CandidateInv, held, world, GateFacts
<1>16. CASE r7
    BY <1>16, <1>t, <1>g, <1>p, <1>h, <1>c DEF r7, sendWorkload, waitForRunId,
       waitForTerminalRun, Quiet, At, Goto, ctl, Over, CandidateInv, held, world, GateFacts
<1>17. CASE r8
    BY <1>17, <1>t, <1>g, <1>p, <1>h, <1>c DEF r8, waitForContinuationObserved, Quiet, At,
       Goto, ctl, Over, CandidateInv, held, world, GateFacts
<1>18. CASE r9Arm
    BY <1>18, <1>t, <1>g, <1>p, <1>h, <1>c DEF r9Arm, Recreate, Checks, sendWorkload,
       waitForRunId, Quiet, At, Goto, ctl, Over, CandidateInv, held, world, GateFacts
<1>19. CASE r9Boundary
    BY <1>19, <1>t, <1>g, <1>p, <1>h, <1>c DEF r9Boundary, At, Goto, ctl, Over,
       CandidateInv, held, world, GateFacts
<1>20. CASE r9Window
    BY <1>20, <1>t, <1>g, <1>p, <1>h, <1>c DEF r9Window, Quiet, At, Goto, ctl, Over,
       CandidateInv, held, world, GateFacts
<1>21. CASE r9Kill
    BY <1>21, <1>t, <1>g, <1>p, <1>h, <1>c DEF r9Kill, At, Goto, ctl, Over, CandidateInv,
       held, world, GateFacts
<1>22. CASE r9Expire
    BY <1>22, <1>t, <1>g, <1>p, <1>h, <1>c DEF r9Expire, Quiet, At, Goto, ctl, Over,
       CandidateInv, held, world, GateFacts
<1>23. CASE r9Replacement
    BY <1>23, <1>t, <1>g, <1>p, <1>h, <1>c DEF r9Replacement, Quiet, At, Goto, ctl, Over,
       CandidateInv, held, world, GateFacts
<1>24. CASE r9Receipt
    BY <1>24, <1>t, <1>g, <1>p, <1>h, <1>c DEF r9Receipt, Quiet, At, Goto, ctl, Over,
       CandidateInv, held, world, GateFacts
<1>25. CASE r9ReplacementBehavior
    BY <1>25, <1>t, <1>g, <1>p, <1>h, <1>c DEF r9ReplacementBehavior, Quiet, At, Goto, ctl,
       Over, CandidateInv, held, world, GateFacts
<1>26. CASE r9Evidence
    BY <1>26, <1>t, <1>g, <1>p, <1>h, <1>c DEF r9Evidence, waitForTerminalRun, Quiet, At,
       Goto, ctl, Over, CandidateInv, held, world, GateFacts
<1>27. CASE r9Disarm
    BY <1>27, <1>t, <1>g, <1>p, <1>h, <1>c DEF r9Disarm, Recreate, Checks, Quiet, At, Goto,
       ctl, Over, CandidateInv, held, world, GateFacts
<1>28. CASE r10
    BY <1>28, <1>t, <1>g, <1>p, <1>h, <1>c DEF r10, r10Restarts, Checks, sendWorkload,
       waitForRunId, waitForR10PreOutageBoundary, r10Outage, Removes, r10Deferred,
       waitForTerminalRun, startQualifiedOpenCode, Starts, waitForContinuationObserved,
       Quiet, At, Goto, ctl, Over, CandidateInv, held, world, GateFacts
<1>29. CASE cleanupHosts
    BY <1>29, <1>t, <1>g, <1>p, <1>h, <1>c DEF cleanupHosts, At, Goto, ctl, Over,
       CandidateInv, held, world, GateFacts
<1>30. CASE cleanupStack
    BY <1>30, <1>t, <1>g, <1>p, <1>h, <1>c DEF cleanupStack, At, Goto, ctl, Over,
       CandidateInv, held, world, GateFacts
<1>31. CASE cleanupDirectory("auth", "consumers")
    BY <1>31, <1>t, <1>g, <1>p, <1>h, <1>c DEF cleanupDirectory, At, Goto, ctl, Over,
       CandidateInv, held, world, GateFacts
<1>32. CASE cleanupDirectory("consumers", "source")
    BY <1>32, <1>t, <1>g, <1>p, <1>h, <1>c DEF cleanupDirectory, At, Goto, ctl, Over,
       CandidateInv, held, world, GateFacts
<1>33. CASE cleanupSource
    <2>1. identity' = [identity EXCEPT !.post = {TreeSha256}] /\ pc[1] = "R-11"
        BY <1>33 DEF cleanupSource, At
    <2>2. /\ identity'.tree = identity.tree /\ identity'.sub = identity.sub
          /\ identity'.head = identity.head /\ identity'.preHead = identity.preHead
          /\ identity'.post = {TreeSha256}
        BY <2>1, <1>t DEF SourceTypes, IdentityRecord
    <2>3. CASE CleanupPasses /\ identity.tree \subseteq {TreeSha256}
        <3>1. divergence' = None => identity.tree # {}
            BY <2>1, <2>3, <1>t, <1>g, <1>s DEF GateFacts, CandidateInv
        <3>2. divergence' = None => identity'.post = identity'.tree
            BY <2>2, <2>3, <3>1
        <3>. QED  BY <2>2, <2>3, <3>2, <1>t, <1>s DEF At, CandidateInv
    <2>4. CASE HoldCleanup
        BY <2>2, <2>4, <1>t, <1>c DEF At, Over, CandidateInv
    <2>. QED  BY <1>33, <2>3, <2>4, Zenon DEF cleanupSource, CleanupPasses
<1>34. CASE SourceMoves
    BY <1>34, <1>t, <1>g, <1>p, <1>h, <1>c DEF SourceMoves, Env, At, Goto, ctl, Over,
       CandidateInv, held, world, GateFacts
<1>35. CASE HostDies
    BY <1>35, <1>t, <1>g, <1>p, <1>h, <1>c DEF HostDies, Env, At, Goto, ctl, Over,
       CandidateInv, held, world, GateFacts
<1>36. CASE RunMoves
    BY <1>36, <1>t, <1>g, <1>p, <1>h, <1>c DEF RunMoves, Env, At, Goto, ctl, Over,
       CandidateInv, held, world, GateFacts
<1>37. CASE DeliveryMoves
    BY <1>37, <1>t, <1>g, <1>p, <1>h, <1>c DEF DeliveryMoves, Env, At, Goto, ctl, Over,
       CandidateInv, held, world, GateFacts
<1>38. CASE ExecutorMoves
    BY <1>38, <1>t, <1>g, <1>p, <1>h, <1>c DEF ExecutorMoves, Env, At, Goto, ctl, Over,
       CandidateInv, held, world, GateFacts
<1>39. CASE ResultApplied
    BY <1>39, <1>t, <1>g, <1>p, <1>h, <1>c DEF ResultApplied, Env, At, Goto, ctl, Over,
       CandidateInv, held, world, GateFacts
<1>40. CASE Recovery
    BY <1>40, <1>t, <1>g, <1>p, <1>h, <1>c DEF Recovery, Env, At, Goto, ctl, Over,
       CandidateInv, held, world, GateFacts
<1>41. CASE ServiceDies
    BY <1>41, <1>t, <1>g, <1>p, <1>h, <1>c DEF ServiceDies, Env, At, Goto, ctl, Over,
       CandidateInv, held, world, GateFacts
<1>42. CASE UNCHANGED gatesVars
    BY <1>42, <1>t, <1>g, <1>p, <1>h, <1>c DEF gatesVars, ctl, held, world, At, Goto, ctl,
       Over, CandidateInv, held, world, GateFacts
<1>. QED  BY <1>1, <1>2, <1>3, <1>4, <1>5, <1>6, <1>7, <1>8, <1>9, <1>10, <1>11, <1>12,
             <1>13, <1>14, <1>15, <1>16, <1>17, <1>18, <1>19, <1>20, <1>21, <1>22, <1>23,
             <1>24, <1>25, <1>26, <1>27, <1>28, <1>29, <1>30, <1>31, <1>32, <1>33, <1>34,
             <1>35, <1>36, <1>37, <1>38, <1>39, <1>40, <1>41, <1>42
          DEF GatesNext, Controller, preR0Networking, cleanup, Finished

\* How often the host was started, and which host has the wake.
LEMMA HostStep ==
    ASSUME QualificationInv, [GatesNext]_gatesVars
    PROVE  HostInv'
<1>. SUFFICES ASSUME QualificationInv, GatesNext \/ UNCHANGED gatesVars PROVE HostInv'
    OBVIOUS
<1>t. /\ ReportTypes /\ SourceTypes /\ HeldTypes /\ WorldTypes /\ OrderInv
      /\ HostInv
    BY DEF QualificationInv, GatesTypeOK
<1>g. GateFacts
    BY <1>t, WhereTheReportStands
<1>p. Pass => /\ pc'[1] = NextGate(pc[1]) /\ pc'[2] = "enter" /\ divergence' = divergence
              /\ pc[1] # "R-0" /\ results'["R-0"] = "PASS" => results["R-0"] = "PASS"
              /\ pc[1] # "R-3" /\ results'["R-3"] = "PASS" => results["R-3"] = "PASS"
              /\ pc[1] # "R-9" /\ results'["R-9"] = "PASS" => results["R-9"] = "PASS"
              /\ pc[1] # "R-10" /\ results'["R-10"] = "PASS" => results["R-10"] = "PASS"
              /\ pc[1] = "R-9" => results'["R-9"] = "PASS"
    BY <1>t, PassEffect
<1>h. Hold => /\ pc'[1] = "R-11" /\ pc'[2] = "enter" /\ divergence' # None
              /\ results'["R-0"] = "PASS" => results["R-0"] = "PASS"
              /\ results'["R-3"] = "PASS" => results["R-3"] = "PASS"
              /\ results'["R-9"] = "PASS" => results["R-9"] = "PASS"
              /\ results'["R-10"] = "PASS" => results["R-10"] = "PASS"
    BY <1>t, HoldEffect, NoNewPassMeans
<1>c. HoldCleanup => /\ pc'[1] = "R-11" /\ pc'[2] = "done" /\ divergence' # None
                     /\ results'["R-0"] = "PASS" => results["R-0"] = "PASS"
                     /\ results'["R-3"] = "PASS" => results["R-3"] = "PASS"
                     /\ results'["R-9"] = "PASS" => results["R-9"] = "PASS"
                     /\ results'["R-10"] = "PASS" => results["R-10"] = "PASS"
    BY <1>t, HoldCleanupEffect, NoNewPassMeans
<1>s. CleanupPasses => /\ pc'[1] = "R-11" /\ pc'[2] = "done" /\ divergence' = divergence
                       /\ results'["R-0"] = "PASS" => results["R-0"] = "PASS"
                       /\ results'["R-3"] = "PASS" => results["R-3"] = "PASS"
                       /\ results'["R-9"] = "PASS" => results["R-9"] = "PASS"
                       /\ results'["R-10"] = "PASS" => results["R-10"] = "PASS"
    BY <1>t, CleanupPassesEffect, NoNewPassMeans
<1>n. pc[1] # "R-11" =>
        /\ pc[1] = "Q-ENTRY" => NextGate(pc[1]) = "PRE-R0"
        /\ pc[1] = "PRE-R0" => NextGate(pc[1]) = "R-0"
        /\ pc[1] = "R-0" => NextGate(pc[1]) = "R-1"
        /\ pc[1] = "R-1" => NextGate(pc[1]) = "R-2"
        /\ pc[1] = "R-2" => NextGate(pc[1]) = "R-3"
        /\ pc[1] = "R-3" => NextGate(pc[1]) = "R-4"
        /\ pc[1] = "R-4" => NextGate(pc[1]) = "R-5"
        /\ pc[1] = "R-5" => NextGate(pc[1]) = "R-6"
        /\ pc[1] = "R-6" => NextGate(pc[1]) \in {"R-7", "R-9"}
        /\ pc[1] = "R-7" => NextGate(pc[1]) = "R-8"
        /\ pc[1] = "R-8" => NextGate(pc[1]) = "R-9"
        /\ pc[1] = "R-9" => NextGate(pc[1]) \in {"R-10", "R-11"}
        /\ pc[1] = "R-10" => NextGate(pc[1]) = "R-11"
    BY <1>t, TheGateAfter
<1>1. CASE qEntry
    BY <1>1, <1>t, <1>g, <1>p, <1>h, <1>c, <1>n DEF qEntry, At, Goto, ctl, Over, HostInv,
       HostStopped, WakeCameAfterOutage, WorldTypes, held, world, GateFacts
<1>2. CASE preR0
    BY <1>2, <1>t, <1>g, <1>p, <1>h, <1>c, <1>n DEF preR0, At, Goto, ctl, Over, HostInv,
       HostStopped, WakeCameAfterOutage, WorldTypes, held, world, GateFacts
<1>3. CASE ProbeUp("dns", "dns-up")
    BY <1>3, <1>t, <1>g, <1>p, <1>h, <1>c, <1>n DEF ProbeUp, Starts, At, Goto, ctl, Over,
       HostInv, HostStopped, WakeCameAfterOutage, WorldTypes, held, world, GateFacts
<1>4. CASE ProbeDown("dns", "tei-up")
    BY <1>4, <1>t, <1>g, <1>p, <1>h, <1>c, <1>n DEF ProbeDown, Removes, At, Goto, ctl, Over,
       HostInv, HostStopped, WakeCameAfterOutage, WorldTypes, held, world, GateFacts
<1>5. CASE ProbeUp("tei", "tei-up")
    BY <1>5, <1>t, <1>g, <1>p, <1>h, <1>c, <1>n DEF ProbeUp, Starts, At, Goto, ctl, Over,
       HostInv, HostStopped, WakeCameAfterOutage, WorldTypes, held, world, GateFacts
<1>6. CASE ProbeDown("tei", "end")
    BY <1>6, <1>t, <1>g, <1>p, <1>h, <1>c, <1>n DEF ProbeDown, Removes, At, Goto, ctl, Over,
       HostInv, HostStopped, WakeCameAfterOutage, WorldTypes, held, world, GateFacts
<1>7. CASE r0
    BY <1>7, <1>t, <1>g, <1>p, <1>h, <1>c, <1>n DEF r0, At, Goto, ctl, Over, HostInv,
       HostStopped, WakeCameAfterOutage, WorldTypes, held, world, GateFacts
<1>8. CASE r1
    BY <1>8, <1>t, <1>g, <1>p, <1>h, <1>c, <1>n DEF r1, At, Goto, ctl, Over, HostInv,
       HostStopped, WakeCameAfterOutage, WorldTypes, held, world, GateFacts
<1>9. CASE r2
    BY <1>9, <1>t, <1>g, <1>p, <1>h, <1>c, <1>n DEF r2, At, Goto, ctl, Over, HostInv,
       HostStopped, WakeCameAfterOutage, WorldTypes, held, world, GateFacts
<1>10. CASE r3Consumers
    BY <1>10, <1>t, <1>g, <1>p, <1>h, <1>c, <1>n DEF r3Consumers, Starts, At, Goto, ctl,
       Over, HostInv, HostStopped, WakeCameAfterOutage, WorldTypes, held, world, GateFacts
<1>11. CASE r3
    <2>1. pc[1] = "R-3" /\ live' = live /\ host' = host /\ delivery' = delivery
        BY <1>11, Zenon DEF r3, At, held, world
    <2>2. Goto("image") \/ Pass \/ Hold
        BY <1>11, Zenon DEF r3
    <2>. QED  BY <2>1, <2>2, <1>t, <1>g, <1>p, <1>h, <1>c, <1>n DEF At, Goto, ctl, Over,
                 HostInv, HostStopped, WakeCameAfterOutage, WorldTypes, held, world,
                 GateFacts
<1>12. CASE buildConsumerEnv
    BY <1>12, <1>t, <1>g, <1>p, <1>h, <1>c, <1>n DEF buildConsumerEnv, Starts, At, Goto,
       ctl, Over, HostInv, HostStopped, WakeCameAfterOutage, WorldTypes, held, world,
       GateFacts
<1>13. CASE r4
    BY <1>13, <1>t, <1>g, <1>p, <1>h, <1>c, <1>n DEF r4, ComposeUp, At, Goto, ctl, Over, HostInv,
       HostStopped, WakeCameAfterOutage, WorldTypes, held, world, GateFacts
<1>14. CASE r5
    BY <1>14, <1>t, <1>g, <1>p, <1>h, <1>c, <1>n DEF r5, Starts, At, Goto, ctl, Over,
       HostInv, HostStopped, WakeCameAfterOutage, WorldTypes, held, world, GateFacts
<1>15. CASE r6
    BY <1>15, <1>t, <1>g, <1>p, <1>h, <1>c, <1>n DEF r6, startQualifiedOpenCode, Starts, At,
       Goto, ctl, Over, HostInv, HostStopped, WakeCameAfterOutage, WorldTypes, held, world,
       GateFacts
<1>16. CASE r7
    <2>1. CASE sendWorkload("R-7", "enter")
        BY <2>1, <1>t, <1>g, <1>p, <1>h, <1>c, <1>n DEF sendWorkload, NoDelivery, None, At,
           Goto, ctl, Over, HostInv, HostStopped, WakeCameAfterOutage, WorldTypes, held,
           world, GateFacts
    <2>2. CASE waitForRunId("R-7", "terminal")
        BY <2>2, <1>t, <1>g, <1>p, <1>h, <1>c, <1>n DEF waitForRunId, Quiet, At, Goto, ctl,
           Over, HostInv, HostStopped, WakeCameAfterOutage, WorldTypes, held, world,
           GateFacts
    <2>3. CASE waitForTerminalRun("R-7", "validate")
        BY <2>3, <1>t, <1>g, <1>p, <1>h, <1>c, <1>n DEF waitForTerminalRun, Quiet, At, Goto,
           ctl, Over, HostInv, HostStopped, WakeCameAfterOutage, WorldTypes, held, world,
           GateFacts
    <2>4. CASE At("R-7", "validate") /\ ((watched = "closed" /\ Pass) \/ Hold) /\ Quiet
        BY <2>4, <1>t, <1>g, <1>p, <1>h, <1>c, <1>n DEF Quiet, At, Goto, ctl, Over, HostInv,
           HostStopped, WakeCameAfterOutage, WorldTypes, held, world, GateFacts
    <2>. QED  BY <1>16, <2>1, <2>2, <2>3, <2>4 DEF r7
<1>17. CASE r8
    BY <1>17, <1>t, <1>g, <1>p, <1>h, <1>c, <1>n DEF r8, waitForContinuationObserved, Quiet,
       At, Goto, ctl, Over, HostInv, HostStopped, WakeCameAfterOutage, WorldTypes, held,
       world, GateFacts
<1>18. CASE r9Arm
    <2>1. CASE Recreate("R-9", "enter", "context", TRUE, "arm-worker")
        BY <2>1, <1>t, <1>g, <1>p, <1>h, <1>c, <1>n DEF Recreate, Checks, At, Goto, ctl,
           Over, HostInv, HostStopped, WakeCameAfterOutage, WorldTypes, held, world,
           GateFacts
    <2>2. CASE Recreate("R-9", "arm-worker", "worker", TRUE, "projection")
        BY <2>2, <1>t, <1>g, <1>p, <1>h, <1>c, <1>n DEF Recreate, Checks, At, Goto, ctl,
           Over, HostInv, HostStopped, WakeCameAfterOutage, WorldTypes, held, world,
           GateFacts
    <2>3. CASE /\ At("R-9", "projection")
               /\ (armed = {"context", "worker"} /\ Goto("workload")) \/ Hold
               /\ Quiet
        BY <2>3, <1>t, <1>g, <1>p, <1>h, <1>c, <1>n DEF Quiet, At, Goto, ctl, Over, HostInv,
           HostStopped, WakeCameAfterOutage, WorldTypes, held, world, GateFacts
    <2>4. CASE sendWorkload("R-9", "workload")
        BY <2>4, <1>t, <1>g, <1>p, <1>h, <1>c, <1>n DEF sendWorkload, NoDelivery, None, At,
           Goto, ctl, Over, HostInv, HostStopped, WakeCameAfterOutage, WorldTypes, held,
           world, GateFacts
    <2>5. CASE waitForRunId("R-9", "boundary")
        BY <2>5, <1>t, <1>g, <1>p, <1>h, <1>c, <1>n DEF waitForRunId, Quiet, At, Goto, ctl,
           Over, HostInv, HostStopped, WakeCameAfterOutage, WorldTypes, held, world,
           GateFacts
    <2>. QED  BY <1>18, <2>1, <2>2, <2>3, <2>4, <2>5 DEF r9Arm
<1>19. CASE r9Boundary
    BY <1>19, <1>t, <1>g, <1>p, <1>h, <1>c, <1>n DEF r9Boundary, At, Goto, ctl, Over,
       HostInv, HostStopped, WakeCameAfterOutage, WorldTypes, held, world, GateFacts
<1>20. CASE r9Window
    BY <1>20, <1>t, <1>g, <1>p, <1>h, <1>c, <1>n DEF r9Window, Quiet, At, Goto, ctl, Over,
       HostInv, HostStopped, WakeCameAfterOutage, WorldTypes, held, world, GateFacts
<1>21. CASE r9Kill
    BY <1>21, <1>t, <1>g, <1>p, <1>h, <1>c, <1>n DEF r9Kill, At, Goto, ctl, Over, HostInv,
       HostStopped, WakeCameAfterOutage, WorldTypes, held, world, GateFacts
<1>22. CASE r9Expire
    BY <1>22, <1>t, <1>g, <1>p, <1>h, <1>c, <1>n DEF r9Expire, Quiet, At, Goto, ctl, Over,
       HostInv, HostStopped, WakeCameAfterOutage, WorldTypes, held, world, GateFacts
<1>23. CASE r9Replacement
    BY <1>23, <1>t, <1>g, <1>p, <1>h, <1>c, <1>n DEF r9Replacement, Quiet, At, Goto, ctl,
       Over, HostInv, HostStopped, WakeCameAfterOutage, WorldTypes, held, world, GateFacts
<1>24. CASE r9Receipt
    BY <1>24, <1>t, <1>g, <1>p, <1>h, <1>c, <1>n DEF r9Receipt, Quiet, At, Goto, ctl, Over,
       HostInv, HostStopped, WakeCameAfterOutage, WorldTypes, held, world, GateFacts
<1>25. CASE r9ReplacementBehavior
    BY <1>25, <1>t, <1>g, <1>p, <1>h, <1>c, <1>n DEF r9ReplacementBehavior, Quiet, At, Goto,
       ctl, Over, HostInv, HostStopped, WakeCameAfterOutage, WorldTypes, held, world,
       GateFacts
<1>26. CASE r9Evidence
    BY <1>26, <1>t, <1>g, <1>p, <1>h, <1>c, <1>n DEF r9Evidence, waitForTerminalRun, Quiet,
       At, Goto, ctl, Over, HostInv, HostStopped, WakeCameAfterOutage, WorldTypes, held,
       world, GateFacts
<1>27. CASE r9Disarm
    BY <1>27, <1>t, <1>g, <1>p, <1>h, <1>c, <1>n DEF r9Disarm, Recreate, Checks, Quiet, At,
       Goto, ctl, Over, HostInv, HostStopped, WakeCameAfterOutage, WorldTypes, held, world,
       GateFacts
<1>28. CASE r10
    <2>1. CASE r10Restarts
        BY <2>1, <1>t, <1>g, <1>p, <1>h, <1>c, <1>n DEF r10Restarts, Checks, Quiet, At,
           Goto, ctl, Over, HostInv, HostStopped, WakeCameAfterOutage, WorldTypes, held,
           world, GateFacts
    <2>2. CASE sendWorkload("R-10", "workload")
        BY <2>2, <1>t, <1>g, <1>p, <1>h, <1>c, <1>n DEF sendWorkload, NoDelivery, None, At,
           Goto, ctl, Over, HostInv, HostStopped, WakeCameAfterOutage, WorldTypes, held,
           world, GateFacts
    <2>3. CASE waitForRunId("R-10", "boundary")
        BY <2>3, <1>t, <1>g, <1>p, <1>h, <1>c, <1>n DEF waitForRunId, Quiet, At, Goto, ctl,
           Over, HostInv, HostStopped, WakeCameAfterOutage, WorldTypes, held, world,
           GateFacts
    <2>4. CASE waitForR10PreOutageBoundary
        BY <2>4, <1>t, <1>g, <1>p, <1>h, <1>c, <1>n DEF waitForR10PreOutageBoundary, Quiet,
           At, Goto, ctl, Over, HostInv, HostStopped, WakeCameAfterOutage, WorldTypes, held,
           world, GateFacts
    <2>5. CASE r10Outage
        BY <2>5, <1>t, <1>g, <1>p, <1>h, <1>c, <1>n DEF r10Outage, Removes, Quiet, At, Goto,
           ctl, Over, HostInv, HostStopped, WakeCameAfterOutage, WorldTypes, held, world,
           GateFacts
    <2>6. CASE waitForTerminalRun("R-10", "deferred")
        BY <2>6, <1>t, <1>g, <1>p, <1>h, <1>c, <1>n DEF waitForTerminalRun, Quiet, At, Goto,
           ctl, Over, HostInv, HostStopped, WakeCameAfterOutage, WorldTypes, held, world,
           GateFacts
    <2>7. CASE /\ At("R-10", "deferred") /\ Quiet
               /\ \/ /\ watched = "closed" /\ evaluateContinuationOutageDeferral = "terminal"
                     /\ Goto("restart")
                  \/ Hold
        BY <2>7, <1>t, <1>g, <1>p, <1>h, <1>c, <1>n DEF evaluateContinuationOutageDeferral,
           Quiet, At, Goto, ctl, Over, HostInv, HostStopped, WakeCameAfterOutage,
           WorldTypes, held, world, GateFacts
    <2>8. CASE startQualifiedOpenCode("R-10", "restart")
        BY <2>8, <1>t, <1>g, <1>p, <1>h, <1>c, <1>n DEF startQualifiedOpenCode, Starts, At,
           Goto, ctl, Over, HostInv, HostStopped, WakeCameAfterOutage, WorldTypes, held,
           world, GateFacts
    <2>9. CASE At("R-10", "health") /\ (("opencode" \in live /\ Goto("observed")) \/ Hold) /\ Quiet
        BY <2>9, <1>t, <1>g, <1>p, <1>h, <1>c, <1>n DEF Quiet, At, Goto, ctl, Over, HostInv,
           HostStopped, WakeCameAfterOutage, WorldTypes, held, world, GateFacts
    <2>10. CASE waitForContinuationObserved("R-10", "validate")
        BY <2>10, <1>t, <1>g, <1>p, <1>h, <1>c, <1>n DEF waitForContinuationObserved,
           evaluateContinuationObservation, Quiet, At, Goto, ctl, Over, HostInv,
           HostStopped, WakeCameAfterOutage, WorldTypes, held, world, GateFacts
    <2>11. CASE At("R-10", "validate") /\ (Pass \/ Hold) /\ Quiet
        BY <2>11, <1>t, <1>g, <1>p, <1>h, <1>c, <1>n DEF Quiet, At, Goto, ctl, Over,
           HostInv, HostStopped, WakeCameAfterOutage, WorldTypes, held, world, GateFacts
    <2>. QED  BY <1>28, <2>1, <2>2, <2>3, <2>4, <2>5, <2>6, <2>7, <2>8, <2>9, <2>10, <2>11
                 DEF r10, r10Deferred
<1>29. CASE cleanupHosts
    BY <1>29, <1>t, <1>g, <1>p, <1>h, <1>c, <1>n DEF cleanupHosts, At, Goto, ctl, Over,
       HostInv, HostStopped, WakeCameAfterOutage, WorldTypes, held, world, GateFacts
<1>30. CASE cleanupStack
    BY <1>30, <1>t, <1>g, <1>p, <1>h, <1>c, <1>n DEF cleanupStack, At, Goto, ctl, Over,
       HostInv, HostStopped, WakeCameAfterOutage, WorldTypes, held, world, GateFacts
<1>31. CASE cleanupDirectory("auth", "consumers")
    BY <1>31, <1>t, <1>g, <1>p, <1>h, <1>c, <1>n DEF cleanupDirectory, At, Goto, ctl, Over,
       HostInv, HostStopped, WakeCameAfterOutage, WorldTypes, held, world, GateFacts
<1>32. CASE cleanupDirectory("consumers", "source")
    BY <1>32, <1>t, <1>g, <1>p, <1>h, <1>c, <1>n DEF cleanupDirectory, At, Goto, ctl, Over,
       HostInv, HostStopped, WakeCameAfterOutage, WorldTypes, held, world, GateFacts
<1>33. CASE cleanupSource
    <2>1. pc[1] = "R-11" /\ live' = live /\ host' = host /\ delivery' = delivery
        BY <1>33, Zenon DEF cleanupSource, At, held, world
    <2>2. CleanupPasses \/ HoldCleanup
        BY <1>33, Zenon DEF cleanupSource, CleanupPasses
    <2>. QED  BY <2>1, <2>2, <1>t, <1>g, <1>p, <1>h, <1>c, <1>n, <1>s DEF At, Goto, ctl,
                 Over, HostInv, HostStopped, WakeCameAfterOutage, WorldTypes, held, world,
                 GateFacts
<1>34. CASE SourceMoves
    BY <1>34, <1>t, <1>g, <1>p, <1>h, <1>c, <1>n DEF SourceMoves, Env, At, Goto, ctl, Over,
       HostInv, HostStopped, WakeCameAfterOutage, WorldTypes, held, world, GateFacts
<1>35. CASE HostDies
    BY <1>35, <1>t, <1>g, <1>p, <1>h, <1>c, <1>n DEF HostDies, Env, At, Goto, ctl, Over,
       HostInv, HostStopped, WakeCameAfterOutage, WorldTypes, held, world, GateFacts
<1>36. CASE RunMoves
    BY <1>36, <1>t, <1>g, <1>p, <1>h, <1>c, <1>n DEF RunMoves, Env, At, Goto, ctl, Over,
       HostInv, HostStopped, WakeCameAfterOutage, WorldTypes, held, world, GateFacts
<1>37. CASE DeliveryMoves
    <2>0. pc' = pc /\ results' = results /\ divergence' = divergence /\ live' = live /\ host' = host
        BY <1>37 DEF DeliveryMoves, Env, ctl, held
    <2>1. CASE delivery.status = None /\ delivery' = [delivery EXCEPT !.status = "pending"]
        <3>1. delivery'.host = delivery.host /\ delivery'.status = "pending"
            BY <2>1, <1>t DEF WorldTypes, DeliveryRecord
        <3>. QED  BY <2>0, <2>1, <3>1, <1>t DEF At, HostInv, HostStopped,
                     WakeCameAfterOutage, None
    <2>2. CASE /\ delivery.status \in {"pending", "deferred"} /\ "opencode" \in live
               /\ delivery' = [status |-> "dispatching",
                               host |-> IF delivery.host = 0 THEN host ELSE delivery.host]
        <3>1. /\ delivery'.status = "dispatching"
              /\ delivery'.host = IF delivery.host = 0 THEN host ELSE delivery.host
            BY <2>2
        <3>2. host \in Nat /\ delivery.host \in Nat
            BY <1>t DEF WorldTypes, DeliveryRecord
        <3>. QED  BY <2>0, <2>2, <3>1, <3>2, <1>t, <1>g DEF At, HostInv, HostStopped,
                     WakeCameAfterOutage, GateFacts
    <2>3. CASE /\ delivery.status \in {"pending", "deferred"}
               /\ delivery' = [delivery EXCEPT !.status = "deferred"]
        <3>1. delivery'.host = delivery.host /\ delivery'.status = "deferred"
            BY <2>3, <1>t DEF WorldTypes, DeliveryRecord
        <3>. QED  BY <2>0, <2>3, <3>1, <1>t DEF At, HostInv, HostStopped,
                     WakeCameAfterOutage
    <2>4. ASSUME NEW s \in {"accepted", "deferred", "dead"}, delivery.status = "dispatching",
                 delivery' = [delivery EXCEPT !.status = s]
          PROVE  HostInv'
        <3>1. delivery'.host = delivery.host /\ delivery'.status = s
            BY <2>4, <1>t DEF WorldTypes, DeliveryRecord
        <3>. QED  BY <2>0, <2>4, <3>1, <1>t DEF At, HostInv, HostStopped,
                     WakeCameAfterOutage
    <2>5. ASSUME NEW s \in {"observed", "dead"}, delivery.status = "accepted",
                 delivery' = [delivery EXCEPT !.status = s]
          PROVE  HostInv'
        <3>1. delivery'.host = delivery.host /\ delivery'.status = s
            BY <2>5, <1>t DEF WorldTypes, DeliveryRecord
        <3>. QED  BY <2>0, <2>5, <3>1, <1>t DEF At, HostInv, HostStopped,
                     WakeCameAfterOutage
    <2>. QED  BY <1>37, <2>1, <2>2, <2>3, <2>4, <2>5 DEF DeliveryMoves
<1>38. CASE ExecutorMoves
    BY <1>38, <1>t, <1>g, <1>p, <1>h, <1>c, <1>n DEF ExecutorMoves, Env, At, Goto, ctl,
       Over, HostInv, HostStopped, WakeCameAfterOutage, WorldTypes, held, world, GateFacts
<1>39. CASE ResultApplied
    BY <1>39, <1>t, <1>g, <1>p, <1>h, <1>c, <1>n DEF ResultApplied, Env, At, Goto, ctl,
       Over, HostInv, HostStopped, WakeCameAfterOutage, WorldTypes, held, world, GateFacts
<1>40. CASE Recovery
    BY <1>40, <1>t, <1>g, <1>p, <1>h, <1>c, <1>n DEF Recovery, Env, At, Goto, ctl, Over,
       HostInv, HostStopped, WakeCameAfterOutage, WorldTypes, held, world, GateFacts
<1>41. CASE ServiceDies
    BY <1>41, <1>t, <1>g, <1>p, <1>h, <1>c, <1>n DEF ServiceDies, Env, At, Goto, ctl, Over,
       HostInv, HostStopped, WakeCameAfterOutage, WorldTypes, held, world, GateFacts
<1>42. CASE UNCHANGED gatesVars
    BY <1>42, <1>t, <1>g, <1>p, <1>h, <1>c, <1>n DEF gatesVars, ctl, held, world, At, Goto,
       ctl, Over, HostInv, HostStopped, WakeCameAfterOutage, WorldTypes, held, world,
       GateFacts
<1>. QED  BY <1>1, <1>2, <1>3, <1>4, <1>5, <1>6, <1>7, <1>8, <1>9, <1>10, <1>11, <1>12,
             <1>13, <1>14, <1>15, <1>16, <1>17, <1>18, <1>19, <1>20, <1>21, <1>22, <1>23,
             <1>24, <1>25, <1>26, <1>27, <1>28, <1>29, <1>30, <1>31, <1>32, <1>33, <1>34,
             <1>35, <1>36, <1>37, <1>38, <1>39, <1>40, <1>41, <1>42
          DEF GatesNext, Controller, preR0Networking, cleanup, Finished

\* What the death of a worker changes of its task.
LEMMA DeadEffect ==
    ASSUME NEW t \in TaskRecord
    PROVE  /\ Dead(t).exec = t.exec /\ Dead(t).passed = t.passed /\ Dead(t).resumed = t.resumed
           /\ Dead(t).closedBy = t.closedBy /\ t.lost \subseteq Dead(t).lost
           /\ Dead(t).projected = t.projected /\ Dead(t).rejected = t.rejected
           /\ Dead(t).phase = None <=> t.phase = None
           /\ Dead(t).phase = "lost" => t.phase = "lost" \/ t.exec \in Dead(t).lost
           /\ Dead(t).phase \in {None, "lost", "closed"}
           /\ t.phase = "closed" => Dead(t).phase = "closed"
<1>. DEFINE l == IF t.phase \in {None, "lost", "closed"} THEN t.lost ELSE t.lost \cup {t.exec}
            p == IF t.phase \in {None, "closed"} THEN t.phase ELSE "lost"
<1>1. Dead(t) = [t EXCEPT !.up = FALSE, !.lost = l, !.phase = p]
    BY DEF Dead
<1>2. /\ t.lost \subseteq l /\ (p = None <=> t.phase = None)
      /\ p = "lost" => t.phase = "lost" \/ t.exec \in l
      /\ p \in {None, "lost", "closed"} /\ (t.phase = "closed" => p = "closed")
    BY DEF None
<1>3. l \in SUBSET Nat /\ \E s : p = s
    BY DEF TaskRecord
<1>. HIDE DEF l, p
<1>4. /\ Dead(t).exec = t.exec /\ Dead(t).passed = t.passed /\ Dead(t).resumed = t.resumed
      /\ Dead(t).closedBy = t.closedBy /\ Dead(t).lost = l /\ Dead(t).phase = p
      /\ Dead(t).projected = t.projected /\ Dead(t).rejected = t.rejected
    BY <1>1, <1>2 DEF TaskRecord
<1>. QED  BY <1>2, <1>4

\* What an executor changes of its task.
ExecutorEffect ==
  /\ task'.lost = task.lost /\ task'.closedBy = task.closedBy
  /\ task.passed \subseteq task'.passed /\ task.resumed \subseteq task'.resumed
  /\ task'.projected = task.projected /\ task'.rejected = task.rejected
  /\ task'.phase \notin {None, "lost"} /\ task.phase \notin {"lost", "closed"} /\ task'.up
  /\ task'.exec = task.exec \/ (task.phase = None /\ task'.exec = 1)

\* Every step of an executor is such a change.
LEMMA ExecutorMovesEffect ==
    ASSUME task \in TaskRecord, ExecutorMoves
    PROVE  ExecutorEffect
<1>. USE DEF ExecutorEffect, TaskRecord, None
<1>0. task.up
    BY DEF ExecutorMoves
<1>1. CASE task.phase = None /\ task' = [task EXCEPT !.exec = 1, !.phase = "model"]
    BY <1>0, <1>1
<1>2. CASE /\ task.phase = "model"
           /\ task' = [task EXCEPT !.checkpoint = TRUE, !.phase = "ready"]
    BY <1>0, <1>2
<1>3. CASE task.phase = "model" /\ task' = [task EXCEPT !.phase = "ready"]
    BY <1>0, <1>3
<1>4. CASE /\ task.phase = "resuming"
           /\ task' = [task EXCEPT !.resumed = @ \cup {task.exec}, !.phase = "ready"]
    BY <1>0, <1>4
<1>5. CASE /\ task.phase = "ready"
           /\ task' = [task EXCEPT !.started = @ \cup {task.exec}, !.phase = "started"]
    BY <1>0, <1>5
<1>6. CASE /\ task.phase = "started"
           /\ task' = [task EXCEPT !.box = @ \cup {task.exec}, !.phase = "behavior"]
    BY <1>0, <1>6
<1>7. CASE /\ task.phase = "behavior"
           /\ task' = [task EXCEPT !.box = @ \ {task.exec}, !.passed = @ \cup {task.exec},
                                   !.phase = "done"]
    BY <1>0, <1>7
<1>. HIDE DEF ExecutorEffect, TaskRecord, None
<1>. QED  BY <1>1, <1>2, <1>3, <1>4, <1>5, <1>6, <1>7, Zenon DEF ExecutorMoves

\* What the recovery of a lost execution changes of its task.
RecoveryEffect ==
  /\ task'.lost = task.lost /\ task'.closedBy = task.closedBy
  /\ task'.passed = task.passed /\ task'.resumed = task.resumed
  /\ task'.projected = task.projected /\ task'.rejected = task.rejected
  /\ ~task'.up => ~task.up
  /\ \/ task'.exec = task.exec /\ task'.phase = task.phase
     \/ /\ task.phase = "lost" /\ task'.exec = task.exec + 1
        /\ task'.phase \notin {None, "lost"} /\ task'.up

\* Every step of the recovery is such a change.
LEMMA RecoveryMovesEffect ==
    ASSUME task \in TaskRecord, Recovery
    PROVE  RecoveryEffect
<1>1. CASE task' = [task EXCEPT !.up = TRUE, !.restarts = @ + 1]
    BY <1>1 DEF RecoveryEffect, TaskRecord, None
<1>2. CASE \E x \in task.box \cap task.lost : task' = [task EXCEPT !.box = @ \ {x}]
    BY <1>2 DEF RecoveryEffect, TaskRecord, None
<1>3. CASE task' = [task EXCEPT !.expired = TRUE]
    BY <1>3 DEF RecoveryEffect, TaskRecord, None
<1>4. CASE /\ task.phase = "lost" /\ task.up
           /\ task' = [task EXCEPT !.exec = @ + 1, !.expired = FALSE,
                                   !.phase = IF task.checkpoint THEN "resuming" ELSE "model"]
    <2>1. task'.phase \notin {None, "lost"}
        BY <1>4 DEF TaskRecord, None
    <2>2. /\ task'.lost = task.lost /\ task'.closedBy = task.closedBy
          /\ task'.passed = task.passed /\ task'.resumed = task.resumed
          /\ task'.exec = task.exec + 1 /\ task'.up
          /\ task'.projected = task.projected /\ task'.rejected = task.rejected
        BY <1>4 DEF TaskRecord
    <2>. QED  BY <1>4, <2>1, <2>2 DEF RecoveryEffect
<1>. QED  BY <1>1, <1>2, <1>3, <1>4, Zenon DEF Recovery

\* What the steps of R-9 have seen of the target and of its replacement stays so.
LEMMA RecoveryStep ==
    ASSUME QualificationInv, [GatesNext]_gatesVars
    PROVE  RecoveryInv'
<1>. SUFFICES ASSUME QualificationInv, GatesNext \/ UNCHANGED gatesVars PROVE RecoveryInv'
    OBVIOUS
<1>t. /\ ReportTypes /\ SourceTypes /\ HeldTypes /\ WorldTypes /\ OrderInv
      /\ RecoveryInv
    BY DEF QualificationInv, GatesTypeOK
<1>g. GateFacts
    BY <1>t, WhereTheReportStands
<1>p. Pass => /\ pc'[1] = NextGate(pc[1]) /\ pc'[2] = "enter" /\ divergence' = divergence
              /\ pc[1] # "R-0" /\ results'["R-0"] = "PASS" => results["R-0"] = "PASS"
              /\ pc[1] # "R-3" /\ results'["R-3"] = "PASS" => results["R-3"] = "PASS"
              /\ pc[1] # "R-9" /\ results'["R-9"] = "PASS" => results["R-9"] = "PASS"
              /\ pc[1] # "R-10" /\ results'["R-10"] = "PASS" => results["R-10"] = "PASS"
              /\ pc[1] = "R-9" => results'["R-9"] = "PASS"
    BY <1>t, PassEffect
<1>h. Hold => /\ pc'[1] = "R-11" /\ pc'[2] = "enter" /\ divergence' # None
              /\ results'["R-0"] = "PASS" => results["R-0"] = "PASS"
              /\ results'["R-3"] = "PASS" => results["R-3"] = "PASS"
              /\ results'["R-9"] = "PASS" => results["R-9"] = "PASS"
              /\ results'["R-10"] = "PASS" => results["R-10"] = "PASS"
    BY <1>t, HoldEffect, NoNewPassMeans
<1>c. HoldCleanup => /\ pc'[1] = "R-11" /\ pc'[2] = "done" /\ divergence' # None
                     /\ results'["R-0"] = "PASS" => results["R-0"] = "PASS"
                     /\ results'["R-3"] = "PASS" => results["R-3"] = "PASS"
                     /\ results'["R-9"] = "PASS" => results["R-9"] = "PASS"
                     /\ results'["R-10"] = "PASS" => results["R-10"] = "PASS"
    BY <1>t, HoldCleanupEffect, NoNewPassMeans
<1>s. CleanupPasses => /\ pc'[1] = "R-11" /\ pc'[2] = "done" /\ divergence' = divergence
                       /\ results'["R-0"] = "PASS" => results["R-0"] = "PASS"
                       /\ results'["R-3"] = "PASS" => results["R-3"] = "PASS"
                       /\ results'["R-9"] = "PASS" => results["R-9"] = "PASS"
                       /\ results'["R-10"] = "PASS" => results["R-10"] = "PASS"
    BY <1>t, CleanupPassesEffect, NoNewPassMeans
<1>n. pc[1] # "R-11" =>
        /\ pc[1] = "Q-ENTRY" => NextGate(pc[1]) = "PRE-R0"
        /\ pc[1] = "PRE-R0" => NextGate(pc[1]) = "R-0"
        /\ pc[1] = "R-0" => NextGate(pc[1]) = "R-1"
        /\ pc[1] = "R-1" => NextGate(pc[1]) = "R-2"
        /\ pc[1] = "R-2" => NextGate(pc[1]) = "R-3"
        /\ pc[1] = "R-3" => NextGate(pc[1]) = "R-4"
        /\ pc[1] = "R-4" => NextGate(pc[1]) = "R-5"
        /\ pc[1] = "R-5" => NextGate(pc[1]) = "R-6"
        /\ pc[1] = "R-6" => NextGate(pc[1]) \in {"R-7", "R-9"}
        /\ pc[1] = "R-7" => NextGate(pc[1]) = "R-8"
        /\ pc[1] = "R-8" => NextGate(pc[1]) = "R-9"
        /\ pc[1] = "R-9" => NextGate(pc[1]) \in {"R-10", "R-11"}
        /\ pc[1] = "R-10" => NextGate(pc[1]) = "R-11"
    BY <1>t, TheGateAfter
<1>1. CASE qEntry
    BY <1>1, <1>t, <1>g, <1>p, <1>h, <1>c, <1>n DEF qEntry, At, Goto, ctl, Over,
       RecoveryInv, RecoveryHappened, Unarmed, Unkilled, Disarming, Judging, Replaced, held,
       world, GateFacts
<1>2. CASE preR0
    <2>1. seen'.kills = seen.kills /\ seen'.target = seen.target
        BY <1>2, <1>t DEF preR0, SourceTypes, SeenRecord
    <2>2. pc[1] = "PRE-R0" /\ task' = task /\ watched' = watched /\ (Goto("dns-up") \/ Pass \/ Hold)
        BY <1>2, Zenon DEF preR0, At, world
    <2>. QED  BY <2>1, <2>2, <1>t, <1>g, <1>p, <1>h, <1>c, <1>n DEF Goto, ctl, RecoveryInv,
                 RecoveryHappened, Unarmed, Unkilled, Disarming, Judging, Replaced,
                 GateFacts
<1>3. CASE ProbeUp("dns", "dns-up")
    BY <1>3, <1>t, <1>g, <1>p, <1>h, <1>c, <1>n DEF ProbeUp, Starts, At, Goto, ctl, Over,
       RecoveryInv, RecoveryHappened, Unarmed, Unkilled, Disarming, Judging, Replaced, held,
       world, GateFacts
<1>4. CASE ProbeDown("dns", "tei-up")
    BY <1>4, <1>t, <1>g, <1>p, <1>h, <1>c, <1>n DEF ProbeDown, Removes, At, Goto, ctl, Over,
       RecoveryInv, RecoveryHappened, Unarmed, Unkilled, Disarming, Judging, Replaced, held,
       world, GateFacts
<1>5. CASE ProbeUp("tei", "tei-up")
    BY <1>5, <1>t, <1>g, <1>p, <1>h, <1>c, <1>n DEF ProbeUp, Starts, At, Goto, ctl, Over,
       RecoveryInv, RecoveryHappened, Unarmed, Unkilled, Disarming, Judging, Replaced, held,
       world, GateFacts
<1>6. CASE ProbeDown("tei", "end")
    BY <1>6, <1>t, <1>g, <1>p, <1>h, <1>c, <1>n DEF ProbeDown, Removes, At, Goto, ctl, Over,
       RecoveryInv, RecoveryHappened, Unarmed, Unkilled, Disarming, Judging, Replaced, held,
       world, GateFacts
<1>7. CASE r0
    <2>1. seen'.kills = seen.kills /\ seen'.target = seen.target
        <3>1. seen' = seen \/ seen' = [seen EXCEPT !.read = {src.head}]
            BY <1>7, Zenon DEF r0
        <3>. QED  BY <3>1, <1>t DEF SourceTypes, SeenRecord
    <2>2. pc[1] = "R-0" /\ task' = task /\ watched' = watched /\ (Goto("tree") \/ Pass \/ Hold)
        BY <1>7, Zenon DEF r0, At, world
    <2>. QED  BY <2>1, <2>2, <1>t, <1>g, <1>p, <1>h, <1>c, <1>n DEF Goto, ctl, RecoveryInv,
                 RecoveryHappened, Unarmed, Unkilled, Disarming, Judging, Replaced,
                 GateFacts
<1>8. CASE r1
    BY <1>8, <1>t, <1>g, <1>p, <1>h, <1>c, <1>n DEF r1, At, Goto, ctl, Over, RecoveryInv,
       RecoveryHappened, Unarmed, Unkilled, Disarming, Judging, Replaced, held, world,
       GateFacts
<1>9. CASE r2
    BY <1>9, <1>t, <1>g, <1>p, <1>h, <1>c, <1>n DEF r2, At, Goto, ctl, Over, RecoveryInv,
       RecoveryHappened, Unarmed, Unkilled, Disarming, Judging, Replaced, held, world,
       GateFacts
<1>10. CASE r3Consumers
    BY <1>10, <1>t, <1>g, <1>p, <1>h, <1>c, <1>n DEF r3Consumers, Starts, At, Goto, ctl,
       Over, RecoveryInv, RecoveryHappened, Unarmed, Unkilled, Disarming, Judging, Replaced,
       held, world, GateFacts
<1>11. CASE r3
    <2>1. pc[1] = "R-3" /\ seen' = seen /\ task' = task /\ watched' = watched
        BY <1>11, Zenon DEF r3, At, world
    <2>2. Goto("image") \/ Pass \/ Hold
        BY <1>11, Zenon DEF r3
    <2>. QED  BY <2>1, <2>2, <1>t, <1>g, <1>p, <1>h, <1>c, <1>n DEF Goto, ctl, RecoveryInv,
                 RecoveryHappened, Unarmed, Unkilled, Disarming, Judging, Replaced,
                 GateFacts
<1>12. CASE buildConsumerEnv
    BY <1>12, <1>t, <1>g, <1>p, <1>h, <1>c, <1>n DEF buildConsumerEnv, Starts, At, Goto,
       ctl, Over, RecoveryInv, RecoveryHappened, Unarmed, Unkilled, Disarming, Judging,
       Replaced, held, world, GateFacts
<1>13. CASE r4
    BY <1>13, <1>t, <1>g, <1>p, <1>h, <1>c, <1>n DEF r4, ComposeUp, At, Goto, ctl, Over, RecoveryInv,
       RecoveryHappened, Unarmed, Unkilled, Disarming, Judging, Replaced, held, world,
       GateFacts
<1>14. CASE r5
    BY <1>14, <1>t, <1>g, <1>p, <1>h, <1>c, <1>n DEF r5, Starts, At, Goto, ctl, Over,
       RecoveryInv, RecoveryHappened, Unarmed, Unkilled, Disarming, Judging, Replaced, held,
       world, GateFacts
<1>15. CASE r6
    BY <1>15, <1>t, <1>g, <1>p, <1>h, <1>c, <1>n DEF r6, startQualifiedOpenCode, Starts, At,
       Goto, ctl, Over, RecoveryInv, RecoveryHappened, Unarmed, Unkilled, Disarming,
       Judging, Replaced, held, world, GateFacts
<1>16. CASE r7
    BY <1>16, <1>t, <1>g, <1>p, <1>h, <1>c, <1>n DEF r7, sendWorkload, waitForRunId,
       waitForTerminalRun, Quiet, At, Goto, ctl, Over, RecoveryInv, RecoveryHappened,
       Unarmed, Unkilled, Disarming, Judging, Replaced, held, world, GateFacts
<1>17. CASE r8
    BY <1>17, <1>t, <1>g, <1>p, <1>h, <1>c, <1>n DEF r8, waitForContinuationObserved, Quiet,
       At, Goto, ctl, Over, RecoveryInv, RecoveryHappened, Unarmed, Unkilled, Disarming,
       Judging, Replaced, held, world, GateFacts
<1>18. CASE r9Arm
    BY <1>18, <1>t, <1>g, <1>p, <1>h, <1>c, <1>n DEF r9Arm, Recreate, Checks, sendWorkload,
       waitForRunId, Quiet, At, Goto, ctl, Over, RecoveryInv, RecoveryHappened, Unarmed,
       Unkilled, Disarming, Judging, Replaced, held, world, GateFacts
<1>19. CASE r9Boundary
    <2>0. pc[1] = "R-9" /\ pc[2] = "boundary" /\ task' = task /\ watched' = watched
        BY <1>19 DEF r9Boundary, At, world
    <2>1. CASE task.exec > 0 /\ seen' = [seen EXCEPT !.target = task.exec] /\ Goto("window")
        <3>1. seen'.kills = seen.kills /\ seen'.target = task.exec /\ task.exec \in Nat
            BY <2>1, <1>t DEF SourceTypes, SeenRecord, WorldTypes, TaskRecord
        <3>. QED  BY <2>0, <2>1, <3>1, <1>t, <1>g, <1>p, <1>h, <1>c, <1>n DEF Goto, ctl,
                     RecoveryInv, RecoveryHappened, Unarmed, Unkilled, Disarming, Judging,
                     Replaced, GateFacts
    <2>2. CASE seen' = seen /\ Hold
        BY <2>0, <2>2, <1>t, <1>g, <1>p, <1>h, <1>c, <1>n DEF RecoveryInv, RecoveryHappened,
           Unarmed, Unkilled, Disarming, Judging, Replaced, GateFacts
    <2>. QED  BY <1>19, <2>1, <2>2 DEF r9Boundary
<1>20. CASE r9Window
    <2>1. seen'.kills = seen.kills /\ seen'.target = seen.target
        BY <1>20, <1>t DEF r9Window, Quiet, SourceTypes, SeenRecord
    <2>2. /\ pc[1] = "R-9" /\ pc[2] \in {"window", "inspect"} /\ task' = task /\ watched' = watched
          /\ Goto("inspect") \/ Goto("kill") \/ Hold
        BY <1>20, Zenon DEF r9Window, Quiet, At, world
    <2>. QED  BY <2>1, <2>2, <1>t, <1>g, <1>p, <1>h, <1>c, <1>n DEF Goto, ctl, RecoveryInv,
                 RecoveryHappened, Unarmed, Unkilled, Disarming, Judging, Replaced,
                 GateFacts
<1>21. CASE r9Kill
    <2>1. /\ pc[1] = "R-9" /\ pc[2] = "kill" /\ watched' = watched /\ Goto("removed")
          /\ seen' = [seen EXCEPT !.kills = @ + 1]
          /\ task' = Dead(task) \/ (task' = task /\ ~task.up)
        BY <1>21 DEF r9Kill, At
    <2>2. seen'.kills = seen.kills + 1 /\ seen'.target = seen.target
        BY <2>1, <1>t DEF SourceTypes, SeenRecord
    <2>3. task \in TaskRecord /\ seen.target \in Nat /\ task.exec \in Nat
        BY <1>t DEF WorldTypes, SourceTypes, SeenRecord, TaskRecord
    <2>4. /\ task'.exec = task.exec /\ task'.passed = task.passed /\ task'.resumed = task.resumed
          /\ task'.closedBy = task.closedBy /\ task.lost \subseteq task'.lost
          /\ task'.projected = task.projected /\ task'.rejected = task.rejected
          /\ task'.phase = None <=> task.phase = None
          /\ task'.phase = "lost" => task.phase = "lost" \/ task.exec \in task'.lost
          /\ task'.phase \in {None, "lost", "closed"}
          /\ task.phase = "closed" => task'.phase = "closed"
        BY <2>1, <2>3, <1>t, DeadEffect DEF RecoveryInv
    <2>5. seen.kills = 0 /\ pc'[1] = "R-9" /\ pc'[2] = "removed" /\ results' = results
        BY <2>1, <1>t DEF Goto, ctl, RecoveryInv, Unkilled, Unarmed
    <2>. QED  BY <2>1, <2>2, <2>3, <2>4, <2>5, <1>t, <1>g, <1>p, <1>h, <1>c, <1>n
              DEF RecoveryInv, RecoveryHappened, Unarmed, Unkilled, Disarming, Judging,
                  Replaced, GateFacts
<1>22. CASE r9Expire
    <2>0. task.exec \in Nat /\ seen.target \in Nat /\ task.rejected \subseteq Nat
        BY <1>t DEF WorldTypes, SourceTypes, SeenRecord, TaskRecord
    <2>1. /\ task'.exec = task.exec /\ task'.passed = task.passed /\ task'.resumed = task.resumed
          /\ task'.closedBy = task.closedBy /\ task'.lost = task.lost /\ task'.phase = task.phase
          /\ task'.projected = task.projected /\ task'.rejected = task.rejected
          /\ task'.up = task.up
        BY <1>22, <1>t DEF r9Expire, Quiet, world, WorldTypes, TaskRecord
    <2>2. /\ pc[1] = "R-9" /\ pc[2] \in {"removed", "expire"} /\ seen' = seen /\ watched' = watched
          /\ \/ Goto("expire") \/ Hold
             \/ Goto("restarted") /\ task.exec = seen.target
        BY <1>22 DEF r9Expire, Quiet, At, world
    <2>3. task.exec = seen.target => seen.target \notin task.rejected
        BY <2>0, <1>t DEF RecoveryInv
    <2>. QED  BY <2>1, <2>2, <2>3, <1>t, <1>g, <1>p, <1>h, <1>c, <1>n DEF Goto, ctl,
                 RecoveryInv, RecoveryHappened, Unarmed, Unkilled, Disarming, Judging,
                 Replaced, GateFacts
<1>23. CASE r9Replacement
    <2>0. seen.target \in Nat /\ task.exec \in Nat
        BY <1>t DEF SourceTypes, SeenRecord, WorldTypes, TaskRecord
    <2>1. CASE At("R-9", "restarted") /\ (Goto("replacement") \/ Hold) /\ Quiet
        BY <2>1, <1>t, <1>g, <1>p, <1>h, <1>c, <1>n DEF Quiet, At, Goto, ctl, Over,
           RecoveryInv, RecoveryHappened, Unarmed, Unkilled, Disarming, Judging, Replaced,
           held, world, GateFacts
    <2>2. CASE At("R-9", "replacement") /\ task.exec = seen.target + 1 /\ Goto("receipt") /\ Quiet
        BY <2>0, <2>2, <1>t, <1>g, <1>p, <1>h, <1>c, <1>n DEF Quiet, At, Goto, ctl, Over,
           RecoveryInv, RecoveryHappened, Unarmed, Unkilled, Disarming, Judging, Replaced,
           held, world, GateFacts
    <2>3. CASE At("R-9", "replacement") /\ Hold /\ Quiet
        BY <2>3, <1>t, <1>g, <1>p, <1>h, <1>c, <1>n DEF Quiet, At, Goto, ctl, Over,
           RecoveryInv, RecoveryHappened, Unarmed, Unkilled, Disarming, Judging, Replaced,
           held, world, GateFacts
    <2>. QED  BY <1>23, <2>1, <2>2, <2>3 DEF r9Replacement
<1>24. CASE r9Receipt
    BY <1>24, <1>t, <1>g, <1>p, <1>h, <1>c, <1>n DEF r9Receipt, Quiet, At, Goto, ctl, Over,
       RecoveryInv, RecoveryHappened, Unarmed, Unkilled, Disarming, Judging, Replaced, held,
       world, GateFacts
<1>25. CASE r9ReplacementBehavior
    BY <1>25, <1>t, <1>g, <1>p, <1>h, <1>c, <1>n DEF r9ReplacementBehavior, Quiet, At, Goto,
       ctl, Over, RecoveryInv, RecoveryHappened, Unarmed, Unkilled, Disarming, Judging,
       Replaced, held, world, GateFacts
<1>26. CASE r9Evidence
    <2>1. CASE waitForTerminalRun("R-9", "evidence")
        BY <2>1, <1>t, <1>g, <1>p, <1>h, <1>c, <1>n DEF waitForTerminalRun, Quiet, At, Goto,
           ctl, Over, RecoveryInv, RecoveryHappened, Unarmed, Unkilled, Disarming, Judging,
           Replaced, held, world, GateFacts
    <2>2. CASE /\ At("R-9", "evidence") /\ Quiet
               /\ \/ watched = "closed" /\ evaluateH9RRecoveryEvidence /\ Goto("disarm-context")
                  \/ Hold
        BY <2>2, <1>t, <1>g, <1>p, <1>h, <1>c, <1>n DEF evaluateH9RRecoveryEvidence, Quiet,
           At, Goto, ctl, Over, RecoveryInv, RecoveryHappened, Unarmed, Unkilled, Disarming,
           Judging, Replaced, held, world, GateFacts
    <2>. QED  BY <1>26, <2>1, <2>2 DEF r9Evidence
<1>27. CASE r9Disarm
    <2>1. CASE Recreate("R-9", "disarm-context", "context", FALSE, "disarmed-context")
        BY <2>1, <1>t, <1>g, <1>p, <1>h, <1>c, <1>n DEF Recreate, Checks, At, Goto, ctl,
           Over, RecoveryInv, RecoveryHappened, Unarmed, Unkilled, Disarming, Judging,
           Replaced, held, world, GateFacts
    <2>2. CASE At("R-9", "disarmed-context") /\ (Goto("disarm-worker") \/ Hold) /\ Quiet
        BY <2>2, <1>t, <1>g, <1>p, <1>h, <1>c, <1>n DEF Quiet, At, Goto, ctl, Over,
           RecoveryInv, RecoveryHappened, Unarmed, Unkilled, Disarming, Judging, Replaced,
           held, world, GateFacts
    <2>3. CASE Recreate("R-9", "disarm-worker", "worker", FALSE, "disarmed-worker")
        BY <2>3, <1>t, <1>g, <1>p, <1>h, <1>c, <1>n DEF Recreate, Checks, At, Goto, ctl,
           Over, RecoveryInv, RecoveryHappened, Unarmed, Unkilled, Disarming, Judging,
           Replaced, held, world, GateFacts
    <2>4. CASE At("R-9", "disarmed-worker") /\ Hold /\ Quiet
        BY <2>4, <1>t, <1>g, <1>p, <1>h, <1>c, <1>n DEF Quiet, At, Goto, ctl, Over,
           RecoveryInv, RecoveryHappened, Unarmed, Unkilled, Disarming, Judging, Replaced,
           held, world, GateFacts
    <2>5. CASE At("R-9", "disarmed-worker") /\ Pass /\ Quiet
        <3>1. /\ pc[1] = "R-9" /\ pc[2] = "disarmed-worker" /\ seen' = seen /\ task' = task
              /\ watched' = watched
            BY <2>5 DEF Quiet, world, At
        <3>2. /\ seen.kills = 1 /\ seen.target > 0 /\ seen.target < task.exec
              /\ seen.target + 1 \in task.passed /\ seen.target \notin task.rejected
              /\ seen.target + 1 \in task.resumed
              /\ task.closedBy = seen.target + 1 \/ seen.target + 1 \in task.rejected
            BY <3>1, <1>t DEF RecoveryInv, Unarmed, Unkilled, Disarming, Judging, Replaced
        <3>3. seen.target \in task.lost
            BY <3>2, <1>t DEF RecoveryInv, SourceTypes, SeenRecord
        <3>4. pc'[1] \in {"R-10", "R-11"}
            BY <2>5, <3>1, <1>p, <1>n
        <3>5. RecoveryHappened'
            BY <3>1, <3>2, <3>3 DEF RecoveryHappened
        <3>. QED  BY <3>1, <3>4, <3>5, <1>t DEF RecoveryInv
    <2>. QED  BY <1>27, <2>1, <2>2, <2>3, <2>4, <2>5 DEF r9Disarm
<1>28. CASE r10
    BY <1>28, <1>t, <1>g, <1>p, <1>h, <1>c, <1>n DEF r10, r10Restarts, Checks, sendWorkload,
       waitForRunId, waitForR10PreOutageBoundary, r10Outage, Removes, r10Deferred,
       waitForTerminalRun, startQualifiedOpenCode, Starts, waitForContinuationObserved,
       Quiet, At, Goto, ctl, Over, RecoveryInv, RecoveryHappened, Unarmed, Unkilled,
       Disarming, Judging, Replaced, held, world, GateFacts
<1>29. CASE cleanupHosts
    BY <1>29, <1>t, <1>g, <1>p, <1>h, <1>c, <1>n DEF cleanupHosts, At, Goto, ctl, Over,
       RecoveryInv, RecoveryHappened, Unarmed, Unkilled, Disarming, Judging, Replaced, held,
       world, GateFacts
<1>30. CASE cleanupStack
    BY <1>30, <1>t, <1>g, <1>p, <1>h, <1>c, <1>n DEF cleanupStack, At, Goto, ctl, Over,
       RecoveryInv, RecoveryHappened, Unarmed, Unkilled, Disarming, Judging, Replaced, held,
       world, GateFacts
<1>31. CASE cleanupDirectory("auth", "consumers")
    BY <1>31, <1>t, <1>g, <1>p, <1>h, <1>c, <1>n DEF cleanupDirectory, At, Goto, ctl, Over,
       RecoveryInv, RecoveryHappened, Unarmed, Unkilled, Disarming, Judging, Replaced, held,
       world, GateFacts
<1>32. CASE cleanupDirectory("consumers", "source")
    BY <1>32, <1>t, <1>g, <1>p, <1>h, <1>c, <1>n DEF cleanupDirectory, At, Goto, ctl, Over,
       RecoveryInv, RecoveryHappened, Unarmed, Unkilled, Disarming, Judging, Replaced, held,
       world, GateFacts
<1>33. CASE cleanupSource
    <2>1. pc[1] = "R-11" /\ seen' = seen /\ task' = task /\ watched' = watched
        BY <1>33, Zenon DEF cleanupSource, At, world
    <2>2. CleanupPasses \/ HoldCleanup
        BY <1>33, Zenon DEF cleanupSource, CleanupPasses
    <2>. QED  BY <2>1, <2>2, <1>t, <1>g, <1>p, <1>h, <1>c, <1>n, <1>s DEF RecoveryInv,
                 RecoveryHappened, Unarmed, Unkilled, Disarming, Judging, Replaced,
                 GateFacts
<1>34. CASE SourceMoves
    BY <1>34, <1>t, <1>g, <1>p, <1>h, <1>c, <1>n DEF SourceMoves, Env, At, Goto, ctl, Over,
       RecoveryInv, RecoveryHappened, Unarmed, Unkilled, Disarming, Judging, Replaced, held,
       world, GateFacts
<1>35. CASE HostDies
    BY <1>35, <1>t, <1>g, <1>p, <1>h, <1>c, <1>n DEF HostDies, Env, At, Goto, ctl, Over,
       RecoveryInv, RecoveryHappened, Unarmed, Unkilled, Disarming, Judging, Replaced, held,
       world, GateFacts
<1>36. CASE RunMoves
    BY <1>36, <1>t, <1>g, <1>p, <1>h, <1>c, <1>n DEF RunMoves, Env, At, Goto, ctl, Over,
       RecoveryInv, RecoveryHappened, Unarmed, Unkilled, Disarming, Judging, Replaced, held,
       world, GateFacts
<1>37. CASE DeliveryMoves
    BY <1>37, <1>t, <1>g, <1>p, <1>h, <1>c, <1>n DEF DeliveryMoves, Env, At, Goto, ctl,
       Over, RecoveryInv, RecoveryHappened, Unarmed, Unkilled, Disarming, Judging, Replaced,
       held, world, GateFacts
<1>38. CASE ExecutorMoves
    <2>1. ExecutorEffect
        BY <1>38, <1>t, ExecutorMovesEffect DEF WorldTypes
    <2>2. /\ pc' = pc /\ results' = results /\ seen' = seen /\ watched' = watched /\ watched = "active"
          /\ pc[1] = "R-9"
        BY <1>38 DEF ExecutorMoves, Env, ctl
    <2>3. task.exec \in Nat /\ seen.target \in Nat /\ task.rejected \subseteq Nat
        BY <1>t DEF SourceTypes, SeenRecord, WorldTypes, TaskRecord
    <2>4. CASE task'.exec = task.exec
        BY <2>1, <2>2, <2>3, <2>4, <1>t, <1>g DEF ExecutorEffect, RecoveryInv, None,
           RecoveryHappened, Unarmed, Unkilled, Disarming, Judging, Replaced, GateFacts
    <2>5. CASE task.phase = None /\ task'.exec = 1
        <3>1. task.exec = 0 /\ task.rejected = {}
            BY <2>3, <2>5, <1>t DEF RecoveryInv
        <3>2. pc[2] \in Unarmed
            BY <2>2, <2>3, <3>1, <1>t DEF RecoveryInv
        <3>. QED  BY <2>1, <2>2, <2>3, <2>5, <3>1, <3>2, <1>t, <1>g
                  DEF ExecutorEffect, RecoveryInv, RecoveryHappened, Unarmed, Unkilled,
                      Disarming, Judging, Replaced, GateFacts
    <2>. QED  BY <2>1, <2>4, <2>5 DEF ExecutorEffect
<1>39. CASE ResultApplied
    <2>. DEFINE projected == task.projected \cup ({task.exec} \cap task.resumed)
    <2>0. /\ task \in TaskRecord /\ task.exec \in Nat /\ seen.target \in Nat
          /\ task.rejected \subseteq Nat
        BY <1>t DEF WorldTypes, SourceTypes, SeenRecord, TaskRecord
    <2>1. /\ pc' = pc /\ results' = results /\ seen' = seen /\ watched = "active" /\ pc[1] = "R-9"
          /\ task.phase = "done" /\ task.up
        BY <1>39 DEF ResultApplied, Env, ctl
    <2>2. \/ task' = [task EXCEPT !.projected = projected, !.phase = "closed",
                                  !.closedBy = task.exec]
          \/ task' = [task EXCEPT !.projected = projected, !.phase = "model",
                                  !.rejected = @ \cup {task.exec}, !.exec = @ + 1,
                                  !.attempt = @ + 1, !.checkpoint = FALSE]
        BY <1>39 DEF ResultApplied
    <2>3. \A x \in task.projected : x \in task.resumed /\ x \in task.rejected
        BY <2>1, <1>t DEF RecoveryInv
    <2>4. \A x \in projected : x \in task.resumed /\ (x \in task.rejected \/ x = task.exec)
        BY <2>3
    <2>. HIDE DEF projected
    <2>5. CASE task' = [task EXCEPT !.projected = projected, !.phase = "closed",
                                    !.closedBy = task.exec]
        <3>1. /\ task'.exec = task.exec /\ task'.passed = task.passed
              /\ task'.resumed = task.resumed /\ task'.lost = task.lost
              /\ task'.rejected = task.rejected /\ task'.projected = projected
              /\ task'.phase = "closed" /\ task'.closedBy = task.exec /\ task'.up = task.up
            BY <2>0, <2>5 DEF TaskRecord
        <3>. QED  BY <2>0, <2>1, <2>4, <3>1, <1>t, <1>g DEF None, RecoveryInv,
                     RecoveryHappened, Unarmed, Unkilled, Disarming, Judging, Replaced,
                     GateFacts
    <2>6. CASE task' = [task EXCEPT !.projected = projected, !.phase = "model",
                                    !.rejected = @ \cup {task.exec}, !.exec = @ + 1,
                                    !.attempt = @ + 1, !.checkpoint = FALSE]
        <3>1. /\ task'.exec = task.exec + 1 /\ task'.passed = task.passed
              /\ task'.resumed = task.resumed /\ task'.lost = task.lost
              /\ task'.rejected = task.rejected \cup {task.exec}
              /\ task'.projected = projected
              /\ task'.phase = "model" /\ task'.up = task.up
            BY <2>0, <2>6 DEF TaskRecord
        <3>. QED  BY <2>0, <2>1, <2>4, <3>1, <1>t, <1>g DEF None, RecoveryInv,
                     RecoveryHappened, Unarmed, Unkilled, Disarming, Judging, Replaced,
                     GateFacts
    <2>. QED  BY <2>2, <2>5, <2>6
<1>40. CASE Recovery
    <2>1. RecoveryEffect
        BY <1>40, <1>t, RecoveryMovesEffect DEF WorldTypes
    <2>2. pc' = pc /\ results' = results /\ seen' = seen /\ watched' = watched /\ pc[1] = "R-9"
        BY <1>40 DEF Recovery, Env, ctl
    <2>3. task.exec \in Nat /\ seen.target \in Nat /\ task.rejected \subseteq Nat
        BY <1>t DEF SourceTypes, SeenRecord, WorldTypes, TaskRecord
    <2>. QED  BY <2>1, <2>2, <2>3, <1>t, <1>g DEF RecoveryEffect, RecoveryInv,
                 RecoveryHappened, Unarmed, Unkilled, Disarming, Judging, Replaced,
                 GateFacts
<1>41. CASE ServiceDies
    <2>1. /\ pc' = pc /\ results' = results /\ seen' = seen /\ watched = "active" /\ pc[1] = "R-9"
          /\ task' = Dead(task) \/ task' = [task EXCEPT !.gateway = @ + 1, !.box = {}]
        BY <1>41 DEF ServiceDies, Env, ctl
    <2>2. task \in TaskRecord
        BY <1>t DEF WorldTypes
    <2>3. /\ task'.exec = task.exec /\ task'.passed = task.passed /\ task'.resumed = task.resumed
          /\ task'.closedBy = task.closedBy /\ task.lost \subseteq task'.lost
          /\ task'.projected = task.projected /\ task'.rejected = task.rejected
          /\ task'.phase = None <=> task.phase = None
          /\ task'.phase = "lost" => task.phase = "lost" \/ task.exec \in task'.lost
          /\ task.phase = "closed" => task'.phase = "closed"
          /\ \/ task'.phase \in {None, "lost", "closed"}
             \/ task'.phase = task.phase /\ task'.up = task.up
        <3>1. CASE task' = Dead(task)
            BY <2>2, <3>1, DeadEffect
        <3>2. CASE task' = [task EXCEPT !.gateway = @ + 1, !.box = {}]
            BY <2>2, <3>2 DEF TaskRecord
        <3>. QED  BY <2>1, <3>1, <3>2
    <2>4. task.exec \in Nat /\ seen.target \in Nat
        BY <1>t DEF SourceTypes, SeenRecord, WorldTypes, TaskRecord
    <2>. QED  BY <2>1, <2>3, <2>4, <1>t, <1>g DEF None, RecoveryInv, RecoveryHappened,
                 Unarmed, Unkilled, Disarming, Judging, Replaced, GateFacts
<1>42. CASE UNCHANGED gatesVars
    BY <1>42, <1>t, <1>g, <1>p, <1>h, <1>c, <1>n DEF gatesVars, ctl, held, world, At, Goto,
       ctl, Over, RecoveryInv, RecoveryHappened, Unarmed, Unkilled, Disarming, Judging,
       Replaced, held, world, GateFacts
<1>. QED  BY <1>1, <1>2, <1>3, <1>4, <1>5, <1>6, <1>7, <1>8, <1>9, <1>10, <1>11, <1>12,
             <1>13, <1>14, <1>15, <1>16, <1>17, <1>18, <1>19, <1>20, <1>21, <1>22, <1>23,
             <1>24, <1>25, <1>26, <1>27, <1>28, <1>29, <1>30, <1>31, <1>32, <1>33, <1>34,
             <1>35, <1>36, <1>37, <1>38, <1>39, <1>40, <1>41, <1>42
          DEF GatesNext, Controller, preR0Networking, cleanup, Finished

\* The fault controls are in no container outside R-9 and cleanup.
LEMMA ArmedStep ==
    ASSUME QualificationInv, [GatesNext]_gatesVars
    PROVE  ArmedInv'
<1>. SUFFICES ASSUME QualificationInv, GatesNext \/ UNCHANGED gatesVars PROVE ArmedInv'
    OBVIOUS
<1>t. /\ ReportTypes /\ SourceTypes /\ HeldTypes /\ WorldTypes /\ OrderInv
      /\ ArmedInv
    BY DEF QualificationInv, GatesTypeOK
<1>g. GateFacts
    BY <1>t, WhereTheReportStands
<1>p. Pass => /\ pc'[1] = NextGate(pc[1]) /\ pc'[2] = "enter" /\ divergence' = divergence
              /\ pc[1] # "R-0" /\ results'["R-0"] = "PASS" => results["R-0"] = "PASS"
              /\ pc[1] # "R-3" /\ results'["R-3"] = "PASS" => results["R-3"] = "PASS"
              /\ pc[1] # "R-9" /\ results'["R-9"] = "PASS" => results["R-9"] = "PASS"
              /\ pc[1] # "R-10" /\ results'["R-10"] = "PASS" => results["R-10"] = "PASS"
              /\ pc[1] = "R-9" => results'["R-9"] = "PASS"
    BY <1>t, PassEffect
<1>h. Hold => /\ pc'[1] = "R-11" /\ pc'[2] = "enter" /\ divergence' # None
              /\ results'["R-0"] = "PASS" => results["R-0"] = "PASS"
              /\ results'["R-3"] = "PASS" => results["R-3"] = "PASS"
              /\ results'["R-9"] = "PASS" => results["R-9"] = "PASS"
              /\ results'["R-10"] = "PASS" => results["R-10"] = "PASS"
    BY <1>t, HoldEffect, NoNewPassMeans
<1>c. HoldCleanup => /\ pc'[1] = "R-11" /\ pc'[2] = "done" /\ divergence' # None
                     /\ results'["R-0"] = "PASS" => results["R-0"] = "PASS"
                     /\ results'["R-3"] = "PASS" => results["R-3"] = "PASS"
                     /\ results'["R-9"] = "PASS" => results["R-9"] = "PASS"
                     /\ results'["R-10"] = "PASS" => results["R-10"] = "PASS"
    BY <1>t, HoldCleanupEffect, NoNewPassMeans
<1>s. CleanupPasses => /\ pc'[1] = "R-11" /\ pc'[2] = "done" /\ divergence' = divergence
                       /\ results'["R-0"] = "PASS" => results["R-0"] = "PASS"
                       /\ results'["R-3"] = "PASS" => results["R-3"] = "PASS"
                       /\ results'["R-9"] = "PASS" => results["R-9"] = "PASS"
                       /\ results'["R-10"] = "PASS" => results["R-10"] = "PASS"
    BY <1>t, CleanupPassesEffect, NoNewPassMeans
<1>n. pc[1] # "R-11" =>
        /\ pc[1] = "Q-ENTRY" => NextGate(pc[1]) = "PRE-R0"
        /\ pc[1] = "PRE-R0" => NextGate(pc[1]) = "R-0"
        /\ pc[1] = "R-0" => NextGate(pc[1]) = "R-1"
        /\ pc[1] = "R-1" => NextGate(pc[1]) = "R-2"
        /\ pc[1] = "R-2" => NextGate(pc[1]) = "R-3"
        /\ pc[1] = "R-3" => NextGate(pc[1]) = "R-4"
        /\ pc[1] = "R-4" => NextGate(pc[1]) = "R-5"
        /\ pc[1] = "R-5" => NextGate(pc[1]) = "R-6"
        /\ pc[1] = "R-6" => NextGate(pc[1]) \in {"R-7", "R-9"}
        /\ pc[1] = "R-7" => NextGate(pc[1]) = "R-8"
        /\ pc[1] = "R-8" => NextGate(pc[1]) = "R-9"
        /\ pc[1] = "R-9" => NextGate(pc[1]) \in {"R-10", "R-11"}
        /\ pc[1] = "R-10" => NextGate(pc[1]) = "R-11"
    BY <1>t, TheGateAfter
<1>1. CASE qEntry
    BY <1>1, <1>t, <1>g, <1>p, <1>h, <1>c, <1>n DEF qEntry, At, Goto, ctl, Over, ArmedInv,
       FaultControlsStayInR9, HeldTypes, held, world, GateFacts
<1>2. CASE preR0
    BY <1>2, <1>t, <1>g, <1>p, <1>h, <1>c, <1>n DEF preR0, At, Goto, ctl, Over, ArmedInv,
       FaultControlsStayInR9, HeldTypes, held, world, GateFacts
<1>3. CASE ProbeUp("dns", "dns-up")
    BY <1>3, <1>t, <1>g, <1>p, <1>h, <1>c, <1>n DEF ProbeUp, Starts, At, Goto, ctl, Over,
       ArmedInv, FaultControlsStayInR9, HeldTypes, held, world, GateFacts
<1>4. CASE ProbeDown("dns", "tei-up")
    BY <1>4, <1>t, <1>g, <1>p, <1>h, <1>c, <1>n DEF ProbeDown, Removes, At, Goto, ctl, Over,
       ArmedInv, FaultControlsStayInR9, HeldTypes, held, world, GateFacts
<1>5. CASE ProbeUp("tei", "tei-up")
    BY <1>5, <1>t, <1>g, <1>p, <1>h, <1>c, <1>n DEF ProbeUp, Starts, At, Goto, ctl, Over,
       ArmedInv, FaultControlsStayInR9, HeldTypes, held, world, GateFacts
<1>6. CASE ProbeDown("tei", "end")
    BY <1>6, <1>t, <1>g, <1>p, <1>h, <1>c, <1>n DEF ProbeDown, Removes, At, Goto, ctl, Over,
       ArmedInv, FaultControlsStayInR9, HeldTypes, held, world, GateFacts
<1>7. CASE r0
    BY <1>7, <1>t, <1>g, <1>p, <1>h, <1>c, <1>n DEF r0, At, Goto, ctl, Over, ArmedInv,
       FaultControlsStayInR9, HeldTypes, held, world, GateFacts
<1>8. CASE r1
    BY <1>8, <1>t, <1>g, <1>p, <1>h, <1>c, <1>n DEF r1, At, Goto, ctl, Over, ArmedInv,
       FaultControlsStayInR9, HeldTypes, held, world, GateFacts
<1>9. CASE r2
    BY <1>9, <1>t, <1>g, <1>p, <1>h, <1>c, <1>n DEF r2, At, Goto, ctl, Over, ArmedInv,
       FaultControlsStayInR9, HeldTypes, held, world, GateFacts
<1>10. CASE r3Consumers
    BY <1>10, <1>t, <1>g, <1>p, <1>h, <1>c, <1>n DEF r3Consumers, Starts, At, Goto, ctl,
       Over, ArmedInv, FaultControlsStayInR9, HeldTypes, held, world, GateFacts
<1>11. CASE r3
    BY <1>11, <1>t, <1>g, <1>p, <1>h, <1>c, <1>n DEF r3, At, Goto, ctl, Over, ArmedInv,
       FaultControlsStayInR9, HeldTypes, held, world, GateFacts
<1>12. CASE buildConsumerEnv
    BY <1>12, <1>t, <1>g, <1>p, <1>h, <1>c, <1>n DEF buildConsumerEnv, Starts, At, Goto,
       ctl, Over, ArmedInv, FaultControlsStayInR9, HeldTypes, held, world, GateFacts
<1>13. CASE r4
    BY <1>13, <1>t, <1>g, <1>p, <1>h, <1>c, <1>n DEF r4, ComposeUp, At, Goto, ctl, Over, ArmedInv,
       FaultControlsStayInR9, HeldTypes, held, world, GateFacts
<1>14. CASE r5
    BY <1>14, <1>t, <1>g, <1>p, <1>h, <1>c, <1>n DEF r5, Starts, At, Goto, ctl, Over,
       ArmedInv, FaultControlsStayInR9, HeldTypes, held, world, GateFacts
<1>15. CASE r6
    BY <1>15, <1>t, <1>g, <1>p, <1>h, <1>c, <1>n DEF r6, startQualifiedOpenCode, Starts, At,
       Goto, ctl, Over, ArmedInv, FaultControlsStayInR9, HeldTypes, held, world, GateFacts
<1>16. CASE r7
    BY <1>16, <1>t, <1>g, <1>p, <1>h, <1>c, <1>n DEF r7, sendWorkload, waitForRunId,
       waitForTerminalRun, Quiet, At, Goto, ctl, Over, ArmedInv, FaultControlsStayInR9,
       HeldTypes, held, world, GateFacts
<1>17. CASE r8
    BY <1>17, <1>t, <1>g, <1>p, <1>h, <1>c, <1>n DEF r8, waitForContinuationObserved, Quiet,
       At, Goto, ctl, Over, ArmedInv, FaultControlsStayInR9, HeldTypes, held, world,
       GateFacts
<1>18. CASE r9Arm
    BY <1>18, <1>t, <1>g, <1>p, <1>h, <1>c, <1>n DEF r9Arm, Recreate, Checks, sendWorkload,
       waitForRunId, Quiet, At, Goto, ctl, Over, ArmedInv, FaultControlsStayInR9, HeldTypes,
       held, world, GateFacts
<1>19. CASE r9Boundary
    BY <1>19, <1>t, <1>g, <1>p, <1>h, <1>c, <1>n DEF r9Boundary, At, Goto, ctl, Over,
       ArmedInv, FaultControlsStayInR9, HeldTypes, held, world, GateFacts
<1>20. CASE r9Window
    BY <1>20, <1>t, <1>g, <1>p, <1>h, <1>c, <1>n DEF r9Window, Quiet, At, Goto, ctl, Over,
       ArmedInv, FaultControlsStayInR9, HeldTypes, held, world, GateFacts
<1>21. CASE r9Kill
    BY <1>21, <1>t, <1>g, <1>p, <1>h, <1>c, <1>n DEF r9Kill, At, Goto, ctl, Over, ArmedInv,
       FaultControlsStayInR9, HeldTypes, held, world, GateFacts
<1>22. CASE r9Expire
    BY <1>22, <1>t, <1>g, <1>p, <1>h, <1>c, <1>n DEF r9Expire, Quiet, At, Goto, ctl, Over,
       ArmedInv, FaultControlsStayInR9, HeldTypes, held, world, GateFacts
<1>23. CASE r9Replacement
    BY <1>23, <1>t, <1>g, <1>p, <1>h, <1>c, <1>n DEF r9Replacement, Quiet, At, Goto, ctl,
       Over, ArmedInv, FaultControlsStayInR9, HeldTypes, held, world, GateFacts
<1>24. CASE r9Receipt
    BY <1>24, <1>t, <1>g, <1>p, <1>h, <1>c, <1>n DEF r9Receipt, Quiet, At, Goto, ctl, Over,
       ArmedInv, FaultControlsStayInR9, HeldTypes, held, world, GateFacts
<1>25. CASE r9ReplacementBehavior
    BY <1>25, <1>t, <1>g, <1>p, <1>h, <1>c, <1>n DEF r9ReplacementBehavior, Quiet, At, Goto,
       ctl, Over, ArmedInv, FaultControlsStayInR9, HeldTypes, held, world, GateFacts
<1>26. CASE r9Evidence
    BY <1>26, <1>t, <1>g, <1>p, <1>h, <1>c, <1>n DEF r9Evidence, waitForTerminalRun, Quiet,
       At, Goto, ctl, Over, ArmedInv, FaultControlsStayInR9, HeldTypes, held, world,
       GateFacts
<1>27. CASE r9Disarm
    <2>1. CASE Recreate("R-9", "disarm-context", "context", FALSE, "disarmed-context")
        BY <2>1, <1>t, <1>g, <1>p, <1>h, <1>c, <1>n DEF Recreate, Checks, At, Goto, ctl,
           Over, ArmedInv, FaultControlsStayInR9, HeldTypes, held, world, GateFacts
    <2>2. CASE /\ At("R-9", "disarmed-context")
               /\ ("context" \notin armed /\ Goto("disarm-worker")) \/ Hold
               /\ Quiet
        BY <2>2, <1>t, <1>g, <1>p, <1>h, <1>c, <1>n DEF Quiet, At, Goto, ctl, Over,
           ArmedInv, FaultControlsStayInR9, HeldTypes, held, world, GateFacts
    <2>3. CASE Recreate("R-9", "disarm-worker", "worker", FALSE, "disarmed-worker")
        BY <2>3, <1>t, <1>g, <1>p, <1>h, <1>c, <1>n DEF Recreate, Checks, At, Goto, ctl,
           Over, ArmedInv, FaultControlsStayInR9, HeldTypes, held, world, GateFacts
    <2>4. CASE At("R-9", "disarmed-worker") /\ (("worker" \notin armed /\ Pass) \/ Hold) /\ Quiet
        BY <2>4, <1>t, <1>g, <1>p, <1>h, <1>c, <1>n DEF Quiet, At, Goto, ctl, Over,
           ArmedInv, FaultControlsStayInR9, HeldTypes, held, world, GateFacts
    <2>. QED  BY <1>27, <2>1, <2>2, <2>3, <2>4 DEF r9Disarm
<1>28. CASE r10
    BY <1>28, <1>t, <1>g, <1>p, <1>h, <1>c, <1>n DEF r10, r10Restarts, Checks, sendWorkload,
       waitForRunId, waitForR10PreOutageBoundary, r10Outage, Removes, r10Deferred,
       waitForTerminalRun, startQualifiedOpenCode, Starts, waitForContinuationObserved,
       Quiet, At, Goto, ctl, Over, ArmedInv, FaultControlsStayInR9, HeldTypes, held, world,
       GateFacts
<1>29. CASE cleanupHosts
    BY <1>29, <1>t, <1>g, <1>p, <1>h, <1>c, <1>n DEF cleanupHosts, At, Goto, ctl, Over,
       ArmedInv, FaultControlsStayInR9, HeldTypes, held, world, GateFacts
<1>30. CASE cleanupStack
    BY <1>30, <1>t, <1>g, <1>p, <1>h, <1>c, <1>n DEF cleanupStack, At, Goto, ctl, Over,
       ArmedInv, FaultControlsStayInR9, HeldTypes, held, world, GateFacts
<1>31. CASE cleanupDirectory("auth", "consumers")
    BY <1>31, <1>t, <1>g, <1>p, <1>h, <1>c, <1>n DEF cleanupDirectory, At, Goto, ctl, Over,
       ArmedInv, FaultControlsStayInR9, HeldTypes, held, world, GateFacts
<1>32. CASE cleanupDirectory("consumers", "source")
    BY <1>32, <1>t, <1>g, <1>p, <1>h, <1>c, <1>n DEF cleanupDirectory, At, Goto, ctl, Over,
       ArmedInv, FaultControlsStayInR9, HeldTypes, held, world, GateFacts
<1>33. CASE cleanupSource
    <2>1. pc[1] = "R-11" /\ armed' = armed
        BY <1>33, Zenon DEF cleanupSource, At
    <2>2. CleanupPasses \/ HoldCleanup
        BY <1>33, Zenon DEF cleanupSource, CleanupPasses
    <2>. QED  BY <2>1, <2>2, <1>t, <1>g, <1>p, <1>h, <1>c, <1>n, <1>s DEF At, Goto, ctl,
                 Over, ArmedInv, FaultControlsStayInR9, HeldTypes, held, world, GateFacts
<1>34. CASE SourceMoves
    BY <1>34, <1>t, <1>g, <1>p, <1>h, <1>c, <1>n DEF SourceMoves, Env, At, Goto, ctl, Over,
       ArmedInv, FaultControlsStayInR9, HeldTypes, held, world, GateFacts
<1>35. CASE HostDies
    BY <1>35, <1>t, <1>g, <1>p, <1>h, <1>c, <1>n DEF HostDies, Env, At, Goto, ctl, Over,
       ArmedInv, FaultControlsStayInR9, HeldTypes, held, world, GateFacts
<1>36. CASE RunMoves
    BY <1>36, <1>t, <1>g, <1>p, <1>h, <1>c, <1>n DEF RunMoves, Env, At, Goto, ctl, Over,
       ArmedInv, FaultControlsStayInR9, HeldTypes, held, world, GateFacts
<1>37. CASE DeliveryMoves
    BY <1>37, <1>t, <1>g, <1>p, <1>h, <1>c, <1>n DEF DeliveryMoves, Env, At, Goto, ctl,
       Over, ArmedInv, FaultControlsStayInR9, HeldTypes, held, world, GateFacts
<1>38. CASE ExecutorMoves
    BY <1>38, <1>t, <1>g, <1>p, <1>h, <1>c, <1>n DEF ExecutorMoves, Env, At, Goto, ctl,
       Over, ArmedInv, FaultControlsStayInR9, HeldTypes, held, world, GateFacts
<1>39. CASE ResultApplied
    BY <1>39, <1>t, <1>g, <1>p, <1>h, <1>c, <1>n DEF ResultApplied, Env, At, Goto, ctl,
       Over, ArmedInv, FaultControlsStayInR9, HeldTypes, held, world, GateFacts
<1>40. CASE Recovery
    BY <1>40, <1>t, <1>g, <1>p, <1>h, <1>c, <1>n DEF Recovery, Env, At, Goto, ctl, Over,
       ArmedInv, FaultControlsStayInR9, HeldTypes, held, world, GateFacts
<1>41. CASE ServiceDies
    BY <1>41, <1>t, <1>g, <1>p, <1>h, <1>c, <1>n DEF ServiceDies, Env, At, Goto, ctl, Over,
       ArmedInv, FaultControlsStayInR9, HeldTypes, held, world, GateFacts
<1>42. CASE UNCHANGED gatesVars
    BY <1>42, <1>t, <1>g, <1>p, <1>h, <1>c, <1>n DEF gatesVars, ctl, held, world, At, Goto,
       ctl, Over, ArmedInv, FaultControlsStayInR9, HeldTypes, held, world, GateFacts
<1>. QED  BY <1>1, <1>2, <1>3, <1>4, <1>5, <1>6, <1>7, <1>8, <1>9, <1>10, <1>11, <1>12,
             <1>13, <1>14, <1>15, <1>16, <1>17, <1>18, <1>19, <1>20, <1>21, <1>22, <1>23,
             <1>24, <1>25, <1>26, <1>27, <1>28, <1>29, <1>30, <1>31, <1>32, <1>33, <1>34,
             <1>35, <1>36, <1>37, <1>38, <1>39, <1>40, <1>41, <1>42
          DEF GatesNext, Controller, preR0Networking, cleanup, Finished

\* What exists is named or could not be removed, and cleanup deals with what is named.
LEMMA CleanupStep ==
    ASSUME QualificationInv, [GatesNext]_gatesVars
    PROVE  CleanupInv'
<1>. SUFFICES ASSUME QualificationInv, GatesNext \/ UNCHANGED gatesVars PROVE CleanupInv'
    OBVIOUS
<1>t. /\ ReportTypes /\ SourceTypes /\ HeldTypes /\ WorldTypes /\ OrderInv
      /\ CleanupInv
    BY DEF QualificationInv, GatesTypeOK
<1>g. GateFacts
    BY <1>t, WhereTheReportStands
<1>p. Pass => /\ pc'[1] = NextGate(pc[1]) /\ pc'[2] = "enter" /\ divergence' = divergence
              /\ pc[1] # "R-0" /\ results'["R-0"] = "PASS" => results["R-0"] = "PASS"
              /\ pc[1] # "R-3" /\ results'["R-3"] = "PASS" => results["R-3"] = "PASS"
              /\ pc[1] # "R-9" /\ results'["R-9"] = "PASS" => results["R-9"] = "PASS"
              /\ pc[1] # "R-10" /\ results'["R-10"] = "PASS" => results["R-10"] = "PASS"
              /\ pc[1] = "R-9" => results'["R-9"] = "PASS"
    BY <1>t, PassEffect
<1>h. Hold => /\ pc'[1] = "R-11" /\ pc'[2] = "enter" /\ divergence' # None
              /\ results'["R-0"] = "PASS" => results["R-0"] = "PASS"
              /\ results'["R-3"] = "PASS" => results["R-3"] = "PASS"
              /\ results'["R-9"] = "PASS" => results["R-9"] = "PASS"
              /\ results'["R-10"] = "PASS" => results["R-10"] = "PASS"
    BY <1>t, HoldEffect, NoNewPassMeans
<1>c. HoldCleanup => /\ pc'[1] = "R-11" /\ pc'[2] = "done" /\ divergence' # None
                     /\ results'["R-0"] = "PASS" => results["R-0"] = "PASS"
                     /\ results'["R-3"] = "PASS" => results["R-3"] = "PASS"
                     /\ results'["R-9"] = "PASS" => results["R-9"] = "PASS"
                     /\ results'["R-10"] = "PASS" => results["R-10"] = "PASS"
    BY <1>t, HoldCleanupEffect, NoNewPassMeans
<1>s. CleanupPasses => /\ pc'[1] = "R-11" /\ pc'[2] = "done" /\ divergence' = divergence
                       /\ results'["R-0"] = "PASS" => results["R-0"] = "PASS"
                       /\ results'["R-3"] = "PASS" => results["R-3"] = "PASS"
                       /\ results'["R-9"] = "PASS" => results["R-9"] = "PASS"
                       /\ results'["R-10"] = "PASS" => results["R-10"] = "PASS"
    BY <1>t, CleanupPassesEffect, NoNewPassMeans
<1>n. pc[1] # "R-11" =>
        /\ pc[1] = "Q-ENTRY" => NextGate(pc[1]) = "PRE-R0"
        /\ pc[1] = "PRE-R0" => NextGate(pc[1]) = "R-0"
        /\ pc[1] = "R-0" => NextGate(pc[1]) = "R-1"
        /\ pc[1] = "R-1" => NextGate(pc[1]) = "R-2"
        /\ pc[1] = "R-2" => NextGate(pc[1]) = "R-3"
        /\ pc[1] = "R-3" => NextGate(pc[1]) = "R-4"
        /\ pc[1] = "R-4" => NextGate(pc[1]) = "R-5"
        /\ pc[1] = "R-5" => NextGate(pc[1]) = "R-6"
        /\ pc[1] = "R-6" => NextGate(pc[1]) \in {"R-7", "R-9"}
        /\ pc[1] = "R-7" => NextGate(pc[1]) = "R-8"
        /\ pc[1] = "R-8" => NextGate(pc[1]) = "R-9"
        /\ pc[1] = "R-9" => NextGate(pc[1]) \in {"R-10", "R-11"}
        /\ pc[1] = "R-10" => NextGate(pc[1]) = "R-11"
    BY <1>t, TheGateAfter
<1>1. CASE qEntry
    BY <1>1, <1>t, <1>g, <1>p, <1>h, <1>c, <1>n DEF qEntry, At, Goto, ctl, Over, CleanupInv,
       CleanupIsComplete, held, world, GateFacts
<1>2. CASE preR0
    BY <1>2, <1>t, <1>g, <1>p, <1>h, <1>c, <1>n DEF preR0, At, Goto, ctl, Over, CleanupInv,
       CleanupIsComplete, held, world, GateFacts
<1>3. CASE ProbeUp("dns", "dns-up")
    BY <1>3, <1>t, <1>g, <1>p, <1>h, <1>c, <1>n DEF ProbeUp, Starts, At, Goto, ctl, Over,
       CleanupInv, CleanupIsComplete, held, world, GateFacts
<1>4. CASE ProbeDown("dns", "tei-up")
    BY <1>4, <1>t, <1>g, <1>p, <1>h, <1>c, <1>n DEF ProbeDown, Removes, At, Goto, ctl, Over,
       CleanupInv, CleanupIsComplete, held, world, GateFacts
<1>5. CASE ProbeUp("tei", "tei-up")
    BY <1>5, <1>t, <1>g, <1>p, <1>h, <1>c, <1>n DEF ProbeUp, Starts, At, Goto, ctl, Over,
       CleanupInv, CleanupIsComplete, held, world, GateFacts
<1>6. CASE ProbeDown("tei", "end")
    BY <1>6, <1>t, <1>g, <1>p, <1>h, <1>c, <1>n DEF ProbeDown, Removes, At, Goto, ctl, Over,
       CleanupInv, CleanupIsComplete, held, world, GateFacts
<1>7. CASE r0
    BY <1>7, <1>t, <1>g, <1>p, <1>h, <1>c, <1>n DEF r0, At, Goto, ctl, Over, CleanupInv,
       CleanupIsComplete, held, world, GateFacts
<1>8. CASE r1
    BY <1>8, <1>t, <1>g, <1>p, <1>h, <1>c, <1>n DEF r1, At, Goto, ctl, Over, CleanupInv,
       CleanupIsComplete, held, world, GateFacts
<1>9. CASE r2
    BY <1>9, <1>t, <1>g, <1>p, <1>h, <1>c, <1>n DEF r2, At, Goto, ctl, Over, CleanupInv,
       CleanupIsComplete, held, world, GateFacts
<1>10. CASE r3Consumers
    BY <1>10, <1>t, <1>g, <1>p, <1>h, <1>c, <1>n DEF r3Consumers, Starts, At, Goto, ctl,
       Over, CleanupInv, CleanupIsComplete, held, world, GateFacts
<1>11. CASE r3
    <2>1. pc[1] = "R-3" /\ pc[2] # "enter" /\ live' = live /\ handle' = handle /\ kept' = kept
        BY <1>11, Zenon DEF r3, At, held
    <2>2. Goto("image") \/ Pass \/ Hold
        BY <1>11, Zenon DEF r3
    <2>. QED  BY <2>1, <2>2, <1>t, <1>g, <1>p, <1>h, <1>c, <1>n DEF At, Goto, ctl, Over,
                 CleanupInv, CleanupIsComplete, held, world, GateFacts
<1>12. CASE buildConsumerEnv
    BY <1>12, <1>t, <1>g, <1>p, <1>h, <1>c, <1>n DEF buildConsumerEnv, Starts, At, Goto,
       ctl, Over, CleanupInv, CleanupIsComplete, held, world, GateFacts
<1>13. CASE r4
    BY <1>13, <1>t, <1>g, <1>p, <1>h, <1>c, <1>n DEF r4, ComposeUp, At, Goto, ctl, Over, CleanupInv,
       CleanupIsComplete, held, world, GateFacts
<1>14. CASE r5
    BY <1>14, <1>t, <1>g, <1>p, <1>h, <1>c, <1>n DEF r5, Starts, At, Goto, ctl, Over,
       CleanupInv, CleanupIsComplete, held, world, GateFacts
<1>15. CASE r6
    BY <1>15, <1>t, <1>g, <1>p, <1>h, <1>c, <1>n DEF r6, startQualifiedOpenCode, Starts, At,
       Goto, ctl, Over, CleanupInv, CleanupIsComplete, held, world, GateFacts
<1>16. CASE r7
    BY <1>16, <1>t, <1>g, <1>p, <1>h, <1>c, <1>n DEF r7, sendWorkload, waitForRunId,
       waitForTerminalRun, Quiet, At, Goto, ctl, Over, CleanupInv, CleanupIsComplete, held,
       world, GateFacts
<1>17. CASE r8
    BY <1>17, <1>t, <1>g, <1>p, <1>h, <1>c, <1>n DEF r8, waitForContinuationObserved, Quiet,
       At, Goto, ctl, Over, CleanupInv, CleanupIsComplete, held, world, GateFacts
<1>18. CASE r9Arm
    BY <1>18, <1>t, <1>g, <1>p, <1>h, <1>c, <1>n DEF r9Arm, Recreate, Checks, sendWorkload,
       waitForRunId, Quiet, At, Goto, ctl, Over, CleanupInv, CleanupIsComplete, held, world,
       GateFacts
<1>19. CASE r9Boundary
    BY <1>19, <1>t, <1>g, <1>p, <1>h, <1>c, <1>n DEF r9Boundary, At, Goto, ctl, Over,
       CleanupInv, CleanupIsComplete, held, world, GateFacts
<1>20. CASE r9Window
    BY <1>20, <1>t, <1>g, <1>p, <1>h, <1>c, <1>n DEF r9Window, Quiet, At, Goto, ctl, Over,
       CleanupInv, CleanupIsComplete, held, world, GateFacts
<1>21. CASE r9Kill
    BY <1>21, <1>t, <1>g, <1>p, <1>h, <1>c, <1>n DEF r9Kill, At, Goto, ctl, Over,
       CleanupInv, CleanupIsComplete, held, world, GateFacts
<1>22. CASE r9Expire
    BY <1>22, <1>t, <1>g, <1>p, <1>h, <1>c, <1>n DEF r9Expire, Quiet, At, Goto, ctl, Over,
       CleanupInv, CleanupIsComplete, held, world, GateFacts
<1>23. CASE r9Replacement
    BY <1>23, <1>t, <1>g, <1>p, <1>h, <1>c, <1>n DEF r9Replacement, Quiet, At, Goto, ctl,
       Over, CleanupInv, CleanupIsComplete, held, world, GateFacts
<1>24. CASE r9Receipt
    BY <1>24, <1>t, <1>g, <1>p, <1>h, <1>c, <1>n DEF r9Receipt, Quiet, At, Goto, ctl, Over,
       CleanupInv, CleanupIsComplete, held, world, GateFacts
<1>25. CASE r9ReplacementBehavior
    BY <1>25, <1>t, <1>g, <1>p, <1>h, <1>c, <1>n DEF r9ReplacementBehavior, Quiet, At, Goto,
       ctl, Over, CleanupInv, CleanupIsComplete, held, world, GateFacts
<1>26. CASE r9Evidence
    BY <1>26, <1>t, <1>g, <1>p, <1>h, <1>c, <1>n DEF r9Evidence, waitForTerminalRun, Quiet,
       At, Goto, ctl, Over, CleanupInv, CleanupIsComplete, held, world, GateFacts
<1>27. CASE r9Disarm
    BY <1>27, <1>t, <1>g, <1>p, <1>h, <1>c, <1>n DEF r9Disarm, Recreate, Checks, Quiet, At,
       Goto, ctl, Over, CleanupInv, CleanupIsComplete, held, world, GateFacts
<1>28. CASE r10
    BY <1>28, <1>t, <1>g, <1>p, <1>h, <1>c, <1>n DEF r10, r10Restarts, Checks, sendWorkload,
       waitForRunId, waitForR10PreOutageBoundary, r10Outage, Removes, r10Deferred,
       waitForTerminalRun, startQualifiedOpenCode, Starts, waitForContinuationObserved,
       Quiet, At, Goto, ctl, Over, CleanupInv, CleanupIsComplete, held, world, GateFacts
<1>29. CASE cleanupHosts
    BY <1>29, <1>t, <1>g, <1>p, <1>h, <1>c, <1>n DEF cleanupHosts, At, Goto, ctl, Over,
       CleanupInv, CleanupIsComplete, held, world, GateFacts
<1>30. CASE cleanupStack
    BY <1>30, <1>t, <1>g, <1>p, <1>h, <1>c, <1>n DEF cleanupStack, At, Goto, ctl, Over,
       CleanupInv, CleanupIsComplete, held, world, GateFacts
<1>31. CASE cleanupDirectory("auth", "consumers")
    <2>1. CASE /\ At("R-11", "auth") /\ live' = (IF "auth" \in handle THEN live \ {"auth"} ELSE live)
               /\ kept' = kept /\ handle' = handle /\ Goto("consumers")
        BY <2>1, <1>t, <1>g, <1>p, <1>h, <1>c, <1>n DEF At, Goto, ctl, Over, CleanupInv,
           CleanupIsComplete, held, world, GateFacts
    <2>2. CASE /\ At("R-11", "auth") /\ "auth" \in handle \cap live /\ kept' = kept \cup {"auth"}
               /\ live' = live /\ handle' = handle /\ HoldCleanup
        BY <2>2, <1>t, <1>g, <1>p, <1>h, <1>c, <1>n DEF HeldTypes, Resources, At, Goto, ctl,
           Over, CleanupInv, CleanupIsComplete, held, world, GateFacts
    <2>. QED  BY <1>31, <2>1, <2>2 DEF cleanupDirectory
<1>32. CASE cleanupDirectory("consumers", "source")
    <2>1. CASE /\ At("R-11", "consumers")
               /\ live' = (IF "consumers" \in handle THEN live \ {"consumers"} ELSE live)
               /\ kept' = kept /\ handle' = handle /\ Goto("source")
        BY <2>1, <1>t, <1>g, <1>p, <1>h, <1>c, <1>n DEF At, Goto, ctl, Over, CleanupInv,
           CleanupIsComplete, held, world, GateFacts
    <2>2. CASE /\ At("R-11", "consumers") /\ "consumers" \in handle \cap live
               /\ kept' = kept \cup {"consumers"}
               /\ live' = live /\ handle' = handle /\ HoldCleanup
        BY <2>2, <1>t, <1>g, <1>p, <1>h, <1>c, <1>n DEF HeldTypes, Resources, At, Goto, ctl,
           Over, CleanupInv, CleanupIsComplete, held, world, GateFacts
    <2>. QED  BY <1>32, <2>1, <2>2 DEF cleanupDirectory
<1>33. CASE cleanupSource
    <2>1. pc[1] = "R-11" /\ pc[2] = "source" /\ live' = live /\ handle' = handle /\ kept' = kept
        BY <1>33, Zenon DEF cleanupSource, At, held
    <2>2. CleanupPasses \/ HoldCleanup
        BY <1>33, Zenon DEF cleanupSource, CleanupPasses
    <2>. QED  BY <2>1, <2>2, <1>t, <1>g, <1>p, <1>h, <1>c, <1>n, <1>s DEF HeldTypes,
                 Resources, At, Goto, ctl, Over, CleanupInv, CleanupIsComplete, held, world,
                 GateFacts
<1>34. CASE SourceMoves
    BY <1>34, <1>t, <1>g, <1>p, <1>h, <1>c, <1>n DEF SourceMoves, Env, At, Goto, ctl, Over,
       CleanupInv, CleanupIsComplete, held, world, GateFacts
<1>35. CASE HostDies
    BY <1>35, <1>t, <1>g, <1>p, <1>h, <1>c, <1>n DEF HostDies, Env, At, Goto, ctl, Over,
       CleanupInv, CleanupIsComplete, held, world, GateFacts
<1>36. CASE RunMoves
    BY <1>36, <1>t, <1>g, <1>p, <1>h, <1>c, <1>n DEF RunMoves, Env, At, Goto, ctl, Over,
       CleanupInv, CleanupIsComplete, held, world, GateFacts
<1>37. CASE DeliveryMoves
    BY <1>37, <1>t, <1>g, <1>p, <1>h, <1>c, <1>n DEF DeliveryMoves, Env, At, Goto, ctl,
       Over, CleanupInv, CleanupIsComplete, held, world, GateFacts
<1>38. CASE ExecutorMoves
    BY <1>38, <1>t, <1>g, <1>p, <1>h, <1>c, <1>n DEF ExecutorMoves, Env, At, Goto, ctl,
       Over, CleanupInv, CleanupIsComplete, held, world, GateFacts
<1>39. CASE ResultApplied
    BY <1>39, <1>t, <1>g, <1>p, <1>h, <1>c, <1>n DEF ResultApplied, Env, At, Goto, ctl,
       Over, CleanupInv, CleanupIsComplete, held, world, GateFacts
<1>40. CASE Recovery
    BY <1>40, <1>t, <1>g, <1>p, <1>h, <1>c, <1>n DEF Recovery, Env, At, Goto, ctl, Over,
       CleanupInv, CleanupIsComplete, held, world, GateFacts
<1>41. CASE ServiceDies
    BY <1>41, <1>t, <1>g, <1>p, <1>h, <1>c, <1>n DEF ServiceDies, Env, At, Goto, ctl, Over,
       CleanupInv, CleanupIsComplete, held, world, GateFacts
<1>42. CASE UNCHANGED gatesVars
    BY <1>42, <1>t, <1>g, <1>p, <1>h, <1>c, <1>n DEF gatesVars, ctl, held, world, At, Goto,
       ctl, Over, CleanupInv, CleanupIsComplete, held, world, GateFacts
<1>. QED  BY <1>1, <1>2, <1>3, <1>4, <1>5, <1>6, <1>7, <1>8, <1>9, <1>10, <1>11, <1>12,
             <1>13, <1>14, <1>15, <1>16, <1>17, <1>18, <1>19, <1>20, <1>21, <1>22, <1>23,
             <1>24, <1>25, <1>26, <1>27, <1>28, <1>29, <1>30, <1>31, <1>32, <1>33, <1>34,
             <1>35, <1>36, <1>37, <1>38, <1>39, <1>40, <1>41, <1>42
          DEF GatesNext, Controller, preR0Networking, cleanup, Finished

\* The first state satisfies the invariant.
LEMMA QualificationInit ==
    ASSUME GatesInit
    PROVE  QualificationInv
<1>. USE DEF GatesInit
<1>0. /\ pc[1] = "Q-ENTRY" /\ pc[2] = "enter"
      /\ \A g \in Gates : results[g] = "PENDING"
      /\ {"Q-ENTRY", "R-0", "R-3", "R-9", "R-10", "R-11"} \subseteq Gates
    BY GateNames
<1>1. ReportTypes
    BY <1>0 DEF ReportTypes, Steps
<1>2. SourceTypes
    BY DEF SourceTypes, IdentityRecord, SeenRecord, FreshSeen
<1>3. HeldTypes /\ disturbances \in 0 .. DisturbanceBound
    BY DisturbanceAssumption DEF HeldTypes
<1>4. FreshTask \in TaskRecord /\ NoDelivery \in DeliveryRecord
    BY DEF FreshTask, TaskRecord, NoDelivery, DeliveryRecord, None
<1>5. WorldTypes
    BY <1>4 DEF WorldTypes
<1>6. OrderInv
    <2>0. scope \in {"full-promotion", "wave10-worker-loss"}
        OBVIOUS
    <2>1. /\ 1 \in DOMAIN GateOrder /\ GateOrder[1] = "Q-ENTRY"
          /\ \A i \in DOMAIN GateOrder : i \in Nat /\ 1 <= i
          /\ \A i \in DOMAIN GateOrder : GateOrder[i] = "Q-ENTRY" => i = 1
          /\ \A i \in DOMAIN GateOrder : GateOrder[i] \in Gates
        <3>1. CASE scope = "full-promotion"
            BY <3>1, ScopeOrders, GateNames DEF GateOrder
        <3>2. CASE scope = "wave10-worker-loss"
            BY <3>2, ScopeOrders, GateNames DEF GateOrder
        <3>. QED  BY <2>0, <3>1, <3>2
    <2>2. \A i, j \in DOMAIN GateOrder :
            pc[1] = GateOrder[i] => results[GateOrder[j]] = IF j < i THEN "PASS" ELSE "PENDING"
        BY <1>0, <2>1
    <2>. QED  BY <1>0, <2>1, <2>2 DEF OrderInv, Over, At
<1>7. CandidateInv
    BY <1>0 DEF CandidateInv, Over, At
<1>8. HostInv
    BY <1>0 DEF HostInv, WakeCameAfterOutage, NoDelivery, None, At
<1>9. RecoveryInv
    BY <1>0 DEF RecoveryInv, RecoveryHappened, FreshTask, FreshSeen, None
<1>10. ArmedInv
    BY <1>0 DEF ArmedInv, FaultControlsStayInR9
<1>11. CleanupInv
    BY <1>0 DEF CleanupInv, CleanupIsComplete, Over, At
<1>. QED  BY <1>1, <1>2, <1>3, <1>5, <1>6, <1>7, <1>8, <1>9, <1>10, <1>11
          DEF QualificationInv, GatesTypeOK

\* Every step of the controller and of the world keeps the invariant.
LEMMA QualificationStep ==
    ASSUME QualificationInv, [GatesNext]_gatesVars
    PROVE  QualificationInv'
<1>1. GatesTypeOK /\ ReportTypes /\ OrderInv
    BY DEF QualificationInv, GatesTypeOK
<1>2. ReportTypes' /\ OrderInv'
    BY <1>1, StepsOfTheReport, ReportInduction
<1>3. GatesTypeOK'
    BY <1>1, <1>2, SourceTypesStep, HeldTypesStep, WorldTypesStep, DisturbancesStep DEF
       GatesTypeOK
<1>. QED  BY <1>2, <1>3, CandidateStep, HostStep, RecoveryStep, ArmedStep, CleanupStep
          DEF QualificationInv

\* The inductive invariant of the qualification: the order of the gates, what was
\* compared of the candidate, the hosts, the recovery and the resources.
THEOREM QualificationInvariant == GatesSpec => []QualificationInv
BY QualificationInit, QualificationStep, PTL DEF GatesSpec

\* The controller's state and what it watches have their types.
THEOREM QualificationTypes == GatesSpec => []GatesTypeOK
<1>1. QualificationInv => GatesTypeOK
    BY DEF QualificationInv
<1>. QED  BY <1>1, QualificationInvariant, PTL

\* A PASS verdict names one candidate: every gate of the scope and the cleanup
\* passed, and one clean tree is the tree of PRE-R0's head, of R-0, of the
\* consumers' submodule and of the checkout after cleanup, for any number of
\* commits, edits and restores in between.
THEOREM PassNamesOneCandidateHolds == GatesSpec => []PassNamesOneCandidate
<1>1. QualificationInv => PassNamesOneCandidate
    <2>. SUFFICES ASSUME QualificationInv, Over, divergence = None
                  PROVE  /\ \A i \in DOMAIN GateOrder : results[GateOrder[i]] = "PASS"
                         /\ results["R-11"] = "PASS"
                         /\ identity.tree = CleanTrees(identity.preHead)
                         /\ identity.sub = identity.tree /\ identity.post = identity.tree
        BY DEF PassNamesOneCandidate
    <2>1. pc[1] = "R-11" /\ ReportTypes /\ OrderInv /\ CandidateInv
        BY DEF Over, At, QualificationInv, GatesTypeOK
    <2>2. results["R-3"] = "PASS"
        BY <2>1, WhereTheReportStands DEF GateFacts
    <2>. QED  BY <2>1, <2>2 DEF OrderInv, CandidateInv
<1>. QED  BY <1>1, QualificationInvariant, PTL

\* R-9 passes only on a recovery that happened and R-10 only on a wake that came
\* after the outage, however the executions, leases, deaths, restarts and
\* deliveries interleave with the controller's observations.
THEOREM FaultsWereRecoveredHolds == GatesSpec => []FaultsWereRecovered
<1>1. QualificationInv => FaultsWereRecovered
    BY DEF QualificationInv, RecoveryInv, HostInv, FaultsWereRecovered
<1>. QED  BY <1>1, QualificationInvariant, PTL

\* What a qualification put in place is gone when it is over, and the fault
\* controls once R-9 has passed, whichever gate held and whatever could not be
\* removed.
THEOREM NothingIsLeftOverHolds == GatesSpec => []NothingIsLeftOver
<1>1. QualificationInv => NothingIsLeftOver
    BY DEF QualificationInv, CleanupInv, ArmedInv, NothingIsLeftOver
<1>. QED  BY <1>1, QualificationInvariant, PTL

-----------------------------------------------------------------------------
(***************************************************************************)
(* The in-process executor (DirectExecution): no attempt leaves anything   *)
(* behind, an executor keeps its own services, a closed run is proven.     *)
(***************************************************************************)
\* A manager is a task and the number of its attempt.
LEMMA ManagersArePairs ==
    /\ \A m \in Managers : m[1] \in Tasks /\ m[2] \in 1 .. MaxAttempts /\ m = <<m[1], m[2]>>
    /\ \A t \in Tasks : \A a \in 1 .. MaxAttempts : <<t, a>> \in Managers
BY DEF Managers

\* listTasks puts one of the tasks it lists first.
LEMMA FirstIsOne == ASSUME NEW S, S # {} PROVE First(S) \in S
BY DEF First

\* The profile of an attempt names services with a published port.
LEMMA ProfileIsPublished ==
    ASSUME NEW t \in Tasks
    PROVE  DockerProfile(t) \subseteq {Services[i] : i \in DOMAIN Services}
<1>1. \A u \in Tasks : resolveAgentDockerProfile(u) \subseteq {Services[i] : i \in DOMAIN Services}
    BY DockerAssumption DEF resolveAgentDockerProfile
<1>2. resolveRunDockerProfile \subseteq {Services[i] : i \in DOMAIN Services}
    BY <1>1, Zenon DEF resolveRunDockerProfile, Rows
<1>. QED  BY <1>1, <1>2 DEF DockerProfile

\* An attempt under way has a lifecycle manager.
LEMMA AttemptHasManager ==
    ASSUME ExecutionInv, NEW t \in Tasks, at[t] # "none"
    PROVE  attempt[t] \in 1 .. MaxAttempts /\ Manager(t) \in Managers
<1>1. attempt[t] \in 0 .. MaxAttempts /\ attempt[t] > 0
    BY DEF ExecutionInv, TypeOK, AttemptTypes, RowsInv
<1>2. attempt[t] \in 1 .. MaxAttempts
    BY <1>1, BoundsAssumption
<1>. QED  BY <1>2, ManagersArePairs DEF Manager

\* The loop, the rows and the operator keep their types.
LEMMA LoopTypesStep ==
    ASSUME ExecutionInv, [Next]_vars
    PROVE  LoopTypes'
<1>. SUFFICES ASSUME ExecutionInv, Next \/ UNCHANGED vars PROVE LoopTypes'
    OBVIOUS
<1>t. LoopTypes
    BY DEF ExecutionInv, TypeOK
<1>1. CASE Cascade
    BY <1>1, <1>t DEF Cascade, OnlyLoop, docker, loop, operator, outcome, tries, LoopTypes,
       Terminal, Success, Failure, TerminalRun
<1>2. CASE Compile
    BY <1>2, <1>t DEF Compile, OnlyLoop, docker, loop, operator, outcome, tries, LoopTypes,
       Terminal, Success, Failure, TerminalRun
<1>3. CASE Select
    BY <1>3, <1>t DEF Select, OnlyLoop, docker, loop, operator, outcome, tries, LoopTypes,
       Terminal, Success, Failure, TerminalRun
<1>4. CASE Dispatched
    BY <1>4, <1>t DEF Dispatched, OnlyLoop, docker, loop, operator, outcome, tries,
       LoopTypes, Terminal, Success, Failure, TerminalRun
<1>5. CASE Raced
    BY <1>5, <1>t DEF Raced, OnlyLoop, docker, loop, operator, outcome, tries, LoopTypes,
       Terminal, Success, Failure, TerminalRun
<1>6. CASE Finalize
    BY <1>6, <1>t DEF Finalize, OnlyLoop, docker, loop, operator, outcome, tries, LoopTypes,
       Terminal, Success, Failure, TerminalRun, FinalStatus, determineRunStatusWithDocker
<1>7. ASSUME NEW u \in Tasks, Dispatch(u) PROVE LoopTypes'
    BY <1>7, <1>t DEF Dispatch, Begin, docker, loop, operator, outcome, tries, LoopTypes,
       Terminal, Success, Failure, TerminalRun
<1>8. ASSUME NEW u \in Tasks, Prepare(u) PROVE LoopTypes'
    BY <1>8, <1>t DEF Prepare, OnlyTask, Return, To, SetRow, createIsolatedWorkspace,
       locals, docker, loop, operator, outcome, tries, LoopTypes, Terminal, Success,
       Failure, TerminalRun
<1>9. ASSUME NEW u \in Tasks, preflight(u) PROVE LoopTypes'
    BY <1>9, <1>t DEF preflight, OnlyTask, To, LifecycleBlocked, ClearStale, SetProject,
       docker, loop, operator, outcome, tries, LoopTypes, Terminal, Success, Failure,
       TerminalRun
<1>10. ASSUME NEW u \in Tasks, Up(u) PROVE LoopTypes'
    BY <1>10, <1>t DEF Up, OnlyTask, To, LifecycleBlocked, SetProject, docker, loop,
       operator, outcome, tries, LoopTypes, Terminal, Success, Failure, TerminalRun
<1>11. ASSUME NEW u \in Tasks, waitForHealth(u) PROVE LoopTypes'
    BY <1>11, <1>t DEF waitForHealth, OnlyTask, To, LifecycleBlocked, docker, loop,
       operator, outcome, tries, LoopTypes, Terminal, Success, Failure, TerminalRun
<1>12. ASSUME NEW u \in Tasks, RegisterTraps(u) PROVE LoopTypes'
    BY <1>12, <1>t DEF RegisterTraps, OnlyTask, To, docker, loop, operator, outcome, tries,
       LoopTypes, Terminal, Success, Failure, TerminalRun
<1>13. ASSUME NEW u \in Tasks, Execute(u) PROVE LoopTypes'
    BY <1>13, <1>t DEF Execute, OnlyTask, To, docker, loop, operator, outcome, tries,
       LoopTypes, Terminal, Success, Failure, TerminalRun
<1>14. ASSUME NEW u \in Tasks, Teardown(u) PROVE LoopTypes'
    BY <1>14, <1>t DEF Teardown, OnlyTask, To, docker, loop, operator, outcome, tries,
       LoopTypes, Terminal, Success, Failure, TerminalRun
<1>15. ASSUME NEW u \in Tasks, SettleBlocked(u) PROVE LoopTypes'
    BY <1>15, <1>t DEF SettleBlocked, OnlyTask, Return, To, SetRow, docker, loop, operator,
       outcome, tries, LoopTypes, Terminal, Success, Failure, TerminalRun
<1>16. ASSUME NEW u \in Tasks, Settle(u) PROVE LoopTypes'
    BY <1>16, <1>t DEF Settle, OnlyTask, Return, To, SetRow, locals, docker, loop, operator,
       outcome, tries, LoopTypes, Terminal, Success, Failure, TerminalRun
<1>17. ASSUME NEW u \in Tasks, Integrate(u) PROVE LoopTypes'
    BY <1>17, <1>t DEF Integrate, OnlyTask, Return, To, SetRow, docker, loop, operator,
       outcome, tries, LoopTypes, Terminal, Success, Failure, TerminalRun
<1>18. ASSUME NEW u \in Tasks, RetryWakes(u) PROVE LoopTypes'
    BY <1>18, <1>t DEF RetryWakes, OnlyTask, Return, To, SetRow, docker, loop, operator,
       outcome, tries, LoopTypes, Terminal, Success, Failure, TerminalRun
<1>19. ASSUME NEW u \in Tasks, Throws(u) PROVE LoopTypes'
    BY <1>19, <1>t DEF Throws, Reject, Return, To, docker, loop, operator, outcome, tries,
       LoopTypes, Terminal, Success, Failure, TerminalRun
<1>20. ASSUME NEW u \in Tasks, NEW b \in 1 .. MaxAttempts, Down(u, b) PROVE LoopTypes'
    BY <1>20, <1>t DEF Down, OnlyTask, To, SetProject, docker, loop, operator, outcome,
       tries, LoopTypes, Terminal, Success, Failure, TerminalRun
<1>21. ASSUME NEW u \in Tasks, ServicesHealthy(u) PROVE LoopTypes'
    BY <1>21, <1>t DEF ServicesHealthy, docker, loop, operator, outcome, tries, LoopTypes,
       Terminal, Success, Failure, TerminalRun
<1>22. ASSUME NEW u \in Tasks, ServicesFail(u) PROVE LoopTypes'
    BY <1>22, <1>t DEF ServicesFail, docker, loop, operator, outcome, tries, LoopTypes,
       Terminal, Success, Failure, TerminalRun
<1>23. CASE registerSignalTraps
    BY <1>23, <1>t DEF registerSignalTraps, docker, loop, operator, outcome, tries,
       LoopTypes, Terminal, Success, Failure, TerminalRun
<1>24. CASE StartCancel
    BY <1>24, <1>t DEF StartCancel, docker, loop, operator, outcome, tries, LoopTypes,
       Terminal, Success, Failure, TerminalRun, Rows
<1>25. ASSUME NEW u \in Tasks, CancelTask(u) PROVE LoopTypes'
    BY <1>25, <1>t DEF CancelTask, SetRow, docker, loop, operator, outcome, tries,
       LoopTypes, Terminal, Success, Failure, TerminalRun
<1>26. CASE CancelRun
    BY <1>26, <1>t DEF CancelRun, docker, loop, operator, outcome, tries, LoopTypes,
       Terminal, Success, Failure, TerminalRun
<1>27. CASE UNCHANGED vars
    BY <1>27, <1>t DEF vars, docker, loop, operator, outcome, tries, LoopTypes, Terminal,
       Success, Failure, TerminalRun
<1>28. ASSUME NEW u \in Tasks, Rethrows(u) PROVE LoopTypes'
    BY <1>28, <1>t DEF Rethrows, Reject, Return, To, docker, loop, operator, outcome, tries,
       LoopTypes, Terminal, Success, Failure, TerminalRun
<1>. QED  BY <1>1, <1>2, <1>3, <1>4, <1>5, <1>6, <1>7, <1>8, <1>9, <1>10, <1>11, <1>12,
             <1>13, <1>14, <1>15, <1>16, <1>17, <1>18, <1>19, <1>20, <1>21, <1>22, <1>23,
             <1>24, <1>25, <1>26, <1>27, <1>28, ManagersArePairs
          DEF Next, LoopStep, TaskStep, TeardownStep, CancelStep

\* The attempts keep their types.
LEMMA AttemptTypesStep ==
    ASSUME ExecutionInv, [Next]_vars
    PROVE  AttemptTypes'
<1>. SUFFICES ASSUME ExecutionInv, Next \/ UNCHANGED vars PROVE AttemptTypes'
    OBVIOUS
<1>t. AttemptTypes /\ LoopTypes /\ RowsInv
    BY DEF ExecutionInv, TypeOK
<1>1. CASE Cascade
    BY <1>1, <1>t DEF Cascade, OnlyLoop, docker, loop, operator, outcome, tries,
       AttemptTypes, Places
<1>2. CASE Compile
    BY <1>2, <1>t DEF Compile, OnlyLoop, docker, loop, operator, outcome, tries,
       AttemptTypes, Places
<1>3. CASE Select
    BY <1>3, <1>t DEF Select, OnlyLoop, docker, loop, operator, outcome, tries,
       AttemptTypes, Places
<1>4. CASE Dispatched
    BY <1>4, <1>t DEF Dispatched, OnlyLoop, docker, loop, operator, outcome, tries,
       AttemptTypes, Places
<1>5. CASE Raced
    BY <1>5, <1>t DEF Raced, OnlyLoop, docker, loop, operator, outcome, tries, AttemptTypes,
       Places
<1>6. CASE Finalize
    BY <1>6, <1>t DEF Finalize, OnlyLoop, docker, loop, operator, outcome, tries,
       AttemptTypes, Places
<1>7. ASSUME NEW u \in Tasks, Dispatch(u) PROVE AttemptTypes'
    <2>1. CASE Begin(u)
        <3>1. u \in ready
            BY <1>7, FirstIsOne DEF Dispatch
        <3>2. attempt[u] + 1 \in 0 .. MaxAttempts
            BY <3>1, <1>t, BoundsAssumption DEF AttemptTypes, RowsInv
        <3>3. attempt' \in [Tasks -> 0 .. MaxAttempts]
            BY <3>2, <2>1, <1>t DEF AttemptTypes, Begin
        <3>4. needs' \in [Tasks -> SUBSET {Services[i] : i \in DOMAIN Services}]
            BY <2>1, <1>t, ProfileIsPublished DEF AttemptTypes, Begin
        <3>. QED  BY <3>3, <3>4, <2>1, <1>7, <1>t DEF Dispatch, Begin, AttemptTypes, Places
    <2>2. CASE ~Begin(u)
        BY <2>2, <1>7, <1>t DEF Dispatch, tries, AttemptTypes
    <2>. QED  BY <2>1, <2>2
<1>8. ASSUME NEW u \in Tasks, Prepare(u) PROVE AttemptTypes'
    BY <1>8, <1>t DEF Prepare, OnlyTask, Return, To, SetRow, createIsolatedWorkspace,
       locals, docker, loop, operator, outcome, tries, AttemptTypes, Places
<1>9. ASSUME NEW u \in Tasks, preflight(u) PROVE AttemptTypes'
    BY <1>9, <1>t DEF preflight, OnlyTask, To, LifecycleBlocked, ClearStale, SetProject,
       docker, loop, operator, outcome, tries, AttemptTypes, Places
<1>10. ASSUME NEW u \in Tasks, Up(u) PROVE AttemptTypes'
    BY <1>10, <1>t DEF Up, OnlyTask, To, LifecycleBlocked, SetProject, docker, loop,
       operator, outcome, tries, AttemptTypes, Places
<1>11. ASSUME NEW u \in Tasks, waitForHealth(u) PROVE AttemptTypes'
    BY <1>11, <1>t DEF waitForHealth, OnlyTask, To, LifecycleBlocked, docker, loop,
       operator, outcome, tries, AttemptTypes, Places
<1>12. ASSUME NEW u \in Tasks, RegisterTraps(u) PROVE AttemptTypes'
    BY <1>12, <1>t DEF RegisterTraps, OnlyTask, To, docker, loop, operator, outcome, tries,
       AttemptTypes, Places
<1>13. ASSUME NEW u \in Tasks, Execute(u) PROVE AttemptTypes'
    BY <1>13, <1>t DEF Execute, OnlyTask, To, docker, loop, operator, outcome, tries,
       AttemptTypes, Places
<1>14. ASSUME NEW u \in Tasks, Teardown(u) PROVE AttemptTypes'
    BY <1>14, <1>t DEF Teardown, OnlyTask, To, docker, loop, operator, outcome, tries,
       AttemptTypes, Places, checkHealth
<1>15. ASSUME NEW u \in Tasks, SettleBlocked(u) PROVE AttemptTypes'
    BY <1>15, <1>t DEF SettleBlocked, OnlyTask, Return, To, SetRow, docker, loop, operator,
       outcome, tries, AttemptTypes, Places
<1>16. ASSUME NEW u \in Tasks, Settle(u) PROVE AttemptTypes'
    BY <1>16, <1>t DEF Settle, OnlyTask, Return, To, SetRow, locals, docker, loop, operator,
       outcome, tries, AttemptTypes, Places
<1>17. ASSUME NEW u \in Tasks, Integrate(u) PROVE AttemptTypes'
    BY <1>17, <1>t DEF Integrate, OnlyTask, Return, To, SetRow, docker, loop, operator,
       outcome, tries, AttemptTypes, Places
<1>18. ASSUME NEW u \in Tasks, RetryWakes(u) PROVE AttemptTypes'
    BY <1>18, <1>t DEF RetryWakes, OnlyTask, Return, To, SetRow, docker, loop, operator,
       outcome, tries, AttemptTypes, Places
<1>19. ASSUME NEW u \in Tasks, Throws(u) PROVE AttemptTypes'
    BY <1>19, <1>t DEF Throws, Reject, Return, To, docker, loop, operator, outcome, tries,
       AttemptTypes, Places
<1>20. ASSUME NEW u \in Tasks, NEW b \in 1 .. MaxAttempts, Down(u, b) PROVE AttemptTypes'
    BY <1>20, <1>t DEF Down, OnlyTask, To, SetProject, docker, loop, operator, outcome,
       tries, AttemptTypes, Places
<1>21. ASSUME NEW u \in Tasks, ServicesHealthy(u) PROVE AttemptTypes'
    BY <1>21, <1>t DEF ServicesHealthy, docker, loop, operator, outcome, tries,
       AttemptTypes, Places
<1>22. ASSUME NEW u \in Tasks, ServicesFail(u) PROVE AttemptTypes'
    BY <1>22, <1>t DEF ServicesFail, docker, loop, operator, outcome, tries, AttemptTypes,
       Places
<1>23. CASE registerSignalTraps
    BY <1>23, <1>t DEF registerSignalTraps, docker, loop, operator, outcome, tries,
       AttemptTypes, Places
<1>24. CASE StartCancel
    BY <1>24, <1>t DEF StartCancel, docker, loop, operator, outcome, tries, AttemptTypes,
       Places
<1>25. ASSUME NEW u \in Tasks, CancelTask(u) PROVE AttemptTypes'
    BY <1>25, <1>t DEF CancelTask, SetRow, docker, loop, operator, outcome, tries,
       AttemptTypes, Places
<1>26. CASE CancelRun
    BY <1>26, <1>t DEF CancelRun, docker, loop, operator, outcome, tries, AttemptTypes,
       Places
<1>27. CASE UNCHANGED vars
    BY <1>27, <1>t DEF vars, docker, loop, operator, outcome, tries, AttemptTypes, Places
<1>28. ASSUME NEW u \in Tasks, Rethrows(u) PROVE AttemptTypes'
    BY <1>28, <1>t DEF Rethrows, Reject, Return, To, docker, loop, operator, outcome, tries,
       AttemptTypes, Places
<1>. QED  BY <1>1, <1>2, <1>3, <1>4, <1>5, <1>6, <1>7, <1>8, <1>9, <1>10, <1>11, <1>12,
             <1>13, <1>14, <1>15, <1>16, <1>17, <1>18, <1>19, <1>20, <1>21, <1>22, <1>23,
             <1>24, <1>25, <1>26, <1>27, <1>28, ManagersArePairs
          DEF Next, LoopStep, TaskStep, TeardownStep, CancelStep

\* The docker projects and their managers keep their types.
LEMMA DockerTypesStep ==
    ASSUME ExecutionInv, [Next]_vars
    PROVE  DockerTypes'
<1>. SUFFICES ASSUME ExecutionInv, Next \/ UNCHANGED vars PROVE DockerTypes'
    OBVIOUS
<1>t. DockerTypes /\ AttemptTypes /\ RowsInv
    BY DEF ExecutionInv, TypeOK
<1>1. CASE Cascade
    BY <1>1, <1>t DEF Cascade, OnlyLoop, docker, loop, operator, outcome, tries, DockerTypes
<1>2. CASE Compile
    BY <1>2, <1>t DEF Compile, OnlyLoop, docker, loop, operator, outcome, tries, DockerTypes
<1>3. CASE Select
    BY <1>3, <1>t DEF Select, OnlyLoop, docker, loop, operator, outcome, tries, DockerTypes
<1>4. CASE Dispatched
    BY <1>4, <1>t DEF Dispatched, OnlyLoop, docker, loop, operator, outcome, tries,
       DockerTypes
<1>5. CASE Raced
    BY <1>5, <1>t DEF Raced, OnlyLoop, docker, loop, operator, outcome, tries, DockerTypes
<1>6. CASE Finalize
    BY <1>6, <1>t DEF Finalize, OnlyLoop, docker, loop, operator, outcome, tries,
       DockerTypes
<1>7. ASSUME NEW u \in Tasks, Dispatch(u) PROVE DockerTypes'
    BY <1>7, <1>t DEF Dispatch, Begin, docker, loop, operator, outcome, tries, DockerTypes
<1>8. ASSUME NEW u \in Tasks, Prepare(u) PROVE DockerTypes'
    BY <1>8, <1>t DEF Prepare, OnlyTask, Return, To, SetRow, createIsolatedWorkspace,
       locals, docker, loop, operator, outcome, tries, DockerTypes
<1>9. ASSUME NEW u \in Tasks, preflight(u) PROVE DockerTypes'
    <2>1. project' = project \/ project' = [project EXCEPT ![u] = Absent]
            \/ project' = [project EXCEPT ![u] = generateComposeOverride(u)]
        BY <1>9 DEF preflight, OnlyTask, To, LifecycleBlocked, ClearStale, SetProject,
           docker, loop, operator, outcome, tries, dockerLifecycleProjectName
    <2>2. /\ project' = [t \in Tasks |-> project'[t]]
          /\ \A t \in Tasks :
                /\ project'[t] = [health |-> project'[t].health, ports |-> project'[t].ports]
                /\ project'[t].health \in {"none", "starting", "healthy", "sick"}
        BY <2>1, <1>t DEF DockerTypes, Absent, generateComposeOverride
    <2>. QED  BY <2>2, <1>9, <1>t DEF preflight, OnlyTask, To, LifecycleBlocked, ClearStale,
                 SetProject, docker, loop, operator, outcome, tries, DockerTypes
<1>10. ASSUME NEW u \in Tasks, Up(u) PROVE DockerTypes'
    <2>1. project' = project \/ project' = [project EXCEPT ![u] = Absent]
            \/ project' = [project EXCEPT ![u] = generateComposeOverride(u)]
        BY <1>10 DEF Up, OnlyTask, To, LifecycleBlocked, SetProject, docker, loop, operator,
           outcome, tries, dockerLifecycleProjectName
    <2>2. /\ project' = [t \in Tasks |-> project'[t]]
          /\ \A t \in Tasks :
                /\ project'[t] = [health |-> project'[t].health, ports |-> project'[t].ports]
                /\ project'[t].health \in {"none", "starting", "healthy", "sick"}
        BY <2>1, <1>t DEF DockerTypes, Absent, generateComposeOverride
    <2>. QED  BY <2>2, <1>10, <1>t DEF Up, OnlyTask, To, LifecycleBlocked, SetProject,
                 docker, loop, operator, outcome, tries, DockerTypes
<1>11. ASSUME NEW u \in Tasks, waitForHealth(u) PROVE DockerTypes'
    BY <1>11, <1>t DEF waitForHealth, OnlyTask, To, LifecycleBlocked, docker, loop,
       operator, outcome, tries, DockerTypes
<1>12. ASSUME NEW u \in Tasks, RegisterTraps(u) PROVE DockerTypes'
    <2>1. Manager(u) \in Managers
        BY <1>12, AttemptHasManager DEF RegisterTraps
    <2>. QED  BY <2>1, <1>12, <1>t DEF RegisterTraps, OnlyTask, To, docker, loop, operator,
                 outcome, tries, DockerTypes
<1>13. ASSUME NEW u \in Tasks, Execute(u) PROVE DockerTypes'
    BY <1>13, <1>t DEF Execute, OnlyTask, To, docker, loop, operator, outcome, tries,
       DockerTypes
<1>14. ASSUME NEW u \in Tasks, Teardown(u) PROVE DockerTypes'
    <2>1. Manager(u) \in Managers
        BY <1>14, AttemptHasManager DEF Teardown
    <2>. QED  BY <2>1, <1>14, <1>t DEF Teardown, OnlyTask, To, docker, loop, operator,
                 outcome, tries, DockerTypes
<1>15. ASSUME NEW u \in Tasks, SettleBlocked(u) PROVE DockerTypes'
    BY <1>15, <1>t DEF SettleBlocked, OnlyTask, Return, To, SetRow, docker, loop, operator,
       outcome, tries, DockerTypes
<1>16. ASSUME NEW u \in Tasks, Settle(u) PROVE DockerTypes'
    BY <1>16, <1>t DEF Settle, OnlyTask, Return, To, SetRow, locals, docker, loop, operator,
       outcome, tries, DockerTypes
<1>17. ASSUME NEW u \in Tasks, Integrate(u) PROVE DockerTypes'
    BY <1>17, <1>t DEF Integrate, OnlyTask, Return, To, SetRow, docker, loop, operator,
       outcome, tries, DockerTypes
<1>18. ASSUME NEW u \in Tasks, RetryWakes(u) PROVE DockerTypes'
    BY <1>18, <1>t DEF RetryWakes, OnlyTask, Return, To, SetRow, docker, loop, operator,
       outcome, tries, DockerTypes
<1>19. ASSUME NEW u \in Tasks, Throws(u) PROVE DockerTypes'
    BY <1>19, <1>t DEF Throws, Reject, Return, To, docker, loop, operator, outcome, tries,
       DockerTypes
<1>20. ASSUME NEW u \in Tasks, NEW b \in 1 .. MaxAttempts, Down(u, b) PROVE DockerTypes'
    <2>1. project' = project \/ project' = [project EXCEPT ![u] = Absent]
            \/ project' = [project EXCEPT ![u] = generateComposeOverride(u)]
        BY <1>20 DEF Down, OnlyTask, To, SetProject, docker, loop, operator, outcome, tries,
           dockerLifecycleProjectName
    <2>2. /\ project' = [t \in Tasks |-> project'[t]]
          /\ \A t \in Tasks :
                /\ project'[t] = [health |-> project'[t].health, ports |-> project'[t].ports]
                /\ project'[t].health \in {"none", "starting", "healthy", "sick"}
        BY <2>1, <1>t DEF DockerTypes, Absent, generateComposeOverride
    <2>. QED  BY <2>2, <1>20, <1>t DEF Down, OnlyTask, To, SetProject, docker, loop,
                 operator, outcome, tries, DockerTypes
<1>21. ASSUME NEW u \in Tasks, ServicesHealthy(u) PROVE DockerTypes'
    BY <1>21, <1>t DEF ServicesHealthy, docker, loop, operator, outcome, tries, DockerTypes
<1>22. ASSUME NEW u \in Tasks, ServicesFail(u) PROVE DockerTypes'
    BY <1>22, <1>t DEF ServicesFail, docker, loop, operator, outcome, tries, DockerTypes
<1>23. CASE registerSignalTraps
    BY <1>23, <1>t DEF registerSignalTraps, docker, loop, operator, outcome, tries,
       DockerTypes
<1>24. CASE StartCancel
    BY <1>24, <1>t DEF StartCancel, docker, loop, operator, outcome, tries, DockerTypes
<1>25. ASSUME NEW u \in Tasks, CancelTask(u) PROVE DockerTypes'
    BY <1>25, <1>t DEF CancelTask, SetRow, docker, loop, operator, outcome, tries,
       DockerTypes
<1>26. CASE CancelRun
    BY <1>26, <1>t DEF CancelRun, docker, loop, operator, outcome, tries, DockerTypes
<1>27. CASE UNCHANGED vars
    BY <1>27, <1>t DEF vars, docker, loop, operator, outcome, tries, DockerTypes
<1>28. ASSUME NEW u \in Tasks, Rethrows(u) PROVE DockerTypes'
    BY <1>28, <1>t DEF Rethrows, Reject, Return, To, docker, loop, operator, outcome, tries,
       DockerTypes
<1>. QED  BY <1>1, <1>2, <1>3, <1>4, <1>5, <1>6, <1>7, <1>8, <1>9, <1>10, <1>11, <1>12,
             <1>13, <1>14, <1>15, <1>16, <1>17, <1>18, <1>19, <1>20, <1>21, <1>22, <1>23,
             <1>24, <1>25, <1>26, <1>27, <1>28, ManagersArePairs
          DEF Next, LoopStep, TaskStep, TeardownStep, CancelStep

\* The number of disturbances stays within its bound.
LEMMA DisturbedStep ==
    ASSUME ExecutionInv, [Next]_vars
    PROVE  disturbed' \in 0 .. MaxDisturbances
<1>. SUFFICES ASSUME ExecutionInv, Next \/ UNCHANGED vars PROVE disturbed' \in 0 .. MaxDisturbances
    OBVIOUS
<1>t. disturbed \in 0 .. MaxDisturbances
    BY DEF ExecutionInv, TypeOK
<1>d. \A k : Disturb(k) => disturbed' \in 0 .. MaxDisturbances
    BY <1>t, BoundsAssumption DEF Disturb
<1>1. CASE Cascade
    BY <1>1, <1>t, <1>d DEF Cascade, OnlyLoop, docker, loop, operator, outcome, tries,
       locals
<1>2. CASE Compile
    BY <1>2, <1>t, <1>d DEF Compile, OnlyLoop, docker, loop, operator, outcome, tries,
       locals
<1>3. CASE Select
    BY <1>3, <1>t, <1>d DEF Select, OnlyLoop, docker, loop, operator, outcome, tries, locals
<1>4. CASE Dispatched
    BY <1>4, <1>t, <1>d DEF Dispatched, OnlyLoop, docker, loop, operator, outcome, tries,
       locals
<1>5. CASE Raced
    BY <1>5, <1>t, <1>d DEF Raced, OnlyLoop, docker, loop, operator, outcome, tries, locals
<1>6. CASE Finalize
    BY <1>6, <1>t, <1>d DEF Finalize, OnlyLoop, docker, loop, operator, outcome, tries,
       locals
<1>7. ASSUME NEW u \in Tasks, Dispatch(u) PROVE disturbed' \in 0 .. MaxDisturbances
    BY <1>7, <1>t, <1>d DEF Dispatch, Begin, docker, loop, operator, outcome, tries, locals
<1>8. ASSUME NEW u \in Tasks, Prepare(u) PROVE disturbed' \in 0 .. MaxDisturbances
    BY <1>8, <1>t, <1>d DEF Prepare, OnlyTask, Return, To, SetRow, createIsolatedWorkspace,
       locals, docker, loop, operator, outcome, tries, locals
<1>9. ASSUME NEW u \in Tasks, preflight(u) PROVE disturbed' \in 0 .. MaxDisturbances
    BY <1>9, <1>t, <1>d DEF preflight, OnlyTask, To, LifecycleBlocked, ClearStale,
       SetProject, docker, loop, operator, outcome, tries, locals
<1>10. ASSUME NEW u \in Tasks, Up(u) PROVE disturbed' \in 0 .. MaxDisturbances
    BY <1>10, <1>t, <1>d DEF Up, OnlyTask, To, LifecycleBlocked, SetProject, docker, loop,
       operator, outcome, tries, locals
<1>11. ASSUME NEW u \in Tasks, waitForHealth(u) PROVE disturbed' \in 0 .. MaxDisturbances
    BY <1>11, <1>t, <1>d DEF waitForHealth, OnlyTask, To, LifecycleBlocked, docker, loop,
       operator, outcome, tries, locals
<1>12. ASSUME NEW u \in Tasks, RegisterTraps(u) PROVE disturbed' \in 0 .. MaxDisturbances
    BY <1>12, <1>t, <1>d DEF RegisterTraps, OnlyTask, To, docker, loop, operator, outcome,
       tries, locals
<1>13. ASSUME NEW u \in Tasks, Execute(u) PROVE disturbed' \in 0 .. MaxDisturbances
    BY <1>13, <1>t, <1>d DEF Execute, OnlyTask, To, docker, loop, operator, outcome, tries,
       locals
<1>14. ASSUME NEW u \in Tasks, Teardown(u) PROVE disturbed' \in 0 .. MaxDisturbances
    BY <1>14, <1>t, <1>d DEF Teardown, OnlyTask, To, docker, loop, operator, outcome, tries,
       locals
<1>15. ASSUME NEW u \in Tasks, SettleBlocked(u) PROVE disturbed' \in 0 .. MaxDisturbances
    BY <1>15, <1>t, <1>d DEF SettleBlocked, OnlyTask, Return, To, SetRow, docker, loop,
       operator, outcome, tries, locals
<1>16. ASSUME NEW u \in Tasks, Settle(u) PROVE disturbed' \in 0 .. MaxDisturbances
    BY <1>16, <1>t, <1>d DEF Settle, OnlyTask, Return, To, SetRow, locals, docker, loop,
       operator, outcome, tries, locals
<1>17. ASSUME NEW u \in Tasks, Integrate(u) PROVE disturbed' \in 0 .. MaxDisturbances
    BY <1>17, <1>t, <1>d DEF Integrate, OnlyTask, Return, To, SetRow, docker, loop,
       operator, outcome, tries, locals
<1>18. ASSUME NEW u \in Tasks, RetryWakes(u) PROVE disturbed' \in 0 .. MaxDisturbances
    BY <1>18, <1>t, <1>d DEF RetryWakes, OnlyTask, Return, To, SetRow, docker, loop,
       operator, outcome, tries, locals
<1>19. ASSUME NEW u \in Tasks, Throws(u) PROVE disturbed' \in 0 .. MaxDisturbances
    BY <1>19, <1>t, <1>d DEF Throws, Reject, Return, To, docker, loop, operator, outcome, tries,
       locals
<1>20. ASSUME NEW u \in Tasks, NEW b \in 1 .. MaxAttempts, Down(u, b)
       PROVE  disturbed' \in 0 .. MaxDisturbances
    BY <1>20, <1>t, <1>d DEF Down, OnlyTask, To, SetProject, docker, loop, operator,
       outcome, tries, locals
<1>21. ASSUME NEW u \in Tasks, ServicesHealthy(u) PROVE disturbed' \in 0 .. MaxDisturbances
    BY <1>21, <1>t, <1>d DEF ServicesHealthy, docker, loop, operator, outcome, tries, locals
<1>22. ASSUME NEW u \in Tasks, ServicesFail(u) PROVE disturbed' \in 0 .. MaxDisturbances
    BY <1>22, <1>t, <1>d DEF ServicesFail, docker, loop, operator, outcome, tries, locals
<1>23. CASE registerSignalTraps
    BY <1>23, <1>t, <1>d DEF registerSignalTraps, docker, loop, operator, outcome, tries,
       locals
<1>24. CASE StartCancel
    BY <1>24, <1>t, <1>d DEF StartCancel, docker, loop, operator, outcome, tries, locals
<1>25. ASSUME NEW u \in Tasks, CancelTask(u) PROVE disturbed' \in 0 .. MaxDisturbances
    BY <1>25, <1>t, <1>d DEF CancelTask, SetRow, docker, loop, operator, outcome, tries,
       locals
<1>26. CASE CancelRun
    BY <1>26, <1>t, <1>d DEF CancelRun, docker, loop, operator, outcome, tries, locals
<1>27. CASE UNCHANGED vars
    BY <1>27, <1>t, <1>d DEF vars, docker, loop, operator, outcome, tries, locals
<1>28. ASSUME NEW u \in Tasks, Rethrows(u) PROVE disturbed' \in 0 .. MaxDisturbances
    BY <1>28, <1>t, <1>d DEF Rethrows, Reject, Return, To, docker, loop, operator, outcome, tries,
       locals
<1>. QED  BY <1>1, <1>2, <1>3, <1>4, <1>5, <1>6, <1>7, <1>8, <1>9, <1>10, <1>11, <1>12,
             <1>13, <1>14, <1>15, <1>16, <1>17, <1>18, <1>19, <1>20, <1>21, <1>22, <1>23,
             <1>24, <1>25, <1>26, <1>27, <1>28, ManagersArePairs
          DEF Next, LoopStep, TaskStep, TeardownStep, CancelStep

\* The rows and the attempts of the process stay in step.
LEMMA RowsStep ==
    ASSUME ExecutionInv, [Next]_vars
    PROVE  RowsInv'
<1>. SUFFICES ASSUME ExecutionInv, Next \/ UNCHANGED vars PROVE RowsInv'
    OBVIOUS
<1>t. /\ RowsInv /\ attempt \in [Tasks -> 0 .. MaxAttempts] /\ at \in [Tasks -> Places]
      /\ DOMAIN status = Tasks /\ MaxAttempts \in Nat
    BY BoundsAssumption DEF ExecutionInv, TypeOK, AttemptTypes, LoopTypes
<1>1. CASE Cascade
    BY <1>1, <1>t DEF Cascade, OnlyLoop, docker, loop, operator, outcome, tries, RowsInv,
       locals, Success
<1>2. CASE Compile
    BY <1>2, <1>t DEF Compile, OnlyLoop, docker, loop, operator, outcome, tries, RowsInv,
       locals, Success
<1>3. CASE Select
    BY <1>3, <1>t DEF Select, OnlyLoop, docker, loop, operator, outcome, tries, RowsInv,
       locals, Success
<1>4. CASE Dispatched
    BY <1>4, <1>t DEF Dispatched, OnlyLoop, docker, loop, operator, outcome, tries, RowsInv,
       locals, Success
<1>5. CASE Raced
    BY <1>5, <1>t DEF Raced, OnlyLoop, docker, loop, operator, outcome, tries, RowsInv,
       locals, Success
<1>6. CASE Finalize
    BY <1>6, <1>t DEF Finalize, OnlyLoop, docker, loop, operator, outcome, tries, RowsInv,
       locals, Success
<1>7. ASSUME NEW u \in Tasks, Dispatch(u) PROVE RowsInv'
    BY <1>7, <1>t DEF Dispatch, Begin, docker, loop, operator, outcome, tries, RowsInv,
       locals, Success
<1>8. ASSUME NEW u \in Tasks, Prepare(u) PROVE RowsInv'
    BY <1>8, <1>t DEF Prepare, OnlyTask, Return, To, SetRow, createIsolatedWorkspace,
       locals, docker, loop, operator, outcome, tries, RowsInv, locals, Success
<1>9. ASSUME NEW u \in Tasks, preflight(u) PROVE RowsInv'
    BY <1>9, <1>t DEF preflight, OnlyTask, To, LifecycleBlocked, ClearStale, SetProject,
       docker, loop, operator, outcome, tries, RowsInv, locals, Success
<1>10. ASSUME NEW u \in Tasks, Up(u) PROVE RowsInv'
    BY <1>10, <1>t DEF Up, OnlyTask, To, LifecycleBlocked, SetProject, docker, loop,
       operator, outcome, tries, RowsInv, locals, Success
<1>11. ASSUME NEW u \in Tasks, waitForHealth(u) PROVE RowsInv'
    BY <1>11, <1>t DEF waitForHealth, OnlyTask, To, LifecycleBlocked, docker, loop,
       operator, outcome, tries, RowsInv, locals, Success
<1>12. ASSUME NEW u \in Tasks, RegisterTraps(u) PROVE RowsInv'
    BY <1>12, <1>t DEF RegisterTraps, OnlyTask, To, docker, loop, operator, outcome, tries,
       RowsInv, locals, Success
<1>13. ASSUME NEW u \in Tasks, Execute(u) PROVE RowsInv'
    BY <1>13, <1>t DEF Execute, OnlyTask, To, docker, loop, operator, outcome, tries,
       RowsInv, locals, Success
<1>14. ASSUME NEW u \in Tasks, Teardown(u) PROVE RowsInv'
    BY <1>14, <1>t DEF Teardown, OnlyTask, To, docker, loop, operator, outcome, tries,
       RowsInv, locals, Success
<1>15. ASSUME NEW u \in Tasks, SettleBlocked(u) PROVE RowsInv'
    BY <1>15, <1>t DEF SettleBlocked, OnlyTask, Return, To, SetRow, docker, loop, operator,
       outcome, tries, RowsInv, locals, Success
<1>16. ASSUME NEW u \in Tasks, Settle(u) PROVE RowsInv'
    <2>1. evaluateRetry(u) => attempt[u] < MaxAttempts
        BY DEF evaluateRetry
    <2>. QED  BY <2>1, <1>16, <1>t DEF Settle, OnlyTask, Return, To, SetRow, locals, docker,
                 loop, operator, outcome, tries, RowsInv, locals, Success
<1>17. ASSUME NEW u \in Tasks, Integrate(u) PROVE RowsInv'
    BY <1>17, <1>t DEF Integrate, OnlyTask, Return, To, SetRow, docker, loop, operator,
       outcome, tries, RowsInv, locals, Success
<1>18. ASSUME NEW u \in Tasks, RetryWakes(u) PROVE RowsInv'
    BY <1>18, <1>t DEF RetryWakes, OnlyTask, Return, To, SetRow, docker, loop, operator,
       outcome, tries, RowsInv, locals, Success
<1>19. ASSUME NEW u \in Tasks, Throws(u) PROVE RowsInv'
    BY <1>19, <1>t DEF Throws, Reject, Return, To, docker, loop, operator, outcome, tries, RowsInv,
       locals, Success
<1>20. ASSUME NEW u \in Tasks, NEW b \in 1 .. MaxAttempts, Down(u, b) PROVE RowsInv'
    BY <1>20, <1>t DEF Down, OnlyTask, To, SetProject, docker, loop, operator, outcome,
       tries, RowsInv, locals, Success
<1>21. ASSUME NEW u \in Tasks, ServicesHealthy(u) PROVE RowsInv'
    BY <1>21, <1>t DEF ServicesHealthy, docker, loop, operator, outcome, tries, RowsInv,
       locals, Success
<1>22. ASSUME NEW u \in Tasks, ServicesFail(u) PROVE RowsInv'
    BY <1>22, <1>t DEF ServicesFail, docker, loop, operator, outcome, tries, RowsInv,
       locals, Success
<1>23. CASE registerSignalTraps
    BY <1>23, <1>t DEF registerSignalTraps, docker, loop, operator, outcome, tries, RowsInv,
       locals, Success
<1>24. CASE StartCancel
    BY <1>24, <1>t DEF StartCancel, docker, loop, operator, outcome, tries, RowsInv, locals,
       Success
<1>25. ASSUME NEW u \in Tasks, CancelTask(u) PROVE RowsInv'
    BY <1>25, <1>t DEF CancelTask, SetRow, docker, loop, operator, outcome, tries, RowsInv,
       locals, Success
<1>26. CASE CancelRun
    BY <1>26, <1>t DEF CancelRun, docker, loop, operator, outcome, tries, RowsInv, locals,
       Success
<1>27. CASE UNCHANGED vars
    BY <1>27, <1>t DEF vars, docker, loop, operator, outcome, tries, RowsInv, locals,
       Success
<1>28. ASSUME NEW u \in Tasks, Rethrows(u) PROVE RowsInv'
    BY <1>28, <1>t DEF Rethrows, Reject, Return, To, docker, loop, operator, outcome, tries, RowsInv,
       locals, Success
<1>. QED  BY <1>1, <1>2, <1>3, <1>4, <1>5, <1>6, <1>7, <1>8, <1>9, <1>10, <1>11, <1>12,
             <1>13, <1>14, <1>15, <1>16, <1>17, <1>18, <1>19, <1>20, <1>21, <1>22, <1>23,
             <1>24, <1>25, <1>26, <1>27, <1>28, ManagersArePairs
          DEF Next, LoopStep, TaskStep, TeardownStep, CancelStep

\* A run that is over stays what it was judged to be.
LEMMA RunStep ==
    ASSUME ExecutionInv, [Next]_vars
    PROVE  RunInv'
<1>. SUFFICES ASSUME ExecutionInv, Next \/ UNCHANGED vars PROVE RunInv'
    OBVIOUS
<1>t. RunInv /\ RowsInv /\ LoopTypes
    BY DEF ExecutionInv, TypeOK
<1>s. status = [t \in Tasks |-> status[t]]
    BY <1>t DEF LoopTypes
<1>1. CASE Cascade
    BY <1>1, <1>t DEF Cascade, OnlyLoop, docker, loop, operator, outcome, tries, RunInv,
       ClosedIsProven, locals, Success, TerminalRun
<1>2. CASE Compile
    BY <1>2, <1>t DEF Compile, OnlyLoop, docker, loop, operator, outcome, tries, RunInv,
       ClosedIsProven, locals, Success, TerminalRun
<1>3. CASE Select
    BY <1>3, <1>t DEF Select, OnlyLoop, docker, loop, operator, outcome, tries, RunInv,
       ClosedIsProven, locals, Success, TerminalRun
<1>4. CASE Dispatched
    BY <1>4, <1>t DEF Dispatched, OnlyLoop, docker, loop, operator, outcome, tries, RunInv,
       ClosedIsProven, locals, Success, TerminalRun
<1>5. CASE Raced
    BY <1>5, <1>t DEF Raced, OnlyLoop, docker, loop, operator, outcome, tries, RunInv,
       ClosedIsProven, locals, Success, TerminalRun
<1>6. CASE Finalize
    <2>1. /\ running' = {} /\ phase' = phase /\ status' = status /\ proven' = proven
          /\ cancel' = cancel /\ run # "closed" /\ plan' \in {"threw", "returned"}
          /\ run' = "closed" => plan' = "returned" /\ FinalStatus = "closed"
        BY <1>6, <1>t DEF Finalize, OnlyLoop, docker, loop, operator, outcome, tries,
           RunInv, TerminalRun
    <2>2. FinalStatus = "closed" =>
              phase = "compiled" /\ \A t \in Rows : status[t] \in Success
        BY DEF FinalStatus, determineRunStatusWithDocker
    <2>3. FinalStatus = "closed" =>
              \A t \in Tasks : status[t] = "integrated" /\ t \in proven
        BY <2>2, <1>t DEF RunInv, Rows, Success, RowsInv
    <2>. QED  BY <2>1, <2>2, <2>3, <1>t DEF RunInv, ClosedIsProven
<1>7. ASSUME NEW u \in Tasks, Dispatch(u) PROVE RunInv'
    <2>2. /\ run' = run /\ phase' = phase /\ plan' \in {"dispatch", "threw"}
          /\ plan = "dispatch" /\ run # "closed"
        BY <1>7, <1>t DEF Dispatch, RunInv, loop, TerminalRun
    <2>3. \A t \in Tasks : status'[t] = "absent" => status[t] = "absent"
        BY <1>7, <1>s DEF Dispatch, Begin
    <2>. QED  BY <2>2, <2>3, <1>t DEF RunInv, ClosedIsProven
<1>8. ASSUME NEW u \in Tasks, Prepare(u) PROVE RunInv'
    <2>1. u \in running
        BY <1>8, <1>t DEF Prepare, RowsInv
    <2>2. plan \notin {"finalize", "returned"} /\ run # "closed"
        BY <2>1, <1>t DEF RunInv
    <2>3. /\ run' = run /\ plan' = plan /\ phase' = phase
          /\ \A t \in Tasks : status'[t] = "absent" => status[t] = "absent"
        BY <1>8, <1>s DEF Prepare, OnlyTask, Return, To, SetRow, createIsolatedWorkspace,
           locals, docker, loop, operator, outcome, tries, locals
    <2>. QED  BY <2>2, <2>3, <1>t DEF RunInv, ClosedIsProven
<1>9. ASSUME NEW u \in Tasks, preflight(u) PROVE RunInv'
    BY <1>9, <1>t DEF preflight, OnlyTask, To, LifecycleBlocked, ClearStale, SetProject,
       docker, loop, operator, outcome, tries, RunInv, ClosedIsProven, locals, Success,
       TerminalRun
<1>10. ASSUME NEW u \in Tasks, Up(u) PROVE RunInv'
    BY <1>10, <1>t DEF Up, OnlyTask, To, LifecycleBlocked, SetProject, docker, loop,
       operator, outcome, tries, RunInv, ClosedIsProven, locals, Success, TerminalRun
<1>11. ASSUME NEW u \in Tasks, waitForHealth(u) PROVE RunInv'
    BY <1>11, <1>t DEF waitForHealth, OnlyTask, To, LifecycleBlocked, docker, loop,
       operator, outcome, tries, RunInv, ClosedIsProven, locals, Success, TerminalRun
<1>12. ASSUME NEW u \in Tasks, RegisterTraps(u) PROVE RunInv'
    BY <1>12, <1>t DEF RegisterTraps, OnlyTask, To, docker, loop, operator, outcome, tries,
       RunInv, ClosedIsProven, locals, Success, TerminalRun
<1>13. ASSUME NEW u \in Tasks, Execute(u) PROVE RunInv'
    BY <1>13, <1>t DEF Execute, OnlyTask, To, docker, loop, operator, outcome, tries,
       RunInv, ClosedIsProven, locals, Success, TerminalRun
<1>14. ASSUME NEW u \in Tasks, Teardown(u) PROVE RunInv'
    BY <1>14, <1>t DEF Teardown, OnlyTask, To, docker, loop, operator, outcome, tries,
       RunInv, ClosedIsProven, locals, Success, TerminalRun
<1>15. ASSUME NEW u \in Tasks, SettleBlocked(u) PROVE RunInv'
    <2>1. u \in running
        BY <1>15, <1>t DEF SettleBlocked, RowsInv
    <2>2. plan \notin {"finalize", "returned"} /\ run # "closed"
        BY <2>1, <1>t DEF RunInv
    <2>3. /\ run' = run /\ plan' = plan /\ phase' = phase
          /\ \A t \in Tasks : status'[t] = "absent" => status[t] = "absent"
        BY <1>15, <1>s DEF SettleBlocked, OnlyTask, Return, To, SetRow, docker, loop,
           operator, outcome, tries, locals
    <2>. QED  BY <2>2, <2>3, <1>t DEF RunInv, ClosedIsProven
<1>16. ASSUME NEW u \in Tasks, Settle(u) PROVE RunInv'
    <2>1. u \in running
        BY <1>16, <1>t DEF Settle, RowsInv
    <2>2. plan \notin {"finalize", "returned"} /\ run # "closed"
        BY <2>1, <1>t DEF RunInv
    <2>3. /\ run' = run /\ plan' = plan /\ phase' = phase
          /\ \A t \in Tasks : status'[t] = "absent" => status[t] = "absent"
        BY <1>16, <1>s DEF Settle, OnlyTask, Return, To, SetRow, locals, docker, loop,
           operator, outcome, tries, locals
    <2>. QED  BY <2>2, <2>3, <1>t DEF RunInv, ClosedIsProven
<1>17. ASSUME NEW u \in Tasks, Integrate(u) PROVE RunInv'
    <2>1. u \in running
        BY <1>17, <1>t DEF Integrate, RowsInv
    <2>2. plan \notin {"finalize", "returned"} /\ run # "closed"
        BY <2>1, <1>t DEF RunInv
    <2>3. /\ run' = run /\ plan' = plan /\ phase' = phase
          /\ \A t \in Tasks : status'[t] = "absent" => status[t] = "absent"
        BY <1>17, <1>s DEF Integrate, OnlyTask, Return, To, SetRow, docker, loop, operator,
           outcome, tries, locals
    <2>. QED  BY <2>2, <2>3, <1>t DEF RunInv, ClosedIsProven
<1>18. ASSUME NEW u \in Tasks, RetryWakes(u) PROVE RunInv'
    <2>1. u \in running
        BY <1>18, <1>t DEF RetryWakes, RowsInv
    <2>2. plan \notin {"finalize", "returned"} /\ run # "closed"
        BY <2>1, <1>t DEF RunInv
    <2>3. /\ run' = run /\ plan' = plan /\ phase' = phase
          /\ \A t \in Tasks : status'[t] = "absent" => status[t] = "absent"
        BY <1>18, <1>s DEF RetryWakes, OnlyTask, Return, To, SetRow, docker, loop, operator,
           outcome, tries, locals
    <2>. QED  BY <2>2, <2>3, <1>t DEF RunInv, ClosedIsProven
<1>19. ASSUME NEW u \in Tasks, Throws(u) PROVE RunInv'
    BY <1>19, <1>t DEF Throws, Reject, Return, To, docker, loop, operator, outcome, tries, RunInv,
       ClosedIsProven, locals, Success, TerminalRun
<1>20. ASSUME NEW u \in Tasks, NEW b \in 1 .. MaxAttempts, Down(u, b) PROVE RunInv'
    BY <1>20, <1>t DEF Down, OnlyTask, To, SetProject, docker, loop, operator, outcome,
       tries, RunInv, ClosedIsProven, locals, Success, TerminalRun
<1>21. ASSUME NEW u \in Tasks, ServicesHealthy(u) PROVE RunInv'
    BY <1>21, <1>t DEF ServicesHealthy, docker, loop, operator, outcome, tries, RunInv,
       ClosedIsProven, locals, Success, TerminalRun
<1>22. ASSUME NEW u \in Tasks, ServicesFail(u) PROVE RunInv'
    BY <1>22, <1>t DEF ServicesFail, docker, loop, operator, outcome, tries, RunInv,
       ClosedIsProven, locals, Success, TerminalRun
<1>23. CASE registerSignalTraps
    BY <1>23, <1>t DEF registerSignalTraps, docker, loop, operator, outcome, tries, RunInv,
       ClosedIsProven, locals, Success, TerminalRun
<1>24. CASE StartCancel
    BY <1>24, <1>t DEF StartCancel, docker, loop, operator, outcome, tries, RunInv,
       ClosedIsProven, locals, Success, TerminalRun
<1>25. ASSUME NEW u \in Tasks, CancelTask(u) PROVE RunInv'
    BY <1>25, <1>t DEF CancelTask, SetRow, docker, loop, operator, outcome, tries, RunInv,
       ClosedIsProven, locals, Success, TerminalRun
<1>26. CASE CancelRun
    BY <1>26, <1>t DEF CancelRun, docker, loop, operator, outcome, tries, RunInv,
       ClosedIsProven, locals, Success, TerminalRun
<1>27. CASE UNCHANGED vars
    BY <1>27, <1>t DEF vars, docker, loop, operator, outcome, tries, RunInv, ClosedIsProven,
       locals, Success, TerminalRun
<1>28. ASSUME NEW u \in Tasks, Rethrows(u) PROVE RunInv'
    BY <1>28, <1>t DEF Rethrows, Reject, Return, To, docker, loop, operator, outcome, tries, RunInv,
       ClosedIsProven, locals, Success, TerminalRun
<1>. QED  BY <1>1, <1>2, <1>3, <1>4, <1>5, <1>6, <1>7, <1>8, <1>9, <1>10, <1>11, <1>12,
             <1>13, <1>14, <1>15, <1>16, <1>17, <1>18, <1>19, <1>20, <1>21, <1>22, <1>23,
             <1>24, <1>25, <1>26, <1>27, <1>28, ManagersArePairs
          DEF Next, LoopStep, TaskStep, TeardownStep, CancelStep

\* A manager is called, trapped or torn down no earlier than its traps are set.
LEMMA ManagersStep ==
    ASSUME ExecutionInv, [Next]_vars
    PROVE  ManagersInv'
<1>. SUFFICES ASSUME ExecutionInv, Next \/ UNCHANGED vars PROVE ManagersInv'
    OBVIOUS
<1>t. /\ ManagersInv /\ RowsInv
      /\ attempt \in [Tasks -> 0 .. MaxAttempts] /\ at \in [Tasks -> Places]
      /\ MaxAttempts \in Nat
    BY BoundsAssumption DEF ExecutionInv, TypeOK, AttemptTypes
<1>1. CASE Cascade
    BY <1>1, <1>t DEF Cascade, OnlyLoop, docker, loop, operator, outcome, tries,
       ManagersInv, locals, Early, Manager
<1>2. CASE Compile
    BY <1>2, <1>t DEF Compile, OnlyLoop, docker, loop, operator, outcome, tries,
       ManagersInv, locals, Early, Manager
<1>3. CASE Select
    BY <1>3, <1>t DEF Select, OnlyLoop, docker, loop, operator, outcome, tries, ManagersInv,
       locals, Early, Manager
<1>4. CASE Dispatched
    BY <1>4, <1>t DEF Dispatched, OnlyLoop, docker, loop, operator, outcome, tries,
       ManagersInv, locals, Early, Manager
<1>5. CASE Raced
    BY <1>5, <1>t DEF Raced, OnlyLoop, docker, loop, operator, outcome, tries, ManagersInv,
       locals, Early, Manager
<1>6. CASE Finalize
    BY <1>6, <1>t DEF Finalize, OnlyLoop, docker, loop, operator, outcome, tries,
       ManagersInv, locals, Early, Manager
<1>7. ASSUME NEW u \in Tasks, Dispatch(u) PROVE ManagersInv'
    <2>1. u \in ready /\ at[u] = "none"
        BY <1>7, <1>t, FirstIsOne DEF Dispatch, RowsInv
    <2>2. CASE Begin(u)
        <3>1. /\ \A t \in Tasks : attempt'[t] = IF t = u THEN attempt[u] + 1 ELSE attempt[t]
              /\ \A t \in Tasks : at'[t] = IF t = u THEN "prepare" ELSE at[t]
            BY <2>2, <1>t DEF Begin
        <3>2. /\ called' = called /\ traps' = traps /\ teardowns' = teardowns
              /\ signalled' = signalled
            BY <1>7 DEF Dispatch, docker
        <3>3. \A t \in Tasks : attempt[t] \in Nat
            BY <1>t
        <3>. QED  BY <2>1, <3>1, <3>2, <3>3, <1>t DEF ManagersInv, Early
    <2>3. CASE ~Begin(u)
        BY <2>3, <1>7, <1>t DEF Dispatch, docker, tries, ManagersInv
    <2>. QED  BY <2>2, <2>3
<1>8. ASSUME NEW u \in Tasks, Prepare(u) PROVE ManagersInv'
    BY <1>8, <1>t DEF Prepare, OnlyTask, Return, To, SetRow, createIsolatedWorkspace,
       locals, docker, loop, operator, outcome, tries, ManagersInv, locals, Early, Manager
<1>9. ASSUME NEW u \in Tasks, preflight(u) PROVE ManagersInv'
    BY <1>9, <1>t DEF preflight, OnlyTask, To, LifecycleBlocked, ClearStale, SetProject,
       docker, loop, operator, outcome, tries, ManagersInv, locals, Early, Manager
<1>10. ASSUME NEW u \in Tasks, Up(u) PROVE ManagersInv'
    BY <1>10, <1>t DEF Up, OnlyTask, To, LifecycleBlocked, SetProject, docker, loop,
       operator, outcome, tries, ManagersInv, locals, Early, Manager
<1>11. ASSUME NEW u \in Tasks, waitForHealth(u) PROVE ManagersInv'
    BY <1>11, <1>t DEF waitForHealth, OnlyTask, To, LifecycleBlocked, docker, loop,
       operator, outcome, tries, ManagersInv, locals, Early, Manager
<1>12. ASSUME NEW u \in Tasks, RegisterTraps(u) PROVE ManagersInv'
    BY <1>12, <1>t DEF RegisterTraps, OnlyTask, To, docker, loop, operator, outcome, tries,
       ManagersInv, locals, Early, Manager
<1>13. ASSUME NEW u \in Tasks, Execute(u) PROVE ManagersInv'
    BY <1>13, <1>t DEF Execute, OnlyTask, To, docker, loop, operator, outcome, tries,
       ManagersInv, locals, Early, Manager
<1>14. ASSUME NEW u \in Tasks, Teardown(u) PROVE ManagersInv'
    BY <1>14, <1>t DEF Teardown, OnlyTask, To, docker, loop, operator, outcome, tries,
       ManagersInv, locals, Early, Manager
<1>15. ASSUME NEW u \in Tasks, SettleBlocked(u) PROVE ManagersInv'
    BY <1>15, <1>t DEF SettleBlocked, OnlyTask, Return, To, SetRow, docker, loop, operator,
       outcome, tries, ManagersInv, locals, Early, Manager
<1>16. ASSUME NEW u \in Tasks, Settle(u) PROVE ManagersInv'
    BY <1>16, <1>t DEF Settle, OnlyTask, Return, To, SetRow, locals, docker, loop, operator,
       outcome, tries, ManagersInv, locals, Early, Manager
<1>17. ASSUME NEW u \in Tasks, Integrate(u) PROVE ManagersInv'
    BY <1>17, <1>t DEF Integrate, OnlyTask, Return, To, SetRow, docker, loop, operator,
       outcome, tries, ManagersInv, locals, Early, Manager
<1>18. ASSUME NEW u \in Tasks, RetryWakes(u) PROVE ManagersInv'
    BY <1>18, <1>t DEF RetryWakes, OnlyTask, Return, To, SetRow, docker, loop, operator,
       outcome, tries, ManagersInv, locals, Early, Manager
<1>19. ASSUME NEW u \in Tasks, Throws(u) PROVE ManagersInv'
    BY <1>19, <1>t DEF Throws, Reject, Return, To, docker, loop, operator, outcome, tries,
       ManagersInv, locals, Early, Manager
<1>20. ASSUME NEW u \in Tasks, NEW b \in 1 .. MaxAttempts, Down(u, b) PROVE ManagersInv'
    BY <1>20, <1>t DEF Down, OnlyTask, To, SetProject, docker, loop, operator, outcome,
       tries, ManagersInv, locals, Early, Manager
<1>21. ASSUME NEW u \in Tasks, ServicesHealthy(u) PROVE ManagersInv'
    BY <1>21, <1>t DEF ServicesHealthy, docker, loop, operator, outcome, tries, ManagersInv,
       locals, Early, Manager
<1>22. ASSUME NEW u \in Tasks, ServicesFail(u) PROVE ManagersInv'
    BY <1>22, <1>t DEF ServicesFail, docker, loop, operator, outcome, tries, ManagersInv,
       locals, Early, Manager
<1>23. CASE registerSignalTraps
    BY <1>23, <1>t DEF registerSignalTraps, docker, loop, operator, outcome, tries,
       ManagersInv, locals, Early, Manager
<1>24. CASE StartCancel
    BY <1>24, <1>t DEF StartCancel, docker, loop, operator, outcome, tries, ManagersInv,
       locals, Early, Manager
<1>25. ASSUME NEW u \in Tasks, CancelTask(u) PROVE ManagersInv'
    BY <1>25, <1>t DEF CancelTask, SetRow, docker, loop, operator, outcome, tries,
       ManagersInv, locals, Early, Manager
<1>26. CASE CancelRun
    BY <1>26, <1>t DEF CancelRun, docker, loop, operator, outcome, tries, ManagersInv,
       locals, Early, Manager
<1>27. CASE UNCHANGED vars
    BY <1>27, <1>t DEF vars, docker, loop, operator, outcome, tries, ManagersInv, locals,
       Early, Manager
<1>28. ASSUME NEW u \in Tasks, Rethrows(u) PROVE ManagersInv'
    BY <1>28, <1>t DEF Rethrows, Reject, Return, To, docker, loop, operator, outcome, tries,
       ManagersInv, locals, Early, Manager
<1>. QED  BY <1>1, <1>2, <1>3, <1>4, <1>5, <1>6, <1>7, <1>8, <1>9, <1>10, <1>11, <1>12,
             <1>13, <1>14, <1>15, <1>16, <1>17, <1>18, <1>19, <1>20, <1>21, <1>22, <1>23,
             <1>24, <1>25, <1>26, <1>27, <1>28, ManagersArePairs
          DEF Next, LoopStep, TaskStep, TeardownStep, CancelStep

\* The project of a task that is over is gone, going or answered for.
LEMMA ProjectsStep ==
    ASSUME ExecutionInv, [Next]_vars
    PROVE  TeardownInv'
<1>. SUFFICES ASSUME ExecutionInv, Next \/ UNCHANGED vars PROVE TeardownInv'
    OBVIOUS
<1>t. /\ TeardownInv /\ ManagersInv /\ RowsInv
      /\ attempt \in [Tasks -> 0 .. MaxAttempts] /\ at \in [Tasks -> Places]
      /\ MaxAttempts \in Nat /\ DOMAIN project = Tasks
      /\ called \subseteq Managers /\ traps \subseteq Managers
    BY BoundsAssumption DEF ExecutionInv, TypeOK, AttemptTypes, DockerTypes
<1>1. CASE Cascade
    BY <1>1, <1>t DEF Cascade, OnlyLoop, docker, loop, operator, outcome, tries,
       TeardownInv, GoneOrGoing, locals, Manager
<1>2. CASE Compile
    BY <1>2, <1>t DEF Compile, OnlyLoop, docker, loop, operator, outcome, tries,
       TeardownInv, GoneOrGoing, locals, Manager
<1>3. CASE Select
    BY <1>3, <1>t DEF Select, OnlyLoop, docker, loop, operator, outcome, tries, TeardownInv,
       GoneOrGoing, locals, Manager
<1>4. CASE Dispatched
    BY <1>4, <1>t DEF Dispatched, OnlyLoop, docker, loop, operator, outcome, tries,
       TeardownInv, GoneOrGoing, locals, Manager
<1>5. CASE Raced
    BY <1>5, <1>t DEF Raced, OnlyLoop, docker, loop, operator, outcome, tries, TeardownInv,
       GoneOrGoing, locals, Manager
<1>6. CASE Finalize
    BY <1>6, <1>t DEF Finalize, OnlyLoop, docker, loop, operator, outcome, tries,
       TeardownInv, GoneOrGoing, locals, Manager
<1>7. ASSUME NEW u \in Tasks, Dispatch(u) PROVE TeardownInv'
    <2>1. at[u] = "none"
        BY <1>7, <1>t, FirstIsOne DEF Dispatch, RowsInv
    <2>2. CASE Begin(u)
        <3>1. /\ \A t \in Tasks : at'[t] = IF t = u THEN "prepare" ELSE at[t]
              /\ \A t \in Tasks : t # u => attempt'[t] = attempt[t] /\ needs'[t] = needs[t]
            BY <2>2, <1>t DEF Begin
        <3>2. /\ called' = called /\ teardowns' = teardowns /\ project' = project
              /\ excused' = excused /\ workspaces' = workspaces
            BY <1>7 DEF Dispatch, docker
        <3>. QED  BY <2>1, <3>1, <3>2, <1>t DEF TeardownInv, GoneOrGoing, Manager
    <2>3. CASE ~Begin(u)
        BY <2>3, <1>7, <1>t DEF Dispatch, docker, tries, TeardownInv, GoneOrGoing, Manager
    <2>. QED  BY <2>2, <2>3
<1>8. ASSUME NEW u \in Tasks, Prepare(u) PROVE TeardownInv'
    BY <1>8, <1>t DEF Prepare, OnlyTask, Return, To, SetRow, createIsolatedWorkspace,
       locals, docker, loop, operator, outcome, tries, TeardownInv, GoneOrGoing, locals,
       Manager
<1>9. ASSUME NEW u \in Tasks, preflight(u) PROVE TeardownInv'
    <2>1. /\ project' = project \/ project' = [project EXCEPT ![u] = Absent]
          /\ at' = [at EXCEPT ![u] = "up"] \/ at' = [at EXCEPT ![u] = "lifecycle"]
          /\ at[u] = "preflight"
        BY <1>9 DEF preflight, To, LifecycleBlocked, ClearStale, SetProject,
           dockerLifecycleProjectName
    <2>2. UNCHANGED <<called, teardowns, attempt, needs, excused, workspaces>>
        BY <1>9 DEF preflight, tries
    <2>3. \A t \in Tasks : project'[t] = project[t] \/ project'[t] = Absent
        BY <2>1, <1>t
    <2>4. Absent.health = "none"
        BY DEF Absent
    <2>5. ASSUME NEW t \in Tasks, GoneOrGoing(t) PROVE GoneOrGoing(t)'
        <3>1. CASE project'[t] = project[t]
            BY <3>1, <2>2, <2>5 DEF GoneOrGoing
        <3>2. CASE project'[t] = Absent
            BY <3>2, <2>4 DEF GoneOrGoing
        <3>. QED  BY <2>3, <3>1, <3>2
    <2>. QED  BY <2>1, <2>2, <2>5, <1>t DEF TeardownInv, Manager
<1>10. ASSUME NEW u \in Tasks, Up(u) PROVE TeardownInv'
    <2>1. Manager(u) \notin called
        BY <1>10, <1>t, AttemptHasManager DEF Up, ManagersInv, Early, Manager
    <2>2. /\ \A t \in Tasks : t # u => project'[t] = project[t]
          /\ at' = [at EXCEPT ![u] = "health"] \/ at' = [at EXCEPT ![u] = "lifecycle"]
          /\ at[u] = "up"
        BY <1>10, <1>t DEF Up, OnlyTask, To, LifecycleBlocked, SetProject, docker, loop,
           operator, outcome, tries, dockerLifecycleProjectName
    <2>3. UNCHANGED <<called, teardowns, attempt, needs, excused, workspaces>>
        BY <1>10 DEF Up, OnlyTask, To, LifecycleBlocked, SetProject, docker, loop, operator,
           outcome, tries
    <2>. QED  BY <2>1, <2>2, <2>3, <1>t DEF TeardownInv, GoneOrGoing, Manager
<1>11. ASSUME NEW u \in Tasks, waitForHealth(u) PROVE TeardownInv'
    BY <1>11, <1>t DEF waitForHealth, OnlyTask, To, LifecycleBlocked, docker, loop,
       operator, outcome, tries, TeardownInv, GoneOrGoing, locals, Manager
<1>12. ASSUME NEW u \in Tasks, RegisterTraps(u) PROVE TeardownInv'
    BY <1>12, <1>t DEF RegisterTraps, OnlyTask, To, docker, loop, operator, outcome, tries,
       TeardownInv, GoneOrGoing, locals, Manager
<1>13. ASSUME NEW u \in Tasks, Execute(u) PROVE TeardownInv'
    BY <1>13, <1>t DEF Execute, OnlyTask, To, docker, loop, operator, outcome, tries,
       TeardownInv, GoneOrGoing, locals, Manager
<1>14. ASSUME NEW u \in Tasks, Teardown(u) PROVE TeardownInv'
    <2>1. attempt[u] \in 1 .. MaxAttempts
        BY <1>14, AttemptHasManager DEF Teardown
    <2>2. UNCHANGED <<attempt, needs, project, excused, workspaces>>
        BY <1>14 DEF Teardown, OnlyTask, To, docker, loop, operator, outcome, tries
    <2>3. CASE Manager(u) \in called
        <3>1. at' = [at EXCEPT ![u] = "settle"] /\ UNCHANGED <<called, teardowns>>
            BY <1>14, <2>3 DEF Teardown, To
        <3>. QED  BY <3>1, <2>2, <2>3, <1>14, <1>t DEF Teardown, TeardownInv, GoneOrGoing,
                     Manager
    <2>4. CASE Manager(u) \notin called
        <3>1. /\ at' = [at EXCEPT ![u] = "down"] /\ called' = called \cup {Manager(u)}
              /\ teardowns' = teardowns \cup {Manager(u)}
            BY <1>14, <2>4 DEF Teardown, To
        <3>2. GoneOrGoing(u)' /\ \A t \in Tasks : GoneOrGoing(t) => GoneOrGoing(t)'
            BY <3>1, <2>1, <2>2 DEF GoneOrGoing, Manager
        <3>. QED  BY <3>1, <3>2, <2>2, <1>14, <1>t DEF Teardown, TeardownInv, Manager
    <2>. QED  BY <2>3, <2>4
<1>15. ASSUME NEW u \in Tasks, SettleBlocked(u) PROVE TeardownInv'
    BY <1>15, <1>t DEF SettleBlocked, OnlyTask, Return, To, SetRow, docker, loop, operator,
       outcome, tries, TeardownInv, GoneOrGoing, locals, Manager
<1>16. ASSUME NEW u \in Tasks, Settle(u) PROVE TeardownInv'
    BY <1>16, <1>t DEF Settle, OnlyTask, Return, To, SetRow, locals, docker, loop, operator,
       outcome, tries, TeardownInv, GoneOrGoing, locals, Manager
<1>17. ASSUME NEW u \in Tasks, Integrate(u) PROVE TeardownInv'
    BY <1>17, <1>t DEF Integrate, OnlyTask, Return, To, SetRow, docker, loop, operator,
       outcome, tries, TeardownInv, GoneOrGoing, locals, Manager
<1>18. ASSUME NEW u \in Tasks, RetryWakes(u) PROVE TeardownInv'
    BY <1>18, <1>t DEF RetryWakes, OnlyTask, Return, To, SetRow, docker, loop, operator,
       outcome, tries, TeardownInv, GoneOrGoing, locals, Manager
<1>19. ASSUME NEW u \in Tasks, Throws(u) PROVE TeardownInv'
    BY <1>19, <1>t DEF Throws, Reject, Return, To, docker, loop, operator, outcome, tries,
       TeardownInv, GoneOrGoing, locals, Manager
<1>20. ASSUME NEW u \in Tasks, NEW b \in 1 .. MaxAttempts, Down(u, b) PROVE TeardownInv'
    <2>1. \/ project' = [project EXCEPT ![u] = Absent] /\ excused' = excused
          \/ project' = project /\ excused' = excused \cup {<<u, "services">>}
        BY <1>20 DEF Down, OnlyTask, To, SetProject, docker, loop, operator, outcome, tries,
           dockerLifecycleProjectName
    <2>2. /\ (at' = at \/ (at[u] = "down" /\ at' = [at EXCEPT ![u] = "settle"]))
          /\ teardowns' = teardowns \ {<<u, b>>}
          /\ UNCHANGED <<called, attempt, needs, workspaces>>
        BY <1>20 DEF Down, OnlyTask, To, SetProject, docker, loop, operator, outcome, tries
    <2>3. GoneOrGoing(u)'
        BY <2>1, <1>t DEF GoneOrGoing, Absent
    <2>4. \A t \in Tasks : GoneOrGoing(t) => GoneOrGoing(t)'
        BY <2>1, <2>2, <2>3, <1>t DEF GoneOrGoing
    <2>. QED  BY <2>1, <2>2, <2>3, <2>4, <1>t DEF TeardownInv, Manager
<1>21. ASSUME NEW u \in Tasks, ServicesHealthy(u) PROVE TeardownInv'
    BY <1>21, <1>t DEF ServicesHealthy, docker, loop, operator, outcome, tries, TeardownInv,
       GoneOrGoing, locals, Manager
<1>22. ASSUME NEW u \in Tasks, ServicesFail(u) PROVE TeardownInv'
    BY <1>22, <1>t DEF ServicesFail, docker, loop, operator, outcome, tries, TeardownInv,
       GoneOrGoing, locals, Manager
<1>23. CASE registerSignalTraps
    <2>1. /\ called' = called \cup traps /\ teardowns' = teardowns \cup (traps \ called)
          /\ UNCHANGED <<at, attempt, needs, project, excused, workspaces>>
        BY <1>23 DEF registerSignalTraps, docker, loop, operator, outcome, tries
    <2>2. \A t \in Tasks : GoneOrGoing(t) => GoneOrGoing(t)'
        BY <2>1 DEF GoneOrGoing
    <2>3. ASSUME NEW t \in Tasks, Manager(t) \in traps \ called PROVE GoneOrGoing(t)'
        <3>1. attempt[t] \in 1 .. MaxAttempts
            BY <2>3, <1>t DEF Managers, Manager
        <3>. QED  BY <3>1, <2>1, <2>3 DEF GoneOrGoing, Manager
    <2>. QED  BY <2>1, <2>2, <2>3, <1>t DEF TeardownInv, Manager
<1>24. CASE StartCancel
    BY <1>24, <1>t DEF StartCancel, docker, loop, operator, outcome, tries, TeardownInv,
       GoneOrGoing, locals, Manager
<1>25. ASSUME NEW u \in Tasks, CancelTask(u) PROVE TeardownInv'
    BY <1>25, <1>t DEF CancelTask, SetRow, docker, loop, operator, outcome, tries,
       TeardownInv, GoneOrGoing, locals, Manager
<1>26. CASE CancelRun
    BY <1>26, <1>t DEF CancelRun, docker, loop, operator, outcome, tries, TeardownInv,
       GoneOrGoing, locals, Manager
<1>27. CASE UNCHANGED vars
    BY <1>27, <1>t DEF vars, docker, loop, operator, outcome, tries, TeardownInv,
       GoneOrGoing, locals, Manager
<1>28. ASSUME NEW u \in Tasks, Rethrows(u) PROVE TeardownInv'
    BY <1>28, <1>t DEF Rethrows, Reject, Return, To, docker, loop, operator, outcome, tries,
       TeardownInv, GoneOrGoing, locals, Manager
<1>. QED  BY <1>1, <1>2, <1>3, <1>4, <1>5, <1>6, <1>7, <1>8, <1>9, <1>10, <1>11, <1>12,
             <1>13, <1>14, <1>15, <1>16, <1>17, <1>18, <1>19, <1>20, <1>21, <1>22, <1>23,
             <1>24, <1>25, <1>26, <1>27, <1>28, ManagersArePairs
          DEF Next, LoopStep, TaskStep, TeardownStep, CancelStep

\* The services an executor runs against are those of its own attempt.
LEMMA ServicesStep ==
    ASSUME ExecutionInv, [Next]_vars
    PROVE  ServicesInv'
<1>. SUFFICES ASSUME ExecutionInv, Next \/ UNCHANGED vars PROVE ServicesInv'
    OBVIOUS
<1>t. /\ ServicesInv /\ TeardownInv /\ ManagersInv /\ RowsInv
      /\ attempt \in [Tasks -> 0 .. MaxAttempts] /\ at \in [Tasks -> Places]
      /\ MaxAttempts \in Nat /\ DOMAIN project = Tasks /\ DOMAIN needs = Tasks
    BY BoundsAssumption DEF ExecutionInv, TypeOK, AttemptTypes, DockerTypes
<1>p. \A t : hash' = hash /\ needs'[t] = needs[t] => buildEphemeralPortMap(t)' = buildEphemeralPortMap(t)
    BY DEF buildEphemeralPortMap, computeEphemeralPort
<1>1. CASE Cascade
    BY <1>1, <1>t, <1>p DEF Cascade, OnlyLoop, docker, loop, operator, outcome, tries,
       ServicesInv, locals, Manager
<1>2. CASE Compile
    BY <1>2, <1>t, <1>p DEF Compile, OnlyLoop, docker, loop, operator, outcome, tries,
       ServicesInv, locals, Manager
<1>3. CASE Select
    BY <1>3, <1>t, <1>p DEF Select, OnlyLoop, docker, loop, operator, outcome, tries,
       ServicesInv, locals, Manager
<1>4. CASE Dispatched
    BY <1>4, <1>t, <1>p DEF Dispatched, OnlyLoop, docker, loop, operator, outcome, tries,
       ServicesInv, locals, Manager
<1>5. CASE Raced
    BY <1>5, <1>t, <1>p DEF Raced, OnlyLoop, docker, loop, operator, outcome, tries,
       ServicesInv, locals, Manager
<1>6. CASE Finalize
    BY <1>6, <1>t, <1>p DEF Finalize, OnlyLoop, docker, loop, operator, outcome, tries,
       ServicesInv, locals, Manager
<1>7. ASSUME NEW u \in Tasks, Dispatch(u) PROVE ServicesInv'
    <2>1. at[u] = "none"
        BY <1>7, <1>t, FirstIsOne DEF Dispatch, RowsInv
    <2>2. CASE Begin(u)
        <3>1. /\ \A t \in Tasks : at'[t] = IF t = u THEN "prepare" ELSE at[t]
              /\ \A t \in Tasks : t # u => needs'[t] = needs[t]
            BY <2>2, <1>t DEF Begin
        <3>2. UNCHANGED <<project, signalled, blocked, hash>>
            BY <1>7 DEF Dispatch, docker
        <3>. QED  BY <2>1, <3>1, <3>2, <1>t, <1>p DEF ServicesInv
    <2>3. CASE ~Begin(u)
        BY <2>3, <1>7, <1>t, <1>p DEF Dispatch, docker, tries, ServicesInv
    <2>. QED  BY <2>2, <2>3
<1>8. ASSUME NEW u \in Tasks, Prepare(u) PROVE ServicesInv'
    BY <1>8, <1>t, <1>p DEF Prepare, OnlyTask, Return, To, SetRow, createIsolatedWorkspace,
       locals, docker, loop, operator, outcome, tries, ServicesInv, locals, Manager
<1>9. ASSUME NEW u \in Tasks, preflight(u) PROVE ServicesInv'
    <2>1. /\ \A t \in Tasks : t # u => project'[t] = project[t]
          /\ \/ at' = [at EXCEPT ![u] = "up"] /\ blocked' = blocked
             \/ at' = [at EXCEPT ![u] = "lifecycle"] /\ blocked' = blocked \cup {u}
          /\ at[u] = "preflight" /\ UNCHANGED <<hash, needs, signalled>>
        BY <1>9, <1>t DEF preflight, OnlyTask, To, LifecycleBlocked, ClearStale, SetProject,
           docker, loop, operator, outcome, tries, dockerLifecycleProjectName
    <2>. QED  BY <2>1, <1>t, <1>p DEF ServicesInv
<1>10. ASSUME NEW u \in Tasks, Up(u) PROVE ServicesInv'
    <2>1. /\ \A t \in Tasks : t # u => project'[t] = project[t]
          /\ \/ /\ at' = [at EXCEPT ![u] = "health"] /\ blocked' = blocked
                /\ project'[u].ports = buildEphemeralPortMap(u)
             \/ at' = [at EXCEPT ![u] = "lifecycle"] /\ blocked' = blocked \cup {u}
          /\ at[u] = "up" /\ UNCHANGED <<hash, needs, signalled>>
        BY <1>10, <1>t DEF Up, OnlyTask, To, LifecycleBlocked, SetProject, docker, loop,
           operator, outcome, tries, dockerLifecycleProjectName, generateComposeOverride
    <2>. QED  BY <2>1, <1>t, <1>p DEF ServicesInv
<1>11. ASSUME NEW u \in Tasks, waitForHealth(u) PROVE ServicesInv'
    <2>1. /\ \/ at' = [at EXCEPT ![u] = "lifecycle"] /\ blocked' = blocked /\ project[u].health = "healthy"
             \/ at' = [at EXCEPT ![u] = "lifecycle"] /\ blocked' = blocked \cup {u}
          /\ at[u] = "health" /\ UNCHANGED <<project, hash, needs, signalled>>
        BY <1>11 DEF waitForHealth, OnlyTask, To, LifecycleBlocked, docker, loop, operator,
           outcome, tries, MyProject, dockerLifecycleProjectName
    <2>. QED  BY <2>1, <1>t, <1>p DEF ServicesInv
<1>12. ASSUME NEW u \in Tasks, RegisterTraps(u) PROVE ServicesInv'
    BY <1>12, <1>t, <1>p DEF RegisterTraps, OnlyTask, To, docker, loop, operator, outcome,
       tries, ServicesInv, locals, Manager
<1>13. ASSUME NEW u \in Tasks, Execute(u) PROVE ServicesInv'
    BY <1>13, <1>t, <1>p DEF Execute, OnlyTask, To, docker, loop, operator, outcome, tries,
       ServicesInv, locals, Manager
<1>14. ASSUME NEW u \in Tasks, Teardown(u) PROVE ServicesInv'
    BY <1>14, <1>t, <1>p DEF Teardown, OnlyTask, To, docker, loop, operator, outcome, tries,
       ServicesInv, locals, Manager
<1>15. ASSUME NEW u \in Tasks, SettleBlocked(u) PROVE ServicesInv'
    BY <1>15, <1>t, <1>p DEF SettleBlocked, OnlyTask, Return, To, SetRow, docker, loop,
       operator, outcome, tries, ServicesInv, locals, Manager
<1>16. ASSUME NEW u \in Tasks, Settle(u) PROVE ServicesInv'
    BY <1>16, <1>t, <1>p DEF Settle, OnlyTask, Return, To, SetRow, locals, docker, loop,
       operator, outcome, tries, ServicesInv, locals, Manager
<1>17. ASSUME NEW u \in Tasks, Integrate(u) PROVE ServicesInv'
    BY <1>17, <1>t, <1>p DEF Integrate, OnlyTask, Return, To, SetRow, docker, loop,
       operator, outcome, tries, ServicesInv, locals, Manager
<1>18. ASSUME NEW u \in Tasks, RetryWakes(u) PROVE ServicesInv'
    BY <1>18, <1>t, <1>p DEF RetryWakes, OnlyTask, Return, To, SetRow, docker, loop,
       operator, outcome, tries, ServicesInv, locals, Manager
<1>19. ASSUME NEW u \in Tasks, Throws(u) PROVE ServicesInv'
    BY <1>19, <1>t, <1>p DEF Throws, Reject, Return, To, docker, loop, operator, outcome, tries,
       ServicesInv, locals, Manager
<1>20. ASSUME NEW u \in Tasks, NEW b \in 1 .. MaxAttempts, Down(u, b) PROVE ServicesInv'
    <2>1. /\ \A t \in Tasks : t # u => project'[t] = project[t]
          /\ (at' = at \/ at' = [at EXCEPT ![u] = "settle"])
          /\ <<u, b>> \in teardowns /\ UNCHANGED <<blocked, hash, needs, signalled>>
        BY <1>20, <1>t DEF Down, OnlyTask, To, SetProject, docker, loop, operator, outcome,
           tries, dockerLifecycleProjectName
    <2>2. ~signalled => at[u] = "down"
        BY <2>1, <1>t DEF ManagersInv
    <2>. QED  BY <2>1, <2>2, <1>t, <1>p DEF ServicesInv
<1>21. ASSUME NEW u \in Tasks, ServicesHealthy(u) PROVE ServicesInv'
    BY <1>21, <1>t, <1>p DEF ServicesHealthy, docker, loop, operator, outcome, tries,
       ServicesInv, locals, Manager
<1>22. ASSUME NEW u \in Tasks, ServicesFail(u) PROVE ServicesInv'
    BY <1>22, <1>t, <1>p DEF ServicesFail, docker, loop, operator, outcome, tries,
       ServicesInv, locals, Manager
<1>23. CASE registerSignalTraps
    BY <1>23, <1>t, <1>p DEF registerSignalTraps, docker, loop, operator, outcome, tries,
       ServicesInv, locals, Manager
<1>24. CASE StartCancel
    BY <1>24, <1>t, <1>p DEF StartCancel, docker, loop, operator, outcome, tries,
       ServicesInv, locals, Manager
<1>25. ASSUME NEW u \in Tasks, CancelTask(u) PROVE ServicesInv'
    BY <1>25, <1>t, <1>p DEF CancelTask, SetRow, docker, loop, operator, outcome, tries,
       ServicesInv, locals, Manager
<1>26. CASE CancelRun
    BY <1>26, <1>t, <1>p DEF CancelRun, docker, loop, operator, outcome, tries, ServicesInv,
       locals, Manager
<1>27. CASE UNCHANGED vars
    BY <1>27, <1>t, <1>p DEF vars, docker, loop, operator, outcome, tries, ServicesInv,
       locals, Manager
<1>28. ASSUME NEW u \in Tasks, Rethrows(u) PROVE ServicesInv'
    BY <1>28, <1>t, <1>p DEF Rethrows, Reject, Return, To, docker, loop, operator, outcome, tries,
       ServicesInv, locals, Manager
<1>. QED  BY <1>1, <1>2, <1>3, <1>4, <1>5, <1>6, <1>7, <1>8, <1>9, <1>10, <1>11, <1>12,
             <1>13, <1>14, <1>15, <1>16, <1>17, <1>18, <1>19, <1>20, <1>21, <1>22, <1>23,
             <1>24, <1>25, <1>26, <1>27, <1>28, ManagersArePairs
          DEF Next, LoopStep, TaskStep, TeardownStep, CancelStep

\* A step that leaves the rows, the loop and the lists alone keeps the cause of a
\* failure.
LEMMA CauseFrame ==
    ASSUME ExecutionInv,
           UNCHANGED <<status, ready, cancelling, cancel, plan, run, running, phase>>,
           excused \subseteq excused',
           \A t \in Tasks : at'[t] = "none" => at[t] = "none"
    PROVE  CauseInv'
BY DEF ExecutionInv, CauseInv, FailedHasACause, WorkToDo, CompileDue, dependenciesSatisfied,
       dependenciesFailed

\* A step of one attempt keeps it: while an attempt is under way the run has not
\* failed and the loop is not at its end.
LEMMA CauseOfOne ==
    ASSUME ExecutionInv, NEW t \in Tasks, NEW s, at[t] # "none", s # "absent",
           status' = [status EXCEPT ![t] = s],
           UNCHANGED <<run, phase, ready, cancelling, cancel>>,
           plan' \in {plan, "threw"}, running' \subseteq running,
           \A u \in Tasks : u # t => at'[u] = at[u],
           excused \subseteq excused',
           at'[t] = "none" /\ s \in {"running", "retrying"} => <<t, "workspace">> \in excused'
    PROVE  CauseInv'
<1>1. /\ CauseInv /\ status \in [Tasks -> {"absent", "routed", "running", "retrying"} \cup Terminal]
      /\ Deps \in [Tasks -> SUBSET Tasks] /\ Lead \in Tasks
      /\ ready \subseteq Tasks /\ cancelling \subseteq Tasks
    BY GraphAssumption DEF ExecutionInv, TypeOK, LoopTypes
<1>2. t \in running /\ status[t] # "absent"
    BY DEF ExecutionInv, RowsInv
<1>3. run # "failed" /\ plan # "finalize"
    BY <1>1, <1>2 DEF CauseInv, ExecutionInv, RunInv
<1>4. \A u \in Tasks : status'[u] = IF u = t THEN s ELSE status[u]
    BY <1>1
<1>5. \A u \in Tasks : status'[u] # "absent" <=> status[u] # "absent"
    BY <1>2, <1>4
<1>. QED  BY <1>1, <1>3, <1>4, <1>5 DEF CauseInv, FailedHasACause

\* Every step keeps the cause of a failure.
LEMMA CauseStep ==
    ASSUME ExecutionInv, [Next]_vars
    PROVE  CauseInv'
<1>. SUFFICES ASSUME ExecutionInv, Next \/ UNCHANGED vars PROVE CauseInv'
    OBVIOUS
<1>t. /\ CauseInv /\ at \in [Tasks -> Places]
      /\ status \in [Tasks -> {"absent", "routed", "running", "retrying"} \cup Terminal]
      /\ Deps \in [Tasks -> SUBSET Tasks] /\ Lead \in Tasks
      /\ ready \subseteq Tasks /\ cancelling \subseteq Tasks
    BY GraphAssumption DEF ExecutionInv, TypeOK, LoopTypes, AttemptTypes
<1>1. CASE Cascade
    <2>1. \A t \in Tasks : status'[t] = IF t \in Doomed THEN "cancelled" ELSE status[t]
        BY <1>1, <1>t DEF Cascade
    <2>2. \A t \in Doomed : status[t] = "routed"
        BY DEF Doomed
    <2>3. /\ UNCHANGED <<at, excused, cancel, cancelling, ready, plan, run, running, phase>>
          /\ plan = "cascade"
        BY <1>1 DEF Cascade, OnlyLoop, operator
    <2>4. run # "failed"
        BY <2>3, <1>t DEF CauseInv
    <2>. QED  BY <2>1, <2>2, <2>3, <2>4, <1>t DEF CauseInv, FailedHasACause
<1>2. CASE Compile
    <2>1. /\ UNCHANGED <<at, excused, cancel, cancelling, ready, run, running>>
          /\ plan = "cascade" /\ plan' \in {"select", "threw"}
          /\ \/ status' = status
             \/ status' = [t \in Tasks |-> IF status[t] = "absent" THEN "routed" ELSE status[t]]
        BY <1>2 DEF Compile, OnlyLoop, operator
    <2>2. run # "failed"
        BY <2>1, <1>t DEF CauseInv
    <2>3. CASE status' = status
        BY <2>1, <2>2, <2>3, <1>t DEF CauseInv, FailedHasACause
    <2>4. CASE status' = [t \in Tasks |-> IF status[t] = "absent" THEN "routed" ELSE status[t]]
        BY <2>1, <2>2, <2>4, <1>t DEF CauseInv, FailedHasACause
    <2>. QED  BY <2>1, <2>3, <2>4
<1>3. CASE Select
    <2>1. /\ UNCHANGED <<at, excused, cancel, cancelling, run, running, status>>
          /\ plan = "select" /\ plan' \in {"dispatch", "finalize"}
          /\ plan' = "finalize" => \A t \in Rows : status[t] \in Terminal
          /\ \A t \in ready' : status[t] = "routed"
        BY <1>3 DEF Select, OnlyLoop, operator
    <2>2. run # "failed"
        BY <2>1, <1>t DEF CauseInv
    <2>. QED  BY <2>1, <2>2, <1>t DEF CauseInv, FailedHasACause, Rows
<1>4. CASE Dispatched
    <2>1. /\ UNCHANGED <<at, excused, cancel, cancelling, ready, running, status, phase>>
          /\ plan = "dispatch"
        BY <1>4 DEF Dispatched, OnlyLoop, operator
    <2>2. run # "failed"
        BY <2>1, <1>t DEF CauseInv
    <2>3. CASE running # {}
        BY <2>1, <2>2, <2>3, <1>4, <1>t DEF Dispatched, CauseInv, FailedHasACause
    <2>4. CASE running = {} /\ \A t \in Rows : status[t] \in Terminal
        BY <2>1, <2>2, <2>4, <1>4, <1>t DEF Dispatched, CauseInv, FailedHasACause, Rows
    <2>5. ASSUME running = {}, NEW o \in Rows, status[o] \notin Terminal PROVE CauseInv'
        <3>1. plan' = "threw"
            BY <2>5, <1>4 DEF Dispatched
        <3>2. \A t \in Tasks : at[t] = "none"
            BY <2>5 DEF ExecutionInv, RowsInv
        <3>3. SUFFICES FailedHasACause'
            BY <2>1, <2>5, <3>1, <3>3, <1>t DEF CauseInv
        <3>4. CASE \E t \in Tasks : status[t] \in {"running", "retrying"}
            BY <3>2, <3>4, <2>1, <1>t DEF CauseInv, FailedHasACause
        <3>5. CASE \A t \in Tasks : status[t] \notin {"running", "retrying"}
            <4>. DEFINE S == {t \in Tasks : status[t] = "routed"}
            <4>1. o \in S
                BY <2>5, <3>5, <1>t DEF Rows
            <4>2. PICK t \in S : Deps[t] \cap S = {}
                BY <4>1, AcyclicAssumption
            <4>3. \A d \in Deps[t] : d \in Tasks /\ status[d] \in Terminal
                BY <4>2, <3>5, <1>t DEF CauseInv
            <4>4. \A d \in Deps[t] : status[d] \in Success \/ status[d] \in Failure
                BY <4>3 DEF Terminal
            <4>5. status[t] = "routed" /\ (dependenciesSatisfied(t) \/ dependenciesFailed(t))
                BY <4>2, <4>4 DEF dependenciesSatisfied, dependenciesFailed
            <4>6. WorkToDo
                BY <4>2, <4>5 DEF WorkToDo
            <4>7. WorkToDo'
                BY <4>6, <2>1 DEF WorkToDo, CompileDue, dependenciesSatisfied, dependenciesFailed
            <4>. QED  BY <4>7 DEF FailedHasACause
        <3>. QED  BY <3>4, <3>5
    <2>. QED  BY <2>3, <2>4, <2>5
<1>5. CASE Raced
    <2>1. /\ UNCHANGED <<at, excused, cancel, cancelling, ready, run, running, status, phase>>
          /\ plan = "race" /\ plan' = "cascade"
        BY <1>5 DEF Raced, OnlyLoop, operator
    <2>2. run # "failed"
        BY <2>1, <1>t DEF CauseInv
    <2>. QED  BY <2>1, <2>2, <1>t DEF CauseInv, FailedHasACause
<1>6. CASE Finalize
    <2>1. /\ UNCHANGED <<at, excused, cancel, cancelling, ready, running, status, phase>>
          /\ plan = "finalize" /\ plan' \in {"returned", "threw"}
          /\ run' = run \/ run' = FinalStatus
        BY <1>6 DEF Finalize, OnlyLoop, operator
    <2>2. run # "failed" /\ running = {}
        BY <2>1, <1>t DEF CauseInv, ExecutionInv, RunInv
    <2>3. \A t \in Tasks : status[t] \in Terminal \cup {"absent"}
        BY <2>1, <1>t DEF CauseInv
    <2>4. SUFFICES ASSUME FinalStatus = "failed" PROVE FailedHasACause'
        BY <2>1, <2>2, <2>4, <1>t DEF CauseInv, FailedHasACause
    <2>5. CASE phase = "compiled"
        <3>1. determineRunStatusWithDocker = "failed"
            BY <2>4, <2>5 DEF FinalStatus
        <3>2. \E t \in Tasks : status[t] = "failed"
            BY <3>1, <2>3 DEF determineRunStatusWithDocker, Rows, Terminal, Success, Failure
        <3>. QED  BY <3>2, <2>1 DEF FailedHasACause
    <2>6. CASE phase # "compiled"
        <3>1. phase = "bootstrap"
            BY <2>6 DEF ExecutionInv, TypeOK, LoopTypes
        <3>2. status[Lead] \in Success \/ status[Lead] \in Failure
            BY <2>3, <1>t DEF CauseInv, Terminal
        <3>. QED  BY <3>1, <3>2, <2>1 DEF FailedHasACause, WorkToDo, CompileDue
    <2>. QED  BY <2>5, <2>6
<1>7. ASSUME NEW u \in Tasks, Dispatch(u) PROVE CauseInv'
    <2>1. /\ UNCHANGED <<excused, cancel, cancelling, run, phase>>
          /\ plan = "dispatch" /\ ready' \subseteq ready /\ u \in ready
          /\ plan' \in {plan, "threw"}
        BY <1>7, FirstIsOne DEF Dispatch, operator
    <2>2. run # "failed" /\ status[u] # "absent"
        BY <2>1, <1>t DEF CauseInv
    <2>3. CASE Begin(u)
        <3>1. /\ \A t \in Tasks : status'[t] = IF t = u THEN "running" ELSE status[t]
              /\ \A t \in Tasks : at'[t] = IF t = u THEN "prepare" ELSE at[t]
            BY <2>3, <1>t DEF Begin
        <3>. QED  BY <3>1, <2>1, <2>2, <1>t DEF CauseInv, FailedHasACause
    <2>4. CASE UNCHANGED <<status, at>>
        BY <2>1, <2>2, <2>4, <1>t DEF CauseInv, FailedHasACause
    <2>. QED  BY <2>3, <2>4, <1>7 DEF Dispatch
<1>8. ASSUME NEW u \in Tasks, Prepare(u) PROVE CauseInv'
    <2>1. UNCHANGED <<run, phase, ready, cancelling, cancel, plan, excused>>
        BY <1>8 DEF Prepare, OnlyTask, loop, operator
    <2>2. CASE To(u, IF needs[u] = {} THEN "execute" ELSE "preflight")
               /\ UNCHANGED <<status, running>>
        BY <2>1, <2>2, <1>t, CauseFrame DEF To
    <2>3. CASE SetRow(u, "blocked") /\ Return(u)
        BY <2>1, <2>3, <1>8, <1>t, CauseOfOne DEF Prepare, Return, To, SetRow
    <2>. QED  BY <2>2, <2>3, <1>8 DEF Prepare, locals
<1>9. ASSUME NEW u \in Tasks, preflight(u) PROVE CauseInv'
    BY <1>9, <1>t, CauseFrame DEF preflight, OnlyTask, To, LifecycleBlocked, loop, operator
<1>10. ASSUME NEW u \in Tasks, Up(u) PROVE CauseInv'
    BY <1>10, <1>t, CauseFrame DEF Up, OnlyTask, To, LifecycleBlocked, loop, operator
<1>11. ASSUME NEW u \in Tasks, waitForHealth(u) PROVE CauseInv'
    BY <1>11, <1>t, CauseFrame DEF waitForHealth, OnlyTask, To, LifecycleBlocked, loop,
       operator
<1>12. ASSUME NEW u \in Tasks, RegisterTraps(u) PROVE CauseInv'
    BY <1>12, <1>t, CauseFrame DEF RegisterTraps, OnlyTask, To, loop, operator
<1>13. ASSUME NEW u \in Tasks, Execute(u) PROVE CauseInv'
    BY <1>13, <1>t, CauseFrame DEF Execute, OnlyTask, To, loop, operator
<1>14. ASSUME NEW u \in Tasks, Teardown(u) PROVE CauseInv'
    BY <1>14, <1>t, CauseFrame DEF Teardown, OnlyTask, To, loop, operator
<1>15. ASSUME NEW u \in Tasks, SettleBlocked(u) PROVE CauseInv'
    BY <1>15, <1>t, CauseOfOne DEF SettleBlocked, OnlyTask, Return, To, SetRow, loop,
       operator
<1>16. ASSUME NEW u \in Tasks, Settle(u) PROVE CauseInv'
    <2>1. /\ UNCHANGED <<run, phase, ready, cancelling, cancel, plan, excused>>
          /\ at[u] # "none" /\ running' \subseteq running
          /\ \A v \in Tasks : v # u => at'[v] = at[v]
        BY <1>16, <1>t DEF Settle, OnlyTask, Return, To, SetRow, loop, operator, locals
    <2>2. CASE UNCHANGED <<status, running>> /\ at'[u] # "none"
        BY <2>1, <2>2, <1>t, CauseFrame
    <2>3. CASE status' = [status EXCEPT ![u] = "retrying"] /\ at'[u] # "none"
        BY <2>1, <2>3, CauseOfOne
    <2>4. CASE \E s \in Failure : status' = [status EXCEPT ![u] = s]
        BY <2>1, <2>4, CauseOfOne DEF Failure
    <2>. QED
        BY <2>2, <2>3, <2>4, <1>16, <1>t DEF Settle, To, SetRow, locals, Failure
<1>17. ASSUME NEW u \in Tasks, Integrate(u) PROVE CauseInv'
    BY <1>17, <1>t, CauseOfOne DEF Integrate, OnlyTask, Return, To, SetRow, loop, operator
<1>18. ASSUME NEW u \in Tasks, RetryWakes(u) PROVE CauseInv'
    BY <1>18, <1>t, CauseOfOne DEF RetryWakes, OnlyTask, Return, To, SetRow, loop, operator
<1>19. ASSUME NEW u \in Tasks, Throws(u) \/ Rethrows(u) PROVE CauseInv'
    <2>1. /\ at[u] # "none" /\ Reject(u)
          /\ excused \subseteq excused' /\ <<u, "workspace">> \in excused'
        BY <1>19 DEF Throws, Rethrows
    <2>2. /\ status' = [status EXCEPT ![u] = status[u]] /\ running' \subseteq running
          /\ UNCHANGED <<run, phase, ready, cancelling, cancel>> /\ plan' \in {plan, "threw"}
          /\ \A v \in Tasks : v # u => at'[v] = at[v]
        BY <2>1, <1>t DEF Reject, Return, To, operator
    <2>3. status[u] # "absent"
        BY <2>1 DEF ExecutionInv, RowsInv
    <2>. QED  BY <2>1, <2>2, <2>3, CauseOfOne
<1>20. ASSUME NEW u \in Tasks, NEW b \in 1 .. MaxAttempts, Down(u, b) PROVE CauseInv'
    BY <1>20, <1>t, CauseFrame DEF Down, OnlyTask, To, loop, operator
<1>21. ASSUME NEW u \in Tasks, ServicesHealthy(u) \/ ServicesFail(u) PROVE CauseInv'
    BY <1>21, CauseFrame DEF ServicesHealthy, ServicesFail, loop, operator
<1>22. CASE registerSignalTraps
    BY <1>22, CauseFrame DEF registerSignalTraps, loop, operator
<1>23. CASE StartCancel
    <2>1. /\ UNCHANGED <<run, status, running, at, excused, plan, ready, phase>>
          /\ cancel' = "tasks" /\ \A t \in cancelling' : status[t] # "absent"
        BY <1>23 DEF StartCancel, loop, Rows
    <2>. QED  BY <2>1, <1>t DEF CauseInv, FailedHasACause
<1>24. ASSUME NEW u \in Tasks, CancelTask(u) PROVE CauseInv'
    <2>1. /\ UNCHANGED <<run, running, at, excused, plan, ready, phase, cancel>>
          /\ cancel = "tasks" /\ cancelling' \subseteq cancelling /\ u \in cancelling
        BY <1>24, FirstIsOne DEF CancelTask, loop
    <2>2. \A t \in Tasks : status'[t] = IF t = u THEN "cancelled" ELSE status[t]
        BY <1>24, <1>t DEF CancelTask, SetRow
    <2>3. status[u] # "absent"
        BY <2>1, <1>t DEF CauseInv
    <2>4. "cancelled" \in Terminal
        BY DEF Terminal, Failure
    <2>. QED  BY <2>1, <2>2, <2>3, <2>4, <1>t DEF CauseInv, FailedHasACause
<1>25. CASE CancelRun
    <2>1. /\ UNCHANGED <<status, running, at, excused, plan, ready, phase, cancelling>>
          /\ cancel' = "done" /\ run' \in {run, "cancelled"}
        BY <1>25 DEF CancelRun, loop
    <2>. QED  BY <2>1, <1>t DEF CauseInv, FailedHasACause
<1>26. CASE UNCHANGED vars
    BY <1>26, CauseFrame DEF vars, loop, operator
<1>. QED  BY <1>1, <1>2, <1>3, <1>4, <1>5, <1>6, <1>7, <1>8, <1>9, <1>10, <1>11, <1>12,
             <1>13, <1>14, <1>15, <1>16, <1>17, <1>18, <1>19, <1>20, <1>21, <1>22, <1>23,
             <1>24, <1>25, <1>26, ManagersArePairs
          DEF Next, LoopStep, TaskStep, TeardownStep, CancelStep

\* What the process has done at first is nothing.
LEMMA ExecutionInit == ASSUME Init PROVE ExecutionInv
<1>1. Bootstrap \subseteq Tasks /\ MaxAttempts \in Nat \ {0} /\ MaxDisturbances \in Nat
    BY GraphAssumption, BoundsAssumption
<1>2. LoopTypes
    BY <1>1 DEF Init, LoopTypes, TerminalRun
<1>3. AttemptTypes
    BY <1>1 DEF Init, AttemptTypes, Places
<1>4. DockerTypes
    BY DEF Init, DockerTypes, Absent
<1>5. disturbed \in 0 .. MaxDisturbances
    BY <1>1 DEF Init
<1>6. RowsInv
    BY <1>1 DEF Init, RowsInv
<1>7. RunInv
    BY DEF Init, RunInv, ClosedIsProven
<1>8. ManagersInv
    BY DEF Init, ManagersInv
<1>9. TeardownInv
    BY DEF Init, TeardownInv, GoneOrGoing, Absent
<1>10. ServicesInv
    BY DEF Init, ServicesInv
<1>11. CauseInv
    BY GraphAssumption DEF Init, CauseInv, FailedHasACause
<1>. QED  BY <1>2, <1>3, <1>4, <1>5, <1>6, <1>7, <1>8, <1>9, <1>10, <1>11
          DEF ExecutionInv, TypeOK

\* Every step of the loop, of an attempt, of compose and of the surroundings keeps
\* the invariant.
LEMMA ExecutionStep == ASSUME ExecutionInv, [Next]_vars PROVE ExecutionInv'
BY LoopTypesStep, AttemptTypesStep, DockerTypesStep, DisturbedStep, RowsStep, RunStep,
   ManagersStep, ProjectsStep, ServicesStep, CauseStep DEF ExecutionInv, TypeOK

\* The inductive invariant of executePlan and executeTask holds in every
\* behaviour, for every plan, profile, hash of the ports, width and number of
\* attempts.
THEOREM ExecutionInvariant == Spec => []ExecutionInv
BY ExecutionInit, ExecutionStep, PTL DEF Spec

\* The loop, its attempts and their projects keep their types (executor.mjs).
THEOREM ExecutionTypes == Spec => []TypeOK
<1>1. ExecutionInv => TypeOK
    BY DEF ExecutionInv
<1>. QED  BY <1>1, ExecutionInvariant, PTL

\* An attempt that is over leaves neither a workspace nor services behind, but for
\* the compose downs that failed and the store calls that threw outside the
\* finally of executeTask.
THEOREM NothingIsLeftBehindHolds == Spec => []NothingIsLeftBehind
<1>1. ExecutionInv => NothingIsLeftBehind
    BY DEF ExecutionInv, TeardownInv, GoneOrGoing, NothingIsLeftBehind, MyProject,
           dockerLifecycleProjectName
<1>. QED  BY <1>1, ExecutionInvariant, PTL

\* While an executor runs, the services of its own project are there, on the ports
\* its environment computes for itself (buildDockerLifecycleEnv), whatever the
\* parallel tasks start or tear down.
THEOREM OwnServicesHoldHolds == Spec => []OwnServicesHold
<1>1. ASSUME ExecutionInv PROVE OwnServicesHold
    <2>1. SUFFICES ASSUME NEW t \in Tasks, at[t] = "execute", needs[t] # {}, ~signalled
                   PROVE  /\ MyProject(t).health # "none"
                          /\ \A s \in needs[t] :
                                /\ s \in DOMAIN MyProject(t).ports
                                /\ MyProject(t).ports[s] = buildDockerLifecycleEnv(t)[s]
        BY DEF OwnServicesHold
    <2>2. t \notin blocked
        BY <1>1, <2>1 DEF ExecutionInv, ServicesInv
    <2>3. /\ project[t].health # "none"
          /\ project[t].ports = buildEphemeralPortMap(t)
        BY <1>1, <2>1, <2>2 DEF ExecutionInv, ServicesInv
    <2>. QED  BY <2>3 DEF MyProject, dockerLifecycleProjectName, buildEphemeralPortMap,
                          buildDockerLifecycleEnv
<1>. QED  BY <1>1, ExecutionInvariant, PTL

\* A run that finalizeExecution closed had compiled its plan and integrated every
\* task by an attempt whose completion was proven.
THEOREM ClosedIsProvenHolds == Spec => []ClosedIsProven
<1>1. ExecutionInv => ClosedIsProven
    BY DEF ExecutionInv, RunInv
<1>. QED  BY <1>1, ExecutionInvariant, PTL

\* The status of a run that closed or failed is borne out by its tasks: it closes
\* on proven work, and fails over a failed task, a lead without a plan, a row a
\* store failure left open or the stall of executor.mjs:1697.  Since the plan has
\* no cycle, the dependencies alone never bring a run to a halt.
THEOREM OutcomeIsBorneOutHolds == Spec => []OutcomeIsBorneOut
<1>1. ExecutionInv => OutcomeIsBorneOut
    BY DEF ExecutionInv, RunInv, CauseInv, OutcomeIsBorneOut
<1>. QED  BY <1>1, ExecutionInvariant, PTL

-----------------------------------------------------------------------------
(***************************************************************************)
(* The context caches (ContextCache): a pack is what it claims, a served   *)
(* document is current, an exact hit is the last write.                    *)
(***************************************************************************)
\* A nonempty set of naturals has a least member.
LEMMA LeastMember ==
    ASSUME NEW T, T \subseteq Nat, T # {}
    PROVE  \E x \in T : \A y \in T : x =< y
<1>1. \E x \in T : \A y \in T : ~(<<y, x>> \in OpToRel(<, Nat))
    BY NatLessThanWellFounded, WFMin, Zenon
<1>2. \A x, y \in Nat : y < x => <<y, x>> \in OpToRel(<, Nat)
    BY DEF OpToRel
<1>3. \A x, y \in T : ~(y < x) => x =< y
    OBVIOUS
<1>4. \E x \in T : \A y \in T : ~(y < x)
    BY <1>1, <1>2, Zenon
<1>. QED  BY <1>3, <1>4, Zenon

\* A nonempty set of naturals below a bound has a greatest member.
LEMMA GreatestMember ==
    ASSUME NEW n \in Nat, NEW T, T \subseteq 0 .. n, T # {}
    PROVE  \E x \in T : \A y \in T : y =< x
<1> DEFINE D == {d \in 0 .. n : n - d \in T}
<1>1. D \subseteq Nat
    OBVIOUS
<1>2. \A x \in T : x \in 0 .. n /\ n - x \in D /\ n - (n - x) = x
    OBVIOUS
<1>3. PICK d \in D : \A e \in D : d =< e
    <2> HIDE DEF D
    <2>. QED  BY <1>1, <1>2, LeastMember
<1>4. d \in 0 .. n /\ n - d \in T
    OBVIOUS
<1>5. \A y \in T : y =< n - d
    <2> HIDE DEF D
    <2>1. \A y \in T : d =< n - y
        BY <1>2, <1>3
    <2>. QED  BY <2>1, <1>2, <1>4
<1>. QED  BY <1>4, <1>5

\* What answers for its key keeps doing so when a source moves on.
LEMMA AnswersStay ==
    ASSUME NEW v, NEW w, \A s \in Sources : v[s] \in Nat /\ w[s] \in Nat /\ v[s] =< w[s],
           NEW k, NEW e, Answers(v, k, e)
    PROVE  Answers(w, k, e)
BY DEF Answers, Sources

\* A sound map stays so when an entry is taken out.
LEMMA SoundWithout ==
    ASSUME NEW v, NEW f, NEW k, Sound(v, f)
    PROVE  Sound(v, Without(f, k))
BY DEF Sound, Without

\* It stays so when an entry that answers for its key is added,
LEMMA SoundWith ==
    ASSUME NEW v, NEW f, NEW k, NEW e, Sound(v, f), Answers(v, k, e)
    PROVE  Sound(v, With(f, k, e))
BY DEF Sound, With

\* and when a source moves on.
LEMMA SoundStays ==
    ASSUME NEW v, NEW w, \A s \in Sources : v[s] \in Nat /\ w[s] \in Nat /\ v[s] =< w[s],
           NEW f, Sound(v, f)
    PROVE  Sound(w, f)
BY AnswersStay DEF Sound

\* Members that agree hold one entry, and that is the one a lookup gets.
LEMMA AgreedEntry ==
    ASSUME CacheInv, NEW k, Agreed(k)
    PROVE  /\ \A m \in Members : k \in DOMAIN l2[m] /\ StoredEntry(k) = l2[m][k]
           /\ Answers(version, k, StoredEntry(k))
<1>1. PICK p \in Members : TRUE
    BY CacheAssumption
<1>2. \A m \in Members : k \in DOMAIN l2[m] /\ l2[m][k] = l2[p][k]
    BY DEF Agreed, Holding
<1>3. Answers(version, k, l2[p][k])
    BY <1>2 DEF CacheInv, EntriesInv, Sound
<1>4. l2[p][k].by =< l2[p][k].by
    BY <1>3 DEF Answers
<1> DEFINE C == {l2[m][k] : m \in Holding(k)}
<1>5. C = {l2[p][k]}
    BY <1>2 DEF Agreed
<1>6. StoredEntry(k) = CHOOSE e \in C : \A x \in C : e.by =< x.by
    BY DEF StoredEntry
<1>7. StoredEntry(k) = l2[p][k]
    <2> HIDE DEF C
    <2>. QED  BY <1>4, <1>5, <1>6
<1>. QED  BY <1>2, <1>3, <1>7

\* A lookup that finds something finds an entry that answers for its key.
LEMMA FoundAnswers ==
    ASSUME CacheInv, NEW k, NEW act, NEW up, Found(k, act, up) \in {"l1", "hit"}
    PROVE  /\ Answers(version, k, Entry(k))
           /\ k \in DOMAIN l1 \/ Agreed(k)
           /\ Found(k, act, up) = "hit" => k \notin DOMAIN l1 /\ Agreed(k)
<1>1. CASE k \in DOMAIN l1
    BY <1>1 DEF CacheInv, EntriesInv, Sound, Entry, Found
<1>2. CASE k \notin DOMAIN l1
    <2>1. Agreed(k)
        BY <1>2 DEF Found, ExactGet
    <2>. QED  BY <1>2, <2>1, AgreedEntry DEF Entry
<1>. QED  BY <1>1, <1>2

\* What a call of the pool does to the circuits and to the faults counted.
LEMMA CallEffect ==
    ASSUME CacheInv, NEW act, NEW used, NEW up, act \subseteq Members, used \subseteq Members,
           Members \ open \subseteq act, Called(act, used, up)
    PROVE  /\ events' \in 0 .. MaxEvents /\ events =< events'
           /\ open' \subseteq Members /\ blamed' \subseteq Members
           /\ open' \subseteq blamed' /\ blamed \subseteq blamed' /\ used \ up \subseteq blamed'
<1>1. /\ events \in 0 .. MaxEvents /\ MaxEvents \in Nat /\ open \subseteq blamed
      /\ blamed \subseteq Members
    BY CacheAssumption DEF CacheInv, CacheTypeOK, VersionTypes, PoolTypes, MirrorsInv
<1>2. events' \in 0 .. MaxEvents /\ events =< events'
    BY <1>1 DEF Called, Event
<1>. QED  BY <1>1, <1>2 DEF Called

\* getCached leaves the tiers sound, and what it copies to L1 is what was last
\* written while some member has answered every call.
LEMMA LookupEffect ==
    ASSUME CacheInv, NEW act \in Active, NEW up \in SUBSET Members, NEW dup \in SUBSET Members,
           NEW k, NEW fresh, GetCached(k, fresh, act, up, dup), version' = version
    PROVE  /\ events' \in 0 .. MaxEvents /\ events =< events'
           /\ open' \subseteq Members /\ blamed' \subseteq Members
           /\ DOMAIN l2' = Members /\ late' = late
           /\ EntriesInv' /\ MirrorsInv'
           /\ blamed' # Members =>
                \A x \in DOMAIN l1' : x \notin DOMAIN l1 => x \in DOMAIN last /\ l1'[x] = last[x]
<1> DEFINE found == Found(k, act, up)
           stale == found \in {"l1", "hit"} /\ ~fresh
           drop  == stale \/ found = "differ"
           used  == IF drop THEN act ELSE Asked(k, act)
           yes   == IF drop THEN dup ELSE up
<1>1. act \subseteq Members /\ Members \ open \subseteq act /\ used \subseteq Members
    BY DEF Active, Asked
<1>2. /\ Called(act, used, yes) /\ late' = late
      /\ l1' = IF stale THEN Without(l1, k)
               ELSE IF found = "hit" THEN With(l1, k, StoredEntry(k)) ELSE l1
      /\ IF drop THEN Deleted(k, act \cap dup) ELSE UNCHANGED <<l2, last>>
    BY DEF GetCached
<1>3. /\ events' \in 0 .. MaxEvents /\ events =< events'
      /\ open' \subseteq Members /\ blamed' \subseteq Members
      /\ open' \subseteq blamed' /\ blamed \subseteq blamed' /\ used \ yes \subseteq blamed'
    <2> HIDE DEF used, yes
    <2>. QED  BY <1>1, <1>2, CallEffect
<1>4. found = "hit" => /\ \A m \in Members : k \in DOMAIN l2[m] /\ StoredEntry(k) = l2[m][k]
                       /\ Answers(version, k, StoredEntry(k))
    BY FoundAnswers, AgreedEntry
<1>i. /\ DOMAIN l2 = Members /\ EntriesInv /\ MirrorsInv
    BY DEF CacheInv, CacheTypeOK, PoolTypes
<1>5. Sound(version, l1')
    <2>1. CASE stale
        BY <2>1, <1>2, <1>i, SoundWithout DEF EntriesInv
    <2>2. CASE ~stale /\ found = "hit"
        <3>1. l1' = With(l1, k, StoredEntry(k))
            BY <2>2, <1>2
        <3> HIDE DEF found, stale
        <3>. QED  BY <3>1, <2>2, <1>4, <1>i, SoundWith DEF EntriesInv
    <2>3. CASE ~stale /\ found # "hit"
        BY <2>3, <1>2, <1>i DEF EntriesInv
    <2>. QED  BY <2>1, <2>2, <2>3
<1>6. /\ DOMAIN l2' = Members
      /\ \A m \in Members : Sound(version, l2'[m])
      /\ \A m \in Members \ blamed' : l2'[m] = last'
    <2>1. CASE ~drop
        BY <2>1, <1>2, <1>3, <1>i DEF EntriesInv, MirrorsInv
    <2>2. CASE drop
        <3>1. /\ l2' = [m \in Members |-> IF m \in act \cap dup THEN Without(l2[m], k) ELSE l2[m]]
              /\ last' = IF act \cap dup = {} THEN last ELSE Without(last, k)
            BY <2>2, <1>2 DEF Deleted
        <3>2. \A m \in Members \ blamed' : m \in act \cap dup /\ m \notin blamed
            BY <2>2, <1>1, <1>3, <1>i DEF MirrorsInv
        <3> HIDE DEF drop
        <3>3. \A m \in Members : Sound(version, l2'[m])
            BY <3>1, <1>i, SoundWithout DEF EntriesInv
        <3>4. \A m \in Members \ blamed' : l2'[m] = last'
            BY <3>1, <3>2, <1>i DEF MirrorsInv
        <3>. QED  BY <3>1, <3>3, <3>4
    <2>. QED  BY <2>1, <2>2
<1>7. EntriesInv'
    BY <1>2, <1>5, <1>6, <1>i DEF EntriesInv
<1>8. MirrorsInv'
    BY <1>2, <1>3, <1>6, <1>i DEF MirrorsInv
<1>9. ASSUME blamed' # Members, NEW x \in DOMAIN l1', x \notin DOMAIN l1
      PROVE  x \in DOMAIN last /\ l1'[x] = last[x]
    <2>1. ~stale /\ found = "hit" /\ l1' = With(l1, k, StoredEntry(k))
        BY <1>9, <1>2 DEF Without
    <2>2. x = k /\ l1'[x] = StoredEntry(k)
        <3> HIDE DEF found, stale
        <3>. QED  BY <2>1, <1>9 DEF With
    <2>3. PICK m \in Members : m \notin blamed'
        BY <1>9, <1>3
    <2>4. l2[m] = last
        BY <2>3, <1>3, <1>i DEF MirrorsInv
    <2>. QED  BY <2>1, <2>2, <2>4, <1>4
<1>. QED  BY <1>2, <1>3, <1>6, <1>7, <1>8, <1>9

\* setCached of an entry that answers for its key leaves the tiers sound; a
\* write a member may still carry out late is one it was blamed for.
LEMMA StoreEffect ==
    ASSUME CacheInv, NEW act \in Active, NEW up \in SUBSET act, NEW slow \in SUBSET (act \ up),
           NEW k, NEW e, Answers(version, k, e), SetCached(k, e, act, up, slow),
           version' = version
    PROVE  /\ events' \in 0 .. MaxEvents /\ events =< events'
           /\ open' \subseteq Members /\ blamed' \subseteq Members
           /\ DOMAIN l2' = Members /\ \A w \in late' : w.m \in Members
           /\ EntriesInv' /\ MirrorsInv'
<1>1. act \subseteq Members /\ Members \ open \subseteq act
    BY DEF Active
<1>2. /\ Called(act, act, up)
      /\ l2' = [m \in Members |-> IF m \in up THEN With(l2[m], k, e) ELSE l2[m]]
      /\ late' = late \cup {[m |-> m, key |-> k, entry |-> e] : m \in slow}
      /\ last' = IF up = {} THEN last ELSE With(last, k, e)
      /\ l1' = l1 \/ l1' = With(l1, k, e)
    BY DEF SetCached, ExactSet
<1>3. /\ events' \in 0 .. MaxEvents /\ events =< events'
      /\ open' \subseteq Members /\ blamed' \subseteq Members
      /\ open' \subseteq blamed' /\ blamed \subseteq blamed' /\ act \ up \subseteq blamed'
    BY <1>1, <1>2, CallEffect
<1>i. /\ DOMAIN l2 = Members /\ EntriesInv /\ MirrorsInv /\ \A w \in late : w.m \in Members
    BY DEF CacheInv, CacheTypeOK, PoolTypes
<1>4. Sound(version, l1')
    BY <1>2, <1>i, SoundWith DEF EntriesInv
<1>5. \A m \in Members : Sound(version, l2'[m])
    BY <1>2, <1>i, SoundWith DEF EntriesInv
<1>6. \A w \in late' : w \in late \/ (w.m \in slow /\ w.key = k /\ w.entry = e)
    BY <1>2
<1>7. \A w \in late' : w.m \in blamed' /\ w.m \in Members /\ Answers(version, w.key, w.entry)
    BY <1>1, <1>3, <1>6, <1>i DEF EntriesInv, MirrorsInv
<1>8. \A m \in Members \ blamed' : l2'[m] = last'
    <2>1. \A m \in Members \ blamed' : m \in up /\ m \notin blamed
        BY <1>1, <1>3, <1>i DEF MirrorsInv
    <2>. QED  BY <2>1, <1>2, <1>i DEF MirrorsInv
<1>9. EntriesInv'
    BY <1>4, <1>5, <1>7 DEF EntriesInv
<1>10. MirrorsInv'
    BY <1>3, <1>7, <1>8 DEF MirrorsInv
<1>. QED  BY <1>2, <1>3, <1>7, <1>9, <1>10

----------------------------------------------------------------------------
(* What a step keeps: the requests, the tiers and their pool, the candidates *)

RequestsKeep == req' \in [Requests -> RequestRecord] /\ RequestsInv'
TiersKeep ==
    /\ events' \in 0 .. MaxEvents /\ events =< events'
    /\ open' \subseteq Members /\ blamed' \subseteq Members
    /\ DOMAIN l2' = Members /\ \A w \in late' : w.m \in Members
    /\ EntriesInv' /\ MirrorsInv'
CandidatesKeep ==
    /\ cooling' \in BOOLEAN /\ puts' \in Nat /\ DOMAIN candidate' = Members /\ CandidatesInv'

\* A step that keeps all three, and leaves the sources alone, keeps the invariant.
LEMMA AllKeep ==
    ASSUME CacheInv, RequestsKeep, TiersKeep, CandidatesKeep, count' \in 0 .. MaxRequests,
           UNCHANGED <<mode, version, index, doc, edits>>
    PROVE  CacheInv'
<1>1. /\ mode \in {"open", "closed"} /\ doc \in Contents \cup {Unreadable} /\ edits \in Nat
      /\ events \in 0 .. MaxEvents /\ version \in [Sources -> 1 .. (events + 1)]
      /\ index = [digest |-> index.digest, known |-> index.known]
      /\ index.digest \in index.known /\ index.known \subseteq 1 .. version["cbm"]
    BY DEF CacheInv, CacheTypeOK, VersionTypes, PoolTypes
<1>2. version \in [Sources -> 1 .. (events' + 1)]
    BY <1>1, CacheAssumption DEF TiersKeep
<1>3. VersionTypes'
    BY <1>1, <1>2 DEF VersionTypes, TiersKeep
<1>. QED  BY <1>1, <1>3 DEF CacheInv, CacheTypeOK, RequestTypes, PoolTypes, RequestsKeep,
             TiersKeep,
                CandidatesKeep

\* The tiers are kept by a step that leaves them alone, whether a source answers or not.
LEMMA TiersStill ==
    ASSUME CacheInv, UNCHANGED <<version, tiers>>, UNCHANGED pool \/ SourceDown
    PROVE  TiersKeep
<1>1. events' \in 0 .. MaxEvents /\ events =< events' /\ UNCHANGED <<open, blamed>>
    BY CacheAssumption DEF CacheInv, CacheTypeOK, VersionTypes, pool, SourceDown, Event
<1>. QED  BY <1>1 DEF CacheInv, CacheTypeOK, PoolTypes, TiersKeep, EntriesInv, MirrorsInv,
             tiers

\* So are the candidates.
LEMMA CandidatesStill ==
    ASSUME CacheInv, UNCHANGED <<version, candidate, puts>>, cooling' \in BOOLEAN
    PROVE  CandidatesKeep
BY DEF CacheInv, CacheTypeOK, PoolTypes, CandidatesInv, CandidatesKeep

\* One request goes on, to a state that holds what it has passed.
LEMMA RequestGoes ==
    ASSUME CacheInv, NEW r \in Requests, NEW q, Goes(r, q), UNCHANGED <<version, doc, edits>>,
           q \in RequestRecord, PartsHeld(version, q), DocumentHeld(doc, edits, q)
    PROVE  RequestsKeep
BY DEF CacheInv, CacheTypeOK, RequestTypes, RequestsInv, RequestsKeep, Goes

\* The versions of the sources are naturals above zero.
LEMMA VersionsAreNaturals ==
    ASSUME CacheInv
    PROVE  \A s \in Sources : version[s] \in Nat /\ version[s] >= 1
BY DEF CacheInv, CacheTypeOK, VersionTypes

\* A request that has not begun holds nothing.
LEMMA BlankHolds ==
    ASSUME NEW v, \A s \in Sources : v[s] \in Nat
    PROVE  /\ Blank \in RequestRecord /\ PartsHeld(v, Blank)
           /\ \A d, n : DocumentHeld(d, n, Blank)
<1>1. [s \in Sources |-> Unavailable] \in [Sources -> Nat]
    BY DEF Unavailable
<1> DEFINE u == [s \in Sources |-> Unavailable]
<1>2. Blank = [pc |-> "idle", n |-> 0, rev |-> u, hash |-> 0, reuse |-> u, val |-> u, doc |-> 0,
               dep |-> 0, warned |-> FALSE, edits |-> 0, via |-> "none"]
    BY DEF Blank
<1>3. \A s \in Sources : u[s] = 0
    BY DEF Unavailable
<1>4. "idle" \in Stages
    BY DEF Stages
<1> HIDE DEF u
<1>5. Blank \in RequestRecord
    BY <1>1, <1>2, <1>4 DEF RequestRecord, u
<1>6. PartsHeld(v, Blank)
    BY <1>2, <1>3 DEF PartsHeld, Unavailable
<1>7. \A d, n : DocumentHeld(d, n, Blank)
    BY <1>2 DEF DocumentHeld
<1>. QED  BY <1>5, <1>6, <1>7

\* A request that fails holds nothing.
LEMMA RequestFails ==
    ASSUME CacheInv, NEW r \in Requests, Fails(r), UNCHANGED <<version, doc, edits>>
    PROVE  RequestsKeep
<1> DEFINE q == [Blank EXCEPT !.pc = "failed"]
<1>b. Blank \in RequestRecord /\ PartsHeld(version, Blank) /\ Blank.via = "none"
    BY BlankHolds, VersionsAreNaturals DEF Blank
<1>1. /\ q \in RequestRecord /\ q.pc = "failed" /\ q.rev = Blank.rev /\ q.reuse = Blank.reuse
      /\ q.val = Blank.val /\ q.via = "none"
    BY <1>b DEF RequestRecord, Stages
<1>2. PartsHeld(version, q) /\ DocumentHeld(doc, edits, q)
    <2> HIDE DEF q
    <2>. QED  BY <1>1, <1>b DEF PartsHeld, DocumentHeld
<1>3. Goes(r, q)
    BY DEF Fails
<1> HIDE DEF q
<1>. QED  BY <1>1, <1>2, <1>3, RequestGoes

\* What is known of a request under way.
LEMMA RequestKnown ==
    ASSUME CacheInv, NEW r \in Requests
    PROVE  req[r] \in RequestRecord /\ PartsHeld(version, req[r]) /\ DocumentHeld(doc, edits, req[r])
BY DEF CacheInv, CacheTypeOK, RequestTypes, RequestsInv

\* A request that goes on to another stage with all it has.
LEMMA RequestMoves ==
    ASSUME CacheInv, NEW q, q \in RequestRecord, PartsHeld(version, q), DocumentHeld(doc, edits, q),
           NEW p, <<q.pc, p>> \in {<<"status", "index">>, <<"raw", "semantic">>,
                                   <<"semantic", "memory">>, <<"memory", "memoryRead">>,
                                   <<"cbm", "cbmRead">>}
    PROVE  LET d == [q EXCEPT !.pc = p]
           IN  d \in RequestRecord /\ PartsHeld(version, d) /\ DocumentHeld(doc, edits, d)
<1> DEFINE d == [q EXCEPT !.pc = p]
<1>1. /\ d \in RequestRecord /\ d.pc = p /\ d.rev = q.rev /\ d.reuse = q.reuse /\ d.val = q.val
      /\ d.warned = q.warned /\ d.via = q.via /\ d.edits = q.edits /\ d.hash = q.hash
      /\ d.doc = q.doc /\ d.dep = q.dep
    BY DEF RequestRecord, Stages
<1> HIDE DEF d
<1>2. PartsHeld(version, d)
    BY <1>1 DEF PartsHeld
<1>3. DocumentHeld(doc, edits, d)
    BY <1>1 DEF DocumentHeld
<1>. QED  BY <1>1, <1>2, <1>3 DEF d

----------------------------------------------------------------------------
(* The steps of a request *)

\* A new request costs at most two events and keeps the invariant.
LEMMA BeginKeeps ==
    ASSUME CacheInv, NEW r \in Requests, BeginBuild(r)
    PROVE  CacheInv'
<1>1. PICK v \in {version["memory"], Unavailable} :
          /\ events' \in {events, events + 1, events + 2} /\ events' =< MaxEvents
          /\ UNCHANGED <<open, blamed>>
          /\ Goes(r, [Blank EXCEPT !.pc = "status", !.n = count + 1,
                                   !.rev = [@ EXCEPT !["memory"] = v]])
    <2>1. PICK v \in {version["memory"], Unavailable} :
              /\ events' = events + ((IF v = Unavailable THEN 1 ELSE 0) + (IF Alone THEN 0 ELSE 1))
              /\ events' =< MaxEvents /\ UNCHANGED <<open, blamed>>
              /\ Goes(r, [Blank EXCEPT !.pc = "status", !.n = count + 1,
                                       !.rev = [@ EXCEPT !["memory"] = v]])
        BY DEF BeginBuild
    <2>2. events \in Nat
        BY CacheAssumption DEF CacheInv, CacheTypeOK, VersionTypes
    <2>3. events' \in {events, events + 1, events + 2}
        BY <2>1, <2>2
    <2>. QED  BY <2>1, <2>3
<1>2. /\ UNCHANGED <<mode, version, index, doc, edits, tiers, cooling, candidate, puts>>
      /\ count' = count + 1 /\ count < MaxRequests
    BY DEF BeginBuild, sources, semantic
<1>3. count + 1 \in Nat /\ count' \in 0 .. MaxRequests
    BY <1>2, CacheAssumption DEF CacheInv, CacheTypeOK, RequestTypes
<1> DEFINE b == Blank.rev
           q == [Blank EXCEPT !.pc = "status", !.n = count + 1, !.rev = [@ EXCEPT !["memory"] = v]]
<1>4. /\ Blank \in RequestRecord /\ PartsHeld(version, Blank)
      /\ \A s \in Sources : Blank.rev[s] = 0 /\ Blank.val[s] = 0 /\ Blank.reuse[s] = 0
      /\ Blank.via = "none"
    BY BlankHolds, VersionsAreNaturals DEF Blank, Unavailable
<1>5. v \in Nat /\ v =< version["memory"] /\ version["memory"] \in Nat
    BY VersionsAreNaturals DEF Unavailable, Sources
<1>6. [Blank.rev EXCEPT !["memory"] = v] \in [Sources -> Nat]
    BY <1>4, <1>5 DEF RequestRecord
<1>7. /\ q \in RequestRecord /\ q.pc = "status" /\ q.rev = [Blank.rev EXCEPT !["memory"] = v]
      /\ q.val = Blank.val /\ q.reuse = Blank.reuse /\ q.via = "none"
    BY <1>3, <1>4, <1>6 DEF RequestRecord, Stages
<1>8. \A s \in Sources : q.rev[s] =< version[s]
    BY <1>4, <1>5, <1>7, VersionsAreNaturals DEF RequestRecord, Sources
<1> HIDE DEF q
<1>9. PartsHeld(version, q)
    BY <1>4, <1>7, <1>8, VersionsAreNaturals DEF PartsHeld, Unavailable
<1>10. DocumentHeld(doc, edits, q)
    BY <1>7 DEF DocumentHeld
<1>11. RequestsKeep
    BY <1>1, <1>2, <1>7, <1>9, <1>10, RequestGoes DEF q
<1>12. TiersKeep
    <2>1. events' \in 0 .. MaxEvents /\ events =< events'
        BY <1>1, CacheAssumption DEF CacheInv, CacheTypeOK, VersionTypes
    <2>. QED  BY <2>1, <1>1, <1>2
              DEF CacheInv, CacheTypeOK, PoolTypes, TiersKeep, EntriesInv, MirrorsInv, tiers
<1>13. CandidatesKeep
    BY <1>2, CandidatesStill DEF CacheInv, CacheTypeOK, PoolTypes
<1>. QED  BY <1>2, <1>3, <1>11, <1>12, <1>13, AllKeep

\* The key is computed from what the sources and the document are by now.
LEMMA RevisedHolds ==
    ASSUME CacheInv, NEW q, q \in RequestRecord, PartsHeld(version, q), q.pc \in {"status", "index"},
           NEW v \in Nat, v =< version["cbm"]
    PROVE  /\ Revised(q, v) \in RequestRecord /\ PartsHeld(version, Revised(q, v))
           /\ DocumentHeld(doc, edits, Revised(q, v))
<1> DEFINE d == Revised(q, v)
<1>1. [q.rev EXCEPT !["cbm"] = v] \in [Sources -> Nat]
    BY DEF RequestRecord
<1>2. doc \in Contents \cup {0} /\ edits \in Int
    BY DEF CacheInv, CacheTypeOK, VersionTypes, Unreadable
<1>3. /\ d \in RequestRecord /\ d.pc = "raw" /\ d.rev = [q.rev EXCEPT !["cbm"] = v]
      /\ d.reuse = q.reuse /\ d.val = q.val /\ d.warned = q.warned /\ d.via = q.via
      /\ d.hash = doc /\ d.edits = edits
    BY <1>1, <1>2 DEF RequestRecord, Stages, Revised
<1>4. \A s \in Sources : d.rev[s] =< version[s]
    BY <1>3 DEF RequestRecord, PartsHeld, Sources
<1> HIDE DEF d
<1>5. PartsHeld(version, d)
    BY <1>3, <1>4 DEF PartsHeld
<1>6. DocumentHeld(doc, edits, d)
    BY <1>2, <1>3 DEF DocumentHeld
<1>. QED  BY <1>3, <1>5, <1>6 DEF d

\* Where a lookup ends.
LEMMA OutcomeMeans ==
    ASSUME CacheInv, NEW k, NEW fresh \in BOOLEAN, NEW act, NEW up, NEW dup
    PROVE  /\ Outcome(k, fresh, act, up, dup) \in {"hit", "miss", "throw"}
           /\ Outcome(k, fresh, act, up, dup) = "hit" =>
                fresh /\ Answers(version, k, Entry(k)) /\ (k \in DOMAIN l1 \/ Agreed(k))
BY FoundAnswers DEF Outcome

\* StatusLookup, the lookup of the cached index status, keeps the invariant.
LEMMA StatusLookupKeeps ==
    ASSUME CacheInv, NEW r \in Requests, StatusLookup(r)
    PROVE  CacheInv'
<1>1. PICK act \in Active, up \in SUBSET Members, dup \in SUBSET Members :
          /\ GetCached(StatusKey, TRUE, act, up, dup)
          /\ Answered(r, Outcome(StatusKey, TRUE, act, up, dup),
                      Revised(req[r], Entry(StatusKey).val), "index")
    BY DEF StatusLookup
<1>2. UNCHANGED <<mode, version, index, doc, edits, cooling, candidate, puts, count>> /\ req[r].pc = "status"
    BY DEF StatusLookup, sources, semantic
<1>3. TiersKeep
    BY <1>1, <1>2, LookupEffect DEF TiersKeep, CacheInv, CacheTypeOK, PoolTypes
<1>4. CandidatesKeep
    BY <1>2, CandidatesStill DEF CacheInv, CacheTypeOK, PoolTypes
<1>5. req[r] \in RequestRecord /\ PartsHeld(version, req[r]) /\ DocumentHeld(doc, edits, req[r])
    BY RequestKnown
<1>6. RequestsKeep
    <2> DEFINE out == Outcome(StatusKey, TRUE, act, up, dup)
    <2>1. CASE out = "hit"
        <3>1. Entry(StatusKey).val \in Nat /\ Entry(StatusKey).val =< version["cbm"]
            <4>1. Answers(version, StatusKey, Entry(StatusKey))
                BY <2>1, OutcomeMeans
            <4>. QED  BY <4>1, VersionsAreNaturals DEF Answers, StatusKey, Sources
        <3>2. Goes(r, Revised(req[r], Entry(StatusKey).val))
            BY <1>1, <2>1 DEF Answered
        <3>. QED  BY <3>1, <3>2, <1>2, <1>5, RevisedHolds, RequestGoes
    <2>2. CASE out = "miss"
        <3>1. Goes(r, [req[r] EXCEPT !.pc = "index"])
            BY <1>1, <2>2 DEF Answered
        <3>. QED  BY <3>1, <1>2, <1>5, RequestMoves, RequestGoes
    <2>3. CASE out = "throw"
        <3>1. Fails(r)
            BY <1>1, <2>3 DEF Answered
        <3>. QED  BY <3>1, <1>2, RequestFails
    <2>4. out \in {"hit", "miss", "throw"}
        BY OutcomeMeans
    <2>. QED  BY <2>1, <2>2, <2>3, <2>4
<1>7. count' \in 0 .. MaxRequests
    BY <1>2 DEF CacheInv, CacheTypeOK, RequestTypes
<1>. QED  BY <1>2, <1>3, <1>4, <1>6, <1>7, AllKeep

\* IndexStatus, with an answer of the index or without.
LEMMA IndexStatusKeeps ==
    ASSUME CacheInv, NEW r \in Requests, IndexStatus(r)
    PROVE  CacheInv'
<1>1. UNCHANGED <<mode, version, index, doc, edits, cooling, candidate, puts, count>> /\ req[r].pc = "index"
    BY DEF IndexStatus, sources, semantic
<1>2. CandidatesKeep
    BY <1>1, CandidatesStill DEF CacheInv, CacheTypeOK, PoolTypes
<1>3. req[r] \in RequestRecord /\ PartsHeld(version, req[r]) /\ version["cbm"] \in Nat
          /\ index.digest \in Nat /\ index.digest \in 1 .. version["cbm"]
    <2>1. version["cbm"] \in Nat
        BY VersionsAreNaturals DEF Sources
    <2>2. index.digest \in 1 .. version["cbm"]
        BY DEF CacheInv, CacheTypeOK, VersionTypes
    <2>. QED  BY <2>1, <2>2, RequestKnown
<1>4. count' \in 0 .. MaxRequests
    BY <1>1 DEF CacheInv, CacheTypeOK, RequestTypes
<1>5. CASE SourceDown /\ Goes(r, Revised(req[r], Unavailable)) /\ UNCHANGED tiers
    <2>1. TiersKeep
        BY <1>1, <1>5, TiersStill
    <2>2. Unavailable \in Nat /\ Unavailable =< version["cbm"]
        BY <1>3 DEF Unavailable
    <2>3. RequestsKeep
        BY <1>1, <1>3, <1>5, <2>2, RevisedHolds, RequestGoes
    <2>. QED  BY <2>1, <2>3, <1>1, <1>2, <1>4, AllKeep
<1>6. CASE /\ \E act \in Active : \E up \in SUBSET act : \E slow \in SUBSET (act \ up) :
                SetCached(StatusKey, [val |-> index.digest, by |-> req[r].n], act, up, slow)
           /\ Goes(r, Revised(req[r], index.digest))
    <2>1. PICK act \in Active : \E up \in SUBSET act : \E slow \in SUBSET (act \ up) :
                SetCached(StatusKey, [val |-> index.digest, by |-> req[r].n], act, up, slow)
        BY <1>6
    <2>u. PICK up \in SUBSET act : \E slow \in SUBSET (act \ up) :
                SetCached(StatusKey, [val |-> index.digest, by |-> req[r].n], act, up, slow)
        BY <2>1
    <2>2. PICK slow \in SUBSET (act \ up) :
                SetCached(StatusKey, [val |-> index.digest, by |-> req[r].n], act, up, slow)
        BY <2>u
    <2>3. Answers(version, StatusKey, [val |-> index.digest, by |-> req[r].n])
        BY <1>3 DEF Answers, StatusKey, Sources, RequestRecord
    <2>4. TiersKeep
        BY <1>1, <2>2, <2>3, StoreEffect DEF TiersKeep
    <2>5. RequestsKeep
        BY <1>1, <1>3, <1>6, RevisedHolds, RequestGoes
    <2>. QED  BY <2>4, <2>5, <1>1, <1>2, <1>4, AllKeep
<1>. QED  BY <1>5, <1>6 DEF IndexStatus

\* What is delivered of a request.
LEMMA DeliveredMeans ==
    ASSUME NEW c, c \in RequestRecord, NEW how \in {"pack", "build"}
    PROVE  /\ Delivered(c, how) \in RequestRecord /\ Delivered(c, how).pc = "done"
           /\ Delivered(c, how).rev = c.rev /\ Delivered(c, how).val = c.val
           /\ Delivered(c, how).reuse = Blank.reuse /\ Delivered(c, how).via = how
           /\ Delivered(c, how).doc = c.doc
           /\ \A s \in Sources : Blank.reuse[s] = 0
<1>1. Blank.reuse \in [Sources -> Nat] /\ \A s \in Sources : Blank.reuse[s] = 0
    BY DEF Blank, Unavailable
<1> DEFINE u == Blank.reuse
<1>2. Delivered(c, how) = [c EXCEPT !.pc = "done", !.via = how, !.hash = 0, !.dep = 0,
                                    !.edits = 0, !.reuse = u]
    BY DEF Delivered
<1>3. u \in [Sources -> Nat] /\ "done" \in Stages
    BY <1>1 DEF Stages
<1> HIDE DEF u
<1>4. c = [pc |-> c.pc, n |-> c.n, rev |-> c.rev, hash |-> c.hash, reuse |-> c.reuse,
           val |-> c.val, doc |-> c.doc, dep |-> c.dep, warned |-> c.warned,
           edits |-> c.edits, via |-> c.via]
    BY DEF RequestRecord
<1>5. Delivered(c, how) = [pc |-> "done", n |-> c.n, rev |-> c.rev, hash |-> 0, reuse |-> u,
                           val |-> c.val, doc |-> c.doc, dep |-> 0, warned |-> c.warned,
                           edits |-> 0, via |-> how]
    BY <1>2, <1>4
<1>6. /\ c.n \in Nat /\ c.rev \in [Sources -> Nat] /\ c.val \in [Sources -> Nat]
      /\ c.doc \in Contents \cup {0} /\ c.warned \in BOOLEAN
    BY DEF RequestRecord
<1>7. Delivered(c, how) \in RequestRecord
    BY <1>3, <1>5, <1>6 DEF RequestRecord
<1>. QED  BY <1>1, <1>5, <1>7 DEF u

\* A pack that is found has every part its key claims.
LEMMA ServedHolds ==
    ASSUME CacheInv, NEW q, q \in RequestRecord, PartsHeld(version, q), NEW e,
           Answers(version, RawKey(q), e)
    PROVE  LET d == Delivered([q EXCEPT !.val = e.val, !.doc = e.doc], "pack")
           IN  /\ d \in RequestRecord /\ PartsHeld(version, d) /\ DocumentHeld(doc, edits, d)
               /\ d.doc = e.doc /\ d.pc = "done"
<1> DEFINE d == Delivered([q EXCEPT !.val = e.val, !.doc = e.doc], "pack")
<1>1. /\ e.val \in [Sources -> Nat] /\ \A s \in Sources : e.val[s] \in 1 .. version[s]
      /\ e.val["memory"] >= q.rev["memory"] /\ e.val["cbm"] >= q.rev["cbm"]
      /\ e.doc \in Contents \cup {0}
    BY DEF Answers, RawKey
<1>2. Blank.reuse \in [Sources -> Nat] /\ \A s \in Sources : Blank.reuse[s] = 0
    BY DEF Blank, Unavailable
<1>3. /\ d \in RequestRecord /\ d.pc = "done" /\ d.rev = q.rev /\ d.val = e.val
      /\ d.reuse = Blank.reuse /\ d.via = "pack" /\ d.doc = e.doc
    <2> DEFINE c == [q EXCEPT !.val = e.val, !.doc = e.doc]
    <2>1. c \in RequestRecord /\ c.rev = q.rev /\ c.val = e.val /\ c.doc = e.doc
        BY <1>1 DEF RequestRecord
    <2> HIDE DEF c
    <2>. QED  BY <2>1, DeliveredMeans DEF c
<1>4. \A s \in Sources : d.rev[s] =< version[s] /\ d.val[s] # 0 /\ d.val[s] >= d.rev[s]
    BY <1>1, <1>3, VersionsAreNaturals DEF PartsHeld, Sources
<1> HIDE DEF d
<1>5. PartsHeld(version, d)
    BY <1>1, <1>2, <1>3, <1>4, VersionsAreNaturals DEF PartsHeld, Unavailable
<1>6. DocumentHeld(doc, edits, d)
    BY <1>3 DEF DocumentHeld
<1>. QED  BY <1>3, <1>5, <1>6 DEF d

\* RawLookup: the pack of the key, when its document is still the one it was
\* stored with.
LEMMA RawLookupKeeps ==
    ASSUME CacheInv, NEW r \in Requests, RawLookup(r)
    PROVE  CacheInv'
<1> DEFINE k == RawKey(req[r])
           fresh == FileDependenciesFresh(k)
<1>1. PICK act \in Active, up \in SUBSET Members, dup \in SUBSET Members :
          /\ GetCached(k, fresh, act, up, dup)
          /\ Answered(r, Outcome(k, fresh, act, up, dup),
                      Delivered([req[r] EXCEPT !.val = Entry(k).val, !.doc = Entry(k).doc], "pack"),
                      "semantic")
    BY DEF RawLookup
<1>2. UNCHANGED <<mode, version, index, doc, edits, cooling, candidate, puts, count>> /\ req[r].pc = "raw"
    BY DEF RawLookup, sources, semantic
<1>b. fresh \in BOOLEAN
    BY DEF FileDependenciesFresh
<1> HIDE DEF k, fresh
<1>3. TiersKeep
    BY <1>1, <1>2, LookupEffect DEF TiersKeep, CacheInv, CacheTypeOK, PoolTypes
<1>4. CandidatesKeep
    BY <1>2, CandidatesStill DEF CacheInv, CacheTypeOK, PoolTypes
<1>5. req[r] \in RequestRecord /\ PartsHeld(version, req[r]) /\ DocumentHeld(doc, edits, req[r])
    BY RequestKnown
<1>6. RequestsKeep
    <2> DEFINE out == Outcome(k, fresh, act, up, dup)
    <2>1. CASE out = "hit"
        <3>1. Answers(version, RawKey(req[r]), Entry(k))
            BY <2>1, <1>b, OutcomeMeans DEF k
        <3>2. Goes(r, Delivered([req[r] EXCEPT !.val = Entry(k).val, !.doc = Entry(k).doc], "pack"))
            BY <1>1, <2>1 DEF Answered
        <3>. QED  BY <3>1, <3>2, <1>2, <1>5, ServedHolds, RequestGoes
    <2>2. CASE out = "miss"
        <3>1. Goes(r, [req[r] EXCEPT !.pc = "semantic"])
            BY <1>1, <2>2 DEF Answered
        <3>. QED  BY <3>1, <1>2, <1>5, RequestMoves, RequestGoes
    <2>3. CASE out = "throw"
        <3>1. Fails(r)
            BY <1>1, <2>3 DEF Answered
        <3>. QED  BY <3>1, <1>2, RequestFails
    <2>4. out \in {"hit", "miss", "throw"}
        BY <1>b, OutcomeMeans
    <2>. QED  BY <2>1, <2>2, <2>3, <2>4
<1>7. count' \in 0 .. MaxRequests
    BY <1>2 DEF CacheInv, CacheTypeOK, RequestTypes
<1>. QED  BY <1>2, <1>3, <1>4, <1>6, <1>7, AllKeep

\* The newest of the candidates that answer is one of them.
LEMMA NewestIsOne ==
    ASSUME CacheInv, NEW up \in SUBSET Members, up # {}
    PROVE  \E m \in up : Newest(up) = candidate[m]
<1> DEFINE C == {candidate[m] : m \in up}
           T == {candidate[m].at : m \in up}
<1>1. puts \in Nat /\ \A m \in up : candidate[m].at \in 0 .. puts
    BY DEF CacheInv, CacheTypeOK, PoolTypes, CandidatesInv, CandidateAnswers
<1>2. T \subseteq 0 .. puts /\ T # {}
    BY <1>1
<1>3. PICK n \in T : \A y \in T : y =< n
    <2> HIDE DEF T
    <2>. QED  BY <1>1, <1>2, GreatestMember
<1>4. PICK p \in up : n = candidate[p].at
    OBVIOUS
<1>5. candidate[p] \in C /\ \A y \in C : y.at =< candidate[p].at
    BY <1>3, <1>4
<1>6. Newest(up) = CHOOSE x \in C : \A y \in C : y.at =< x.at
    BY DEF Newest
<1>7. Newest(up) \in C
    <2> HIDE DEF C
    <2>. QED  BY <1>5, <1>6
<1>. QED  BY <1>7

\* A call of the semantic cache keeps the tiers.
LEMMA SemanticCallKeeps ==
    ASSUME CacheInv, NEW up, SemanticCall(up), UNCHANGED <<version, tiers>>
    PROVE  TiersKeep /\ cooling' \in BOOLEAN
<1>1. Called(Members \ open, Members, up) /\ cooling' \in BOOLEAN
    BY DEF SemanticCall
<1>2. /\ events' \in 0 .. MaxEvents /\ events =< events'
      /\ open' \subseteq Members /\ blamed' \subseteq Members
      /\ open' \subseteq blamed' /\ blamed \subseteq blamed'
    BY <1>1, CallEffect
<1>3. EntriesInv'
    BY DEF CacheInv, EntriesInv, tiers
<1>4. MirrorsInv'
    BY <1>2 DEF CacheInv, MirrorsInv, tiers
<1>. QED  BY <1>1, <1>2, <1>3, <1>4 DEF CacheInv, CacheTypeOK, PoolTypes, TiersKeep, tiers

\* What is taken over of a candidate has the revision of the request.
LEMMA ReusedHolds ==
    ASSUME CacheInv, NEW q, q \in RequestRecord, PartsHeld(version, q), DocumentHeld(doc, edits, q),
           q.pc = "memory", NEW up \in SUBSET Members, up # {}
    PROVE  LET d == [q EXCEPT !.reuse = Reused(Newest(up), q)]
           IN  d \in RequestRecord /\ PartsHeld(version, d) /\ DocumentHeld(doc, edits, d)
<1> DEFINE c == Newest(up)
           u == Reused(c, q)
           d == [q EXCEPT !.reuse = u]
<1>1. CandidateAnswers(version, puts, c)
    BY NewestIsOne DEF CacheInv, CandidatesInv
<1> HIDE DEF c
<1>2. /\ u \in [Sources -> Nat]
      /\ \A s \in Sources : u[s] =< version[s] /\ (u[s] # Unavailable => u[s] >= q.rev[s])
    <2>1. ASSUME NEW s \in Sources, Reusable(c, q, s)
          PROVE  c.val[s] \in Nat /\ c.val[s] =< version[s] /\ c.val[s] >= q.rev[s]
        BY <1>1, <2>1, VersionsAreNaturals DEF CandidateAnswers, Reusable
    <2>2. \A s \in Sources : u[s] = IF Reusable(c, q, s) THEN c.val[s] ELSE Unavailable
        BY DEF Reused
    <2>3. DOMAIN u = Sources /\ u = [s \in Sources |-> u[s]]
        BY DEF Reused
    <2> HIDE DEF u
    <2>. QED  BY <2>1, <2>2, <2>3, VersionsAreNaturals DEF Unavailable
<1> HIDE DEF u
<1>3. /\ d \in RequestRecord /\ d.pc = "memory" /\ d.rev = q.rev /\ d.reuse = u /\ d.val = q.val
      /\ d.warned = q.warned /\ d.via = q.via /\ d.edits = q.edits /\ d.hash = q.hash
      /\ d.doc = q.doc /\ d.dep = q.dep
    BY <1>2 DEF RequestRecord
<1> HIDE DEF d
<1>4. PartsHeld(version, d)
    BY <1>2, <1>3 DEF PartsHeld
<1>5. DocumentHeld(doc, edits, d)
    BY <1>3 DEF DocumentHeld
<1>. QED  BY <1>3, <1>4, <1>5 DEF d, u, c

\* SemanticLookup takes the newest candidate over, or none, and keeps the invariant.
LEMMA SemanticLookupKeeps ==
    ASSUME CacheInv, NEW r \in Requests, SemanticLookup(r)
    PROVE  CacheInv'
<1> DEFINE q == [req[r] EXCEPT !.pc = "memory"]
<1>1. /\ UNCHANGED <<mode, version, index, doc, edits, tiers, candidate, puts, count>>
      /\ req[r].pc = "semantic"
    BY DEF SemanticLookup, sources
<1>2. /\ q \in RequestRecord /\ PartsHeld(version, q) /\ DocumentHeld(doc, edits, q)
      /\ q.pc = "memory"
    <2>1. req[r] \in RequestRecord /\ PartsHeld(version, req[r]) /\ DocumentHeld(doc, edits, req[r])
        BY RequestKnown
    <2>2. q \in RequestRecord /\ PartsHeld(version, q) /\ DocumentHeld(doc, edits, q)
        BY <1>1, <2>1, RequestMoves
    <2>3. q.pc = "memory"
        BY <2>1 DEF RequestRecord
    <2>. QED  BY <2>2, <2>3
<1>3. \/ cooling /\ SemanticDown(r, q) /\ UNCHANGED <<pool, cooling>>
      \/ \E up \in SUBSET Members :
            /\ SemanticCall(up)
            /\ IF up = {} THEN SemanticDown(r, q)
               ELSE Goes(r, [q EXCEPT !.reuse = Reused(Newest(up), q)])
      \/ SourceDown /\ cooling' = TRUE /\ SemanticDown(r, q)
    BY DEF SemanticLookup
<1> HIDE DEF q
<1>4. count' \in 0 .. MaxRequests
    BY <1>1 DEF CacheInv, CacheTypeOK, RequestTypes
<1>5. SemanticDown(r, q) => RequestsKeep
    BY <1>1, <1>2, RequestGoes, RequestFails DEF SemanticDown
<1>6. CASE cooling /\ SemanticDown(r, q) /\ UNCHANGED <<pool, cooling>>
    <2>1. TiersKeep
        BY <1>1, <1>6, TiersStill
    <2>2. CandidatesKeep
        BY <1>1, <1>6, CandidatesStill DEF CacheInv, CacheTypeOK, PoolTypes
    <2>. QED  BY <2>1, <2>2, <1>1, <1>4, <1>5, <1>6, AllKeep
<1>7. CASE SourceDown /\ cooling' = TRUE /\ SemanticDown(r, q)
    <2>1. TiersKeep
        BY <1>1, <1>7, TiersStill
    <2>2. CandidatesKeep
        BY <1>1, <1>7, CandidatesStill
    <2>. QED  BY <2>1, <2>2, <1>1, <1>4, <1>5, <1>7, AllKeep
<1>8. ASSUME NEW up \in SUBSET Members, SemanticCall(up),
             IF up = {} THEN SemanticDown(r, q)
             ELSE Goes(r, [q EXCEPT !.reuse = Reused(Newest(up), q)])
      PROVE  CacheInv'
    <2>1. TiersKeep /\ cooling' \in BOOLEAN
        BY <1>1, <1>8, SemanticCallKeeps
    <2>2. CandidatesKeep
        BY <1>1, <2>1, CandidatesStill
    <2>3. RequestsKeep
        <3>1. CASE up = {}
            BY <3>1, <1>5, <1>8
        <3>2. CASE up # {}
            BY <3>2, <1>1, <1>2, <1>8, ReusedHolds, RequestGoes
        <3>. QED  BY <3>1, <3>2
    <2>. QED  BY <2>1, <2>2, <2>3, <1>1, <1>4, AllKeep
<1>. QED  BY <1>3, <1>6, <1>7, <1>8

\* A request that has a part, by any of the ways, goes on with it.
LEMMA PartTaken ==
    ASSUME CacheInv, NEW q, q \in RequestRecord, PartsHeld(version, q), DocumentHeld(doc, edits, q),
           NEW s \in Sources, q.pc \in {s, ReadOf(s)}, NEW v \in Nat, v >= 1, v =< version[s],
           v >= q.rev[s], NEW u \in {q.reuse, [q.reuse EXCEPT ![s] = Unavailable]}
    PROVE  LET d == [q EXCEPT !.pc = After(s), !.val = [@ EXCEPT ![s] = v], !.reuse = u]
           IN  d \in RequestRecord /\ PartsHeld(version, d) /\ DocumentHeld(doc, edits, d)
<1> DEFINE x == [q.val EXCEPT ![s] = v]
           d == [q EXCEPT !.pc = After(s), !.val = x, !.reuse = u]
<1>1. /\ x \in [Sources -> Nat] /\ x[s] = v
      /\ \A y \in Sources : y # s => x[y] = q.val[y]
    BY DEF RequestRecord
<1>2. /\ u \in [Sources -> Nat]
      /\ \A y \in Sources : u[y] = q.reuse[y] \/ u[y] = Unavailable
    BY DEF RequestRecord, Unavailable
<1>3. After(s) \in Stages
    BY DEF After, Stages
<1> HIDE DEF x
<1>4. /\ d \in RequestRecord /\ d.pc = After(s) /\ d.rev = q.rev /\ d.reuse = u /\ d.val = x
      /\ d.warned = q.warned /\ d.via = q.via /\ d.edits = q.edits /\ d.hash = q.hash
      /\ d.doc = q.doc /\ d.dep = q.dep
    BY <1>1, <1>2, <1>3 DEF RequestRecord
<1> HIDE DEF d
<1>5. PartsHeld(version, d)
    BY <1>1, <1>2, <1>4, VersionsAreNaturals DEF PartsHeld, After, ReadOf, Sources,
       Unavailable
<1>6. DocumentHeld(doc, edits, d)
    BY <1>4 DEF DocumentHeld, After, ReadOf, Sources
<1>. QED  BY <1>4, <1>5, <1>6 DEF d, x

\* PartLookup, the exact cache of one part, keeps the invariant.
LEMMA PartLookupKeeps ==
    ASSUME CacheInv, NEW r \in Requests, NEW s \in Sources, PartLookup(r, s)
    PROVE  CacheInv'
<1> DEFINE q == req[r]
           k == PartKey(s, q.rev[s])
           x == Entry(k).val
           d == [q EXCEPT !.pc = After(s), !.val = [@ EXCEPT ![s] = x]]
<1>1. PICK act \in Active, up \in SUBSET Members, dup \in SUBSET Members :
          /\ GetCached(k, TRUE, act, up, dup)
          /\ Answered(r, Outcome(k, TRUE, act, up, dup), d, ReadOf(s))
    BY DEF PartLookup
<1>2. UNCHANGED <<mode, version, index, doc, edits, cooling, candidate, puts, count>> /\ q.pc = s
    BY DEF PartLookup, sources, semantic
<1>3. q \in RequestRecord /\ PartsHeld(version, q) /\ DocumentHeld(doc, edits, q)
    BY RequestKnown
<1>4. q.rev[s] \in Nat
    BY <1>3 DEF RequestRecord
<1>5. Answers(version, k, Entry(k)) => x \in Nat /\ x >= 1 /\ x =< version[s] /\ x >= q.rev[s]
    BY VersionsAreNaturals DEF Answers, PartKey
<1>6. d = [q EXCEPT !.pc = After(s), !.val = [@ EXCEPT ![s] = x], !.reuse = q.reuse]
    BY <1>3 DEF RequestRecord
<1> HIDE DEF k, x, q
<1>7. TiersKeep
    BY <1>1, <1>2, LookupEffect DEF TiersKeep, CacheInv, CacheTypeOK, PoolTypes
<1>8. CandidatesKeep
    BY <1>2, CandidatesStill DEF CacheInv, CacheTypeOK, PoolTypes
<1>9. RequestsKeep
    <2> DEFINE out == Outcome(k, TRUE, act, up, dup)
    <2>1. CASE out = "hit"
        <3>1. x \in Nat /\ x >= 1 /\ x =< version[s] /\ x >= q.rev[s]
            BY <2>1, <1>5, OutcomeMeans
        <3> DEFINE g == [q EXCEPT !.pc = After(s), !.val = [@ EXCEPT ![s] = x], !.reuse = q.reuse]
        <3>g. g \in RequestRecord /\ PartsHeld(version, g) /\ DocumentHeld(doc, edits, g)
            <4>1. q.pc \in {s, ReadOf(s)}
                BY <1>2
            <4>2. q.reuse \in {q.reuse, [q.reuse EXCEPT ![s] = Unavailable]}
                OBVIOUS
            <4>. QED  BY <4>1, <4>2, <3>1, <1>3, PartTaken
        <3>2. d \in RequestRecord /\ PartsHeld(version, d) /\ DocumentHeld(doc, edits, d)
            <4> HIDE DEF d, g
            <4>1. d = g
                BY <1>6 DEF g
            <4>. QED  BY <4>1, <3>g
        <3>3. Goes(r, d)
            BY <1>1, <2>1 DEF Answered
        <3> HIDE DEF d
        <3>. QED  BY <3>2, <3>3, <1>2, RequestGoes
    <2>2. CASE out = "miss"
        <3>1. Goes(r, [q EXCEPT !.pc = ReadOf(s)])
            BY <1>1, <2>2 DEF Answered, q
        <3>2. <<q.pc, ReadOf(s)>> \in {<<"memory", "memoryRead">>, <<"cbm", "cbmRead">>}
            BY <1>2 DEF ReadOf, Sources
        <3>. QED  BY <3>1, <3>2, <1>2, <1>3, RequestMoves, RequestGoes
    <2>3. CASE out = "throw"
        <3>1. Fails(r)
            BY <1>1, <2>3 DEF Answered
        <3>. QED  BY <3>1, <1>2, RequestFails
    <2>4. out \in {"hit", "miss", "throw"}
        BY OutcomeMeans
    <2>. QED  BY <2>1, <2>2, <2>3, <2>4
<1>10. count' \in 0 .. MaxRequests
    BY <1>2 DEF CacheInv, CacheTypeOK, RequestTypes
<1>. QED  BY <1>2, <1>7, <1>8, <1>9, <1>10, AllKeep

\* PartRead takes the part from its source and writes it back to the tiers.
LEMMA PartReadKeeps ==
    ASSUME CacheInv, NEW r \in Requests, NEW s \in Sources, PartRead(r, s)
    PROVE  CacheInv'
<1> DEFINE q == req[r]
           k == PartKey(s, q.rev[s])
           v == IF q.reuse[s] # Unavailable THEN q.reuse[s] ELSE version[s]
           e == [val |-> v, by |-> q.n]
           d == [q EXCEPT !.pc = After(s), !.val = [@ EXCEPT ![s] = v],
                          !.reuse = [@ EXCEPT ![s] = Unavailable]]
<1>1. PICK act \in Active : \E up \in SUBSET act : \E slow \in SUBSET (act \ up) :
          SetCached(k, e, act, up, slow)
    BY DEF PartRead
<1>2. PICK up \in SUBSET act : \E slow \in SUBSET (act \ up) : SetCached(k, e, act, up, slow)
    BY <1>1
<1>3. PICK slow \in SUBSET (act \ up) : SetCached(k, e, act, up, slow)
    BY <1>2
<1>4. /\ UNCHANGED <<mode, version, index, doc, edits, cooling, candidate, puts, count>>
      /\ q.pc = ReadOf(s) /\ Goes(r, d)
    BY DEF PartRead, sources, semantic
<1>5. q \in RequestRecord /\ PartsHeld(version, q) /\ DocumentHeld(doc, edits, q)
    BY RequestKnown
<1>6. /\ v \in Nat /\ v >= 1 /\ v =< version[s] /\ v >= q.rev[s]
      /\ q.rev[s] \in Nat /\ q.n \in Nat
    BY <1>5, VersionsAreNaturals DEF RequestRecord, PartsHeld, Unavailable
<1> HIDE DEF v
<1>7. Answers(version, k, e)
    BY <1>6, VersionsAreNaturals DEF Answers, PartKey, Sources
<1> HIDE DEF q, e, k
<1>8. TiersKeep
    BY <1>3, <1>4, <1>7, StoreEffect DEF TiersKeep
<1>9. CandidatesKeep
    BY <1>4, CandidatesStill DEF CacheInv, CacheTypeOK, PoolTypes
<1>10. d \in RequestRecord /\ PartsHeld(version, d) /\ DocumentHeld(doc, edits, d)
    BY <1>4, <1>5, <1>6, PartTaken
<1> HIDE DEF d
<1>11. RequestsKeep
    BY <1>4, <1>10, RequestGoes
<1>12. count' \in 0 .. MaxRequests
    BY <1>4 DEF CacheInv, CacheTypeOK, RequestTypes
<1>. QED  BY <1>4, <1>8, <1>9, <1>11, <1>12, AllKeep

\* What changes neither the tiers nor the candidates: a part that cannot be had,
\* the document, a pack that is not kept.
LEMMA OneRequestKeeps ==
    ASSUME CacheInv, NEW r \in Requests, NEW d, Goes(r, d),
           d \in RequestRecord, PartsHeld(version, d), DocumentHeld(doc, edits, d),
           UNCHANGED <<mode, version, index, doc, edits, tiers, cooling, candidate, puts, count>>,
           UNCHANGED pool \/ SourceDown
    PROVE  CacheInv'
<1>1. TiersKeep
    BY TiersStill
<1>2. CandidatesKeep
    BY CandidatesStill DEF CacheInv, CacheTypeOK, PoolTypes
<1>3. RequestsKeep
    BY RequestGoes
<1>4. count' \in 0 .. MaxRequests
    BY DEF CacheInv, CacheTypeOK, RequestTypes
<1>. QED  BY <1>1, <1>2, <1>3, <1>4, AllKeep

\* PartUnavailable goes on with a part that could not be had.
LEMMA PartUnavailableKeeps ==
    ASSUME CacheInv, NEW r \in Requests, NEW s \in Sources, PartUnavailable(r, s)
    PROVE  CacheInv'
<1> DEFINE q == req[r]
           d == [q EXCEPT !.pc = After(s), !.warned = TRUE]
<1>1. q \in RequestRecord /\ PartsHeld(version, q) /\ DocumentHeld(doc, edits, q) /\ q.pc = ReadOf(s)
    BY RequestKnown DEF PartUnavailable
<1>2. After(s) \in Stages
    BY DEF After, Stages
<1>3. /\ d \in RequestRecord /\ d.pc = After(s) /\ d.rev = q.rev /\ d.reuse = q.reuse
      /\ d.val = q.val /\ d.warned = TRUE /\ d.via = q.via /\ d.edits = q.edits
      /\ d.hash = q.hash /\ d.doc = q.doc /\ d.dep = q.dep
    BY <1>1, <1>2 DEF RequestRecord
<1>4. /\ Goes(r, d) /\ SourceDown
      /\ UNCHANGED <<mode, version, index, doc, edits, tiers, cooling, candidate, puts, count>>
    BY DEF PartUnavailable, sources, semantic
<1> HIDE DEF d, q
<1>5. PartsHeld(version, d)
    BY <1>1, <1>3 DEF PartsHeld, After
<1>6. DocumentHeld(doc, edits, d)
    BY <1>1, <1>3 DEF DocumentHeld, After, ReadOf
<1>. QED  BY <1>3, <1>4, <1>5, <1>6, OneRequestKeeps

\* LoadArtifact reads the document that is on disk by now.
LEMMA LoadArtifactKeeps ==
    ASSUME CacheInv, NEW r \in Requests, LoadArtifact(r)
    PROVE  CacheInv'
<1> DEFINE q == req[r]
           d == [q EXCEPT !.pc = "candidate", !.doc = doc]
<1>1. /\ q \in RequestRecord /\ PartsHeld(version, q) /\ DocumentHeld(doc, edits, q)
      /\ q.pc = "artifact" /\ doc \in Contents \cup {0}
    BY RequestKnown DEF LoadArtifact, CacheInv, CacheTypeOK, VersionTypes, Unreadable
<1>2. /\ d \in RequestRecord /\ d.pc = "candidate" /\ d.rev = q.rev /\ d.reuse = q.reuse
      /\ d.val = q.val /\ d.warned = q.warned /\ d.via = q.via /\ d.edits = q.edits
      /\ d.hash = q.hash /\ d.doc = doc
    BY <1>1 DEF RequestRecord, Stages
<1>3. /\ Goes(r, d)
      /\ UNCHANGED <<mode, version, index, doc, edits, tiers, cooling, candidate, puts, count, pool>>
    BY DEF LoadArtifact, sources, semantic
<1> HIDE DEF d, q
<1>4. PartsHeld(version, d)
    BY <1>1, <1>2 DEF PartsHeld
<1>5. DocumentHeld(doc, edits, d)
    BY <1>1, <1>2 DEF DocumentHeld
<1>. QED  BY <1>2, <1>3, <1>4, <1>5, OneRequestKeeps

\* A request that is done holds what it was delivered.
LEMMA DeliveredHolds ==
    ASSUME CacheInv, NEW q, q \in RequestRecord, PartsHeld(version, q)
    PROVE  /\ Delivered(q, "build") \in RequestRecord /\ PartsHeld(version, Delivered(q, "build"))
           /\ DocumentHeld(doc, edits, Delivered(q, "build"))
<1> DEFINE d == Delivered(q, "build")
<1>1. /\ d \in RequestRecord /\ d.pc = "done" /\ d.rev = q.rev /\ d.val = q.val /\ d.via = "build"
      /\ \A s \in Sources : d.reuse[s] = 0
    BY DeliveredMeans
<1> HIDE DEF d
<1>2. PartsHeld(version, d)
    BY <1>1, VersionsAreNaturals DEF PartsHeld, Unavailable
<1>3. DocumentHeld(doc, edits, d)
    BY <1>1 DEF DocumentHeld
<1>. QED  BY <1>1, <1>2, <1>3 DEF d

\* DeliverUncached delivers a pack that is not kept.
LEMMA DeliverUncachedKeeps ==
    ASSUME CacheInv, NEW r \in Requests, DeliverUncached(r)
    PROVE  CacheInv'
<1>1. req[r] \in RequestRecord /\ PartsHeld(version, req[r])
    BY RequestKnown
<1>2. /\ Goes(r, Delivered(req[r], "build"))
      /\ UNCHANGED <<mode, version, index, doc, edits, tiers, cooling, candidate, puts, count, pool>>
    BY DEF DeliverUncached, sources, semantic
<1>. QED  BY <1>1, <1>2, DeliveredHolds, OneRequestKeeps

\* The hashes of the files are captured after the candidate was put.
LEMMA CapturedHolds ==
    ASSUME CacheInv, NEW q, q \in RequestRecord, PartsHeld(version, q), DocumentHeld(doc, edits, q),
           q.pc = "candidate", ~q.warned
    PROVE  /\ Captured(q) \in RequestRecord /\ PartsHeld(version, Captured(q))
           /\ DocumentHeld(doc, edits, Captured(q))
<1> DEFINE d == Captured(q)
<1>1. doc \in Contents \cup {0} /\ edits \in Nat /\ q.edits \in Int /\ Unreadable = 0
    BY DEF CacheInv, CacheTypeOK, VersionTypes, RequestRecord, Unreadable
<1>2. edits - q.edits \in Int
    BY <1>1
<1>3. /\ d \in RequestRecord /\ d.pc = "pack" /\ d.rev = q.rev /\ d.reuse = q.reuse
      /\ d.val = q.val /\ d.warned = q.warned /\ d.via = q.via /\ d.edits = edits - q.edits
      /\ d.hash = q.hash /\ d.doc = q.doc
      /\ d.dep = IF q.doc = Unreadable THEN Unreadable ELSE doc
    BY <1>1, <1>2 DEF RequestRecord, Stages, Captured
<1> HIDE DEF d
<1>4. PartsHeld(version, d)
    BY <1>3 DEF PartsHeld
<1>5. DocumentHeld(doc, edits, d)
    <2>1. q.edits =< edits /\ (q.edits = edits => q.doc = q.hash)
              /\ (q.edits + 1 = edits => q.doc \in {q.hash, doc})
        BY DEF DocumentHeld
    <2>2. edits - q.edits > 1 \/ q.edits = edits \/ q.edits + 1 = edits
        BY <2>1, <1>1
    <2>. QED  BY <2>1, <2>2, <1>3 DEF DocumentHeld
<1>. QED  BY <1>3, <1>4, <1>5 DEF d

\* StoreCandidate puts a candidate that answers for the revision it names.
LEMMA StoreCandidateKeeps ==
    ASSUME CacheInv, NEW r \in Requests, StoreCandidate(r)
    PROVE  CacheInv'
<1> DEFINE q == req[r]
           c == [at |-> puts + 1, rev |-> q.rev, val |-> q.val]
<1>1. /\ UNCHANGED <<mode, version, index, doc, edits, tiers, count>>
      /\ q.pc = "candidate" /\ ~q.warned
      /\ \/ cooling /\ SemanticDown(r, Captured(q)) /\ UNCHANGED <<pool, cooling, candidate, puts>>
         \/ \E up \in SUBSET Members :
               /\ SemanticCall(up)
               /\ puts' = puts + 1
               /\ candidate' = [m \in Members |-> IF m \in up THEN c ELSE candidate[m]]
               /\ SemanticDown(r, Captured(q)) \/ Goes(r, Captured(q))
    BY DEF StoreCandidate, RawPackIsCacheable, sources, semantic
<1>2. q \in RequestRecord /\ PartsHeld(version, q) /\ DocumentHeld(doc, edits, q)
    BY RequestKnown
<1>3. puts \in Nat /\ puts + 1 \in Nat
    BY DEF CacheInv, CacheTypeOK, PoolTypes
<1>4. CandidateAnswers(version, puts + 1, c)
    <2>1. \A s \in Sources : q.val[s] \in 1 .. version[s] /\ q.val[s] >= q.rev[s]
        BY <1>1, <1>2, VersionsAreNaturals DEF RequestRecord, PartsHeld, Sources,
           Unavailable
    <2>2. q.rev \in [Sources -> Nat] /\ q.val \in [Sources -> Nat]
        BY <1>2 DEF RequestRecord
    <2> HIDE DEF q
    <2>. QED  BY <2>1, <2>2, <1>3 DEF CandidateAnswers
<1>5. \A m \in Members : CandidateAnswers(version, puts + 1, candidate[m])
    BY <1>3 DEF CacheInv, CandidatesInv, CandidateAnswers
<1> HIDE DEF c, q
<1>6. SemanticDown(r, Captured(q)) \/ Goes(r, Captured(q)) => RequestsKeep
    BY <1>1, <1>2, CapturedHolds, RequestGoes, RequestFails DEF SemanticDown
<1>7. count' \in 0 .. MaxRequests
    BY <1>1 DEF CacheInv, CacheTypeOK, RequestTypes
<1>8. CASE cooling /\ SemanticDown(r, Captured(q)) /\ UNCHANGED <<pool, cooling, candidate, puts>>
    <2>1. TiersKeep
        BY <1>1, <1>8, TiersStill
    <2>2. CandidatesKeep
        BY <1>1, <1>8, CandidatesStill DEF CacheInv, CacheTypeOK, PoolTypes
    <2>. QED  BY <2>1, <2>2, <1>1, <1>6, <1>7, <1>8, AllKeep
<1>9. ASSUME NEW up \in SUBSET Members, SemanticCall(up), puts' = puts + 1,
             candidate' = [m \in Members |-> IF m \in up THEN c ELSE candidate[m]],
             SemanticDown(r, Captured(q)) \/ Goes(r, Captured(q))
      PROVE  CacheInv'
    <2>1. TiersKeep /\ cooling' \in BOOLEAN
        BY <1>1, <1>9, SemanticCallKeeps
    <2>2. CandidatesInv'
        BY <1>1, <1>4, <1>5, <1>9 DEF CandidatesInv
    <2>3. CandidatesKeep
        BY <2>1, <2>2, <1>3, <1>9 DEF CandidatesKeep
    <2>. QED  BY <2>1, <2>3, <1>1, <1>6, <1>7, <1>9, AllKeep
<1>. QED  BY <1>1, <1>8, <1>9

\* StorePack writes a pack with every part its key claims.
LEMMA StorePackKeeps ==
    ASSUME CacheInv, NEW r \in Requests, StorePack(r)
    PROVE  CacheInv'
<1> DEFINE q == req[r]
           e == [val |-> q.val, doc |-> q.doc, dep |-> q.dep, churned |-> q.edits > 1,
                 by |-> q.n]
           k == RawKey(q)
<1>1. PICK act \in Active : \E up \in SUBSET act : \E slow \in SUBSET (act \ up) :
          SetCached(k, e, act, up, slow)
    BY DEF StorePack
<1>2. PICK up \in SUBSET act : \E slow \in SUBSET (act \ up) : SetCached(k, e, act, up, slow)
    BY <1>1
<1>3. PICK slow \in SUBSET (act \ up) : SetCached(k, e, act, up, slow)
    BY <1>2
<1>4. /\ UNCHANGED <<mode, version, index, doc, edits, cooling, candidate, puts, count>>
      /\ q.pc = "pack" /\ Goes(r, Delivered(q, "build"))
    BY DEF StorePack, sources, semantic
<1>5. q \in RequestRecord /\ PartsHeld(version, q) /\ DocumentHeld(doc, edits, q)
    BY RequestKnown
<1>6. Answers(version, k, e)
    <2>1. /\ q.val \in [Sources -> Nat] /\ q.n \in Nat /\ q.doc \in Contents \cup {0}
          /\ q.edits > 1 \/ q.doc \in {q.hash, q.dep}
        BY <1>4, <1>5 DEF RequestRecord, DocumentHeld
    <2>2. \A s \in Sources : q.val[s] \in 1 .. version[s] /\ q.val[s] >= q.rev[s]
        BY <1>4, <1>5, VersionsAreNaturals DEF RequestRecord, PartsHeld, Sources,
           Unavailable
    <2>3. k[1] = "raw" /\ k[2] = q.rev["memory"] /\ k[3] = q.rev["cbm"] /\ k[4] = q.hash
        BY DEF RawKey
    <2> HIDE DEF q, k
    <2>. QED  BY <2>1, <2>2, <2>3 DEF Answers, Sources
<1> HIDE DEF q, e, k
<1>7. TiersKeep
    BY <1>3, <1>4, <1>6, StoreEffect DEF TiersKeep
<1>8. CandidatesKeep
    BY <1>4, CandidatesStill DEF CacheInv, CacheTypeOK, PoolTypes
<1>9. RequestsKeep
    BY <1>4, <1>5, DeliveredHolds, RequestGoes
<1>10. count' \in 0 .. MaxRequests
    BY <1>4 DEF CacheInv, CacheTypeOK, RequestTypes
<1>. QED  BY <1>4, <1>7, <1>8, <1>9, <1>10, AllKeep

----------------------------------------------------------------------------
(* The steps around the requests *)

\* A source moves on: what was read of it is no younger than it was.
LEMMA SourceChangesKeeps ==
    ASSUME CacheInv, NEW s \in Sources, SourceChanges(s)
    PROVE  CacheInv'
<1>1. /\ events' = events + 1 /\ events < MaxEvents /\ version' = [version EXCEPT ![s] = @ + 1]
      /\ UNCHANGED <<mode, doc, edits, open, blamed, l1, l2, late, last, cooling, candidate, puts,
                     req, count>>
    BY DEF SourceChanges, Event, tiers, semantic
<1>i. /\ index.digest \in index.known /\ index.known \subseteq 1 .. version["cbm"]
      /\ index = [digest |-> index.digest, known |-> index.known]
    BY DEF CacheInv, CacheTypeOK, VersionTypes
<1>2. /\ events \in 0 .. MaxEvents /\ MaxEvents \in Nat
      /\ version \in [Sources -> 1 .. (events + 1)]
    BY CacheAssumption DEF CacheInv, CacheTypeOK, VersionTypes
<1>3. events' \in 0 .. MaxEvents /\ version' \in [Sources -> 1 .. (events' + 1)]
    BY <1>1, <1>2
<1>4. \A x \in Sources : version[x] \in Nat /\ version'[x] \in Nat /\ version[x] =< version'[x]
    BY <1>1, <1>2
<1>5. EntriesInv'
    BY <1>1, <1>4, SoundStays, AnswersStay DEF CacheInv, EntriesInv
<1>6. \A c : CandidateAnswers(version, puts, c) => CandidateAnswers(version', puts, c)
    BY <1>4 DEF CandidateAnswers
<1>7. \A q : q \in RequestRecord /\ PartsHeld(version, q) => PartsHeld(version', q)
    BY <1>4 DEF PartsHeld, RequestRecord
<1>8. CandidatesInv'
    BY <1>1, <1>6 DEF CacheInv, CandidatesInv
<1>9. RequestsInv'
    BY <1>1, <1>7 DEF CacheInv, CacheTypeOK, RequestTypes, RequestsInv
<1>10. MirrorsInv'
    BY <1>1 DEF CacheInv, MirrorsInv
<1>11. /\ index'.digest \in index'.known /\ index'.known \subseteq 1 .. version'["cbm"]
       /\ index' = [digest |-> index'.digest, known |-> index'.known]
    <2>1. version["cbm"] \in Nat /\ version'["cbm"] \in Nat /\ version["cbm"] =< version'["cbm"]
        BY <1>4 DEF Sources
    <2>2. CASE s = "memory"
        BY <2>1, <2>2, <1>i DEF SourceChanges
    <2>3. CASE s # "memory"
        <3>1. version'["cbm"] = version["cbm"] + 1 /\ s = "cbm"
            BY <2>3, <1>1, <1>2 DEF Sources
        <3>2. PICK d \in index.known \cup {version[s] + 1} :
                  index' = [digest |-> d, known |-> index.known \cup {d}]
            BY <2>3 DEF SourceChanges
        <3>. QED  BY <2>1, <3>1, <3>2, <1>i
    <2>. QED  BY <2>2, <2>3
<1>12. CacheTypeOK'
    BY <1>1, <1>3, <1>11 DEF CacheInv, CacheTypeOK, RequestTypes, VersionTypes, PoolTypes
<1>. QED  BY <1>5, <1>8, <1>9, <1>10, <1>12 DEF CacheInv

\* The document changes under the builds that have read it.
LEMMA DocumentChangesKeeps ==
    ASSUME CacheInv, DocumentChanges
    PROVE  CacheInv'
<1>1. /\ events' = events + 1 /\ events < MaxEvents /\ edits' = edits + 1
      /\ doc' \in Contents \cup {Unreadable}
      /\ UNCHANGED <<mode, version, index, open, blamed, l1, l2, late, last, cooling, candidate, puts,
                     req, count>>
    BY DEF DocumentChanges, Event, tiers, semantic
<1>2. /\ events \in 0 .. MaxEvents /\ MaxEvents \in Nat /\ edits \in Nat
      /\ version \in [Sources -> 1 .. (events + 1)]
    BY CacheAssumption DEF CacheInv, CacheTypeOK, VersionTypes
<1>3. events' \in 0 .. MaxEvents /\ version \in [Sources -> 1 .. (events' + 1)] /\ edits' \in Nat
    BY <1>1, <1>2
<1>4. \A q : q.edits \in Int /\ DocumentHeld(doc, edits, q) => DocumentHeld(doc', edits', q)
    BY <1>1, <1>2 DEF DocumentHeld
<1>5. \A r \in Requests : req[r].edits \in Int
    BY RequestKnown DEF RequestRecord
<1>6. RequestsInv'
    BY <1>1, <1>4, <1>5 DEF CacheInv, RequestsInv
<1>7. EntriesInv' /\ CandidatesInv' /\ MirrorsInv'
    BY <1>1 DEF CacheInv, EntriesInv, CandidatesInv, MirrorsInv
<1>8. CacheTypeOK'
    BY <1>1, <1>3 DEF CacheInv, CacheTypeOK, RequestTypes, VersionTypes, PoolTypes
<1>. QED  BY <1>6, <1>7, <1>8 DEF CacheInv

\* A step that only takes entries out, or carries a late write out.
LEMMA OnlyTiersKeep ==
    ASSUME CacheInv, EntriesInv', MirrorsInv', DOMAIN l2' = Members, late' \subseteq late,
           UNCHANGED <<mode, sources, pool, semantic, req, count>>
    PROVE  CacheInv'
<1>1. CacheTypeOK'
    BY DEF CacheInv, CacheTypeOK, RequestTypes, VersionTypes, PoolTypes, sources, pool,
       semantic
<1>2. RequestsInv' /\ CandidatesInv'
    BY DEF CacheInv, RequestsInv, CandidatesInv, sources, semantic
<1>. QED  BY <1>1, <1>2 DEF CacheInv

\* LateWrite carries out a write of an entry that answers for its key.
LEMMA LateWriteKeeps ==
    ASSUME CacheInv, NEW w \in late, LateWrite(w)
    PROVE  CacheInv'
<1>1. /\ late' = late \ {w} /\ l2' = [l2 EXCEPT ![w.m] = With(l2[w.m], w.key, w.entry)]
      /\ UNCHANGED <<mode, sources, pool, l1, last, semantic, req, count>>
    BY DEF LateWrite
<1>2. /\ DOMAIN l2 = Members /\ w.m \in Members /\ w.m \in blamed
      /\ Answers(version, w.key, w.entry) /\ Sound(version, l2[w.m])
    BY DEF CacheInv, CacheTypeOK, PoolTypes, EntriesInv, MirrorsInv
<1>3. Sound(version, With(l2[w.m], w.key, w.entry))
    BY <1>2, SoundWith
<1>4. EntriesInv'
    BY <1>1, <1>2, <1>3 DEF CacheInv, EntriesInv, sources
<1>5. MirrorsInv'
    BY <1>1, <1>2 DEF CacheInv, MirrorsInv, pool
<1>. QED  BY <1>1, <1>2, <1>4, <1>5, OnlyTiersKeep

\* SessionExpires takes entries out of the session cache.
LEMMA SessionExpiresKeeps ==
    ASSUME CacheInv, SessionExpires
    PROVE  CacheInv'
<1>1. /\ \E k : l1' = Without(l1, k)
      /\ UNCHANGED <<mode, sources, pool, l2, late, last, semantic, req, count>>
    BY DEF SessionExpires
<1>2. EntriesInv'
    BY <1>1, SoundWithout DEF CacheInv, EntriesInv, sources
<1>3. MirrorsInv'
    BY <1>1 DEF CacheInv, MirrorsInv, pool
<1>. QED  BY <1>1, <1>2, <1>3, OnlyTiersKeep DEF CacheInv, CacheTypeOK, PoolTypes

\* StatusExpires takes the index status out of both tiers.
LEMMA StatusExpiresKeeps ==
    ASSUME CacheInv, StatusExpires
    PROVE  CacheInv'
<1>1. /\ l1' = Without(l1, StatusKey)
      /\ l2' = [m \in Members |-> Without(l2[m], StatusKey)]
      /\ last' = Without(last, StatusKey) /\ late' \subseteq late
      /\ UNCHANGED <<mode, sources, pool, semantic, req, count>>
    BY DEF StatusExpires
<1>2. EntriesInv'
    BY <1>1, SoundWithout DEF CacheInv, EntriesInv, sources
<1>3. MirrorsInv'
    BY <1>1 DEF CacheInv, MirrorsInv, pool
<1>. QED  BY <1>1, <1>2, <1>3, OnlyTiersKeep

----------------------------------------------------------------------------
(* The invariant, and what follows from it *)

\* What an earlier process left in L2 answers for its keys.
LEMMA WarmIsSound ==
    ASSUME NEW v, \A s \in Sources : v[s] = 1, NEW f \in Warm
    PROVE  Sound(v, f)
<1>1. v["memory"] = 1 /\ v["cbm"] = 1
    BY DEF Sources
<1>2. Sound(v, Empty)
    BY DEF Sound, Empty
<1>3. /\ Answers(v, StatusKey, WarmEntry) /\ Answers(v, PartKey("memory", 1), WarmEntry)
      /\ Answers(v, PartKey("cbm", 1), WarmEntry)
    BY <1>1 DEF Answers, StatusKey, PartKey, WarmEntry, Sources
<1> DEFINE q == [Blank EXCEPT !.rev = WarmPack.val, !.hash = FirstContent]
<1>4. /\ WarmPack.by = 0 /\ WarmPack.doc = FirstContent
      /\ WarmPack.val \in [Sources -> Nat] /\ \A s \in Sources : WarmPack.val[s] = 1
    BY DEF WarmPack
<1>5. FirstContent \in Contents
    BY CacheAssumption DEF FirstContent
<1>6. q.rev = WarmPack.val /\ q.hash = FirstContent
    <2>1. Blank \in RequestRecord
        BY BlankHolds, <1>1 DEF Sources
    <2>. QED  BY <2>1 DEF RequestRecord
<1>7. RawKey(q)[1] = "raw" /\ RawKey(q)[2] = 1 /\ RawKey(q)[3] = 1 /\ RawKey(q)[4] = FirstContent
    BY <1>4, <1>6 DEF RawKey, Sources
<1> DEFINE k == RawKey(q)
<1> HIDE DEF k, q
<1>8. Answers(v, k, WarmPack)
    BY <1>1, <1>4, <1>5, <1>7 DEF Answers, Sources, k
<1> DEFINE f1 == With(Empty, StatusKey, WarmEntry)
           f2 == With(f1, PartKey("memory", 1), WarmEntry)
           f3 == With(f2, PartKey("cbm", 1), WarmEntry)
           f4 == With(f3, k, WarmPack)
<1>9. f \in {Empty, f4}
    BY DEF Warm, k, q
<1>10. Sound(v, f1)
    BY <1>2, <1>3, SoundWith
<1> HIDE DEF f1
<1>11. Sound(v, f2)
    BY <1>3, <1>10, SoundWith
<1> HIDE DEF f2
<1>12. Sound(v, f3)
    BY <1>3, <1>11, SoundWith
<1> HIDE DEF f3
<1>13. Sound(v, f4)
    BY <1>8, <1>12, SoundWith
<1>. QED  BY <1>2, <1>9, <1>13

\* The invariant holds when the service starts, whatever L2 was left with.
LEMMA CacheAtFirst == ASSUME CacheInit PROVE CacheInv
<1>1. FirstContent \in Contents
    BY CacheAssumption DEF FirstContent
<1>2. \A s \in Sources : version[s] = 1
    BY DEF CacheInit
<1>3. Blank \in RequestRecord /\ PartsHeld(version, Blank) /\ \A d, n : DocumentHeld(d, n, Blank)
    BY <1>2, BlankHolds
<1>4. RequestTypes /\ RequestsInv
    BY <1>3, CacheAssumption DEF CacheInit, RequestTypes, RequestsInv
<1>5. VersionTypes
    BY <1>1, CacheAssumption DEF CacheInit, VersionTypes, Sources
<1>6. PoolTypes
    BY DEF CacheInit, PoolTypes
<1>7. Sound(version, last)
    BY <1>2, WarmIsSound DEF CacheInit
<1>8. Sound(version, l1)
    BY DEF CacheInit, Empty, Sound
<1>9. EntriesInv
    BY <1>7, <1>8 DEF CacheInit, EntriesInv
<1>10. CandidatesInv
    BY DEF CacheInit, CandidatesInv, CandidateAnswers, Nobody
<1>11. MirrorsInv
    BY DEF CacheInit, MirrorsInv
<1>. QED  BY <1>4, <1>5, <1>6, <1>9, <1>10, <1>11 DEF CacheInv, CacheTypeOK

\* Every action of the caches, the sources and the requests keeps the invariant.
LEMMA CacheStep == ASSUME CacheInv, [CacheNext]_cacheVars PROVE CacheInv'
<1>1. CASE UNCHANGED cacheVars
    BY <1>1 DEF cacheVars, sources, pool, tiers, semantic, CacheInv, CacheTypeOK,
       RequestTypes, VersionTypes,
           PoolTypes, EntriesInv, CandidatesInv, RequestsInv, MirrorsInv
<1>2. CASE CacheNext
    BY <1>2, BeginKeeps, StatusLookupKeeps, IndexStatusKeeps, RawLookupKeeps,
       SemanticLookupKeeps,
       PartLookupKeeps, PartReadKeeps, PartUnavailableKeeps, LoadArtifactKeeps,
       StoreCandidateKeeps, DeliverUncachedKeeps, StorePackKeeps, SourceChangesKeeps,
       DocumentChangesKeeps, LateWriteKeeps, StatusExpiresKeeps, SessionExpiresKeeps DEF CacheNext
<1>. QED  BY <1>1, <1>2

\* The inductive invariant of the caches and of the builds through them holds in
\* every behaviour, for every pool, any number of requests in flight and every
\* bound on faults.
THEOREM CacheInvariant == CacheSpec => []CacheInv
BY CacheAtFirst, CacheStep, PTL DEF CacheSpec

\* The requests, the sources and the pool keep their types.
THEOREM CacheTypes == CacheSpec => []CacheTypeOK
<1>1. CacheInv => CacheTypeOK
    BY DEF CacheInv
<1>. QED  BY <1>1, CacheInvariant, PTL

\* No pack delivered by buildWithRaw is older than the revisions it claims, and
\* none served from the cache lacks a part.
THEOREM PackIsWhatItClaimsHolds == CacheSpec => []PackIsWhatItClaims
<1>1. CacheInv => PackIsWhatItClaims
    BY DEF CacheInv, RequestsInv, PartsHeld, PackIsWhatItClaims, NeverOlderThanClaimed,
           OutageIsNotRemembered
<1>. QED  BY <1>1, CacheInvariant, PTL

\* After a lookup one request has moved, whatever was found.
LEMMA AnsweredMoves ==
    ASSUME NEW x \in Requests, NEW out \in {"hit", "miss", "throw"}, NEW hit, NEW miss,
           Answered(x, out, hit, miss), NEW r, r # x, r \in DOMAIN req
    PROVE  req'[r] = req[r]
BY DEF Answered, Goes, Fails

\* A request that leaves a lookup has just made it: no other step moves it.
LEMMA LookupsMoveOnlyByLookup ==
    ASSUME CacheInv, CacheNext, NEW r \in Requests, req[r].pc \in Lookups, req'[r] # req[r]
    PROVE  StatusLookup(r) \/ RawLookup(r) \/ \E s \in Sources : PartLookup(r, s)
<1>1. DOMAIN req = Requests /\ r \in DOMAIN req
    BY DEF CacheInv, CacheTypeOK, RequestTypes
<1>2. ASSUME NEW x \in Requests, StatusLookup(x) PROVE r = x
    <2>1. PICK act \in Active, up \in SUBSET Members, dup \in SUBSET Members :
              Answered(x, Outcome(StatusKey, TRUE, act, up, dup),
                       Revised(req[x], Entry(StatusKey).val), "index")
        BY <1>2 DEF StatusLookup
    <2>. QED  BY <1>1, <2>1, OutcomeMeans, AnsweredMoves
<1>3. ASSUME NEW x \in Requests, RawLookup(x) PROVE r = x
    <2> DEFINE k == RawKey(req[x])
    <2>1. PICK act \in Active, up \in SUBSET Members, dup \in SUBSET Members :
              Answered(x, Outcome(k, FileDependenciesFresh(k), act, up, dup),
                  Delivered([req[x] EXCEPT !.val = Entry(k).val, !.doc = Entry(k).doc], "pack"),
                  "semantic")
        BY <1>3 DEF RawLookup
    <2>2. FileDependenciesFresh(k) \in BOOLEAN
        BY DEF FileDependenciesFresh
    <2> HIDE DEF k
    <2>. QED  BY <1>1, <2>1, <2>2, OutcomeMeans, AnsweredMoves
<1>4. ASSUME NEW x \in Requests, NEW s \in Sources, PartLookup(x, s) PROVE r = x
    <2> DEFINE k == PartKey(s, req[x].rev[s])
    <2>1. PICK act \in Active, up \in SUBSET Members, dup \in SUBSET Members :
              Answered(x, Outcome(k, TRUE, act, up, dup),
                  [req[x] EXCEPT !.pc = After(s), !.val = [@ EXCEPT ![s] = Entry(k).val]],
                  ReadOf(s))
        BY <1>4 DEF PartLookup
    <2> HIDE DEF k
    <2>. QED  BY <1>1, <2>1, OutcomeMeans, AnsweredMoves
<1>5. ASSUME NEW x \in Requests,
             \/ BeginBuild(x) \/ IndexStatus(x) \/ SemanticLookup(x) \/ LoadArtifact(x)
             \/ StoreCandidate(x) \/ DeliverUncached(x) \/ StorePack(x)
             \/ \E s \in Sources : PartRead(x, s) \/ PartUnavailable(x, s)
      PROVE  FALSE
    <2>1. req[x].pc \notin Lookups
        BY <1>5 DEF BeginBuild, IndexStatus, SemanticLookup, LoadArtifact, StoreCandidate,
               DeliverUncached, StorePack, PartRead, PartUnavailable, Lookups, Resting, ReadOf
    <2>2. \E q : req' = [req EXCEPT ![x] = q]
        BY <1>5 DEF BeginBuild, IndexStatus, SemanticLookup, LoadArtifact, StoreCandidate,
               DeliverUncached, StorePack, PartRead, PartUnavailable, SemanticDown, Fails, Goes
    <2>. QED  BY <1>1, <2>1, <2>2
<1>6. ASSUME \/ \E s \in Sources : SourceChanges(s)
             \/ DocumentChanges \/ (\E w \in late : LateWrite(w))
             \/ StatusExpires \/ SessionExpires
      PROVE  FALSE
    BY <1>6 DEF SourceChanges, DocumentChanges, LateWrite, StatusExpires, SessionExpires
<1>. QED  BY <1>2, <1>3, <1>4, <1>5, <1>6 DEF CacheNext

\* A request served from the cache gets the document of its key or the one on disk,
\* unless the document changed twice while the pack was built, or the pack was
\* built when it could not be read and has none (fileDependenciesFresh of
\* context-pack-builder.ts).
THEOREM ServedDocumentIsCurrentHolds == CacheSpec => ServedDocumentIsCurrent
<1> DEFINE P == \A r \in Requests :
                   (req[r].pc = "raw" /\ req'[r].via = "pack" /\ req'[r].pc = "done")
                     => \/ req'[r].doc \in {req[r].hash, doc, Unreadable}
                        \/ Entry(RawKey(req[r])).churned
<1>1. CacheInv /\ [CacheNext]_cacheVars => [P]_cacheVars
    <2>1. SUFFICES ASSUME CacheInv, CacheNext, NEW r \in Requests, req[r].pc = "raw",
                          req'[r].via = "pack", req'[r].pc = "done"
                   PROVE  \/ req'[r].doc \in {req[r].hash, doc, Unreadable}
                          \/ Entry(RawKey(req[r])).churned
        OBVIOUS
    <2>2. RawLookup(r)
        <3>1. StatusLookup(r) \/ RawLookup(r) \/ \E s \in Sources : PartLookup(r, s)
            BY <2>1, LookupsMoveOnlyByLookup DEF Lookups
        <3>. QED  BY <2>1, <3>1 DEF StatusLookup, PartLookup, Sources
    <2> DEFINE k == RawKey(req[r])
               fresh == FileDependenciesFresh(k)
    <2>3. PICK act \in Active, up \in SUBSET Members, dup \in SUBSET Members :
              Answered(r, Outcome(k, fresh, act, up, dup),
                  Delivered([req[r] EXCEPT !.val = Entry(k).val, !.doc = Entry(k).doc], "pack"),
                  "semantic")
        BY <2>2 DEF RawLookup
    <2>4. fresh \in BOOLEAN /\ (fresh => ((k \in DOMAIN l1 \/ Agreed(k)) => Entry(k).dep \in {Unreadable, doc}))
        BY DEF FileDependenciesFresh
    <2>5. k[1] = "raw" /\ k[4] = req[r].hash
        BY DEF RawKey
    <2>6. req[r] \in RequestRecord /\ PartsHeld(version, req[r])
        BY <2>1, RequestKnown
    <2> DEFINE out == Outcome(k, fresh, act, up, dup)
    <2>7. req' = [req EXCEPT ![r] = req'[r]] /\ DOMAIN req = Requests
        <3>1. out \in {"hit", "miss", "throw"} /\ DOMAIN req = Requests
            BY <2>1, <2>4, OutcomeMeans DEF CacheInv, CacheTypeOK, RequestTypes
        <3> HIDE DEF fresh, k, out
        <3>. QED  BY <3>1, <2>3 DEF Answered, Goes, Fails, out
    <2>8. out = "hit"
        <3>1. out \in {"hit", "miss", "throw"}
            BY <2>1, <2>4, OutcomeMeans
        <3>2. CASE out = "miss"
            <4>1. req'[r] = [req[r] EXCEPT !.pc = "semantic"]
                BY <3>2, <2>3, <2>7 DEF Answered, Goes
            <4>. QED  BY <4>1, <2>1, <2>6 DEF RequestRecord
        <3>3. CASE out = "throw"
            <4>1. req'[r] = [Blank EXCEPT !.pc = "failed"]
                BY <3>3, <2>3, <2>7 DEF Answered, Goes, Fails
            <4>2. Blank \in RequestRecord
                BY <2>1, BlankHolds, VersionsAreNaturals
            <4>. QED  BY <4>1, <4>2, <2>1 DEF RequestRecord
        <3>. QED  BY <3>1, <3>2, <3>3
    <2>9. Answers(version, k, Entry(k)) /\ Entry(k).dep \in {Unreadable, doc}
        BY <2>1, <2>4, <2>8, OutcomeMeans
    <2>10. req'[r].doc = Entry(k).doc
        <3>1. req'[r] = Delivered([req[r] EXCEPT !.val = Entry(k).val, !.doc = Entry(k).doc], "pack")
            BY <2>3, <2>7, <2>8 DEF Answered, Goes
        <3> DEFINE e == Entry(k)
                   d == Delivered([req[r] EXCEPT !.val = e.val, !.doc = e.doc], "pack")
        <3>2. Answers(version, RawKey(req[r]), e)
            BY <2>9
        <3> HIDE DEF e, k
        <3>3. d.doc = e.doc
            BY <3>2, <2>1, <2>6, ServedHolds
        <3>. QED  BY <3>1, <3>3 DEF e
    <2> HIDE DEF k
    <2>. QED  BY <2>5, <2>9, <2>10 DEF Answers, k
<1>2. CacheSpec => [][P]_cacheVars
    BY <1>1, CacheInvariant, PTL DEF CacheSpec
<1>. QED  BY <1>2 DEF ServedDocumentIsCurrent

\* While one member has answered every call, an exact hit of L2 is the entry last
\* written there (RedisExactCache.get of redis-exact.ts).
THEOREM ExactHitIsLastWriteHolds == CacheSpec => ExactHitIsLastWrite
<1> DEFINE P == blamed' # Members =>
                  \A k \in DOMAIN l1' :
                    (k \notin DOMAIN l1 /\ \E r \in Requests : /\ req[r].pc \in Lookups
                                                              /\ req'[r].pc # req[r].pc)
                      => k \in DOMAIN last /\ l1'[k] = last[k]
<1>1. CacheInv /\ [CacheNext]_cacheVars => [P]_cacheVars
    <2>1. SUFFICES ASSUME CacheInv, CacheNext, blamed' # Members, NEW k \in DOMAIN l1',
                          k \notin DOMAIN l1, NEW r \in Requests, req[r].pc \in Lookups,
                          req'[r].pc # req[r].pc
                   PROVE  k \in DOMAIN last /\ l1'[k] = last[k]
        OBVIOUS
    <2>2. StatusLookup(r) \/ RawLookup(r) \/ \E s \in Sources : PartLookup(r, s)
        BY <2>1, LookupsMoveOnlyByLookup
    <2>3. \E x, fresh : \E act \in Active, up \in SUBSET Members, dup \in SUBSET Members :
              GetCached(x, fresh, act, up, dup)
        BY <2>2 DEF StatusLookup, RawLookup, PartLookup
    <2>4. version' = version
        BY <2>2 DEF StatusLookup, RawLookup, PartLookup, sources
    <2>. QED  BY <2>1, <2>3, <2>4, LookupEffect
<1>2. CacheSpec => [][P]_cacheVars
    BY <1>1, CacheInvariant, PTL DEF CacheSpec
<1>. QED  BY <1>2 DEF ExactHitIsLastWrite

=============================================================================
