------------------------ MODULE RuntimeDriver_proofs ------------------------
(***************************************************************************)
(* The driver strands no wake, keeps its limit and closes no store in use, *)
(* for every number of drivers and runs, and any failures.                 *)
(***************************************************************************)
EXTENDS RuntimeDriver, FiniteSetTheorems, TLAPS

-----------------------------------------------------------------------------
(* What the operations of a queue of runs preserve.                         *)

\* A finite set has an injective listing, the one SetToSeq chooses.
LEMMA SetToSeqType ==
    ASSUME NEW S, IsFiniteSet(S)
    PROVE  SetToSeq(S) \in Seq(S)
<1>1. Cardinality(S) \in Nat /\ ExistsBijection(1..Cardinality(S), S)
    BY FS_CardinalityType
<1>2. PICK f \in [1..Cardinality(S) -> S] : IsInjective(f)
    BY <1>1 DEF ExistsBijection, Bijection, Injection
<1>3. SetToSeq(S) \in [1..Cardinality(S) -> S]
    BY <1>2 DEF SetToSeq
<1>. QED  BY <1>1, <1>3

\* Adding a list of runs leaves a queue of runs.
LEMMA EnqueueAllType ==
    ASSUME NEW S, IsFiniteSet(S), NEW queue \in Seq(S), NEW runs \in SUBSET S
    PROVE  EnqueueAll(queue, runs) \in Seq(S)
<1>1. runs \ ToSet(queue) \in SUBSET S
    OBVIOUS
<1>2. IsFiniteSet(runs \ ToSet(queue))
    BY <1>1, FS_Subset
<1>3. SetToSeq(runs \ ToSet(queue)) \in Seq(runs \ ToSet(queue))
    BY <1>2, SetToSeqType
<1>4. SetToSeq(runs \ ToSet(queue)) \in Seq(S)
    BY <1>1, <1>3
<1>. QED  BY <1>4 DEF EnqueueAll

\* A batch holds at most n runs of the queue, and leaves a queue of runs.
LEMMA BatchType ==
    ASSUME NEW S, NEW queue \in Seq(S), NEW n \in Nat
    PROVE  /\ Rest(queue, n) \in Seq(S)
           /\ Batch(queue, n) \in SUBSET S
           /\ IsFiniteSet(Batch(queue, n))
           /\ Cardinality(Batch(queue, n)) <= n
<1>. DEFINE k == BatchSize(queue, n)
            front == [i \in 1..k |-> queue[i]]
<1>1. k \in Nat /\ k <= Len(queue) /\ k <= n
    BY DEF BatchSize
<1>2. Rest(queue, n) \in Seq(S) /\ SubSeq(queue, 1, k) = front
    BY <1>1 DEF Rest
<1>. HIDE DEF k
<1>3. Batch(queue, n) = {queue[i] : i \in 1..k} /\ Batch(queue, n) \in SUBSET S
    BY <1>1, <1>2 DEF Batch, ToSet, k
<1>4. IsFiniteSet(1..k) /\ Cardinality(1..k) = k
    BY <1>1, FS_Interval
<1>5. front \in Surjection(1..k, Batch(queue, n))
    BY <1>3 DEF Surjection
<1>6. IsFiniteSet(Batch(queue, n)) /\ Cardinality(Batch(queue, n)) <= k
    BY <1>4, <1>5, FS_Surjection
<1>7. Cardinality(Batch(queue, n)) \in Nat
    BY <1>6, FS_CardinalityType
<1>. QED  BY <1>1, <1>2, <1>3, <1>6, <1>7

-----------------------------------------------------------------------------
(* The driver.                                                              *)

Inv ==
    /\ TypeOK
    /\ ControlInv /\ FreshInv /\ SweepInv /\ DrainInv
    /\ NoStrandedWake
    /\ StoreOpenWhileUsed
    /\ ParallelBound

-----------------------------------------------------------------------------
(* wake() and drain().                                                      *)

\* wake() queues the run in a driver that runs and sees to a drain.
LEMMA WakeFacts ==
    ASSUME TypeOK, NoStrandedWake, NEW d \in Drivers, NEW r \in Runs, Wake(d, r),
           UNCHANGED <<started, drain>>
    PROVE  /\ pending' \in [Drivers -> Seq(Runs)]
           /\ scheduled' \in [Drivers -> BOOLEAN]
           /\ NoStrandedWake'
           /\ \A e \in Drivers : ~started[e] => UNCHANGED <<pending[e], scheduled[e]>>
<1>. DEFINE queue == Enqueue(pending[d], r)
<1>1. pending[d] \in Seq(Runs)
    BY DEF TypeOK
<1>2. queue \in Seq(Runs)
    BY <1>1 DEF Enqueue
<1>. HIDE DEF queue
<1>3. CASE started[d]
    <2>1. pending' = [pending EXCEPT ![d] = queue]
          /\ scheduled' = [scheduled EXCEPT ![d] = ScheduleDrain(d, queue, drain[d])]
        BY <1>3 DEF Wake, queue
    <2>2. ScheduleDrain(d, queue, drain[d]) \in BOOLEAN
        BY DEF ScheduleDrain
    <2>3. pending' \in [Drivers -> Seq(Runs)] /\ scheduled' \in [Drivers -> BOOLEAN]
        BY <1>2, <2>1, <2>2 DEF TypeOK
    <2>4. ASSUME NEW e \in Drivers, started'[e], pending'[e] # <<>>
          PROVE  scheduled'[e] \/ drain'[e] # "none"
        <3>1. CASE e # d
            BY <2>1, <2>4, <3>1 DEF TypeOK, NoStrandedWake
        <3>2. CASE e = d
            <4>1. pending'[d] = queue /\ scheduled'[d] = ScheduleDrain(d, queue, drain[d])
                BY <2>1 DEF TypeOK
            <4>2. queue # <<>> /\ started[d]
                BY <1>3, <2>4, <3>2, <4>1
            <4>3. ScheduleDrain(d, queue, drain[d]) \/ drain[d] = "busy"
                BY <4>2 DEF ScheduleDrain
            <4>. QED  BY <3>2, <4>1, <4>3
        <3>. QED  BY <3>1, <3>2
    <2>5. \A e \in Drivers : ~started[e] => UNCHANGED <<pending[e], scheduled[e]>>
        BY <1>3, <2>1 DEF TypeOK
    <2>. QED  BY <2>3, <2>4, <2>5 DEF NoStrandedWake
<1>4. CASE ~started[d]
    <2>1. UNCHANGED <<pending, scheduled>>
        BY <1>4 DEF Wake
    <2>. QED  BY <2>1 DEF TypeOK, NoStrandedWake
<1>. QED  BY <1>3, <1>4

\* A turn of the drain loop that finds no pass running begins at most
\* ReconcileParallel of them.
LEMMA DrainTurnFacts ==
    ASSUME TypeOK, ParallelBound, DrainInv, NEW d \in Drivers, NEW queue \in Seq(Runs),
           pass[d] = AllIdle, DrainTurn(d, queue)
    PROVE  /\ pending' \in [Drivers -> Seq(Runs)]
           /\ drain' \in [Drivers -> {"none", "busy", "ending"}]
           /\ pass' \in [Drivers -> [Runs -> {"idle", "load", "hold"}]]
           /\ \A e \in Drivers : e # d => UNCHANGED <<pending[e], drain[e], pass[e]>>
           /\ drain'[d] # "none"
           /\ drain'[d] # "busy" => pass'[d] = AllIdle
           /\ \A r \in Runs : pass'[d][r] # "hold"
           /\ ~started[d] => pending'[d] = queue
           /\ ParallelBound'
<1>1. CASE queue # <<>> /\ started[d]
    <2>. DEFINE batch == Batch(queue, ReconcileParallel)
                begun == [r \in Runs |-> IF r \in batch THEN "load" ELSE "idle"]
    <2>1. /\ Rest(queue, ReconcileParallel) \in Seq(Runs)
          /\ batch \in SUBSET Runs
          /\ IsFiniteSet(batch)
          /\ Cardinality(batch) <= ReconcileParallel
        BY ReconcileParallelAssumption, BatchType
    <2>2. /\ pending' = [pending EXCEPT ![d] = Rest(queue, ReconcileParallel)]
          /\ pass' = [pass EXCEPT ![d] = begun]
          /\ drain' = [drain EXCEPT ![d] = "busy"]
        <3>1. \A r \in Runs : pass[d][r] = "idle"
            BY DEF AllIdle
        <3>. QED  BY <1>1, <3>1 DEF DrainTurn, TypeOK
    <2>. HIDE DEF batch
    <2>3. begun \in [Runs -> {"idle", "load", "hold"}]
        OBVIOUS
    <2>4. {r \in Runs : begun[r] # "idle"} = batch
        BY <2>1
    <2>5. \A r \in Runs : begun[r] # "hold"
        OBVIOUS
    <2>. HIDE DEF begun
    <2>6. /\ pending' \in [Drivers -> Seq(Runs)]
          /\ drain' \in [Drivers -> {"none", "busy", "ending"}]
          /\ pass' \in [Drivers -> [Runs -> {"idle", "load", "hold"}]]
          /\ \A e \in Drivers : e # d => UNCHANGED <<pending[e], drain[e], pass[e]>>
          /\ drain'[d] = "busy"
          /\ pass'[d] = begun
        BY <2>1, <2>2, <2>3 DEF TypeOK
    <2>7. ASSUME NEW e \in Drivers
          PROVE  Cardinality({r \in Runs : pass'[e][r] # "idle"}) <= ReconcileParallel
        <3>1. CASE e = d
            BY <2>1, <2>4, <2>6, <3>1
        <3>2. CASE e # d
            <4>1. pass'[e] = pass[e]
                BY <2>6, <3>2
            <4>. QED  BY <4>1 DEF ParallelBound
        <3>. QED  BY <3>1, <3>2
    <2>. QED  BY <1>1, <2>5, <2>6, <2>7 DEF ParallelBound
<1>2. CASE ~(queue # <<>> /\ started[d])
    <2>1. /\ pending' = [pending EXCEPT ![d] = queue]
          /\ drain' = [drain EXCEPT ![d] = "ending"]
          /\ pass' = pass
        BY <1>2 DEF DrainTurn
    <2>2. \A r \in Runs : pass'[d][r] # "hold"
        BY <2>1 DEF AllIdle
    <2>. QED  BY <2>1, <2>2 DEF TypeOK, ParallelBound
<1>. QED  BY <1>1, <1>2

\* drain() starts the loop at most once at a time, and leaves a queue behind
\* only in a driver that is draining or stopped.
LEMMA DrainFacts ==
    ASSUME Inv, NEW d \in Drivers, NEW queue \in Seq(Runs), Drain(d, queue)
    PROVE  /\ pending' \in [Drivers -> Seq(Runs)]
           /\ drain' \in [Drivers -> {"none", "busy", "ending"}]
           /\ pass' \in [Drivers -> [Runs -> {"idle", "load", "hold"}]]
           /\ \A e \in Drivers : e # d => UNCHANGED <<pending[e], drain[e], pass[e]>>
           /\ drain'[d] = "none" => ~started[d]
           /\ drain'[d] # "none" => drain[d] # "none" \/ started[d]
           /\ drain'[d] # "busy" => pass'[d] = AllIdle
           /\ \A r \in Runs : pass'[d][r] = "hold" => pass[d][r] = "hold"
           /\ ~started[d] => pending'[d] = queue
           /\ ParallelBound'
<1>1. CASE drain[d] = "none" /\ started[d]
    <2>1. pass[d] = AllIdle
        BY <1>1 DEF Inv, DrainInv
    <2>2. DrainTurn(d, queue)
        BY <1>1 DEF Drain
    <2>. QED  BY <1>1, <2>1, <2>2, DrainTurnFacts DEF Inv
<1>2. CASE ~(drain[d] = "none" /\ started[d])
    <2>1. pending' = [pending EXCEPT ![d] = queue] /\ UNCHANGED <<drain, pass>>
        BY <1>2 DEF Drain
    <2>2. pending' \in [Drivers -> Seq(Runs)]
          /\ pending'[d] = queue
          /\ \A e \in Drivers : e # d => UNCHANGED pending[e]
        BY <2>1 DEF Inv, TypeOK
    <2>. QED  BY <1>2, <2>1, <2>2 DEF Inv, TypeOK, DrainInv, ParallelBound
<1>. QED  BY <1>1, <1>2

\* Moving one pass on starts none.
LEMMA PassToFacts ==
    ASSUME Inv, NEW d \in Drivers, NEW r \in Runs, NEW phase \in {"idle", "hold"},
           pass[d][r] # "idle", PassTo(d, r, phase), UNCHANGED <<drain, step>>
    PROVE  /\ pass' \in [Drivers -> [Runs -> {"idle", "load", "hold"}]]
           /\ DrainInv'
           /\ ParallelBound'
           /\ \A e \in Drivers, q \in Runs :
                 <<e, q>> # <<d, r>> => UNCHANGED pass[e][q]
           /\ pass'[d][r] = phase
<1>1. /\ pass' \in [Drivers -> [Runs -> {"idle", "load", "hold"}]]
      /\ \A e \in Drivers : e # d => UNCHANGED pass[e]
      /\ \A q \in Runs : q # r => UNCHANGED pass[d][q]
      /\ pass'[d][r] = phase
    BY DEF PassTo, Inv, TypeOK
<1>2. drain[d] = "busy"
    BY DEF Inv, DrainInv, AllIdle
<1>3. DrainInv'
    BY <1>1, <1>2 DEF Inv, DrainInv, AllIdle
<1>4. ASSUME NEW e \in Drivers
      PROVE  Cardinality({q \in Runs : pass'[e][q] # "idle"}) <= ReconcileParallel
    <2>. DEFINE before == {q \in Runs : pass[e][q] # "idle"}
                after == {q \in Runs : pass'[e][q] # "idle"}
    <2>1. after \in SUBSET before
        BY <1>1
    <2>2. before \in SUBSET Runs
        OBVIOUS
    <2>3. Cardinality(before) <= ReconcileParallel
        BY DEF Inv, ParallelBound
    <2>. HIDE DEF before, after
    <2>4. IsFiniteSet(before)
        BY <2>2, RunsAssumption, FS_Subset
    <2>5. IsFiniteSet(after) /\ Cardinality(after) <= Cardinality(before)
        BY <2>1, <2>4, FS_Subset
    <2>6. Cardinality(after) \in Nat /\ Cardinality(before) \in Nat
        BY <2>4, <2>5, FS_CardinalityType
    <2>7. Cardinality(after) <= ReconcileParallel
        BY <2>3, <2>5, <2>6, ReconcileParallelAssumption
    <2>. QED  BY <2>7 DEF after
<1>5. ParallelBound'
    BY <1>4 DEF ParallelBound
<1>. QED  BY <1>1, <1>3, <1>5
\* A step of the environment leaves the drivers as they are.
LEMMA Untouched ==
    ASSUME Inv, TypeOK', ControlInv', UNCHANGED <<startup, started, sweeping, queueing, loading>>
    PROVE  Inv'
<1>1. FreshInv' /\ SweepInv'
    BY DEF Inv, FreshInv, SweepInv, startup, sweeping, queueing
<1>2. DrainInv' /\ NoStrandedWake' /\ ParallelBound'
    BY DEF Inv, DrainInv, NoStrandedWake, ParallelBound, startup, queueing
<1>3. StoreOpenWhileUsed'
    BY DEF Inv, StoreOpenWhileUsed, startup, sweeping, queueing
<1>. QED  BY <1>1, <1>2, <1>3 DEF Inv

-----------------------------------------------------------------------------
(* The steps.                                                               *)

\* Every step preserves the invariant.
LEMMA InvStep ==
    ASSUME Inv, [Next]_vars
    PROVE  Inv'
<1>1. ASSUME NEW d \in Drivers, Request(d) PROVE Inv'
    <2>1. TypeOK'
        BY <1>1 DEF Request, Inv, TypeOK, rows, control, startup, sweeping, queueing
    <2>2. ControlInv' /\ FreshInv' /\ SweepInv'
        BY <1>1 DEF Request, Inv, TypeOK, ControlInv, FreshInv, SweepInv, rows, control, startup, sweeping, queueing
    <2>3. DrainInv' /\ NoStrandedWake' /\ StoreOpenWhileUsed' /\ ParallelBound'
        BY <1>1 DEF Request, Inv, TypeOK, FreshInv, SweepInv, DrainInv, NoStrandedWake,
                    StoreOpenWhileUsed, ParallelBound, rows, control, startup, sweeping, queueing
    <2>. QED  BY <2>1, <2>2, <2>3 DEF Inv
<1>2. ASSUME NEW d \in Drivers, Construct(d) PROVE Inv'
    <2>1. TypeOK'
        BY <1>2 DEF Construct, Inv, TypeOK, rows, control, startup, sweeping, queueing
    <2>2. ControlInv' /\ FreshInv' /\ SweepInv'
        BY <1>2 DEF Construct, Inv, TypeOK, ControlInv, FreshInv, SweepInv, rows, control, startup, sweeping, queueing
    <2>3. DrainInv' /\ NoStrandedWake' /\ StoreOpenWhileUsed' /\ ParallelBound'
        BY <1>2 DEF Construct, Inv, TypeOK, FreshInv, SweepInv, DrainInv, NoStrandedWake,
                    StoreOpenWhileUsed, ParallelBound, rows, control, startup, sweeping, queueing
    <2>. QED  BY <2>1, <2>2, <2>3 DEF Inv
<1>3. ASSUME NEW d \in Drivers, StartOpen(d) PROVE Inv'
    <2>1. TypeOK'
        BY <1>3 DEF StartOpen, Inv, TypeOK, rows, control, startup, sweeping, queueing
    <2>2. ControlInv' /\ FreshInv' /\ SweepInv'
        BY <1>3 DEF StartOpen, Inv, TypeOK, ControlInv, FreshInv, SweepInv, rows, control, startup, sweeping, queueing
    <2>3. DrainInv' /\ NoStrandedWake' /\ StoreOpenWhileUsed' /\ ParallelBound'
        BY <1>3 DEF StartOpen, Inv, TypeOK, FreshInv, SweepInv, DrainInv, NoStrandedWake,
                    StoreOpenWhileUsed, ParallelBound, rows, control, startup, sweeping, queueing
    <2>. QED  BY <2>1, <2>2, <2>3 DEF Inv
<1>4. ASSUME NEW d \in Drivers, StartOpenFails(d) PROVE Inv'
    <2>1. TypeOK'
        BY <1>4, BoundsAssumption DEF StartOpenFails, Disturb, Inv, TypeOK, rows, control, startup, sweeping, queueing
    <2>2. ControlInv' /\ FreshInv' /\ SweepInv'
        BY <1>4 DEF StartOpenFails, Disturb, Inv, TypeOK, ControlInv, FreshInv, SweepInv, rows, control, startup, sweeping, queueing
    <2>3. DrainInv' /\ NoStrandedWake' /\ StoreOpenWhileUsed' /\ ParallelBound'
        BY <1>4 DEF StartOpenFails, Disturb, Inv, TypeOK, FreshInv, SweepInv, DrainInv, NoStrandedWake,
                    StoreOpenWhileUsed, ParallelBound, rows, control, startup, sweeping, queueing
    <2>. QED  BY <2>1, <2>2, <2>3 DEF Inv
<1>5. ASSUME NEW d \in Drivers, StartListen(d) PROVE Inv'
    <2>1. /\ step' \in [Drivers -> {"none", "open", "listen", "sweep", "done", "failed"}]
          /\ sweep' \in [Drivers -> {"none", "list", "add", "wait", "ended"}]
          /\ \A e \in Drivers : e # d => UNCHANGED <<step[e], sweep[e]>>
          /\ IF started[d] THEN step'[d] = "sweep" /\ sweep'[d] = "list"
             ELSE step'[d] = "done" /\ sweep'[d] = sweep[d]
        <3>1. CASE started[d]
            <4>1. step' = [step EXCEPT ![d] = "sweep"] /\ sweep' = [sweep EXCEPT ![d] = "list"]
                BY <1>5, <3>1 DEF StartListen, FirstSweep
            <4>. QED  BY <3>1, <4>1 DEF Inv, TypeOK
        <3>2. CASE ~started[d]
            BY <1>5, <3>2 DEF StartListen, FirstSweep, Inv, TypeOK
        <3>. QED  BY <3>1, <3>2
    <2>2. TypeOK'
        BY <1>5, <2>1 DEF StartListen, Inv, TypeOK, rows, control, startup, sweeping, queueing
    <2>3. ControlInv'
        BY <1>5 DEF StartListen, Inv, ControlInv, control
    <2>4. FreshInv'
        BY <1>5, <2>1 DEF StartListen, Inv, FreshInv, control, queueing
    <2>5. SweepInv'
        <3>1. step[d] = "listen" /\ UNCHANGED <<started, store, timer, stopping>>
            BY <1>5 DEF StartListen
        <3>2. ASSUME NEW e \in Drivers
              PROVE  /\ sweep'[e] # "none" => step'[e] \in {"sweep", "done"}
                     /\ timer'[e] => started'[e] /\ step'[e] = "done"
                     /\ started'[e] /\ step'[e] \notin {"none", "open"} => store'[e]
                     /\ stopping'[e] # "no" => ~started'[e]
            <4>1. CASE e = d
                BY <2>1, <3>1, <4>1 DEF Inv, SweepInv
            <4>2. CASE e # d
                BY <2>1, <3>1, <4>2 DEF Inv, SweepInv
            <4>. QED  BY <4>1, <4>2
        <3>. QED  BY <3>2 DEF SweepInv
    <2>6. DrainInv' /\ NoStrandedWake' /\ ParallelBound'
        BY <1>5, <2>1 DEF StartListen, Inv, DrainInv, NoStrandedWake, ParallelBound, queueing
    <2>7. StoreOpenWhileUsed'
        BY <1>5, <2>1 DEF StartListen, Inv, SweepInv, StoreOpenWhileUsed, queueing
    <2>. QED  BY <2>2, <2>3, <2>4, <2>5, <2>6, <2>7 DEF Inv
<1>6. ASSUME NEW d \in Drivers, StartListenFails(d) PROVE Inv'
    <2>1. /\ step' \in [Drivers -> {"none", "open", "listen", "sweep", "done", "failed"}]
          /\ sweep' \in [Drivers -> {"none", "list", "add", "wait", "ended"}]
          /\ \A e \in Drivers : e # d => UNCHANGED <<step[e], sweep[e]>>
          /\ IF started[d] THEN step'[d] = "sweep" /\ sweep'[d] = "list"
             ELSE step'[d] = "done" /\ sweep'[d] = sweep[d]
        <3>1. CASE started[d]
            <4>1. step' = [step EXCEPT ![d] = "sweep"] /\ sweep' = [sweep EXCEPT ![d] = "list"]
                BY <1>6, <3>1 DEF StartListenFails, FirstSweep
            <4>. QED  BY <3>1, <4>1 DEF Inv, TypeOK
        <3>2. CASE ~started[d]
            BY <1>6, <3>2 DEF StartListenFails, FirstSweep, Inv, TypeOK
        <3>. QED  BY <3>1, <3>2
    <2>2. TypeOK'
        BY <1>6, <2>1, BoundsAssumption DEF StartListenFails, Disturb, Inv, TypeOK, rows, control, startup, sweeping, queueing
    <2>3. ControlInv'
        BY <1>6 DEF StartListenFails, Inv, ControlInv, control
    <2>4. FreshInv'
        BY <1>6, <2>1 DEF StartListenFails, Inv, FreshInv, control, queueing
    <2>5. SweepInv'
        <3>1. step[d] = "listen" /\ UNCHANGED <<started, store, timer, stopping>>
            BY <1>6 DEF StartListenFails
        <3>2. ASSUME NEW e \in Drivers
              PROVE  /\ sweep'[e] # "none" => step'[e] \in {"sweep", "done"}
                     /\ timer'[e] => started'[e] /\ step'[e] = "done"
                     /\ started'[e] /\ step'[e] \notin {"none", "open"} => store'[e]
                     /\ stopping'[e] # "no" => ~started'[e]
            <4>1. CASE e = d
                BY <2>1, <3>1, <4>1 DEF Inv, SweepInv
            <4>2. CASE e # d
                BY <2>1, <3>1, <4>2 DEF Inv, SweepInv
            <4>. QED  BY <4>1, <4>2
        <3>. QED  BY <3>2 DEF SweepInv
    <2>6. DrainInv' /\ NoStrandedWake' /\ ParallelBound'
        BY <1>6, <2>1 DEF StartListenFails, Inv, DrainInv, NoStrandedWake, ParallelBound, queueing
    <2>7. StoreOpenWhileUsed'
        BY <1>6, <2>1 DEF StartListenFails, Inv, SweepInv, StoreOpenWhileUsed, queueing
    <2>. QED  BY <2>2, <2>3, <2>4, <2>5, <2>6, <2>7 DEF Inv
<1>7. ASSUME NEW d \in Drivers, ListenerLost(d) PROVE Inv'
    <2>1. TypeOK'
        BY <1>7, BoundsAssumption DEF ListenerLost, Disturb, Inv, TypeOK, rows, control, startup, sweeping, queueing
    <2>2. ControlInv' /\ FreshInv' /\ SweepInv'
        BY <1>7 DEF ListenerLost, Disturb, Inv, TypeOK, ControlInv, FreshInv, SweepInv, rows, control, startup, sweeping, queueing
    <2>3. DrainInv' /\ NoStrandedWake' /\ StoreOpenWhileUsed' /\ ParallelBound'
        BY <1>7 DEF ListenerLost, Disturb, Inv, TypeOK, FreshInv, SweepInv, DrainInv, NoStrandedWake,
                    StoreOpenWhileUsed, ParallelBound, rows, control, startup, sweeping, queueing
    <2>. QED  BY <2>1, <2>2, <2>3 DEF Inv
<1>8. ASSUME NEW d \in Drivers, Stop(d) PROVE Inv'
    <2>1. TypeOK'
        BY <1>8, BoundsAssumption DEF Stop, Disturb, Inv, TypeOK, rows, control, startup, sweeping, queueing
    <2>2. ControlInv' /\ FreshInv' /\ SweepInv'
        BY <1>8 DEF Stop, Disturb, Inv, TypeOK, ControlInv, FreshInv, SweepInv, rows, control, startup, sweeping, queueing
    <2>3. DrainInv' /\ NoStrandedWake' /\ StoreOpenWhileUsed' /\ ParallelBound'
        BY <1>8 DEF Stop, Disturb, Inv, TypeOK, FreshInv, SweepInv, DrainInv, NoStrandedWake,
                    StoreOpenWhileUsed, ParallelBound, rows, control, startup, sweeping, queueing
    <2>. QED  BY <2>1, <2>2, <2>3 DEF Inv
<1>9. ASSUME NEW d \in Drivers, StopClear(d) PROVE Inv'
    <2>1. TypeOK'
        BY <1>9 DEF StopClear, Inv, TypeOK, rows, control, startup, sweeping, queueing
    <2>2. ControlInv' /\ FreshInv' /\ SweepInv'
        BY <1>9 DEF StopClear, Inv, TypeOK, ControlInv, FreshInv, SweepInv, rows, control, startup, sweeping, queueing
    <2>3. DrainInv' /\ NoStrandedWake' /\ StoreOpenWhileUsed' /\ ParallelBound'
        BY <1>9 DEF StopClear, Inv, TypeOK, FreshInv, SweepInv, DrainInv, NoStrandedWake,
                    StoreOpenWhileUsed, ParallelBound, rows, control, startup, sweeping, queueing
    <2>. QED  BY <2>1, <2>2, <2>3 DEF Inv
<1>10. ASSUME NEW d \in Drivers, StopClose(d) PROVE Inv'
    <2>1. TypeOK'
        BY <1>10 DEF StopClose, Inv, TypeOK, rows, control, startup, sweeping, queueing
    <2>2. ControlInv' /\ FreshInv' /\ SweepInv'
        BY <1>10 DEF StopClose, Inv, TypeOK, ControlInv, FreshInv, SweepInv, control, sweeping,
                    queueing
    <2>3. DrainInv' /\ NoStrandedWake' /\ ParallelBound'
        BY <1>10 DEF StopClose, Inv, DrainInv, NoStrandedWake, ParallelBound, queueing
    <2>4. \A r \in Runs : pass[d][r] # "hold"
        BY <1>10 DEF StopClose, Inv, DrainInv, AllIdle
    <2>5. StoreOpenWhileUsed'
        BY <1>10, <2>4 DEF StopClose, Inv, TypeOK, StoreOpenWhileUsed, sweeping, queueing
    <2>. QED  BY <2>1, <2>2, <2>3, <2>5 DEF Inv
<1>11. ASSUME NEW d \in Drivers, SweepTimer(d) PROVE Inv'
    <2>1. TypeOK'
        BY <1>11 DEF SweepTimer, Inv, TypeOK, rows, control, startup, sweeping, queueing
    <2>2. ControlInv' /\ FreshInv' /\ SweepInv'
        BY <1>11 DEF SweepTimer, Inv, TypeOK, ControlInv, FreshInv, SweepInv, rows, control, startup, sweeping, queueing
    <2>3. DrainInv' /\ NoStrandedWake' /\ StoreOpenWhileUsed' /\ ParallelBound'
        BY <1>11 DEF SweepTimer, Inv, TypeOK, FreshInv, SweepInv, DrainInv, NoStrandedWake,
                    StoreOpenWhileUsed, ParallelBound, rows, control, startup, sweeping, queueing
    <2>. QED  BY <2>1, <2>2, <2>3 DEF Inv
<1>12. ASSUME NEW d \in Drivers, SweepList(d) PROVE Inv'
    <2>1. TypeOK'
        BY <1>12 DEF SweepList, RunnableRuns, Inv, TypeOK, rows, control, startup, sweeping, queueing
    <2>2. ControlInv' /\ FreshInv' /\ SweepInv'
        BY <1>12 DEF SweepList, RunnableRuns, Inv, TypeOK, ControlInv, FreshInv, SweepInv, rows, control, startup, sweeping, queueing
    <2>3. DrainInv' /\ NoStrandedWake' /\ StoreOpenWhileUsed' /\ ParallelBound'
        BY <1>12 DEF SweepList, RunnableRuns, Inv, TypeOK, FreshInv, SweepInv, DrainInv, NoStrandedWake,
                    StoreOpenWhileUsed, ParallelBound, rows, control, startup, sweeping, queueing
    <2>. QED  BY <2>1, <2>2, <2>3 DEF Inv
<1>13. ASSUME NEW d \in Drivers, SweepEnd(d) PROVE Inv'
    <2>1. TypeOK'
        BY <1>13 DEF SweepEnd, Inv, TypeOK, rows, control, startup, sweeping, queueing
    <2>2. ControlInv' /\ FreshInv' /\ SweepInv'
        BY <1>13 DEF SweepEnd, Inv, TypeOK, ControlInv, FreshInv, SweepInv, rows, control, startup, sweeping, queueing
    <2>3. DrainInv' /\ NoStrandedWake' /\ StoreOpenWhileUsed' /\ ParallelBound'
        BY <1>13 DEF SweepEnd, Inv, TypeOK, FreshInv, SweepInv, DrainInv, NoStrandedWake,
                    StoreOpenWhileUsed, ParallelBound, rows, control, startup, sweeping, queueing
    <2>. QED  BY <2>1, <2>2, <2>3 DEF Inv
<1>14. ASSUME NEW d \in Drivers, SweepFails(d) PROVE Inv'
    <2>1. /\ step' \in [Drivers -> {"none", "open", "listen", "sweep", "done", "failed"}]
          /\ timer' \in [Drivers -> BOOLEAN]
        <3>1. CASE step[d] = "sweep"
            <4>1. step' = [step EXCEPT ![d] = "failed"] /\ timer' = timer
                BY <1>14, <3>1 DEF SweepFails
            <4>. QED  BY <4>1 DEF Inv, TypeOK
        <3>2. CASE step[d] # "sweep"
            <4>1. timer' = [timer EXCEPT ![d] = started[d]] /\ step' = step
                BY <1>14, <3>2 DEF SweepFails
            <4>2. started[d] \in BOOLEAN
                BY DEF Inv, TypeOK
            <4>. QED  BY <4>1, <4>2 DEF Inv, TypeOK
        <3>. QED  BY <3>1, <3>2
    <2>a. disturbed' \in 0..MaxDisturbances
        BY <1>14, BoundsAssumption DEF SweepFails, Disturb, Inv, TypeOK
    <2>2. TypeOK'
        BY <1>14, <2>1, <2>a DEF SweepFails, Inv, TypeOK, rows, control, startup, sweeping, queueing
    <2>3. ControlInv' /\ FreshInv' /\ SweepInv'
        BY <1>14 DEF SweepFails, Inv, TypeOK, ControlInv, FreshInv, SweepInv, control, queueing
    <2>4. DrainInv' /\ NoStrandedWake' /\ StoreOpenWhileUsed' /\ ParallelBound'
        BY <1>14 DEF SweepFails, Inv, TypeOK, SweepInv, DrainInv, NoStrandedWake,
                    StoreOpenWhileUsed, ParallelBound, queueing
    <2>. QED  BY <2>2, <2>3, <2>4 DEF Inv
<1>15. ASSUME NEW d \in Drivers, DrainFinally(d) PROVE Inv'
    <2>1. TypeOK'
        BY <1>15 DEF DrainFinally, ScheduleDrain, Inv, TypeOK, rows, control, startup, sweeping, queueing
    <2>2. ControlInv' /\ FreshInv' /\ SweepInv'
        BY <1>15 DEF DrainFinally, ScheduleDrain, Inv, TypeOK, ControlInv, FreshInv, SweepInv, rows, control, startup, sweeping, queueing
    <2>3. DrainInv' /\ NoStrandedWake' /\ StoreOpenWhileUsed' /\ ParallelBound'
        BY <1>15 DEF DrainFinally, ScheduleDrain, Inv, TypeOK, FreshInv, SweepInv, DrainInv, NoStrandedWake,
                    StoreOpenWhileUsed, ParallelBound, rows, control, startup, sweeping, queueing
    <2>. QED  BY <2>1, <2>2, <2>3 DEF Inv
<1>16. ASSUME NEW r \in Runs, StartRun(r) PROVE Inv'
    <2>1. TypeOK'
        BY <1>16, BoundsAssumption DEF StartRun, Notify, Changed, Inv, TypeOK, rows, control, startup, sweeping, queueing
    <2>2. ControlInv'
        BY <1>16 DEF StartRun, Inv, ControlInv, control
    <2>. QED  BY <1>16, <2>1, <2>2, Untouched DEF StartRun, control
<1>17. ASSUME NEW r \in Runs, Resume(r) PROVE Inv'
    <2>1. TypeOK'
        BY <1>17, BoundsAssumption DEF Resume, Notify, Changed, Inv, TypeOK, rows, control, startup, sweeping, queueing
    <2>2. ControlInv'
        BY <1>17 DEF Resume, Inv, ControlInv, control
    <2>. QED  BY <1>17, <2>1, <2>2, Untouched DEF Resume, control
<1>18. ASSUME NEW r \in Runs, Cancel(r) PROVE Inv'
    <2>1. TypeOK'
        BY <1>18, BoundsAssumption DEF Cancel, Notify, Changed, Inv, TypeOK, rows, control, startup, sweeping, queueing
    <2>2. ControlInv'
        BY <1>18 DEF Cancel, Inv, ControlInv, control
    <2>. QED  BY <1>18, <2>1, <2>2, Untouched DEF Cancel, control
<1>19. ASSUME NEW r \in Runs, Change(r) PROVE Inv'
    <2>1. TypeOK'
        BY <1>19, BoundsAssumption DEF Change, Notify, Changed, Inv, TypeOK, rows, control, startup, sweeping, queueing
    <2>2. ControlInv'
        BY <1>19 DEF Change, Inv, ControlInv, control
    <2>. QED  BY <1>19, <2>1, <2>2, Untouched DEF Change, control
<1>19a. ASSUME NEW r \in Runs, ConsumeScheduler(r) PROVE Inv'
    <2>1. TypeOK'
        BY <1>19a, BoundsAssumption DEF ConsumeScheduler, Notify, Changed, Inv, TypeOK, rows, control, startup, sweeping, queueing
    <2>2. ControlInv'
        BY <1>19a DEF ConsumeScheduler, Inv, ControlInv, control
    <2>. QED  BY <1>19a, <2>1, <2>2, Untouched DEF ConsumeScheduler, control
<1>20. ASSUME NEW r \in Runs, SilentChange(r) PROVE Inv'
    <2>1. TypeOK'
        BY <1>20, BoundsAssumption DEF SilentChange, Changed, Inv, TypeOK, rows, control, startup, sweeping, queueing
    <2>2. ControlInv'
        BY <1>20 DEF SilentChange, Inv, ControlInv, control
    <2>. QED  BY <1>20, <2>1, <2>2, Untouched DEF SilentChange, control
<1>21. ASSUME NEW r \in Runs, RivalClaims(r) PROVE Inv'
    <2>1. TypeOK'
        BY <1>21, BoundsAssumption DEF RivalClaims, Disturb, Inv, TypeOK, rows, control, startup, sweeping, queueing
    <2>2. ControlInv'
        BY <1>21 DEF RivalClaims, Inv, ControlInv, control
    <2>. QED  BY <1>21, <2>1, <2>2, Untouched DEF RivalClaims, control
<1>22. ASSUME NEW r \in Runs, RivalReleases(r) PROVE Inv'
    <2>1. TypeOK'
        BY <1>22 DEF RivalReleases, Inv, TypeOK, rows, control, startup, sweeping, queueing
    <2>2. ControlInv'
        BY <1>22 DEF RivalReleases, Inv, ControlInv, control
    <2>. QED  BY <1>22, <2>1, <2>2, Untouched DEF RivalReleases, control
<1>23. CASE Crash
    <2>1. TypeOK'
        <3>1. disturbed' \in 0..MaxDisturbances /\ changes' \in 0..MaxChanges
            BY <1>23, BoundsAssumption DEF Crash, Disturb, Inv, TypeOK
        <3>2. /\ status' \in [Runs -> {"absent", "active", "ended"}]
              /\ lease' \in [Runs -> {"free", "self", "rival"}]
            BY <1>23 DEF Crash, Inv, TypeOK
        <3>3. work' \in [Runs -> BOOLEAN]
            BY <1>23, Zenon DEF Crash, Inv, TypeOK
        <3>4. pending' \in [Drivers -> Seq(Runs)]
            BY <1>23 DEF Crash
        <3>5. pass' \in [Drivers -> [Runs -> {"idle", "load", "hold"}]]
            BY <1>23 DEF Crash, AllIdle
        <3>6. /\ step' \in [Drivers -> {"none", "open", "listen", "sweep", "done", "failed"}]
              /\ stopping' \in [Drivers -> {"no", "clear", "wait", "closed"}]
              /\ drain' \in [Drivers -> {"none", "busy", "ending"}]
              /\ sweep' \in [Drivers -> {"none", "list", "add", "wait", "ended"}]
            BY <1>23 DEF Crash
        <3>7. /\ started' \in [Drivers -> BOOLEAN] /\ store' \in [Drivers -> BOOLEAN]
              /\ listening' \in [Drivers -> BOOLEAN] /\ timer' \in [Drivers -> BOOLEAN]
              /\ scheduled' \in [Drivers -> BOOLEAN]
            BY <1>23 DEF Crash
        <3>8. notices' \in [Drivers -> SUBSET Runs] /\ swept' \in [Drivers -> SUBSET Runs]
            BY <1>23 DEF Crash
        <3>9. /\ initialized' \in BOOLEAN /\ loading' \subseteq Drivers /\ owed' \subseteq Runs
              /\ current' \in Drivers \cup {NoDriver}
            BY <1>23 DEF Crash
        <3>. QED  BY <3>1, <3>2, <3>3, <3>4, <3>5, <3>6, <3>7, <3>8, <3>9 DEF TypeOK
    <2>2. ControlInv' /\ FreshInv' /\ SweepInv' /\ DrainInv'
        BY <1>23 DEF Crash, ControlInv, FreshInv, SweepInv, DrainInv
    <2>3. NoStrandedWake' /\ StoreOpenWhileUsed'
        BY <1>23 DEF Crash, NoStrandedWake, StoreOpenWhileUsed, AllIdle
    <2>4. ParallelBound'
        <3>1. \A d \in Drivers : {r \in Runs : pass'[d][r] # "idle"} = {}
            BY <1>23 DEF Crash, AllIdle
        <3>. QED  BY <3>1, FS_EmptySet, ReconcileParallelAssumption DEF ParallelBound
    <2>. QED  BY <2>1, <2>2, <2>3, <2>4 DEF Inv
<1>24. ASSUME NEW d \in Drivers, Notification(d) PROVE Inv'
    <2>1. PICK r \in Runs : Wake(d, r) /\ notices' = [notices EXCEPT ![d] = @ \ {r}]
        BY <1>24 DEF Notification, Inv, TypeOK
    <2>a. notices' \in [Drivers -> SUBSET Runs]
        BY <2>1 DEF Inv, TypeOK
    <2>2. /\ pending' \in [Drivers -> Seq(Runs)]
          /\ scheduled' \in [Drivers -> BOOLEAN]
          /\ NoStrandedWake'
          /\ \A e \in Drivers : ~started[e] => UNCHANGED <<pending[e], scheduled[e]>>
        BY <1>24, <2>1, WakeFacts DEF Notification, Inv
    <2>3. TypeOK'
        BY <1>24, <2>a, <2>2 DEF Notification, Inv, TypeOK, rows, control, startup, sweeping
    <2>4. ControlInv' /\ SweepInv'
        BY <1>24 DEF Notification, Inv, ControlInv, SweepInv, control, startup, sweeping
    <2>5. FreshInv'
        BY <1>24, <2>2 DEF Notification, Inv, FreshInv, control, startup
    <2>6. DrainInv' /\ StoreOpenWhileUsed' /\ ParallelBound'
        BY <1>24 DEF Notification, Inv, DrainInv, StoreOpenWhileUsed, ParallelBound, startup, sweeping
    <2>. QED  BY <2>2, <2>3, <2>4, <2>5, <2>6 DEF Inv
<1>25. ASSUME NEW r \in Runs, ControlWake(r) PROVE Inv'
    <2>1. current \in Drivers /\ Wake(current, r)
        BY <1>25 DEF ControlWake, Inv, ControlInv
    <2>2. /\ pending' \in [Drivers -> Seq(Runs)]
          /\ scheduled' \in [Drivers -> BOOLEAN]
          /\ NoStrandedWake'
          /\ \A e \in Drivers : ~started[e] => UNCHANGED <<pending[e], scheduled[e]>>
        BY <1>25, <2>1, WakeFacts DEF ControlWake, Inv
    <2>3. TypeOK'
        BY <1>25, <2>2 DEF ControlWake, Inv, TypeOK, rows, control, startup, sweeping
    <2>4. ControlInv' /\ SweepInv'
        BY <1>25 DEF ControlWake, Inv, ControlInv, SweepInv, control, startup, sweeping
    <2>5. FreshInv'
        BY <1>25, <2>2 DEF ControlWake, Inv, FreshInv, control, startup
    <2>6. DrainInv' /\ StoreOpenWhileUsed' /\ ParallelBound'
        BY <1>25 DEF ControlWake, Inv, DrainInv, StoreOpenWhileUsed, ParallelBound, startup, sweeping
    <2>. QED  BY <2>2, <2>3, <2>4, <2>5, <2>6 DEF Inv
<1>26. ASSUME NEW d \in Drivers, SweepAdd(d) PROVE Inv'
    <2>. DEFINE queue == EnqueueAll(pending[d], swept[d])
    <2>1. queue \in Seq(Runs) /\ Drain(d, queue)
        <3>1. pending[d] \in Seq(Runs) /\ swept[d] \in SUBSET Runs
            BY DEF Inv, TypeOK
        <3>2. queue \in Seq(Runs)
            BY <3>1, RunsAssumption, EnqueueAllType
        <3>. QED  BY <1>26, <3>2 DEF SweepAdd
    <2>. HIDE DEF queue
    <2>2. /\ pending' \in [Drivers -> Seq(Runs)]
          /\ drain' \in [Drivers -> {"none", "busy", "ending"}]
          /\ pass' \in [Drivers -> [Runs -> {"idle", "load", "hold"}]]
          /\ \A e \in Drivers : e # d => UNCHANGED <<pending[e], drain[e], pass[e]>>
          /\ drain'[d] = "none" => ~started[d]
          /\ drain'[d] # "none" => drain[d] # "none" \/ started[d]
          /\ drain'[d] # "busy" => pass'[d] = AllIdle
          /\ \A r \in Runs : pass'[d][r] = "hold" => pass[d][r] = "hold"
          /\ ~started[d] => pending'[d] = queue
          /\ ParallelBound'
        BY <2>1, DrainFacts 
    <2>3. TypeOK'
        BY <1>26, <2>2 DEF SweepAdd, Inv, TypeOK, rows, control, startup, sweeping
    <2>4. ControlInv' /\ SweepInv'
        BY <1>26, <2>2 DEF SweepAdd, Inv, TypeOK, ControlInv, SweepInv, control, startup, sweeping
    <2>5. FreshInv'
        <3>1. step[d] # "none" \/ (pending'[d] = pending[d] /\ scheduled'[d] = scheduled[d])
            BY <1>26, <2>2 DEF SweepAdd, Inv, FreshInv, SweepInv, DrainInv
        <3>2. \A e \in Drivers : e # d => scheduled'[e] = scheduled[e]
            BY <1>26 DEF SweepAdd, Inv, TypeOK
        <3>. QED  BY <1>26, <2>2, <3>1, <3>2 DEF SweepAdd, Inv, FreshInv, control, startup
    <2>6. DrainInv'
        BY <1>26, <2>2 DEF SweepAdd, Inv, FreshInv, DrainInv, startup
    <2>7. NoStrandedWake'
        BY <1>26, <2>1, <2>2 DEF SweepAdd, Inv, TypeOK, NoStrandedWake
    <2>8. StoreOpenWhileUsed'
        <3>1. \A e \in Drivers, r \in Runs : pass'[e][r] = "hold" => pass[e][r] = "hold"
            BY <2>2
        <3>2. \A e \in Drivers : sweep'[e] \in {"list", "add"} => sweep'[e] = sweep[e]
            BY <1>26 DEF SweepAdd, Inv, TypeOK, sweeping
        <3>3. UNCHANGED store
            BY <1>26 DEF SweepAdd, startup
        <3>. QED  BY <3>1, <3>2, <3>3 DEF Inv, StoreOpenWhileUsed
    <2>. QED  BY <2>2, <2>3, <2>4, <2>5, <2>6, <2>7, <2>8 DEF Inv
<1>27. ASSUME NEW d \in Drivers, DrainMicrotask(d) PROVE Inv'
    <2>1. pending[d] \in Seq(Runs) /\ Drain(d, pending[d])
        BY <1>27 DEF DrainMicrotask, Inv, TypeOK
    <2>2. /\ pending' \in [Drivers -> Seq(Runs)]
          /\ drain' \in [Drivers -> {"none", "busy", "ending"}]
          /\ pass' \in [Drivers -> [Runs -> {"idle", "load", "hold"}]]
          /\ \A e \in Drivers : e # d => UNCHANGED <<pending[e], drain[e], pass[e]>>
          /\ drain'[d] = "none" => ~started[d]
          /\ drain'[d] # "none" => drain[d] # "none" \/ started[d]
          /\ drain'[d] # "busy" => pass'[d] = AllIdle
          /\ \A r \in Runs : pass'[d][r] = "hold" => pass[d][r] = "hold"
          /\ ~started[d] => pending'[d] = pending[d]
          /\ ParallelBound'
        BY <2>1, DrainFacts 
    <2>3. TypeOK'
        BY <1>27, <2>2 DEF DrainMicrotask, Inv, TypeOK, rows, control, startup, sweeping
    <2>4. ControlInv' /\ SweepInv'
        BY <1>27, <2>2 DEF DrainMicrotask, Inv, TypeOK, ControlInv, SweepInv, control, startup, sweeping
    <2>5. FreshInv'
        <3>1. step[d] # "none" \/ (pending'[d] = pending[d] /\ scheduled'[d] = scheduled[d])
            BY <1>27, <2>2 DEF DrainMicrotask, Inv, FreshInv, SweepInv, DrainInv
        <3>2. \A e \in Drivers : e # d => scheduled'[e] = scheduled[e]
            BY <1>27 DEF DrainMicrotask, Inv, TypeOK
        <3>. QED  BY <1>27, <2>2, <3>1, <3>2 DEF DrainMicrotask, Inv, FreshInv, control, startup
    <2>6. DrainInv'
        BY <1>27, <2>2 DEF DrainMicrotask, Inv, FreshInv, DrainInv, startup
    <2>7. NoStrandedWake'
        BY <1>27, <2>1, <2>2 DEF DrainMicrotask, Inv, TypeOK, NoStrandedWake
    <2>8. StoreOpenWhileUsed'
        <3>1. \A e \in Drivers, r \in Runs : pass'[e][r] = "hold" => pass[e][r] = "hold"
            BY <2>2
        <3>2. \A e \in Drivers : sweep'[e] \in {"list", "add"} => sweep'[e] = sweep[e]
            BY <1>27 DEF DrainMicrotask, Inv, TypeOK, sweeping
        <3>3. UNCHANGED store
            BY <1>27 DEF DrainMicrotask, startup
        <3>. QED  BY <3>1, <3>2, <3>3 DEF Inv, StoreOpenWhileUsed
    <2>. QED  BY <2>2, <2>3, <2>4, <2>5, <2>6, <2>7, <2>8 DEF Inv
<1>28. ASSUME NEW d \in Drivers, BatchDone(d) PROVE Inv'
    <2>1. pending[d] \in Seq(Runs) /\ DrainTurn(d, pending[d]) /\ pass[d] = AllIdle /\ drain[d] = "busy"
        BY <1>28 DEF BatchDone, Inv, TypeOK
    <2>2. /\ pending' \in [Drivers -> Seq(Runs)]
          /\ drain' \in [Drivers -> {"none", "busy", "ending"}]
          /\ pass' \in [Drivers -> [Runs -> {"idle", "load", "hold"}]]
          /\ \A e \in Drivers : e # d => UNCHANGED <<pending[e], drain[e], pass[e]>>
          /\ drain'[d] = "none" => ~started[d]
          /\ drain'[d] # "none" => drain[d] # "none" \/ started[d]
          /\ drain'[d] # "busy" => pass'[d] = AllIdle
          /\ \A r \in Runs : pass'[d][r] = "hold" => pass[d][r] = "hold"
          /\ ~started[d] => pending'[d] = pending[d]
          /\ ParallelBound'
        BY <2>1, DrainTurnFacts DEF Inv
    <2>3. TypeOK'
        BY <1>28, <2>2 DEF BatchDone, Inv, TypeOK, rows, control, startup, sweeping
    <2>4. ControlInv' /\ SweepInv'
        BY <1>28, <2>2 DEF BatchDone, Inv, TypeOK, ControlInv, SweepInv, control, startup, sweeping
    <2>5. FreshInv'
        <3>1. step[d] # "none" \/ (pending'[d] = pending[d] /\ scheduled'[d] = scheduled[d])
            BY <1>28, <2>2 DEF BatchDone, Inv, FreshInv, SweepInv, DrainInv
        <3>2. \A e \in Drivers : e # d => scheduled'[e] = scheduled[e]
            BY <1>28 DEF BatchDone, Inv, TypeOK
        <3>. QED  BY <1>28, <2>2, <3>1, <3>2 DEF BatchDone, Inv, FreshInv, control, startup
    <2>6. DrainInv'
        BY <1>28, <2>2 DEF BatchDone, Inv, FreshInv, DrainInv, startup
    <2>7. NoStrandedWake'
        BY <1>28, <2>1, <2>2 DEF BatchDone, Inv, TypeOK, NoStrandedWake
    <2>8. StoreOpenWhileUsed'
        <3>1. \A e \in Drivers, r \in Runs : pass'[e][r] = "hold" => pass[e][r] = "hold"
            BY <2>2
        <3>2. \A e \in Drivers : sweep'[e] \in {"list", "add"} => sweep'[e] = sweep[e]
            BY <1>28 DEF BatchDone, Inv, TypeOK, sweeping
        <3>3. UNCHANGED store
            BY <1>28 DEF BatchDone, startup
        <3>. QED  BY <3>1, <3>2, <3>3 DEF Inv, StoreOpenWhileUsed
    <2>. QED  BY <2>2, <2>3, <2>4, <2>5, <2>6, <2>7, <2>8 DEF Inv
<1>29. ASSUME NEW d \in Drivers, NEW r \in Runs, PassClaims(d, r) PROVE Inv'
    <2>1. /\ pass' \in [Drivers -> [Runs -> {"idle", "load", "hold"}]]
          /\ DrainInv'
          /\ ParallelBound'
          /\ \A e \in Drivers, q \in Runs : <<e, q>> # <<d, r>> => UNCHANGED pass[e][q]
          /\ pass'[d][r] = "hold"
        BY <1>29, PassToFacts DEF PassClaims, startup
    <2>2. TypeOK'
        BY <1>29, <2>1 DEF PassClaims, Inv, TypeOK, rows, control, startup, sweeping
    <2>3. ControlInv' /\ FreshInv' /\ SweepInv'
        BY <1>29 DEF PassClaims, Inv, ControlInv, FreshInv, SweepInv, control, startup, sweeping
    <2>4. NoStrandedWake'
        BY <1>29 DEF PassClaims, Inv, NoStrandedWake
    <2>5. StoreOpenWhileUsed'
        BY <1>29, <2>1 DEF PassClaims, Inv, StoreOpenWhileUsed, startup, sweeping
    <2>. QED  BY <2>1, <2>2, <2>3, <2>4, <2>5 DEF Inv
<1>30. ASSUME NEW d \in Drivers, NEW r \in Runs, PassSkips(d, r) PROVE Inv'
    <2>1. /\ pass' \in [Drivers -> [Runs -> {"idle", "load", "hold"}]]
          /\ DrainInv'
          /\ ParallelBound'
          /\ \A e \in Drivers, q \in Runs : <<e, q>> # <<d, r>> => UNCHANGED pass[e][q]
          /\ pass'[d][r] = "idle"
        BY <1>30, PassToFacts DEF PassSkips, startup
    <2>2. TypeOK'
        BY <1>30, <2>1 DEF PassSkips, Inv, TypeOK, rows, control, startup, sweeping
    <2>3. ControlInv' /\ FreshInv' /\ SweepInv'
        BY <1>30 DEF PassSkips, Inv, ControlInv, FreshInv, SweepInv, control, startup, sweeping
    <2>4. NoStrandedWake'
        BY <1>30 DEF PassSkips, Inv, NoStrandedWake
    <2>5. StoreOpenWhileUsed'
        BY <1>30, <2>1 DEF PassSkips, Inv, StoreOpenWhileUsed, startup, sweeping
    <2>. QED  BY <2>1, <2>2, <2>3, <2>4, <2>5 DEF Inv
<1>31. ASSUME NEW d \in Drivers, NEW r \in Runs, PassEnds(d, r) PROVE Inv'
    <2>1. /\ pass' \in [Drivers -> [Runs -> {"idle", "load", "hold"}]]
          /\ DrainInv'
          /\ ParallelBound'
          /\ \A e \in Drivers, q \in Runs : <<e, q>> # <<d, r>> => UNCHANGED pass[e][q]
          /\ pass'[d][r] = "idle"
        BY <1>31, PassToFacts DEF PassEnds, startup
    <2>2. TypeOK'
        BY <1>31, <2>1 DEF PassEnds, Release, Inv, TypeOK, rows, control, startup, sweeping
    <2>3. ControlInv' /\ FreshInv' /\ SweepInv'
        BY <1>31 DEF PassEnds, Inv, ControlInv, FreshInv, SweepInv, control, startup, sweeping
    <2>4. NoStrandedWake'
        BY <1>31 DEF PassEnds, Inv, NoStrandedWake
    <2>5. StoreOpenWhileUsed'
        BY <1>31, <2>1 DEF PassEnds, Inv, StoreOpenWhileUsed, startup, sweeping
    <2>. QED  BY <2>1, <2>2, <2>3, <2>4, <2>5 DEF Inv
<1>32. ASSUME NEW d \in Drivers, NEW r \in Runs, PassThrows(d, r) PROVE Inv'
    <2>1. /\ pass' \in [Drivers -> [Runs -> {"idle", "load", "hold"}]]
          /\ DrainInv'
          /\ ParallelBound'
          /\ \A e \in Drivers, q \in Runs : <<e, q>> # <<d, r>> => UNCHANGED pass[e][q]
          /\ pass'[d][r] = "idle"
        BY <1>32, PassToFacts DEF PassThrows, startup
    <2>2. TypeOK'
        BY <1>32, <2>1, BoundsAssumption DEF PassThrows, Disturb, Release, Inv, TypeOK, rows, control, startup, sweeping
    <2>3. ControlInv' /\ FreshInv' /\ SweepInv'
        BY <1>32 DEF PassThrows, Inv, ControlInv, FreshInv, SweepInv, control, startup, sweeping
    <2>4. NoStrandedWake'
        BY <1>32 DEF PassThrows, Inv, NoStrandedWake
    <2>5. StoreOpenWhileUsed'
        BY <1>32, <2>1 DEF PassThrows, Inv, StoreOpenWhileUsed, startup, sweeping
    <2>. QED  BY <2>1, <2>2, <2>3, <2>4, <2>5 DEF Inv
<1>33. ASSUME NEW d \in Drivers, NEW r \in Runs, ReleaseFails(d, r) PROVE Inv'
    <2>1. /\ pass' \in [Drivers -> [Runs -> {"idle", "load", "hold"}]]
          /\ DrainInv'
          /\ ParallelBound'
          /\ \A e \in Drivers, q \in Runs : <<e, q>> # <<d, r>> => UNCHANGED pass[e][q]
          /\ pass'[d][r] = "idle"
        BY <1>33, PassToFacts DEF ReleaseFails, startup
    <2>2. TypeOK'
        BY <1>33, <2>1, BoundsAssumption DEF ReleaseFails, Disturb, Inv, TypeOK, rows, control, startup, sweeping
    <2>3. ControlInv' /\ FreshInv' /\ SweepInv'
        BY <1>33 DEF ReleaseFails, Inv, ControlInv, FreshInv, SweepInv, control, startup, sweeping
    <2>4. NoStrandedWake'
        BY <1>33 DEF ReleaseFails, Inv, NoStrandedWake
    <2>5. StoreOpenWhileUsed'
        BY <1>33, <2>1 DEF ReleaseFails, Inv, StoreOpenWhileUsed, startup, sweeping
    <2>. QED  BY <2>1, <2>2, <2>3, <2>4, <2>5 DEF Inv
<1>34. CASE UNCHANGED vars
    <2>1. TypeOK' /\ ControlInv'
        BY <1>34 DEF vars, Inv, TypeOK, ControlInv, rows, control, startup, sweeping, queueing
    <2>. QED  BY <1>34, <2>1, Untouched DEF vars, control
<1>. QED
    BY <1>1, <1>2, <1>3, <1>4, <1>5, <1>6, <1>7, <1>8, <1>9, <1>10, <1>11, <1>12,
       <1>13, <1>14, <1>15, <1>16, <1>17, <1>18, <1>19, <1>19a, <1>20, <1>21, <1>22, <1>23,
       <1>24, <1>25, <1>26, <1>27, <1>28, <1>29, <1>30, <1>31, <1>32, <1>33, <1>34
    DEF Next, DriverStep, DriverFails, PassStep, Environment

\* The invariant holds in every state of every behaviour.
THEOREM DriverInvariant == Spec => []Inv
<1>1. Init => Inv
    <2>. SUFFICES ASSUME Init PROVE Inv
        OBVIOUS
    <2>1. TypeOK
        <3>1. <<>> \in Seq(Runs)
            OBVIOUS
        <3>2. 0 \in 0..MaxChanges /\ 0 \in 0..MaxDisturbances
            BY BoundsAssumption
        <3>3. PICK old \in SUBSET Runs :
                 /\ status = [r \in Runs |-> IF r \in old THEN "active" ELSE "absent"]
                 /\ work = [r \in Runs |-> r \in old]
            BY DEF Init
        <3>4. status \in [Runs -> {"absent", "active", "ended"}]
            BY <3>3
        <3>5. work \in [Runs -> BOOLEAN]
            BY <3>3
        <3>. QED  BY <3>1, <3>2, <3>4, <3>5 DEF Init, TypeOK, AllIdle
    <2>2. ControlInv /\ FreshInv /\ SweepInv /\ DrainInv
        BY DEF Init, ControlInv, FreshInv, SweepInv, DrainInv
    <2>3. NoStrandedWake /\ StoreOpenWhileUsed
        BY DEF Init, NoStrandedWake, StoreOpenWhileUsed, AllIdle
    <2>4. ParallelBound
        <3>1. \A d \in Drivers : {r \in Runs : pass[d][r] # "idle"} = {}
            BY DEF Init, AllIdle
        <3>. QED  BY <3>1, FS_EmptySet, ReconcileParallelAssumption DEF ParallelBound
    <2>. QED  BY <2>1, <2>2, <2>3, <2>4 DEF Inv
<1>2. Inv /\ [Next]_vars => Inv'
    BY InvStep
<1>. QED  BY <1>1, <1>2, PTL DEF Spec

\* The fields of a driver, its queue and the rows it works on keep their types.
THEOREM TypeCorrect == Spec => []TypeOK
<1>1. Inv => TypeOK
    BY DEF Inv
<1>. QED  BY <1>1, DriverInvariant, PTL

-----------------------------------------------------------------------------
\* A queued run of a running driver always has a drain or a microtask to take
\* it: the wake that comes at the end of drain() is not stranded.
THEOREM NoStrandedWakeHolds == Spec => []NoStrandedWake
<1>1. Inv => NoStrandedWake
    BY DEF Inv
<1>. QED  BY <1>1, DriverInvariant, PTL

\* A driver runs at most ReconcileParallel passes at a time.
THEOREM ParallelBoundHolds == Spec => []ParallelBound
<1>1. Inv => ParallelBound
    BY DEF Inv
<1>. QED  BY <1>1, DriverInvariant, PTL

\* stop() never closes the store under a pass or a sweep.
THEOREM StoreOpenWhileUsedHolds == Spec => []StoreOpenWhileUsed
<1>1. Inv => StoreOpenWhileUsed
    BY DEF Inv
<1>. QED  BY <1>1, DriverInvariant, PTL
=============================================================================
