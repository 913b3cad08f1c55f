------------------------------ MODULE RunQueue ------------------------------
(***************************************************************************)
(* A JavaScript Set used as a queue of runs, as the driver and the         *)
(* presentation service do: iteration follows insertion, and adding an      *)
(* element that is there already does not move it.                          *)
(***************************************************************************)
EXTENDS Integers, Sequences, FiniteSets, SequencesExt

\* Set.add
Enqueue(queue, r) == IF r \in ToSet(queue) THEN queue ELSE Append(queue, r)

\* Set.add for each of a list of runs
EnqueueAll(queue, runs) == queue \o SetToSeq(runs \ ToSet(queue))

\* How many of its elements a batch of at most n holds.
BatchSize(queue, n) == IF Len(queue) < n THEN Len(queue) ELSE n

\* The first n elements, and the queue after their deletion.
Batch(queue, n) == ToSet(SubSeq(queue, 1, BatchSize(queue, n)))
Rest(queue, n) == SubSeq(queue, BatchSize(queue, n) + 1, Len(queue))
=============================================================================
