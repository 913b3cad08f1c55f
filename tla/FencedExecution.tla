-------------------------- MODULE FencedExecution --------------------------
(***************************************************************************)
(* What fencing promises about one task: dispatches are numbered, each is  *)
(* started at most once and only while it is the current one, and only the *)
(* current one, once started, changes the repository root, at most once.   *)
(* How dispatches get lost, repeated or abandoned is left to the           *)
(* specification that implements this one.                                 *)
(***************************************************************************)
EXTENDS Naturals

VARIABLES generation,   \* the current dispatch
          started,      \* dispatches a worker has begun to execute
          integrated    \* dispatches whose change set is in the root

fencedVars == <<generation, started, integrated>>

FencedInit == generation = 0 /\ started = {} /\ integrated = {}

Dispatch == /\ generation' = generation + 1
            /\ UNCHANGED <<started, integrated>>

Start == /\ generation \notin started
         /\ started' = started \cup {generation}
         /\ UNCHANGED <<generation, integrated>>

Integrate == /\ generation \in started \ integrated
             /\ integrated' = integrated \cup {generation}
             /\ UNCHANGED <<generation, started>>

FencedNext == Dispatch \/ Start \/ Integrate

FencedSpec == FencedInit /\ [][FencedNext]_fencedVars
=============================================================================
