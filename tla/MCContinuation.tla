--------------------------- MODULE MCContinuation ---------------------------
(* Continuation for TLC: one run to watch, and one that ended before it. *)
EXTENDS Continuation

EndedBefore == <<2>>
====
