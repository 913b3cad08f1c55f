---- MODULE MCContextCache ----
(***************************************************************************)
(* ContextCache for TLC: members and requests are interchangeable.         *)
(***************************************************************************)
EXTENDS ContextCache, TLC

Symmetry == Permutations(Members) \cup Permutations(Requests)
====
