------------------------- MODULE MCDirectExecution -------------------------
(* DirectExecution for a Technical Lead, two parallel work items with docker *)
(* services, the second with whatever the run's agents need, and a           *)
(* verification without.                                                     *)
EXTENDS DirectExecution

MCTasks == {"lead", "w1", "w2", "verify"}
MCBootstrap == {"lead"}
MCDeps == [t \in MCTasks |->
    CASE t \in {"w1", "w2"} -> {"lead"}
      [] t = "verify" -> {"w1", "w2"}
      [] OTHER -> {}]
MCServices == <<"postgres", "redis">>
MCProfile == [t \in MCTasks |->
    IF t = "w1" THEN {"postgres", "redis"} ELSE {}]

\* The ports of the work items are apart, or the last of w2 wraps round to w1's.
MCHashes == {[t \in MCTasks |-> CASE t = "w1" -> 4 [] t = "w2" -> h [] OTHER -> 1] : h \in {6, 7}}
=============================================================================
