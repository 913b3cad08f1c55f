----------------------------- MODULE MCWorkspace -----------------------------
(* The life of a workspace, on one path of every kind.                       *)
EXTENDS Workspace

\* own and new are the task's; doc is context, other a sibling's, tool written
\* by the tooling, dist build output.
MCPaths == {"own", "new", "doc", "other", "tool", "dist"}

H(writes, deletes, changed, reused) ==
    [role |-> "implementation", writes |-> writes, deletes |-> deletes, changed |-> changed,
     reused |-> reused, mentions |-> {}, complete |-> TRUE]
MCHandoffs ==
    {H({"own", "new", "tool", "dist"}, {}, {"own", "new"}, {}),
     H({"new"}, {"own"}, {"own", "new"}, {}),        \* with a deletion
     H({"own", "new"}, {}, {"own"}, {}),             \* one left out
     H({"new"}, {}, {"own", "doc"}, {"new"}),        \* ghosts, and work called reused
     H({"own", "doc"}, {}, {"own"}, {"doc"}),        \* writes its context
     H({"own", "other"}, {}, {"own", "other"}, {}),  \* writes a sibling's
     [H({"own"}, {}, {"own"}, {}) EXCEPT !.complete = FALSE],
     [H({}, {}, {}, {"new"}) EXCEPT !.role = "review"],    \* a phantom
     [H({}, {}, {}, {"new"}) EXCEPT !.role = "review", !.mentions = {"new"}]}
=============================================================================
