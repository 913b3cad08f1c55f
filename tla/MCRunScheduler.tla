--------------------------- MODULE MCRunScheduler ---------------------------
(* Handoffs and plans for RunScheduler: some the finalizer accepts, and for *)
(* each thing it looks at one that it refuses.                              *)
EXTENDS RunScheduler

MCProvides == [r \in {1, 2} |-> IF r = 1 THEN {"authority"} ELSE {"availability"}]
MCOwns == [backend |-> {"api", "store"}, frontend |-> {"page", "api"}]

Need(fact, consumer, provider) ==
    [fact |-> fact, consumer |-> consumer, resolution |-> "review",
     provider |-> provider, source |-> "reasoning"]
Known(fact, consumer, source) ==
    [fact |-> fact, consumer |-> consumer, resolution |-> "authoritative-context",
     provider |-> None, source |-> source]

Works   == [id |-> 1, stage |-> "implementation", verification |-> "test"]
Kept    == [id |-> 3, stage |-> "implementation", verification |-> "test"]
Audited == [id |-> 2, stage |-> "quality-assurance", verification |-> "prose"]
Brief(required, facts) ==
    [required |-> required, facts |-> facts, criteria |-> {Works, Kept, Audited}]

MCProductHandoffs ==
    { Brief({}, {}),
      Brief({}, {Need("authority", 2, None), Known("availability", None, "path")}),
      Brief({7}, {}),
      Brief({1}, {Need("authority", 2, 1), Need("availability", 1, 2)}),
      \* refused: a fact of its own consumer, of the wrong or of no provider,
      \* two answers to one need, a source without authority, nothing to
      \* implement, a criterion of the process
      Brief({}, {Need("authority", 1, None)}),
      Brief({}, {Need("availability", 2, 1)}),
      Brief({}, {Need("cost", 2, None)}),
      Brief({}, {Need("authority", 2, 1), Known("authority", 2, "authoritative")}),
      Brief({}, {Known("authority", 2, "reasoning")}),
      [required |-> {}, facts |-> {}, criteria |-> {Audited}],
      [required |-> {}, facts |-> {}, criteria |-> {[Works EXCEPT !.stage = "process"]}] }

Plan(first, second, proves, owners) ==
    [criteria |-> {Works, Kept, Audited},
     deps   |-> [i \in {1, 2} |-> IF i = 1 THEN first ELSE second],
     proves |-> [i \in {1, 2} |-> proves],
     owner  |-> [i \in {1, 2} |-> owners[i]],
     paths  |-> [i \in {1, 2} |-> IF i = 1 THEN {"store"} ELSE {"api"}],
     commands |-> [i \in {1, 2} |-> {"test"}],
     reuses   |-> [i \in {1, 2} |-> i = 2]]

Alone == Plan({}, {}, {Works, Kept}, <<"backend", "backend">>)

MCPlans ==
    { Alone,
      Plan({}, {1}, {Works, Kept, Audited}, <<"backend", "frontend">>),
      \* repaired: criteria that are not the product's, are not proved or not by
      \* every item, an owner that is none, a command nobody trusts, none at all
      [Alone EXCEPT !.criteria = {Works}],
      Plan({}, {}, {Audited}, <<"backend", "backend">>),
      Plan({}, {1}, {Works}, <<"backend", "backend">>),
      Plan({}, {}, {Works, Kept}, <<"frontend", "backend">>),
      [Alone EXCEPT !.commands[1] = {"test", "lint"}],
      [Alone EXCEPT !.commands[2] = {}],
      \* refused: a cycle, an unknown dependency, a path of two owners, a
      \* command that needs the host
      Plan({2}, {1}, {Works, Kept}, <<"backend", "backend">>),
      Plan({9}, {1}, {Works, Kept}, <<"backend", "backend">>),
      [Plan({}, {}, {Works, Kept}, <<"backend", "frontend">>) EXCEPT !.paths[1] = {"api"}],
      [Alone EXCEPT !.commands[1] = {"test", "probe"}] }
=============================================================================
