------------------------------ MODULE MCPortal -------------------------------
EXTENDS Portal, TLC

CONSTANTS
    paper, note, cse, ece, graph, trees, faculty, coordinator, admin, hod, consumer, s1, s2, r1, r2

MCSessions == {s1, s2}
MCReaders  == {r1, r2}
Symmetry   == Permutations(MCSessions) \cup Permutations(MCReaders)

MCUsers == {faculty, coordinator, admin, hod, consumer}
MCDepartmentOf == [u \in MCUsers |-> IF u = hod THEN ece ELSE cse]
MCRoleOf ==
    (faculty :> "faculty") @@ (coordinator :> "coordinator") @@ (admin :> "admin")
      @@ (hod :> "hod") @@ (consumer :> "system")

Row(k, d, f, st, e) ==
    [key |-> k, department |-> d, faculty |-> f, status |-> st, title |-> graph,
     embedded |-> e]
MCNewRows ==
    {Row(paper, cse, faculty, "PUBLISHED", graph), Row(paper, cse, faculty, "DRAFT", Nothing),
     Row(paper, cse, faculty, "PENDING_REVIEW", Nothing), Row(note, ece, hod, "PUBLISHED", graph)}

MCPatches ==
    {[status |-> "PUBLISHED", title |-> Nothing, embedded |-> Nothing],
     [status |-> "DRAFT", title |-> Nothing, embedded |-> Nothing],
     [status |-> Nothing, title |-> trees, embedded |-> Nothing]}

MCAskers == {coordinator, admin, hod}

Hybrid   == [mode |-> "hybrid", text |-> graph]
KeywordQ == [mode |-> "keyword", text |-> graph]
SemanticQ == [mode |-> "semantic", text |-> graph]
Facets   == [mode |-> "facets"]
MCQueries == {Hybrid, KeywordQ, SemanticQ, Facets}

Budget(writes, hybrid, keyword, semantic, facets, seconds, messages, faults) ==
    [writes |-> writes,
     asks |-> (Hybrid :> hybrid) @@ (KeywordQ :> keyword) @@ (SemanticQ :> semantic)
                @@ (Facets :> facets),
     seconds |-> seconds, messages |-> messages, faults |-> faults]

\* Writers alone; two of them beside a reader, with the clock, and beside one of
\* facets; two readers with the clock, and with a sweep of the cache and a
\* failure.
MCBudgets ==
    {Budget(3, 0, 0, 0, 0, 0, 0, 0),
     Budget(2, 1, 0, 0, 0, 0, 0, 0),
     Budget(2, 0, 0, 0, 1, 0, 0, 0),
     Budget(1, 1, 1, 0, 0, 0, 0, 0),
     Budget(1, 2, 0, 0, 0, 1, 0, 0),
     Budget(1, 0, 0, 0, 2, 2, 0, 0),
     Budget(1, 0, 0, 2, 0, 0, 1, 1)}
=============================================================================
