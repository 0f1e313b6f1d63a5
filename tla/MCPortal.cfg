SPECIFICATION Spec
CONSTANTS
    paper = paper
    note = note
    cse = cse
    ece = ece
    graph = graph
    trees = trees
    faculty = faculty
    coordinator = coordinator
    admin = admin
    hod = hod
    consumer = consumer
    s1 = s1
    s2 = s2
    r1 = r1
    r2 = r2
    Keys = {paper, note}
    Departments = {cse, ece}
    Titles = {graph, trees}
    Nothing = Nothing
    MaxPapers = 3
    Users <- MCUsers
    DepartmentOf <- MCDepartmentOf
    RoleOf <- MCRoleOf
    NewRows <- MCNewRows
    Patches <- MCPatches
    Sessions <- MCSessions
    Readers <- MCReaders
    Queries <- MCQueries
    Limit = 1
    PoolMax = 100
    RrfK = 60
    SearchTTL = 1
    FacetsTTL = 2
    Askers <- MCAskers
    Budgets <- MCBudgets
SYMMETRY Symmetry
INVARIANT HistoryComplete AuditMatches DraftsKept RowsPerKeyBounded SweptIsFresh AnswersRecent AnswersOfDepartment FacetsAgree FusionKeepsOrder
CHECK_DEADLOCK FALSE
