SPECIFICATION FairSpec
\* A service waits for requests; here the bounds run out of them.
CHECK_DEADLOCK FALSE
CONSTANTS
    cse = cse
    ece = ece
    boss = boss
    staff = staff
    l1 = l1
    l2 = l2
    r1 = r1
    r2 = r2
    Users <- MCUsers
    DepartmentOf <- MCDepartmentOf
    NoAccount = NoAccount
    InitAccounts <- MCInitAccounts
    Requests <- MCRequests
    Logins <- MCLogins
    StateLife = 1
    TokenLife = 2
    CallTimeout = 1
    PoolSize = 2
    Budgets <- MCBudgets
INVARIANT AuthorityBounded LogoutSticks TrailInOrder
PROPERTY AnsweredUnlessWedged
