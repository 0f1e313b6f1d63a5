---------------------------- MODULE MCAuthSession ----------------------------
EXTENDS AuthSession, TLC

CONSTANTS cse, ece, boss, staff, l1, l2, r1, r2

MCUsers        == {boss, staff}
MCDepartmentOf == [u \in MCUsers |-> IF u = boss THEN cse ELSE ece]
MCLogins       == {l1, l2}
MCRequests     == {r1, r2}

\* An admin, and somebody who has no account yet or one of a head of department.
MCInitAccounts ==
    {(boss :> [role |-> "admin", active |-> TRUE]) @@ (staff :> a) :
        a \in {NoAccount, [role |-> "hod", active |-> TRUE]}}

Provision(role) == [kind |-> "provision", user |-> staff, role |-> role]
Role(u, role)   == [kind |-> "role", user |-> u, role |-> role]
Deactivate(u)   == [kind |-> "deactivate", user |-> u]

Budget(time, tokenCount, requests, logins, changes) ==
    [time |-> time, tokens |-> tokenCount, requests |-> requests, logins |-> logins,
     changes |-> changes]

\* Two changes at a time, under one token and under two; a change or a logout
\* against the tokens of one login, until these and the blocklist key are gone.
MCBudgets ==
    {Budget(0, 1, 4, {l1}, {Provision("faculty"), Role(staff, "admin"), Deactivate(staff),
                         Role(boss, "faculty")}),
     Budget(0, 2, 4, {l1, l2}, {Role(staff, "faculty")}),
     Budget(3, 2, 4, {l1}, {Deactivate(boss)})}
=============================================================================
