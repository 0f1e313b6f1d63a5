----------------------------- MODULE AuthSession -----------------------------
(***************************************************************************)
(* Module 1 (src/module1-auth/app): OAuth logins, the access tokens they   *)
(* and refreshes obtain, logout with its blocklist, and the accounts that  *)
(* admins and heads of department keep.  Between its awaits a request      *)
(* meets every other one:                                                  *)
(*                                                                         *)
(*    callback  EXISTS oauth_state, DEL, the code exchange, the account,   *)
(*              the token                                                  *)
(*    refresh   Cognito's grant, the account, the token                    *)
(*    any other EXISTS blocklist, the token's expiry and role, and then    *)
(*              logout:  SETEX blocklist, Cognito's revocation             *)
(*              a write: a connection, the statement, the audit row on a   *)
(*                       second connection, and the COMMIT of              *)
(*                       get_db_session, which runs after the response     *)
(*                                                                         *)
(* An access token carries the role its account had when it was read.      *)
(* Cognito is external: a code is good once, a revoked refresh token is    *)
(* good no more.  Left out are audit rows about logins, the rate limiter   *)
(* and the tokens of services, which no account stands behind.             *)
(***************************************************************************)
EXTENDS Integers, Sequences, FiniteSets

CONSTANTS
    Users, DepartmentOf,
    NoAccount,     \* no row of users
    InitAccounts,  \* what the table may hold to begin with
    Requests,      \* requests that may be under way at a time
    Logins,        \* states of GET /login, each a uuid
    StateLife,     \* the TTL of oauth_state:<state>, in units of the clock
    TokenLife,     \* access_token_expire_minutes
    CallTimeout,   \* the end of a transaction: COMMIT, and the pool's reset, each
                   \* within the command_timeout of the pool
    PoolSize,      \* max_size of the pool
    Budgets        \* bounds: how much of everything a behaviour may hold

\* faculty stands for coordinators too: neither may change accounts.
Roles    == {"faculty", "hod", "admin"}
Accounts == [role : Roles, active : BOOLEAN]

Changes ==
    [kind : {"provision", "role"}, user : Users, role : Roles]
      \cup [kind : {"deactivate"}, user : Users]
Ops == [kind : {"read", "logout"}] \cup Changes

ASSUME TimesAssumption ==
    /\ StateLife \in Nat \ {0}
    /\ TokenLife \in Nat \ {0}
    /\ CallTimeout \in Nat \ {0}
ASSUME PoolAssumption == PoolSize \in Nat \ {0}
ASSUME RequestsAssumption == IsFiniteSet(Requests)
ASSUME AccountsAssumption ==
    /\ NoAccount \notin Accounts
    /\ InitAccounts \subseteq [Users -> Accounts \cup {NoAccount}]
ASSUME BudgetsAssumption ==
    Budgets \subseteq
        [time : Nat, tokens : Nat, requests : Nat, logins : SUBSET Logins, changes : SUBSET Changes]

VARIABLES
    now,
    accounts,    \* committed rows of users
    stateUntil,  \* when oauth_state:<state> expires; 0 when there is no key
    issued,      \* states GET /login has handed out
    spent,       \* states whose authorization code Cognito has taken
    sessions,    \* Cognito's refresh token of a login, with the account's user
    revoked,     \* logins whose refresh token is revoked
    tokens,      \* access tokens, with the expiry of their blocklist key
    req,         \* the request at hand
    asked,       \* requests begun so far, GET /login apart
    budget,      \* the member of Budgets that bounds the behaviour
    \* history
    trail,       \* the accounts as the audit rows tell them
    tainted,     \* an audit row tells a change that was not committed, or none does
    ended        \* roles that active accounts had, and until when

loginVars   == <<stateUntil, issued, spent, sessions, revoked>>
auditVars   == <<trail, tainted>>
accountVars == <<accounts, auditVars, ended>>
vars == <<now, loginVars, tokens, req, asked, accountVars, budget>>

Tokens ==
    [user : Users, login : Logins, role : Roles, read : Nat, exp : Nat, blocked : Nat]

Idle == [stage |-> "idle"]
Granting ==    \* callback and refresh
    [stage : {"delete", "exchange", "lookup"}, login : Logins, user : Users]
      \cup [stage : {"issue"}, login : Logins, user : Users, role : Roles, read : Nat]
Served ==      \* requests that were let through
    [stage : {"handle", "session", "audit", "commit", "revoke"}, token : Nat \ {0},
     op : Ops, late : BOOLEAN, at : Nat, hit : BOOLEAN]
Serving ==     \* requests under a token
    [stage : {"verify"}, token : Nat \ {0}, op : Ops, late : BOOLEAN] \cup Served

TypeOK ==
    /\ budget \in Budgets
    /\ now \in 0 .. budget.time
    /\ accounts \in [Users -> Accounts \cup {NoAccount}]
    /\ stateUntil \in [Logins -> Nat]
    /\ issued \in SUBSET Logins
    /\ spent \in SUBSET Logins
    /\ sessions \in [Logins -> SUBSET Users]
    /\ revoked \in SUBSET Logins
    /\ tokens \in Seq(Tokens)
    /\ req \in [Requests -> {Idle} \cup Granting \cup Serving]
    /\ \A r \in Requests : req[r] \in Serving => req[r].token <= Len(tokens)
    /\ asked \in 0 .. budget.requests
    /\ trail \in [Users -> Accounts \cup {NoAccount}]
    /\ tainted \in SUBSET Users
    /\ ended \in SUBSET [user : Users, role : Roles, time : Nat]

Init ==
    /\ budget \in Budgets
    /\ now = 0
    /\ accounts \in InitAccounts
    /\ stateUntil = [l \in Logins |-> 0]
    /\ issued = {}
    /\ spent = {}
    /\ sessions = [l \in Logins |-> {}]
    /\ revoked = {}
    /\ tokens = <<>>
    /\ req = [r \in Requests |-> Idle]
    /\ asked = 0
    /\ trail = accounts
    /\ tainted = {}
    /\ ended = {}

At(r, stage) == req[r].stage = stage
Become(r, q) == req' = [req EXCEPT ![r] = q]
Goto(r, stage) == req' = [req EXCEPT ![r].stage = stage]
Claims(r) == tokens[req[r].token]

\* A request comes in: one of Requests is free to take it.
Begin(r, q) ==
    /\ At(r, "idle")
    /\ asked < budget.requests
    /\ asked' = asked + 1
    /\ Become(r, q)

\* acquire() waits, with no timeout, until a connection is free.
Connected(r) == req[r].stage \in {"issue", "session", "audit", "commit"}
Free == Cardinality({r \in Requests : Connected(r)}) < PoolSize

Bigger(a, b) == IF a >= b THEN a ELSE b

\* Time passes.  Between the account's row and the token there is only the end
\* of the lookup's transaction, which takes CallTimeout at most.
Tick ==
    /\ now < budget.time
    /\ \A r \in Requests : At(r, "issue") => now < req[r].read + CallTimeout
    /\ now' = now + 1
    /\ UNCHANGED <<loginVars, tokens, req, asked, accountVars>>

(***************************************************************************)
(* Logins                                                                  *)
(***************************************************************************)

Login(l) ==
    /\ l \in budget.logins \ issued
    /\ issued' = issued \cup {l}
    /\ stateUntil' = [stateUntil EXCEPT ![l] = now + StateLife]
    /\ UNCHANGED <<now, spent, sessions, revoked, tokens, req, asked, accountVars>>

\* A bound: no more tokens than the budget has will come of what is under way.
Granted == Len(tokens) + Cardinality({r \in Requests : req[r] \in Granting}) < budget.tokens

\* GET /callback: EXISTS.  Cognito has sent the browser of u here, once or,
\* when the browser asks again, more often.  An expired state is a 400.
Callback(r, l, u) ==
    /\ l \in issued
    /\ now < stateUntil[l]
    /\ Granted
    /\ Begin(r, [stage |-> "delete", login |-> l, user |-> u])
    /\ UNCHANGED <<now, loginVars, tokens, accountVars>>

DeleteState(r) ==
    /\ At(r, "delete")
    /\ stateUntil' = [stateUntil EXCEPT ![req[r].login] = 0]
    /\ Goto(r, "exchange")
    /\ UNCHANGED <<now, asked, issued, spent, sessions, revoked, tokens, accountVars>>

\* exchange_code_for_tokens and get_user_info, with the check of the domain.  A
\* code that Cognito has taken before is a 400.
Exchange(r) ==
    /\ At(r, "exchange")
    /\ spent' = spent \cup {req[r].login}
    /\ IF req[r].login \in spent THEN Become(r, Idle) ELSE Goto(r, "lookup")
    /\ UNCHANGED <<now, asked, stateUntil, issued, sessions, revoked, tokens, accountVars>>

\* POST /refresh: Cognito takes the cookie's refresh token.
Refresh(r, l, u) ==
    /\ u \in sessions[l]
    /\ l \notin revoked
    /\ Granted
    /\ Begin(r, [stage |-> "lookup", login |-> l, user |-> u])
    /\ UNCHANGED <<now, loginVars, tokens, accountVars>>

\* Mutant: is_active is not looked at.
LookupInactive(r) ==
    /\ At(r, "lookup")
    /\ Free
    /\ LET q == req[r]
           row == accounts[q.user]
       IN  Become(r, IF row = NoAccount
                     THEN Idle
                     ELSE [stage |-> "issue", login |-> q.login, user |-> q.user,
                           role |-> row.role, read |-> now])
    /\ UNCHANGED <<now, asked, loginVars, tokens, accountVars>>

\* _lookup_provisioned_user: a 403 without an active account.
Lookup(r) ==
    /\ At(r, "lookup")
    /\ Free
    /\ LET q == req[r]
           row == accounts[q.user]
       IN  Become(r, IF row = NoAccount \/ (row # NoAccount /\ ~row.active)
                     THEN Idle
                     ELSE [stage |-> "issue", login |-> q.login, user |-> q.user,
                           role |-> row.role, read |-> now])
    /\ UNCHANGED <<now, asked, loginVars, tokens, accountVars>>

\* create_access_token, and the cookie with the refresh token.
Issue(r) ==
    /\ At(r, "issue")
    /\ LET q == req[r]
       IN  /\ tokens' = Append(tokens,
                  [user |-> q.user, login |-> q.login, role |-> q.role,
                   read |-> q.read, exp |-> now + TokenLife, blocked |-> 0])
           /\ sessions' = [sessions EXCEPT ![q.login] = @ \cup {q.user}]
    /\ Become(r, Idle)
    /\ UNCHANGED <<now, asked, stateUntil, issued, spent, revoked, accountVars>>

(***************************************************************************)
(* Requests under a token                                                  *)
(***************************************************************************)

\* get_current_user: EXISTS blocklist:<token>.
Check(r, t, op) ==
    /\ op \in Changes => op \in budget.changes
    /\ tokens[t].blocked <= now
    /\ Begin(r, [stage |-> "verify", token |-> t, op |-> op,
                 late |-> tokens[t].blocked # 0])
    /\ UNCHANGED <<now, loginVars, tokens, accountVars>>

\* require_role of the routes.
MayDo(role, op) ==
    /\ op.kind \in {"provision", "deactivate"} => role = "admin"
    /\ op.kind = "role" => role \in {"hod", "admin"}

\* verify_token, require_role: a 401 or a 403 unless both let it pass.
Verify(r) ==
    /\ At(r, "verify")
    /\ LET q == req[r]
       IN  Become(r, IF now < Claims(r).exp /\ MayDo(Claims(r).role, q.op)
                     THEN [stage |-> "handle", token |-> q.token, op |-> q.op,
                           late |-> q.late, at |-> now, hit |-> FALSE]
                     ELSE Idle)
    /\ UNCHANGED <<now, asked, loginVars, tokens, accountVars>>

\* GET /me, GET /users.
Answer(r) ==
    /\ At(r, "handle")
    /\ req[r].op.kind = "read"
    /\ Become(r, Idle)
    /\ UNCHANGED <<now, asked, loginVars, tokens, accountVars>>

\* Mutant: the blocklist key lives as long as a login state.
BlockBriefly(r) ==
    /\ At(r, "handle")
    /\ req[r].op.kind = "logout"
    /\ tokens' = [tokens EXCEPT ![req[r].token].blocked = now + StateLife]
    /\ Goto(r, "revoke")
    /\ UNCHANGED <<now, asked, loginVars, accountVars>>

\* POST /logout: SETEX blocklist:<token> for the rest of its life.
Block(r) ==
    /\ At(r, "handle")
    /\ req[r].op.kind = "logout"
    /\ tokens' = [tokens EXCEPT ![req[r].token].blocked =
                      now + Bigger(Claims(r).exp - now, 1)]
    /\ Goto(r, "revoke")
    /\ UNCHANGED <<now, asked, loginVars, accountVars>>

\* revoke_token: there may be no cookie, and a refusal of Cognito is ignored.
Revoke(r) ==
    /\ At(r, "revoke")
    /\ \/ revoked' = revoked \cup {Claims(r).login}
       \/ UNCHANGED revoked
    /\ Become(r, Idle)
    /\ UNCHANGED <<now, asked, stateUntil, issued, spent, sessions, tokens, accountVars>>

(***************************************************************************)
(* Accounts                                                                *)
(***************************************************************************)

Apply(op, row) ==
    CASE op.kind = "provision"  -> [role |-> op.role, active |-> TRUE]
      [] op.kind = "role"       -> [role |-> op.role, active |-> row.active]
      [] op.kind = "deactivate" -> [role |-> row.role, active |-> FALSE]

\* The policies users_dept_isolation and users_self_access.
Visible(claims, u) ==
    \/ claims.role = "admin"
    \/ DepartmentOf[claims.user] = DepartmentOf[u]
    \/ claims.user = u

\* A transaction holds the row, or the unique e-mail, of u.
Holds(r, u) ==
    /\ req[r].stage \in {"audit", "commit"}
    /\ req[r].hit
    /\ req[r].op.user = u

Locked(u) == \E r \in Requests : Holds(r, u)

\* Whether the statement of r changes a row.
Hits(r) ==
    LET op == req[r].op
    IN  IF op.kind = "provision"
        THEN accounts[op.user] = NoAccount
        ELSE accounts[op.user] # NoAccount /\ Visible(Claims(r), op.user)

\* get_db_session: DBSession acquires its connection.
OpenSession(r) ==
    /\ At(r, "handle")
    /\ req[r].op \in Changes
    /\ Free
    /\ Goto(r, "session")
    /\ UNCHANGED <<now, asked, loginVars, tokens, accountVars>>

\* Mutant: on a connection without a transaction, which commits at once.
StatementAutocommit(r) ==
    /\ At(r, "session")
    /\ LET op == req[r].op
       IN  /\ accounts' = IF Hits(r)
                          THEN [accounts EXCEPT ![op.user] = Apply(op, @)]
                          ELSE accounts
           /\ Become(r, [req[r] EXCEPT !.stage = "audit", !.hit = Hits(r)])
    /\ UNCHANGED <<now, asked, loginVars, tokens, auditVars, ended>>

\* INSERT or UPDATE, once no other transaction holds the row.  A second
\* account for an e-mail is a 409; an UPDATE of no row goes on all the same.
Statement(r) ==
    /\ At(r, "session")
    /\ Hits(r) => ~Locked(req[r].op.user)
    /\ Become(r, IF req[r].op.kind = "provision" /\ ~Hits(r)
                 THEN Idle
                 ELSE [req[r] EXCEPT !.stage = "audit", !.hit = Hits(r)])
    /\ UNCHANGED <<now, asked, loginVars, tokens, accounts, auditVars, ended>>

\* log_audit commits its row by itself, on another connection of the pool; when
\* it cannot, stderr has the event.  The trail of a tainted account is not
\* followed any more.
Audit(r) ==
    /\ At(r, "audit")
    /\ Free
    /\ Goto(r, "commit")
    /\ LET u == req[r].op.user
       IN  \/ /\ req[r].hit
              /\ u \notin tainted
              /\ trail' = [trail EXCEPT ![u] = Apply(req[r].op, @)]
              /\ UNCHANGED tainted
           \/ /\ tainted' = tainted \cup {u}
              /\ UNCHANGED trail
    /\ UNCHANGED <<now, asked, loginVars, tokens, accounts, ended>>

\* The response is sent, then get_db_session commits.
Commit(r) ==
    /\ At(r, "commit")
    /\ LET op == req[r].op
           row == accounts[op.user]
       IN  IF req[r].hit
           THEN /\ accounts' = [accounts EXCEPT ![op.user] = Apply(op, row)]
                /\ ended' = IF row # NoAccount /\ row.active
                            THEN ended \cup {[user |-> op.user, role |-> row.role, time |-> now]}
                            ELSE ended
           ELSE UNCHANGED <<accounts, ended>>
    /\ Become(r, Idle)
    /\ UNCHANGED <<now, asked, loginVars, tokens, auditVars>>

\* Redis, Cognito or PostgreSQL fails, COMMIT included, or the process dies:
\* a transaction is rolled back, an audit row stays.
Fail(r) ==
    /\ ~At(r, "idle")
    /\ tainted' = IF At(r, "commit") THEN tainted \cup {req[r].op.user} ELSE tainted
    /\ Become(r, Idle)
    /\ UNCHANGED <<now, asked, loginVars, tokens, accounts, trail, ended>>

\* Mutant: a pool without command_timeout.
LockTimeoutNever(r) == FALSE

\* command_timeout ends a statement that waits for another transaction's row.
LockTimeout(r) ==
    /\ At(r, "session")
    /\ Hits(r) /\ Locked(req[r].op.user)
    /\ Fail(r)

Grant(r) == DeleteState(r) \/ Exchange(r) \/ Lookup(r) \/ Issue(r)
Serve(r) ==
    \/ Verify(r) \/ Answer(r) \/ Block(r) \/ Revoke(r)
    \/ OpenSession(r) \/ Statement(r) \/ Audit(r) \/ Commit(r)

Next ==
    /\ \/ Tick
       \/ \E l \in Logins : Login(l)
       \/ \E r \in Requests :
             \/ \E l \in Logins, u \in Users : Callback(r, l, u) \/ Refresh(r, l, u)
             \/ \E t \in DOMAIN tokens, op \in Ops : Check(r, t, op)
             \/ Grant(r)
             \/ Serve(r)
             \/ Fail(r)
    /\ UNCHANGED budget

Spec == Init /\ [][Next]_vars

\* The event loop runs what can run, the pool serves those who wait in turn, and
\* no statement waits for a lock for ever.
Move(r) == (Grant(r) \/ Serve(r) \/ LockTimeout(r)) /\ UNCHANGED budget
Fairness == \A r \in Requests : SF_vars(Move(r))

FairSpec == Spec /\ Fairness

(***************************************************************************)
(* Properties                                                              *)
(***************************************************************************)

Handled(r) == req[r].stage \in {"handle", "session", "audit", "commit", "revoke"}

\* A role outlives the account's by no more than a token's life: what a request
\* is let through as, its account was then, or was until at most TokenLife and
\* the end of one transaction before (create_access_token's exp against
\* users.is_active and users.role, read once at login and at every refresh).
AuthorityBounded ==
    \A r \in Requests : Handled(r) =>
        LET claims == Claims(r)
        IN  \/ accounts[claims.user] = [role |-> claims.role, active |-> TRUE]
            \/ \E e \in ended :
                  /\ e.user = claims.user
                  /\ e.role = claims.role
                  /\ req[r].at < e.time + CallTimeout + TokenLife

\* Logout is final: no request that looks at the blocklist after the token was
\* put there is served, when the key has expired included (the ttl of
\* POST /logout against the exp of verify_token), as long as Redis keeps what it
\* was given: nothing else remembers a logout.
LogoutSticks == \A r \in Requests : Handled(r) => ~req[r].late

\* Replaying the audit rows about an account gives the account, in spite of
\* their connection of their own, unless a row could not be written or a
\* change was not committed after its row (log_audit against get_db_session).
TrailInOrder ==
    \A u \in Users : u \notin tainted /\ ~Locked(u) => trail[u] = accounts[u]

\* Every connection is held by a request that waits for a second one.
Wedged == Cardinality({r \in Requests : At(r, "audit")}) >= PoolSize

\* Every request is answered, unless the writers hold all connections and each
\* waits for one more, which nothing then ends: log_audit acquires a connection
\* of the pool while DBSession holds one, and acquire() has no timeout.  Row
\* locks do not add to it: whoever waits for one gives up in the end.
AnsweredUnlessWedged ==
    \A r \in Requests : ~At(r, "idle") ~> (At(r, "idle") \/ Wedged)
=============================================================================
