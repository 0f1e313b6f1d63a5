-------------------------- MODULE AuthSessionProofs --------------------------
(***************************************************************************)
(* Module 1 for any number of accounts, logins and requests.               *)
(*                                                                         *)
(* Whatever a request is let through as was read from the table, not long  *)
(* before its token was signed (AuthorityInv); the key of a logout lives   *)
(* as long as its token (LogoutInv); and a row that is being changed is    *)
(* held by one transaction, whose audit row runs ahead of it (TrailInv).   *)
(***************************************************************************)
EXTENDS AuthSession, FiniteSetTheorems, SequenceTheorems, TLAPS

\* By the rows and what ended, the account of user had the role, and was
\* active, at t or after it.
Held(rows, past, user, role, t) ==
    \/ rows[user] = [role |-> role, active |-> TRUE]
    \/ \E e \in past : e.user = user /\ e.role = role /\ t <= e.time

StageInv ==
    \A r \in Requests : req[r].stage \in {"session", "audit", "commit"} => req[r].op \in Changes

AuthorityInv ==
    /\ \A r \in Requests : At(r, "issue") =>
          /\ req[r].read <= now
          /\ now <= req[r].read + CallTimeout
          /\ Held(accounts, ended, req[r].user, req[r].role, req[r].read)
    /\ \A t \in DOMAIN tokens :
          /\ tokens[t].read <= now
          /\ tokens[t].exp <= tokens[t].read + CallTimeout + TokenLife
          /\ Held(accounts, ended, tokens[t].user, tokens[t].role, tokens[t].read)
    /\ \A r \in Requests : Handled(r) => req[r].at < Claims(r).exp

LogoutInv ==
    /\ \A t \in DOMAIN tokens : tokens[t].blocked # 0 => tokens[t].exp <= tokens[t].blocked
    /\ \A r \in Requests : At(r, "verify") /\ req[r].late => Claims(r).exp <= now
    /\ LogoutSticks

Committing(r, u) == Holds(r, u) /\ At(r, "commit")

\* The trail is level with the row, or ahead by the change that is committing.
TrailOf(u) ==
    /\ \A r \in Requests : Committing(r, u) => trail[u] = Apply(req[r].op, accounts[u])
    /\ (\A r \in Requests : ~Committing(r, u)) => trail[u] = accounts[u]

TrailInv ==
    /\ \A u \in Users : \A r, s \in Requests : Holds(r, u) /\ Holds(s, u) => r = s
    /\ \A u \in Users, r \in Requests :
          Holds(r, u) /\ req[r].op.kind # "provision" => accounts[u] # NoAccount
    /\ \A u \in Users \ tainted : TrailOf(u)

IndInv == TypeOK /\ StageInv /\ AuthorityInv /\ LogoutInv /\ TrailInv

-----------------------------------------------------------------------------

(***************************************************************************)
(* What the stage of a request says about it.                              *)
(***************************************************************************)

LEMMA GrantShape ==
    ASSUME TypeOK, NEW r \in Requests, req[r].stage \in {"delete", "exchange", "lookup", "issue"}
    PROVE  /\ req[r] \in Granting
           /\ req[r].login \in Logins
           /\ req[r].user \in Users
           /\ At(r, "issue") =>
                 /\ req[r].role \in Roles
                 /\ req[r].read \in Nat
<1>1. req[r] \in {Idle} \cup Granting \cup Serving
  BY DEF TypeOK
<1>2. req[r] # Idle
  BY DEF Idle
<1>3. req[r] \notin Serving
  BY DEF Serving, Served
<1>4. req[r] \in Granting
  BY <1>1, <1>2, <1>3
<1> QED BY <1>4 DEF Granting, At

LEMMA ServeShape ==
    ASSUME TypeOK, NEW r \in Requests, At(r, "verify") \/ Handled(r)
    PROVE  /\ req[r] \in Serving
           /\ req[r].token \in DOMAIN tokens
           /\ tokens[req[r].token] \in Tokens
           /\ req[r].op \in Ops
           /\ req[r].late \in BOOLEAN
<1>1. req[r] \in Serving
  <2>1. req[r] \in {Idle} \cup Granting \cup Serving
    BY DEF TypeOK
  <2>2. req[r] # Idle
    BY DEF Idle, At, Handled
  <2>3. req[r] \notin Granting
    BY DEF Granting, At, Handled
  <2> QED BY <2>1, <2>2, <2>3
<1>2. /\ req[r].token \in Nat \ {0}
      /\ req[r].op \in Ops
      /\ req[r].late \in BOOLEAN
  BY <1>1 DEF Serving, Served
<1>3. req[r].token <= Len(tokens) /\ tokens \in Seq(Tokens)
  BY <1>1 DEF TypeOK
<1>4. req[r].token \in DOMAIN tokens
  BY <1>2, <1>3
<1> QED BY <1>1, <1>2, <1>3, <1>4

LEMMA HandleShape ==
    ASSUME TypeOK, NEW r \in Requests, Handled(r)
    PROVE  /\ req[r] \in Served
           /\ req[r].at \in Nat
           /\ req[r].hit \in BOOLEAN
<1>1. req[r] \in Serving
  BY ServeShape
<1> QED BY <1>1 DEF Serving, Served, Handled

\* A request changes by an action of its own.
LEMMA RequestSteps ==
    ASSUME TypeOK, [Next]_vars, NEW r \in Requests, req'[r] # req[r]
    PROVE  \/ \E l \in Logins, u \in Users : Callback(r, l, u) \/ Refresh(r, l, u)
           \/ \E t \in DOMAIN tokens, op \in Ops : Check(r, t, op)
           \/ Grant(r) \/ Serve(r) \/ Fail(r)
<1>1. PICK s \in Requests :
          \/ \E l \in Logins, u \in Users : Callback(s, l, u) \/ Refresh(s, l, u)
          \/ \E t \in DOMAIN tokens, op \in Ops : Check(s, t, op)
          \/ Grant(s) \/ Serve(s) \/ Fail(s)
  BY DEF Next, Tick, Login, vars
<1>2. \/ \E q : req' = [req EXCEPT ![s] = q]
      \/ \E stage : req' = [req EXCEPT ![s].stage = stage]
  <2>1. CASE \E l \in Logins, u \in Users : Callback(s, l, u) \/ Refresh(s, l, u)
    BY <2>1 DEF Callback, Refresh, Begin, Become
  <2>2. CASE \E t \in DOMAIN tokens, op \in Ops : Check(s, t, op)
    BY <2>2 DEF Check, Begin, Become
  <2>3. CASE Grant(s)
    BY <2>3 DEF Grant, DeleteState, Exchange, Lookup, Issue, Become, Goto
  <2>4. CASE Serve(s)
    <3>1. CASE Verify(s) \/ Answer(s) \/ Block(s) \/ Revoke(s)
      BY <3>1 DEF Verify, Answer, Block, Revoke, Become, Goto
    <3>2. CASE OpenSession(s) \/ Statement(s) \/ Audit(s) \/ Commit(s)
      BY <3>2 DEF OpenSession, Statement, Audit, Commit, Become, Goto
    <3> QED BY <2>4, <3>1, <3>2 DEF Serve
  <2>5. CASE Fail(s)
    BY <2>5 DEF Fail, Become
  <2> QED BY <1>1, <2>1, <2>2, <2>3, <2>4, <2>5
<1>3. r = s
  BY <1>2 DEF TypeOK
<1> QED BY <1>1, <1>3

-----------------------------------------------------------------------------

(***************************************************************************)
(* Types.                                                                  *)
(***************************************************************************)

LEMMA ApplyType ==
    ASSUME NEW op \in Changes, NEW row, op.kind # "provision" => row \in Accounts
    PROVE  Apply(op, row) \in Accounts
<1>1. CASE op.kind = "provision"
  <2>1. op.role \in Roles
    BY <1>1 DEF Changes
  <2> QED BY <1>1, <2>1 DEF Apply, Accounts
<1>2. CASE op.kind = "role"
  <2>1. op.role \in Roles /\ row.active \in BOOLEAN
    BY <1>2 DEF Changes, Accounts
  <2> QED BY <1>2, <2>1 DEF Apply, Accounts
<1>3. CASE op.kind = "deactivate"
  <2>1. row.role \in Roles
    BY <1>3 DEF Accounts
  <2> QED BY <1>3, <2>1 DEF Apply, Accounts
<1> QED BY <1>1, <1>2, <1>3 DEF Changes

\* TypeOK, when only a request changes.
LEMMA RequestType ==
    ASSUME TypeOK, NEW r \in Requests, NEW q,
           q \in {Idle} \cup Granting \cup Serving,
           q \in Serving => q.token \in DOMAIN tokens,
           req' = [req EXCEPT ![r] = q],
           UNCHANGED <<now, loginVars, tokens, accountVars, budget>>,
           asked' \in 0 .. budget.requests
    PROVE  TypeOK'
BY DEF TypeOK, loginVars, accountVars, auditVars

LEMMA GrantType ==
    ASSUME IndInv, NEW r \in Requests, Grant(r), UNCHANGED budget
    PROVE  TypeOK'
<1> USE DEF IndInv
<1> DEFINE q == req[r]
<1>1. CASE DeleteState(r)
  <2>1. q \in Granting /\ q.login \in Logins
    BY <1>1, GrantShape DEF DeleteState, At
  <2>2. [q EXCEPT !.stage = "exchange"] \in Granting
    BY <1>1, <2>1 DEF Granting, DeleteState, At
  <2>3. req' = [req EXCEPT ![r] = [q EXCEPT !.stage = "exchange"]]
    BY <1>1 DEF DeleteState, Goto
  <2> QED BY <1>1, <2>1, <2>2, <2>3
          DEF DeleteState, TypeOK, accountVars, auditVars, Granting, Serving, Served
<1>2. CASE Exchange(r)
  <2>1. q \in Granting /\ q.login \in Logins
    BY <1>2, GrantShape DEF Exchange, At
  <2>2. [q EXCEPT !.stage = "lookup"] \in Granting
    BY <1>2, <2>1 DEF Granting, Exchange, At
  <2>3. \/ req' = [req EXCEPT ![r] = [q EXCEPT !.stage = "lookup"]]
        \/ req' = [req EXCEPT ![r] = Idle]
    BY <1>2 DEF Exchange, Goto, Become
  <2>4. Idle \notin Serving
    BY DEF Idle, Serving, Served
  <2>5. [q EXCEPT !.stage = "lookup"] \notin Serving
    BY <2>2 DEF Granting, Serving, Served
  <2>6. /\ req' \in [Requests -> {Idle} \cup Granting \cup Serving]
        /\ \A s \in Requests : req'[s] \in Serving => req'[s].token <= Len(tokens)
    BY <2>2, <2>3, <2>4, <2>5 DEF TypeOK
  <2> QED BY <1>2, <2>1, <2>6 DEF Exchange, TypeOK, accountVars, auditVars
<1>3. CASE Lookup(r)
  <2>1. q.login \in Logins /\ q.user \in Users
    BY <1>3, GrantShape DEF Lookup, At
  <2> DEFINE row == accounts[q.user]
             issue == [stage |-> "issue", login |-> q.login, user |-> q.user,
                       role |-> row.role, read |-> now]
  <2>2. row \in Accounts \cup {NoAccount} /\ now \in Nat
    BY <2>1, BudgetsAssumption DEF TypeOK
  <2>3. CASE row = NoAccount \/ (row # NoAccount /\ ~row.active)
    <3>1. req' = [req EXCEPT ![r] = Idle]
      BY <1>3, <2>3 DEF Lookup, Become
    <3>2. Idle \notin Serving
      BY DEF Idle, Serving, Served
    <3> QED BY <1>3, <3>1, <3>2, RequestType DEF Lookup, TypeOK
  <2>4. CASE ~(row = NoAccount \/ (row # NoAccount /\ ~row.active))
    <3>1. req' = [req EXCEPT ![r] = issue]
      BY <1>3, <2>4 DEF Lookup, Become
    <3>2. row.role \in Roles
      BY <2>2, <2>4 DEF Accounts
    <3>3. issue \in Granting /\ issue \notin Serving
      BY <2>1, <2>2, <3>2 DEF Granting, Serving, Served
    <3> QED BY <1>3, <3>1, <3>3, RequestType DEF Lookup, TypeOK
  <2> QED BY <2>3, <2>4
<1>4. CASE Issue(r)
  <2>1. /\ q.login \in Logins /\ q.user \in Users
        /\ q.role \in Roles /\ q.read \in Nat
    BY <1>4, GrantShape DEF Issue, At
  <2> DEFINE token == [user |-> q.user, login |-> q.login, role |-> q.role,
                       read |-> q.read, exp |-> now + TokenLife, blocked |-> 0]
  <2>2. now \in Nat /\ now + TokenLife \in Nat
    BY BudgetsAssumption, TimesAssumption DEF TypeOK
  <2>3. token \in Tokens
    BY <2>1, <2>2 DEF Tokens
  <2>4. /\ tokens' = Append(tokens, token)
        /\ tokens \in Seq(Tokens)
    BY <1>4 DEF Issue, TypeOK
  <2>5. tokens' \in Seq(Tokens) /\ Len(tokens') = Len(tokens) + 1 /\ Len(tokens) \in Nat
    BY <2>3, <2>4
  <2>6. req' = [req EXCEPT ![r] = Idle]
    BY <1>4 DEF Issue, Become
  <2>7. Idle \notin Serving
    BY DEF Idle, Serving, Served
  <2>8. sessions' \in [Logins -> SUBSET Users]
    BY <1>4, <2>1 DEF Issue, TypeOK
  <2>9. \A s \in Requests : req'[s] \in Serving => req'[s].token <= Len(tokens')
    <3> SUFFICES ASSUME NEW s \in Requests, req'[s] \in Serving
                 PROVE  req'[s].token <= Len(tokens')
      OBVIOUS
    <3>1. req'[s] = req[s] /\ req[s].token <= Len(tokens)
      BY <2>6, <2>7 DEF TypeOK
    <3>2. req[s].token \in Nat
      BY <3>1 DEF Serving, Served
    <3> QED BY <2>5, <3>1, <3>2
  <2> QED BY <1>4, <2>5, <2>6, <2>8, <2>9 DEF Issue, TypeOK, accountVars, auditVars
<1> QED BY <1>1, <1>2, <1>3, <1>4 DEF Grant

\* A request under a token that moves on keeps its token.
LEMMA ServeMoves ==
    ASSUME TypeOK, NEW r \in Requests, Handled(r),
           NEW stage \in {"handle", "session", "audit", "commit", "revoke"}, NEW hit \in BOOLEAN
    PROVE  /\ [req[r] EXCEPT !.stage = stage] \in Serving
           /\ [req[r] EXCEPT !.stage = stage, !.hit = hit] \in Serving
           /\ req[r].token <= Len(tokens)
<1>1. req[r] \in Served
  BY HandleShape
<1>2. req[r].token <= Len(tokens)
  BY ServeShape DEF TypeOK
<1> QED BY <1>1, <1>2 DEF Serving, Served

LEMMA ServeType ==
    ASSUME IndInv, NEW r \in Requests, Serve(r), UNCHANGED budget
    PROVE  TypeOK'
<1> USE DEF IndInv
<1> DEFINE q == req[r]
<1>0. Idle \notin Serving
  BY DEF Idle, Serving, Served
<1>1. CASE Verify(r)
  <2>1. /\ q.token \in DOMAIN tokens /\ q.op \in Ops /\ q.late \in BOOLEAN
        /\ DOMAIN tokens \subseteq Nat \ {0} /\ now \in Nat
    BY <1>1, ServeShape, BudgetsAssumption DEF Verify, TypeOK
  <2> DEFINE next == [stage |-> "handle", token |-> q.token, op |-> q.op,
                      late |-> q.late, at |-> now, hit |-> FALSE]
  <2>2. next \in Serving /\ next.token \in DOMAIN tokens
    BY <2>1 DEF Serving, Served
  <2>3. req' = [req EXCEPT ![r] = next] \/ req' = [req EXCEPT ![r] = Idle]
    BY <1>1 DEF Verify, Become
  <2>4. UNCHANGED <<now, loginVars, tokens, accountVars, budget>> /\ asked' \in 0 .. budget.requests
    BY <1>1 DEF Verify, TypeOK
  <2> QED BY <1>0, <2>2, <2>3, <2>4, RequestType
<1>2. CASE Answer(r)
  <2>1. UNCHANGED <<now, loginVars, tokens, accountVars, budget>> /\ asked' \in 0 .. budget.requests
    BY <1>2 DEF Answer, TypeOK
  <2>2. req' = [req EXCEPT ![r] = Idle]
    BY <1>2 DEF Answer, Become
  <2> QED BY <1>0, <2>1, <2>2, RequestType
<1>3. CASE Block(r)
  <2>1. Handled(r)
    BY <1>3 DEF Block, At, Handled
  <2>2. q.token \in DOMAIN tokens /\ tokens[q.token] \in Tokens
    BY <2>1, ServeShape
  <2> DEFINE until == now + Bigger(Claims(r).exp - now, 1)
             token == [tokens[q.token] EXCEPT !.blocked = until]
  <2>3. now \in Nat /\ Claims(r).exp \in Nat
    BY <2>2, BudgetsAssumption DEF TypeOK, Claims, Tokens
  <2>4. until \in Nat
    BY <2>3 DEF Bigger
  <2>5. token \in Tokens
    BY <2>2, <2>4 DEF Tokens
  <2>6. tokens' = [tokens EXCEPT ![q.token] = token]
    BY <1>3 DEF Block
  <2>7. tokens' \in Seq(Tokens) /\ Len(tokens') = Len(tokens)
    BY <2>2, <2>5, <2>6 DEF TypeOK
  <2>8. /\ req' = [req EXCEPT ![r] = [q EXCEPT !.stage = "revoke"]]
        /\ [q EXCEPT !.stage = "revoke"] \in Serving
        /\ q.token <= Len(tokens)
    BY <1>3, <2>1, ServeMoves DEF Block, Goto
  <2> QED BY <1>3, <2>7, <2>8 DEF Block, TypeOK, loginVars, accountVars, auditVars
<1>4. CASE Revoke(r)
  <2>1. Handled(r)
    BY <1>4 DEF Revoke, At, Handled
  <2>2. Claims(r).login \in Logins
    BY <2>1, ServeShape DEF Claims, Tokens
  <2>3. req' = [req EXCEPT ![r] = Idle] /\ revoked' \in SUBSET Logins
    BY <1>4, <2>2 DEF Revoke, Become, TypeOK
  <2> QED BY <1>0, <1>4, <2>3 DEF Revoke, TypeOK, accountVars, auditVars
<1>5. CASE Statement(r)
  <2>1. Handled(r)
    BY <1>5 DEF Statement, At, Handled
  <2> DEFINE next == [q EXCEPT !.stage = "audit", !.hit = Hits(r)]
  <2>2. Hits(r) \in BOOLEAN
    BY DEF Hits, Visible
  <2>3. next \in Serving /\ next.token \in DOMAIN tokens
    <3>1. next \in Serving
      BY <2>1, <2>2, ServeMoves
    <3>2. next.token = q.token
      BY <2>1, HandleShape
    <3> QED BY <2>1, <3>1, <3>2, ServeShape
  <2>4. req' = [req EXCEPT ![r] = next] \/ req' = [req EXCEPT ![r] = Idle]
    BY <1>5 DEF Statement, Become
  <2>5. UNCHANGED <<now, loginVars, tokens, accountVars, budget>> /\ asked' \in 0 .. budget.requests
    BY <1>5 DEF Statement, TypeOK, accountVars
  <2> QED BY <1>0, <2>3, <2>4, <2>5, RequestType
<1>6. CASE Audit(r)
  <2>1. Handled(r) /\ q.op \in Changes
    BY <1>6 DEF Audit, At, Handled, StageInv
  <2>2. q.op.user \in Users
    BY <2>1 DEF Changes
  <2>3. /\ req' = [req EXCEPT ![r] = [q EXCEPT !.stage = "commit"]]
        /\ [q EXCEPT !.stage = "commit"] \in Serving
        /\ q.token <= Len(tokens)
    BY <1>6, <2>1, ServeMoves DEF Audit, Goto
  <2>4. trail' \in [Users -> Accounts \cup {NoAccount}] /\ tainted' \in SUBSET Users
    <3> DEFINE u == q.op.user
    <3>1. CASE /\ q.hit /\ u \notin tainted /\ UNCHANGED tainted
               /\ trail' = [trail EXCEPT ![u] = Apply(q.op, trail[u])]
      <4>1. Holds(r, u) /\ ~At(r, "commit")
        BY <1>6, <3>1 DEF Audit, At, Holds
      <4>2. trail[u] = accounts[u]
        <5>1. \A s \in Requests : ~Committing(s, u)
          BY <2>2, <4>1 DEF TrailInv, Committing
        <5> QED BY <2>2, <3>1, <5>1 DEF TrailInv, TrailOf
      <4>3. q.op.kind # "provision" => trail[u] \in Accounts
        BY <2>2, <4>1, <4>2 DEF TrailInv, TypeOK
      <4>4. Apply(q.op, trail[u]) \in Accounts
        BY <2>1, <4>3, ApplyType
      <4> QED BY <3>1, <4>4 DEF TypeOK
    <3>2. CASE tainted' = tainted \cup {u} /\ UNCHANGED trail
      BY <2>2, <3>2 DEF TypeOK
    <3> QED BY <1>6, <3>1, <3>2 DEF Audit
  <2> QED BY <1>6, <2>3, <2>4 DEF Audit, TypeOK, loginVars
<1>7. CASE Commit(r)
  <2>1. Handled(r) /\ q.op \in Changes
    BY <1>7 DEF Commit, At, Handled, StageInv
  <2>2. q.op.user \in Users
    BY <2>1 DEF Changes
  <2> DEFINE row == accounts[q.op.user]
  <2>3. CASE q.hit
    <3>1. Holds(r, q.op.user)
      BY <1>7, <2>3 DEF Commit, At, Holds
    <3>2. q.op.kind # "provision" => row \in Accounts
      BY <2>2, <3>1 DEF TrailInv, TypeOK
    <3>3. accounts' \in [Users -> Accounts \cup {NoAccount}]
      BY <1>7, <2>1, <2>3, <3>2, ApplyType DEF Commit, TypeOK
    <3>4. now \in Nat
      BY BudgetsAssumption DEF TypeOK
    <3>5. row \in Accounts \cup {NoAccount}
      BY <2>2 DEF TypeOK
    <3>6. row # NoAccount => row.role \in Roles
      BY <3>5 DEF Accounts
    <3>7. ended' \in SUBSET [user : Users, role : Roles, time : Nat]
      BY <1>7, <2>2, <2>3, <3>4, <3>6 DEF Commit, TypeOK
    <3>8. req' = [req EXCEPT ![r] = Idle]
      BY <1>7 DEF Commit, Become
    <3> QED BY <1>0, <1>7, <3>3, <3>7, <3>8 DEF Commit, TypeOK, loginVars, auditVars
  <2>4. CASE ~q.hit
    <3>1. UNCHANGED <<now, loginVars, tokens, accountVars, budget>> /\ asked' \in 0 .. budget.requests
      BY <1>7, <2>4 DEF Commit, TypeOK, accountVars
    <3>2. req' = [req EXCEPT ![r] = Idle]
      BY <1>7 DEF Commit, Become
    <3> QED BY <1>0, <3>1, <3>2, RequestType
  <2> QED BY <2>3, <2>4
<1>8. CASE OpenSession(r)
  <2>1. Handled(r)
    BY <1>8 DEF OpenSession, At, Handled
  <2>2. /\ [q EXCEPT !.stage = "session"] \in Serving
        /\ [q EXCEPT !.stage = "session"].token \in DOMAIN tokens
    <3>1. [q EXCEPT !.stage = "session"].token = q.token
      BY <2>1, HandleShape DEF Served
    <3> QED BY <2>1, <3>1, ServeMoves, ServeShape
  <2>3. req' = [req EXCEPT ![r] = [q EXCEPT !.stage = "session"]]
    BY <1>8 DEF OpenSession, Goto
  <2>4. UNCHANGED <<now, loginVars, tokens, accountVars, budget>> /\ asked' \in 0 .. budget.requests
    BY <1>8 DEF OpenSession, TypeOK
  <2> QED BY <2>2, <2>3, <2>4, RequestType
<1> QED BY <1>1, <1>2, <1>3, <1>4, <1>5, <1>6, <1>7, <1>8 DEF Serve

LEMMA TypeNext == IndInv /\ [Next]_vars => TypeOK'
<1> SUFFICES ASSUME IndInv, [Next]_vars PROVE TypeOK'
  OBVIOUS
<1> USE DEF IndInv
<1>0. Idle \notin Serving
  BY DEF Idle, Serving, Served
<1>1. CASE Tick /\ UNCHANGED budget
  <2>1. now' \in 0 .. budget.time
    BY <1>1, BudgetsAssumption DEF Tick, TypeOK
  <2> QED BY <1>1, <2>1 DEF Tick, TypeOK, loginVars, accountVars, auditVars
<1>2. ASSUME NEW l \in Logins, Login(l), UNCHANGED budget PROVE TypeOK'
  <2>1. now + StateLife \in Nat
    BY BudgetsAssumption, TimesAssumption DEF TypeOK
  <2> QED BY <1>2, <2>1 DEF Login, TypeOK, accountVars, auditVars
<1>3. ASSUME NEW r \in Requests, NEW l \in Logins, NEW u \in Users, UNCHANGED budget,
             Callback(r, l, u) \/ Refresh(r, l, u)
      PROVE  TypeOK'
  <2>1. PICK stage \in {"delete", "lookup"} :
            req' = [req EXCEPT ![r] = [stage |-> stage, login |-> l, user |-> u]]
    BY <1>3 DEF Callback, Refresh, Begin, Become
  <2>2. /\ [stage |-> stage, login |-> l, user |-> u] \in Granting
        /\ [stage |-> stage, login |-> l, user |-> u] \notin Serving
    BY DEF Granting, Serving, Served
  <2>3. asked' \in 0 .. budget.requests
    BY <1>3, BudgetsAssumption DEF Callback, Refresh, Begin, TypeOK
  <2>4. UNCHANGED <<now, loginVars, tokens, accountVars, budget>>
    BY <1>3 DEF Callback, Refresh
  <2> QED BY <2>1, <2>2, <2>3, <2>4, RequestType
<1>4. ASSUME NEW r \in Requests, NEW t \in DOMAIN tokens, NEW op \in Ops, UNCHANGED budget,
             Check(r, t, op)
      PROVE  TypeOK'
  <2> DEFINE q == [stage |-> "verify", token |-> t, op |-> op, late |-> tokens[t].blocked # 0]
  <2>1. req' = [req EXCEPT ![r] = q]
    BY <1>4 DEF Check, Begin, Become
  <2>2. t \in Nat \ {0}
    BY DEF TypeOK
  <2>3. q \in Serving /\ q.token = t
    BY <2>2 DEF Serving, Served
  <2>4. asked' \in 0 .. budget.requests
    BY <1>4, BudgetsAssumption DEF Check, Begin, TypeOK
  <2>5. UNCHANGED <<now, loginVars, tokens, accountVars, budget>>
    BY <1>4 DEF Check
  <2> QED BY <2>1, <2>3, <2>4, <2>5, RequestType
<1>5. ASSUME NEW r \in Requests, Fail(r), UNCHANGED budget PROVE TypeOK'
  <2>1. req' = [req EXCEPT ![r] = Idle]
    BY <1>5 DEF Fail, Become
  <2>2. tainted' \in SUBSET Users
    <3>1. At(r, "commit") => req[r].op.user \in Users
      BY DEF StageInv, At, Changes
    <3> QED BY <1>5, <3>1 DEF Fail, TypeOK
  <2> QED BY <1>0, <1>5, <2>1, <2>2 DEF Fail, TypeOK, loginVars
<1>6. CASE UNCHANGED vars
  BY <1>6 DEF TypeOK, vars, loginVars, accountVars, auditVars
<1> QED BY <1>1, <1>2, <1>3, <1>4, <1>5, <1>6, GrantType, ServeType DEF Next

-----------------------------------------------------------------------------

(***************************************************************************)
(* What no step takes back.                                                *)
(***************************************************************************)

LEMMA TimePasses ==
    ASSUME TypeOK, [Next]_vars
    PROVE  /\ now \in Nat /\ now' \in Nat /\ now <= now'
           /\ now' # now => Tick
<1>1. now \in Nat
  BY BudgetsAssumption DEF TypeOK
<1>2. CASE Tick
  BY <1>1, <1>2 DEF Tick
<1>3. CASE ~Tick
  <2>1. now' = now
    BY <1>3 DEF Next, Login, Callback, Refresh, Check, Grant, DeleteState, Exchange, Lookup,
                Issue, Serve, Verify, Answer, OpenSession, Block, Revoke, Statement, Audit, Commit,
                Fail, vars
  <2> QED BY <1>1, <2>1
<1> QED BY <1>2, <1>3

\* Tokens are not changed, but for their blocklist key.
LEMMA TokensStay ==
    ASSUME TypeOK, [Next]_vars, NEW t \in DOMAIN tokens
    PROVE  /\ t \in DOMAIN tokens'
           /\ tokens[t] \in Tokens
           /\ tokens'[t].user = tokens[t].user
           /\ tokens'[t].role = tokens[t].role
           /\ tokens'[t].read = tokens[t].read
           /\ tokens'[t].exp = tokens[t].exp
           /\ \/ tokens'[t] = tokens[t]
              \/ \E r \in Requests : Block(r) /\ req[r].token = t
<1>1. tokens \in Seq(Tokens) /\ tokens[t] \in Tokens /\ t \in 1 .. Len(tokens)
  BY DEF TypeOK
<1>2. ASSUME NEW r \in Requests, Issue(r) PROVE t \in DOMAIN tokens' /\ tokens'[t] = tokens[t]
  BY <1>1, <1>2 DEF Issue
<1>3. ASSUME NEW r \in Requests, Block(r)
      PROVE  /\ t \in DOMAIN tokens'
             /\ req[r].token # t => tokens'[t] = tokens[t]
             /\ req[r].token = t => \E b : tokens'[t] = [tokens[t] EXCEPT !.blocked = b]
  BY <1>1, <1>3 DEF Block
<1>4. CASE UNCHANGED tokens
  BY <1>1, <1>4
<1>5. (\A r \in Requests : ~Issue(r) /\ ~Block(r)) => UNCHANGED tokens
  BY DEF Next, Tick, Login, Callback, Refresh, Check, Grant, DeleteState, Exchange, Lookup,
         Serve, Verify, Answer, OpenSession, Revoke, Statement, Audit, Commit, Fail, vars
<1>6. ASSUME NEW r \in Requests, Block(r), req[r].token = t
      PROVE  /\ tokens'[t].user = tokens[t].user /\ tokens'[t].role = tokens[t].role
             /\ tokens'[t].read = tokens[t].read /\ tokens'[t].exp = tokens[t].exp
  <2>1. PICK b : tokens'[t] = [tokens[t] EXCEPT !.blocked = b]
    BY <1>3, <1>6
  <2> QED BY <1>1, <2>1 DEF Tokens
<1> QED BY <1>1, <1>2, <1>3, <1>4, <1>5, <1>6

\* A token that was not there is issued.
LEMMA TokenIssued ==
    ASSUME TypeOK, [Next]_vars, NEW t \in DOMAIN tokens', t \notin DOMAIN tokens
    PROVE  \E r \in Requests :
              /\ Issue(r)
              /\ tokens'[t] = [user |-> req[r].user, login |-> req[r].login,
                              role |-> req[r].role, read |-> req[r].read,
                              exp |-> now + TokenLife, blocked |-> 0]
<1>1. ASSUME NEW r \in Requests, Block(r) PROVE DOMAIN tokens' = DOMAIN tokens
  BY <1>1 DEF Block
<1>2. (\A r \in Requests : ~Issue(r) /\ ~Block(r)) => UNCHANGED tokens
  BY DEF Next, Tick, Login, Callback, Refresh, Check, Grant, DeleteState, Exchange, Lookup,
         Serve, Verify, Answer, OpenSession, Revoke, Statement, Audit, Commit, Fail, vars
<1>3. PICK r \in Requests : Issue(r)
  BY <1>1, <1>2
<1> DEFINE token == [user |-> req[r].user, login |-> req[r].login, role |-> req[r].role,
                     read |-> req[r].read, exp |-> now + TokenLife, blocked |-> 0]
<1>4. tokens' = Append(tokens, token) /\ tokens \in Seq(Tokens)
  BY <1>3 DEF Issue, TypeOK
<1>5. /\ DOMAIN tokens = 1 .. Len(tokens) /\ DOMAIN tokens' = 1 .. Len(tokens) + 1
      /\ Len(tokens) \in Nat /\ tokens'[Len(tokens) + 1] = token
  BY <1>4
<1>6. t = Len(tokens) + 1
  BY <1>5
<1> QED BY <1>3, <1>5, <1>6

\* What an account has been is written down when it is no more.
LEMMA HeldStays ==
    ASSUME IndInv, [Next]_vars, NEW u \in Users, NEW role \in Roles, NEW t \in Nat, t <= now,
           Held(accounts, ended, u, role, t)
    PROVE  Held(accounts', ended', u, role, t)
<1>0. now \in Nat
  BY TimePasses DEF IndInv
<1>1. ASSUME NEW r \in Requests, Commit(r) PROVE Held(accounts', ended', u, role, t)
  <2>1. ended \subseteq ended'
    BY <1>1 DEF Commit
  <2>2. CASE \E e \in ended : e.user = u /\ e.role = role /\ t <= e.time
    BY <2>1, <2>2 DEF Held
  <2>3. CASE accounts[u] = [role |-> role, active |-> TRUE]
    <3>1. CASE accounts'[u] = accounts[u]
      BY <2>3, <3>1 DEF Held
    <3>2. CASE accounts'[u] # accounts[u]
      <4>1. req[r].hit /\ req[r].op.user = u
        BY <1>1, <3>2 DEF Commit, IndInv, TypeOK
      <4>2. accounts[u] # NoAccount /\ accounts[u].active
        <5>1. accounts[u] \in Accounts
          BY <2>3 DEF Accounts
        <5>2. accounts[u].active = TRUE
          BY <2>3
        <5> QED BY <5>1, <5>2, AccountsAssumption
      <4>3. [user |-> u, role |-> role, time |-> now] \in ended'
        BY <1>1, <2>3, <4>1, <4>2 DEF Commit
      <4> QED BY <4>3 DEF Held
    <3> QED BY <3>1, <3>2
  <2> QED BY <2>2, <2>3 DEF Held
<1>2. (\A r \in Requests : ~Commit(r)) => UNCHANGED <<accounts, ended>>
  BY ZenonT(60) DEF Next, Tick, Login, Callback, Refresh, Check, Grant, DeleteState, Exchange, Lookup,
         Issue, Serve, Verify, Answer, OpenSession, Block, Revoke, Statement, Audit, Fail,
         accountVars, vars
<1>3. CASE UNCHANGED <<accounts, ended>>
  BY <1>3 DEF Held
<1> QED BY <1>1, <1>2, <1>3

-----------------------------------------------------------------------------

(***************************************************************************)
(* Stages.                                                                 *)
(***************************************************************************)

\* How a request comes to a stage.
LEMMA Arrivals ==
    ASSUME TypeOK, [Next]_vars, NEW r \in Requests, req'[r] # req[r]
    PROVE  /\ At(r, "issue")' => Lookup(r)
           /\ At(r, "verify")' => \E t \in DOMAIN tokens, op \in Ops : Check(r, t, op)
           /\ Handled(r)' => Verify(r) \/ Block(r) \/ OpenSession(r) \/ Statement(r) \/ Audit(r)
           /\ At(r, "commit")' => Audit(r)
           /\ At(r, "audit")' => Statement(r)
           /\ At(r, "session")' => OpenSession(r)
<1> USE DEF At, Handled
<1>1. CASE \E l \in Logins, u \in Users : Callback(r, l, u) \/ Refresh(r, l, u)
  BY <1>1 DEF Callback, Refresh, Begin, Become, TypeOK
<1>2. CASE \E t \in DOMAIN tokens, op \in Ops : Check(r, t, op)
  <2>1. req'[r].stage = "verify"
    BY <1>2 DEF Check, Begin, Become, TypeOK
  <2> QED BY <1>2, <2>1
<1>3. CASE DeleteState(r) \/ Exchange(r)
  <2>1. req'[r].stage \in {"idle", "exchange", "lookup"}
    <3>1. req[r] \in Granting
      BY <1>3, GrantShape DEF DeleteState, Exchange
    <3> QED BY <1>3, <3>1 DEF DeleteState, Exchange, Goto, Become, Idle, TypeOK, Granting
  <2> QED BY <2>1
<1>4. CASE Lookup(r)
  <2>1. req'[r].stage \in {"idle", "issue"}
    BY <1>4 DEF Lookup, Become, TypeOK, Idle
  <2> QED BY <1>4, <2>1
<1>5. CASE Issue(r) \/ Answer(r) \/ Revoke(r) \/ Commit(r) \/ Fail(r)
  <2>1. req'[r].stage = "idle"
    BY <1>5 DEF Issue, Answer, Revoke, Commit, Fail, Become, TypeOK, Idle
  <2> QED BY <2>1
<1>6. CASE Verify(r)
  <2>1. req'[r].stage \in {"idle", "handle"}
    BY <1>6 DEF Verify, Become, TypeOK, Idle
  <2> QED BY <1>6, <2>1
<1>7. CASE Block(r) \/ OpenSession(r) \/ Audit(r)
  <2>1. req[r] \in Served
    BY <1>7, HandleShape DEF Block, OpenSession, Audit
  <2>2. /\ Block(r) => req'[r].stage = "revoke"
        /\ OpenSession(r) => req'[r].stage = "session"
        /\ Audit(r) => req'[r].stage = "commit"
    BY <1>7, <2>1 DEF Block, OpenSession, Audit, Goto, TypeOK, Served
  <2> QED BY <1>7, <2>2
<1>8. CASE Statement(r)
  <2>1. req[r] \in Served
    BY <1>8, HandleShape DEF Statement
  <2>2. req'[r].stage \in {"idle", "audit"}
    BY <1>8, <2>1 DEF Statement, Become, TypeOK, Idle
  <2> QED BY <1>8, <2>2
<1> QED BY <1>1, <1>2, <1>3, <1>4, <1>5, <1>6, <1>7, <1>8, RequestSteps DEF Grant, Serve

\* A request that is being served keeps its token, its change and its time.
LEMMA HandledStays ==
    ASSUME IndInv, NEW r \in Requests,
           Block(r) \/ OpenSession(r) \/ Statement(r) \/ Audit(r), Handled(r)'
    PROVE  /\ Handled(r)
           /\ req'[r].token = req[r].token
           /\ req'[r].op = req[r].op
           /\ req'[r].at = req[r].at
           /\ req'[r].late = req[r].late
           /\ Audit(r) => req'[r].hit = req[r].hit
           /\ Statement(r) => req'[r].hit = Hits(r)
<1> USE DEF IndInv
<1>1. Handled(r)
  BY DEF Block, OpenSession, Statement, Audit, At, Handled
<1>2. req[r] \in Served
  BY <1>1, HandleShape
<1>3. CASE Block(r) \/ OpenSession(r) \/ Audit(r)
  <2>1. \E stage : req' = [req EXCEPT ![r] = [req[r] EXCEPT !.stage = stage]]
    BY <1>3 DEF Block, OpenSession, Audit, Goto
  <2>2. ~Statement(r)
    BY <1>3 DEF Block, OpenSession, Audit, Statement, At
  <2> QED BY <1>1, <1>2, <2>1, <2>2 DEF TypeOK, Served
<1>4. CASE Statement(r)
  <2>1. \/ req' = [req EXCEPT ![r] = Idle]
        \/ req' = [req EXCEPT ![r] = [req[r] EXCEPT !.stage = "audit", !.hit = Hits(r)]]
    BY <1>4 DEF Statement, Become
  <2>2. ~Audit(r)
    BY <1>4 DEF Audit, Statement, At
  <2>3. Idle.stage = "idle"
    BY DEF Idle
  <2>4. req' = [req EXCEPT ![r] = [req[r] EXCEPT !.stage = "audit", !.hit = Hits(r)]]
    BY <2>1, <2>3 DEF Handled, TypeOK
  <2> QED BY <1>1, <1>2, <2>2, <2>4 DEF TypeOK, Served
<1> QED BY <1>3, <1>4

LEMMA StageNext == IndInv /\ [Next]_vars => StageInv'
<1> SUFFICES ASSUME IndInv, [Next]_vars, NEW r \in Requests,
                    req'[r].stage \in {"session", "audit", "commit"}
             PROVE  req'[r].op \in Changes
  BY DEF StageInv
<1> USE DEF IndInv
<1>1. CASE req'[r] = req[r]
  BY <1>1 DEF StageInv
<1>2. CASE req'[r] # req[r]
  <2>1. OpenSession(r) \/ Statement(r) \/ Audit(r)
    BY <1>2, Arrivals DEF At
  <2>2. req[r].op \in Changes
    BY <2>1 DEF OpenSession, Statement, Audit, At, StageInv
  <2> QED BY <2>1, <2>2, HandledStays DEF Handled
<1> QED BY <1>1, <1>2

-----------------------------------------------------------------------------

(***************************************************************************)
(* Authority.                                                              *)
(***************************************************************************)

LEMMA IssuingNext ==
    ASSUME IndInv, [Next]_vars, NEW r \in Requests, At(r, "issue")'
    PROVE  /\ req'[r].read <= now'
           /\ now' <= req'[r].read + CallTimeout
           /\ Held(accounts', ended', req'[r].user, req'[r].role, req'[r].read)
<1> USE DEF IndInv
<1>0. now \in Nat /\ now' \in Nat /\ now <= now' /\ CallTimeout \in Nat \ {0}
  BY TimePasses, TimesAssumption
<1>1. CASE req'[r] = req[r]
  <2>1. At(r, "issue")
    BY <1>1 DEF At
  <2>2. req[r].user \in Users /\ req[r].role \in Roles /\ req[r].read \in Nat
    BY <2>1, GrantShape DEF At
  <2>3. /\ req[r].read <= now /\ now <= req[r].read + CallTimeout
        /\ Held(accounts, ended, req[r].user, req[r].role, req[r].read)
    BY <2>1 DEF AuthorityInv
  <2>4. Held(accounts', ended', req[r].user, req[r].role, req[r].read)
    BY <2>2, <2>3, HeldStays
  <2>5. now' <= req[r].read + CallTimeout
    BY <1>0, <2>1, <2>2, <2>3, TimePasses DEF Tick
  <2> QED BY <1>0, <1>1, <2>2, <2>3, <2>4, <2>5
<1>2. CASE req'[r] # req[r]
  <2>1. Lookup(r)
    BY <1>2, Arrivals
  <2>2. req[r].user \in Users
    BY <2>1, GrantShape DEF Lookup, At
  <2> DEFINE row == accounts[req[r].user]
  <2>3. /\ row # NoAccount /\ row.active
        /\ req'[r] = [stage |-> "issue", login |-> req[r].login, user |-> req[r].user,
                      role |-> row.role, read |-> now]
    BY <1>2, <2>1 DEF Lookup, Become, TypeOK, At, Idle
  <2>4. row \in Accounts
    BY <2>2, <2>3 DEF TypeOK
  <2>5. row = [role |-> row.role, active |-> TRUE]
    BY <2>3, <2>4 DEF Accounts
  <2>6. accounts' = accounts /\ now' = now
    BY <2>1 DEF Lookup, accountVars
  <2> QED BY <1>0, <2>3, <2>5, <2>6 DEF Held
<1> QED BY <1>1, <1>2

LEMMA TokenNext ==
    ASSUME IndInv, [Next]_vars, NEW t \in DOMAIN tokens'
    PROVE  /\ tokens'[t].read <= now'
           /\ tokens'[t].exp <= tokens'[t].read + CallTimeout + TokenLife
           /\ Held(accounts', ended', tokens'[t].user, tokens'[t].role, tokens'[t].read)
<1> USE DEF IndInv
<1>0. now \in Nat /\ now' \in Nat /\ now <= now' /\ CallTimeout \in Nat /\ TokenLife \in Nat
  BY TimePasses, TimesAssumption
<1>1. CASE t \in DOMAIN tokens
  <2>1. /\ tokens[t] \in Tokens
        /\ tokens'[t].user = tokens[t].user /\ tokens'[t].role = tokens[t].role
        /\ tokens'[t].read = tokens[t].read /\ tokens'[t].exp = tokens[t].exp
    BY <1>1, TokensStay
  <2>2. tokens[t].user \in Users /\ tokens[t].role \in Roles /\ tokens[t].read \in Nat
    BY <2>1 DEF Tokens
  <2>3. /\ tokens[t].read <= now
        /\ tokens[t].exp <= tokens[t].read + CallTimeout + TokenLife
        /\ Held(accounts, ended, tokens[t].user, tokens[t].role, tokens[t].read)
    BY <1>1 DEF AuthorityInv
  <2>4. Held(accounts', ended', tokens'[t].user, tokens'[t].role, tokens'[t].read)
    <3>1. Held(accounts', ended', tokens[t].user, tokens[t].role, tokens[t].read)
      BY <2>2, <2>3, HeldStays
    <3> QED BY <2>1, <3>1
  <2> QED BY <1>0, <2>1, <2>2, <2>3, <2>4
<1>2. CASE t \notin DOMAIN tokens
  <2> DEFINE token(r) == [user |-> req[r].user, login |-> req[r].login, role |-> req[r].role,
                          read |-> req[r].read, exp |-> now + TokenLife, blocked |-> 0]
  <2>1. PICK r \in Requests : Issue(r) /\ tokens'[t] = token(r)
    BY <1>2, TokenIssued
  <2>2. At(r, "issue") /\ now' = now /\ accounts' = accounts /\ ended' = ended
    BY <2>1 DEF Issue, accountVars
  <2>3. req[r].user \in Users /\ req[r].role \in Roles /\ req[r].read \in Nat
    BY <2>2, GrantShape DEF At
  <2>5. tokens'[t] = token(r)
    BY <2>1
  <2>6. /\ req[r].read <= now /\ now <= req[r].read + CallTimeout
        /\ Held(accounts, ended, req[r].user, req[r].role, req[r].read)
    BY <2>2 DEF AuthorityInv
  <2>7. Held(accounts', ended', tokens'[t].user, tokens'[t].role, tokens'[t].read)
    BY <2>2, <2>5, <2>6 DEF Held
  <2> QED BY <1>0, <2>2, <2>3, <2>5, <2>6, <2>7
<1> QED BY <1>1, <1>2

\* A request that is being served was let in, or is served on.
LEMMA ServedNext ==
    ASSUME IndInv, [Next]_vars, NEW r \in Requests, Handled(r)'
    PROVE  /\ req'[r].token = req[r].token
           /\ req'[r].late = req[r].late
           /\ \/ Handled(r) /\ req'[r].at = req[r].at
              \/ /\ At(r, "verify")
                 /\ now < Claims(r).exp
                 /\ req'[r].at = now
<1> USE DEF IndInv
<1>1. CASE req'[r] = req[r]
  BY <1>1 DEF Handled
<1>2. CASE Block(r) \/ OpenSession(r) \/ Statement(r) \/ Audit(r)
  BY <1>2, HandledStays
<1>3. CASE Verify(r) /\ req'[r] # req[r]
  <2> DEFINE q == req[r]
  <2>1. /\ now < Claims(r).exp
        /\ req'[r] = [stage |-> "handle", token |-> q.token, op |-> q.op, late |-> q.late,
                      at |-> now, hit |-> FALSE]
    BY <1>3 DEF Verify, Become, Handled, TypeOK, Idle
  <2>2. At(r, "verify")
    BY <1>3 DEF Verify
  <2> QED BY <2>1, <2>2
<1> QED BY <1>1, <1>2, <1>3, Arrivals

LEMMA AuthorityNext == IndInv /\ [Next]_vars => AuthorityInv'
<1> SUFFICES ASSUME IndInv, [Next]_vars PROVE AuthorityInv'
  OBVIOUS
<1>1. ASSUME NEW r \in Requests, Handled(r)' PROVE req'[r].at < Claims(r)'.exp
  <2>1. At(r, "verify") \/ Handled(r)
    BY <1>1, ServedNext
  <2>2. req[r].token \in DOMAIN tokens
    BY <2>1, ServeShape DEF IndInv
  <2>3. tokens'[req[r].token].exp = tokens[req[r].token].exp
    BY <2>2, TokensStay DEF IndInv
  <2>4. Handled(r) => req[r].at < Claims(r).exp
    BY DEF IndInv, AuthorityInv
  <2> QED BY <1>1, <2>3, <2>4, ServedNext DEF Claims
<1> QED BY <1>1, IssuingNext, TokenNext DEF AuthorityInv

\* What a token lets through was read before it expires by no more than its
\* life and the time its signing took.
LEMMA AuthorityMeaning == IndInv => AuthorityBounded
<1> SUFFICES ASSUME IndInv, NEW r \in Requests, Handled(r)
             PROVE  \/ accounts[Claims(r).user] = [role |-> Claims(r).role, active |-> TRUE]
                    \/ \E e \in ended :
                          /\ e.user = Claims(r).user
                          /\ e.role = Claims(r).role
                          /\ req[r].at < e.time + CallTimeout + TokenLife
  BY DEF AuthorityBounded
<1>1. req[r].token \in DOMAIN tokens /\ Claims(r) \in Tokens /\ req[r].at \in Nat
  BY ServeShape, HandleShape DEF IndInv, Claims
<1>2. Claims(r).read \in Nat /\ Claims(r).exp \in Nat
  BY <1>1 DEF Tokens
<1>3. /\ Claims(r).exp <= Claims(r).read + CallTimeout + TokenLife
      /\ Held(accounts, ended, Claims(r).user, Claims(r).role, Claims(r).read)
      /\ req[r].at < Claims(r).exp
  BY <1>1 DEF IndInv, AuthorityInv, Claims
<1>4. ASSUME NEW e \in ended, Claims(r).read <= e.time
      PROVE  req[r].at < e.time + CallTimeout + TokenLife
  <2>1. e.time \in Nat
    BY DEF IndInv, TypeOK
  <2> QED BY <1>1, <1>2, <1>3, <1>4, <2>1, TimesAssumption
<1> QED BY <1>3, <1>4 DEF Held

-----------------------------------------------------------------------------

(***************************************************************************)
(* Logout.                                                                 *)
(***************************************************************************)

LEMMA LogoutNext == IndInv /\ [Next]_vars => LogoutInv'
<1> SUFFICES ASSUME IndInv, [Next]_vars PROVE LogoutInv'
  OBVIOUS
<1> USE DEF IndInv
<1>0. now \in Nat /\ now' \in Nat /\ now <= now'
  BY TimePasses
<1>1. ASSUME NEW t \in DOMAIN tokens', tokens'[t].blocked # 0
      PROVE  tokens'[t].exp <= tokens'[t].blocked
  <2>1. CASE t \notin DOMAIN tokens
    BY <1>1, <2>1, TokenIssued
  <2>2. CASE t \in DOMAIN tokens /\ tokens'[t] = tokens[t]
    BY <1>1, <2>2 DEF LogoutInv
  <2>3. CASE t \in DOMAIN tokens /\ tokens'[t] # tokens[t]
    <3>1. PICK r \in Requests : Block(r) /\ req[r].token = t
      BY <2>3, TokensStay
    <3>2. tokens[t] \in Tokens /\ tokens'[t].exp = tokens[t].exp
      BY <2>3, TokensStay
    <3>3. tokens'[t].blocked = now + Bigger(tokens[t].exp - now, 1)
      BY <2>3, <3>1, <3>2 DEF Block, Claims, TypeOK, Tokens
    <3>4. tokens[t].exp \in Nat
      BY <3>2 DEF Tokens
    <3> QED BY <1>0, <3>2, <3>3, <3>4 DEF Bigger
  <2> QED BY <2>1, <2>2, <2>3
<1>2. ASSUME NEW r \in Requests, At(r, "verify")', req'[r].late
      PROVE  Claims(r)'.exp <= now'
  <2>1. CASE req'[r] = req[r]
    <3>1. Claims(r).exp <= now
      BY <1>2, <2>1 DEF LogoutInv, At
    <3>2. req[r].token \in DOMAIN tokens /\ At(r, "verify")
      BY <1>2, <2>1, ServeShape DEF At
    <3>3. Claims(r) \in Tokens /\ Claims(r)'.exp = Claims(r).exp
      BY <2>1, <3>2, TokensStay DEF Claims
    <3>4. Claims(r).exp \in Nat
      BY <3>3 DEF Tokens
    <3> QED BY <1>0, <3>1, <3>3, <3>4
  <2>2. CASE req'[r] # req[r]
    <3>1. PICK t \in DOMAIN tokens, op \in Ops : Check(r, t, op)
      BY <1>2, <2>2, Arrivals
    <3>2. /\ tokens[t].blocked <= now /\ tokens' = tokens
          /\ req'[r].token = t /\ req'[r].late = (tokens[t].blocked # 0)
      BY <3>1 DEF Check, Begin, Become, TypeOK
    <3>3. tokens[t].exp <= tokens[t].blocked
      BY <1>2, <3>2 DEF LogoutInv
    <3>4. tokens[t].exp \in Nat /\ tokens[t].blocked \in Nat
      BY TokensStay DEF Tokens
    <3> QED BY <1>0, <3>2, <3>3, <3>4 DEF Claims
  <2> QED BY <2>1, <2>2
<1>3. ASSUME NEW r \in Requests, Handled(r)' PROVE ~req'[r].late
  <2>1. req'[r].late = req[r].late
    BY <1>3, ServedNext
  <2>2. CASE Handled(r)
    BY <2>1, <2>2 DEF LogoutInv, LogoutSticks
  <2>3. CASE At(r, "verify") /\ now < Claims(r).exp
    <3>1. Claims(r) \in Tokens
      BY <2>3, ServeShape DEF Claims
    <3>2. Claims(r).exp \in Nat
      BY <3>1 DEF Tokens
    <3> QED BY <1>0, <2>1, <2>3, <3>2 DEF LogoutInv
  <2> QED BY <1>3, <2>2, <2>3, ServedNext
<1> QED BY <1>1, <1>2, <1>3 DEF LogoutInv, LogoutSticks, Claims

-----------------------------------------------------------------------------

(***************************************************************************)
(* The trail.                                                              *)
(***************************************************************************)

\* A transaction takes a row that no other holds, and keeps its change.
LEMMA HoldsNext ==
    ASSUME IndInv, [Next]_vars, NEW r \in Requests, NEW u \in Users, Holds(r, u)'
    PROVE  /\ req'[r].op = req[r].op
           /\ req[r].op.user = u
           /\ \/ Holds(r, u)
              \/ Statement(r) /\ Hits(r) /\ ~Locked(u)
<1> USE DEF IndInv
<1>1. CASE req'[r] = req[r]
  BY <1>1 DEF Holds
<1>2. CASE req'[r] # req[r]
  <2>1. /\ Statement(r) \/ Audit(r)
        /\ Handled(r)'
    BY <1>2, Arrivals DEF Holds, At, Handled
  <2>2. req'[r].op = req[r].op /\ req'[r].op.user = u /\ req'[r].hit
    BY <2>1, HandledStays DEF Holds
  <2>3. CASE Audit(r)
    <3>1. req[r].hit /\ req[r].stage = "audit"
      BY <2>1, <2>2, <2>3, HandledStays DEF Audit, At
    <3> QED BY <2>2, <3>1 DEF Holds
  <2>4. CASE Statement(r)
    <3>1. Hits(r)
      BY <2>1, <2>2, <2>4, HandledStays
    <3> QED BY <2>2, <2>4, <3>1 DEF Statement
  <2> QED BY <2>1, <2>3, <2>4
<1> QED BY <1>1, <1>2

\* A change leaves "commit" by Commit or Fail, and comes to it by Audit.
LEMMA CommittingNext ==
    ASSUME IndInv, [Next]_vars, NEW r \in Requests, NEW u \in Users,
           ~Audit(r), ~Commit(r), ~Fail(r)
    PROVE  /\ Committing(r, u)' <=> Committing(r, u)
           /\ Committing(r, u) => req'[r].op = req[r].op
<1> USE DEF IndInv
<1>1. CASE req'[r] = req[r]
  BY <1>1 DEF Committing, Holds, At
<1>2. CASE req'[r] # req[r]
  <2>1. ~Committing(r, u)'
    BY <1>2, Arrivals DEF Committing
  <2>2. ~At(r, "commit")
    BY <1>2, RequestSteps
       DEF At, Callback, Refresh, Check, Begin, Grant, DeleteState, Exchange, Lookup, Issue,
           Serve, Verify, Answer, OpenSession, Block, Revoke, Statement
  <2> QED BY <2>1, <2>2 DEF Committing
<1> QED BY <1>1, <1>2

\* What an action of one request leaves to the others.
LEMMA OthersStay ==
    ASSUME TypeOK, [Next]_vars, NEW r \in Requests, Statement(r) \/ Audit(r) \/ Commit(r) \/ Fail(r)
    PROVE  \A s \in Requests \ {r} : req'[s] = req[s]
BY DEF Statement, Audit, Commit, Fail, Become, Goto, TypeOK

\* A trail that is not written, about a row that is not, stays as it is.
LEMMA TrailKept ==
    ASSUME NEW u \in Users, TrailOf(u), trail'[u] = trail[u], accounts'[u] = accounts[u],
           \A r \in Requests : /\ Committing(r, u)' <=> Committing(r, u)
                               /\ Committing(r, u) => req'[r].op = req[r].op
    PROVE  TrailOf(u)'
BY DEF TrailOf

\* An account is never deleted.
LEMMA AccountsStay ==
    ASSUME IndInv, [Next]_vars, NEW u \in Users, accounts[u] # NoAccount
    PROVE  accounts'[u] # NoAccount
<1> USE DEF IndInv
<1>1. ASSUME NEW r \in Requests, Commit(r), accounts'[u] # accounts[u]
      PROVE  accounts'[u] # NoAccount
  <2>1. req[r].op \in Changes
    BY <1>1 DEF Commit, At, StageInv
  <2>2. req[r].op.user = u /\ accounts'[u] = Apply(req[r].op, accounts[u])
    BY <1>1 DEF Commit, TypeOK
  <2>3. accounts[u] \in Accounts
    BY DEF TypeOK
  <2> QED BY <2>1, <2>2, <2>3, ApplyType, AccountsAssumption
<1>2. (\A r \in Requests : ~Commit(r)) => UNCHANGED accounts
  BY DEF Next, Tick, Login, Callback, Refresh, Check, Grant, DeleteState, Exchange, Lookup,
         Issue, Serve, Verify, Answer, OpenSession, Block, Revoke, Statement, Audit, Fail,
         accountVars, vars
<1> QED BY <1>1, <1>2

LEMMA TrailOfNext ==
    ASSUME IndInv, [Next]_vars, NEW u \in Users \ tainted'
    PROVE  TrailOf(u)'
<1> USE DEF IndInv
<1>0. /\ \A r, s \in Requests : Holds(r, u) /\ Holds(s, u) => r = s
      /\ u \notin tainted => TrailOf(u)
  BY DEF TrailInv
<1>1. ASSUME NEW r \in Requests, Audit(r) PROVE TrailOf(u)'
  <2>1. /\ u \notin tainted /\ accounts' = accounts
        /\ At(r, "audit") /\ ~At(r, "commit")
    BY <1>1 DEF Audit, At
  <2>2. \A s \in Requests \ {r} : req'[s] = req[s]
    BY <1>1, OthersStay
  <2>3. /\ req'[r].stage = "commit" /\ req'[r].op = req[r].op /\ req'[r].hit = req[r].hit
    <3>1. Handled(r)
      BY <2>1 DEF At, Handled
    <3>2. req'[r] = [req[r] EXCEPT !.stage = "commit"]
      BY <1>1 DEF Audit, Goto, TypeOK
    <3> QED BY <3>1, <3>2, HandleShape
  <2>4. CASE req[r].op.user = u
    <3>1. req[r].hit /\ trail' = [trail EXCEPT ![u] = Apply(req[r].op, @)]
      BY <1>1, <2>4 DEF Audit
    <3>2. Holds(r, u) /\ \A s \in Requests \ {r} : ~Holds(s, u)
      BY <1>0, <2>1, <2>4, <3>1 DEF Holds, At
    <3>3. trail[u] = accounts[u]
      BY <1>0, <2>1, <3>2 DEF TrailOf, Committing
    <3>4. trail'[u] = Apply(req[r].op, accounts[u])
      BY <3>1, <3>3 DEF TypeOK
    <3>5. \A s \in Requests \ {r} : ~Committing(s, u)'
      BY <2>2, <3>2 DEF Committing, Holds, At
    <3>6. Committing(r, u)'
      BY <2>3, <2>4, <3>1 DEF Committing, Holds, At
    <3> QED BY <2>1, <2>3, <3>4, <3>5, <3>6 DEF TrailOf
  <2>5. CASE req[r].op.user # u
    <3>1. trail'[u] = trail[u]
      BY <1>1, <2>5 DEF Audit, TypeOK
    <3>2. ~Committing(r, u) /\ ~Committing(r, u)'
      BY <2>3, <2>5 DEF Committing, Holds
    <3>3. \A s \in Requests \ {r} : Committing(s, u)' <=> Committing(s, u)
      BY <2>2 DEF Committing, Holds, At
    <3> QED BY <1>0, <2>1, <2>2, <3>1, <3>2, <3>3, TrailKept
  <2> QED BY <2>4, <2>5
<1>2. ASSUME NEW r \in Requests, Commit(r) PROVE TrailOf(u)'
  <2>1. /\ u \notin tainted /\ trail' = trail /\ At(r, "commit")
    BY <1>2 DEF Commit, auditVars
  <2>2. \A s \in Requests \ {r} : req'[s] = req[s]
    BY <1>2, OthersStay
  <2>3. ~Committing(r, u)'
    BY <1>2 DEF Commit, Become, Idle, TypeOK, Committing, At
  <2>4. CASE Holds(r, u)
    <3>1. \A s \in Requests \ {r} : ~Holds(s, u)
      BY <1>0, <2>4
    <3>2. \A s \in Requests : ~Committing(s, u)'
      BY <2>2, <2>3, <3>1 DEF Committing, Holds
    <3>3. accounts'[u] = Apply(req[r].op, accounts[u])
      BY <1>2, <2>4 DEF Commit, Holds, TypeOK
    <3>4. trail[u] = Apply(req[r].op, accounts[u])
      BY <1>0, <2>1, <2>4 DEF TrailOf, Committing
    <3> QED BY <2>1, <3>2, <3>3, <3>4 DEF TrailOf
  <2>5. CASE ~Holds(r, u)
    <3>1. accounts'[u] = accounts[u]
      BY <1>2, <2>1, <2>5 DEF Commit, Holds, At, TypeOK
    <3>2. \A s \in Requests \ {r} : Committing(s, u)' <=> Committing(s, u)
      BY <2>2 DEF Committing, Holds, At
    <3>3. ~Committing(r, u)
      BY <2>5 DEF Committing
    <3> QED BY <1>0, <2>1, <2>2, <2>3, <3>1, <3>2, <3>3, TrailKept
  <2> QED BY <2>4, <2>5
<1>3. ASSUME NEW r \in Requests, Fail(r) PROVE TrailOf(u)'
  <2>1. u \notin tainted /\ trail' = trail /\ accounts' = accounts
    BY <1>3 DEF Fail
  <2>2. \A s \in Requests \ {r} : req'[s] = req[s]
    BY <1>3, OthersStay
  <2>3. ~Committing(r, u) /\ ~Committing(r, u)'
    BY <1>3 DEF Fail, Become, Idle, TypeOK, Committing, Holds, At
  <2>4. \A s \in Requests \ {r} : Committing(s, u)' <=> Committing(s, u)
    BY <2>2 DEF Committing, Holds, At
  <2> QED BY <1>0, <2>1, <2>2, <2>3, <2>4, TrailKept
<1>4. CASE \A r \in Requests : ~Audit(r) /\ ~Commit(r) /\ ~Fail(r)
  <2>1. UNCHANGED <<accounts, trail, tainted>>
    BY <1>4 DEF Next, Tick, Login, Callback, Refresh, Check, Grant, DeleteState, Exchange,
                Lookup, Issue, Serve, Verify, Answer, OpenSession, Block, Revoke, Statement,
                accountVars, auditVars, vars
  <2>2. \A r \in Requests : /\ Committing(r, u)' <=> Committing(r, u)
                            /\ Committing(r, u) => req'[r].op = req[r].op
    BY <1>4, CommittingNext
  <2> QED BY <1>0, <2>1, <2>2, TrailKept
<1> QED BY <1>1, <1>2, <1>3, <1>4

LEMMA TrailNext == IndInv /\ [Next]_vars => TrailInv'
<1> SUFFICES ASSUME IndInv, [Next]_vars PROVE TrailInv'
  OBVIOUS
<1>1. ASSUME NEW u \in Users, NEW r \in Requests, NEW s \in Requests, Holds(r, u)', Holds(s, u)'
      PROVE  r = s
  <2>1. CASE Holds(r, u) /\ Holds(s, u)
    BY <2>1 DEF IndInv, TrailInv
  <2>2. CASE Statement(r) /\ ~Locked(u)
    <3>1. ~Holds(s, u)
      BY <2>2 DEF Locked
    <3>2. s # r => req'[s] = req[s]
      BY <2>2, OthersStay DEF IndInv
    <3> QED BY <1>1, <3>1, <3>2 DEF Holds
  <2>3. CASE Statement(s) /\ ~Locked(u)
    <3>1. ~Holds(r, u)
      BY <2>3 DEF Locked
    <3>2. s # r => req'[r] = req[r]
      BY <2>3, OthersStay DEF IndInv
    <3> QED BY <1>1, <3>1, <3>2 DEF Holds
  <2> QED BY <1>1, <2>1, <2>2, <2>3, HoldsNext
<1>2. ASSUME NEW u \in Users, NEW r \in Requests, Holds(r, u)', req'[r].op.kind # "provision"
      PROVE  accounts'[u] # NoAccount
  <2>1. /\ req'[r].op = req[r].op /\ req[r].op.user = u
        /\ Holds(r, u) \/ Hits(r)
    BY <1>2, HoldsNext
  <2>2. accounts[u] # NoAccount
    BY <1>2, <2>1 DEF IndInv, TrailInv, Hits
  <2> QED BY <2>2, AccountsStay
<1> QED BY <1>1, <1>2, TrailOfNext DEF TrailInv

LEMMA TrailMeaning == IndInv => TrailInOrder
BY DEF IndInv, TrailInv, TrailOf, TrailInOrder, Locked, Committing

-----------------------------------------------------------------------------

(***************************************************************************)
(* The theorems.                                                           *)
(***************************************************************************)

LEMMA IndInvInit == Init => IndInv
<1> SUFFICES ASSUME Init PROVE IndInv
  OBVIOUS
<1>1. \A r \in Requests : req[r] = Idle /\ Idle.stage = "idle" /\ Idle \notin Serving
  BY DEF Init, Idle, Serving, Served
<1>2. DOMAIN tokens = {} /\ tokens \in Seq(Tokens) /\ Len(tokens) = 0
  BY DEF Init
<1>3. TypeOK
  <2>1. budget.time \in Nat /\ budget.tokens \in Nat /\ budget.requests \in Nat
    BY BudgetsAssumption DEF Init
  <2> QED BY <1>1, <1>2, <2>1, AccountsAssumption DEF Init, TypeOK
<1>4. StageInv
  BY <1>1 DEF StageInv
<1>5. AuthorityInv
  BY <1>1, <1>2 DEF AuthorityInv, At, Handled
<1>6. LogoutInv
  BY <1>1, <1>2 DEF LogoutInv, LogoutSticks, At, Handled
<1>7. TrailInv
  BY <1>1 DEF Init, TrailInv, TrailOf, Holds, Committing, At
<1> QED BY <1>3, <1>4, <1>5, <1>6, <1>7 DEF IndInv

LEMMA IndInvNext == IndInv /\ [Next]_vars => IndInv'
BY TypeNext, StageNext, AuthorityNext, LogoutNext, TrailNext DEF IndInv

\* The state of module 1 keeps its types, the token of every request that is
\* served included, and what the following theorems rest on is invariant.
THEOREM Invariance == Spec => []IndInv
BY IndInvInit, IndInvNext, PTL DEF Spec

\* Every variable of the sessions of module 1 keeps its type.
THEOREM TypeCorrectness == Spec => []TypeOK
<1>1. IndInv => TypeOK
  BY DEF IndInv
<1> QED BY <1>1, Invariance, PTL

\* A role outlives the account's by no more than the life of a token and the
\* lookup before it, whatever these are: role and is_active are read when a
\* token is signed, and not when it is used.
THEOREM AuthoritySoundness == Spec => []AuthorityBounded
BY Invariance, AuthorityMeaning, PTL

\* A token that was logged out lets no request through: its key stays in the
\* blocklist as long as verify_token would take the token.
THEOREM LogoutSoundness == Spec => []LogoutSticks
<1>1. IndInv => LogoutSticks
  BY DEF IndInv, LogoutInv
<1> QED BY <1>1, Invariance, PTL

\* The audit rows about an account, which log_audit commits ahead of the change
\* itself, replay to the account, however many requests change it.
THEOREM TrailSoundness == Spec => []TrailInOrder
BY Invariance, TrailMeaning, PTL

-----------------------------------------------------------------------------
(***************************************************************************)
(* Who waits for whom.                                                     *)
(***************************************************************************)

\* The guard of LockTimeout: the statement of r waits for another one's row.
LockWait(r) == At(r, "session") /\ Hits(r) /\ Locked(req[r].op.user)

\* The guards of Grant and Serve: r can go on without a timeout.
Ready(r) ==
    \/ req[r].stage \in {"delete", "exchange", "issue", "verify", "revoke", "commit"}
    \/ At(r, "session") /\ ~LockWait(r)
    \/ At(r, "handle") /\ req[r].op \notin Changes
    \/ req[r].stage \in {"lookup", "handle", "audit"} /\ Free

\* When nobody is ready, the pool is used up, by requests that wait for their
\* audit row's connection and by those whose row such a request holds.
Standstills ==
    (\A r \in Requests : ~Ready(r)) =>
        \A r \in Requests : ~At(r, "idle") =>
            /\ ~Free
            /\ \E s \in Requests : At(s, "audit")
            /\ Connected(r) =>
                  \/ At(r, "audit")
                  \/ LockWait(r) /\ \E s \in Requests : At(s, "audit") /\ Holds(s, req[r].op.user)

\* A request that is under way can go on, or times out, or waits for one that
\* does: unless every connection waits for one more.
NobodyWaitsForEver ==
    \A r \in Requests : ~At(r, "idle") =>
        \/ Ready(r) \/ LockWait(r)
        \/ \E s \in Requests : Connected(s) /\ (Ready(s) \/ LockWait(s))
        \/ Wedged

LEMMA StageRange ==
    ASSUME TypeOK, NEW r \in Requests
    PROVE  req[r].stage \in {"idle", "delete", "exchange", "lookup", "issue", "verify",
                             "handle", "session", "audit", "commit", "revoke"}
<1>1. req[r] \in {Idle} \cup Granting \cup Serving
  BY DEF TypeOK
<1> QED BY <1>1 DEF Idle, Granting, Serving, Served

\* The guards are complete: what keeps a request from going on is the pool, or a row.
LEMMA NotReady ==
    ASSUME TypeOK, NEW r \in Requests, ~At(r, "idle"), ~Ready(r)
    PROVE  \/ LockWait(r)
           \/ req[r].stage \in {"lookup", "handle", "audit"} /\ ~Free
BY StageRange DEF Ready, At

LEMMA FullPool ==
    ASSUME ~Free
    PROVE  \E s \in Requests : Connected(s)
<1>1. SUFFICES ASSUME \A s \in Requests : ~Connected(s) PROVE FALSE
  OBVIOUS
<1>2. {s \in Requests : Connected(s)} = {}
  BY <1>1
<1>3. Cardinality({s \in Requests : Connected(s)}) = 0
  BY <1>2, FS_EmptySet
<1> QED BY <1>3, PoolAssumption DEF Free

LEMMA StandstillShape ==
    ASSUME TypeOK, \A r \in Requests : ~Ready(r), NEW r \in Requests, ~At(r, "idle")
    PROVE  /\ ~Free
           /\ \E s \in Requests : At(s, "audit")
           /\ Connected(r) =>
                 \/ At(r, "audit")
                 \/ LockWait(r) /\ \E s \in Requests : At(s, "audit") /\ Holds(s, req[r].op.user)
<1>1. ASSUME NEW q \in Requests, LockWait(q)
      PROVE  ~Free /\ \E s \in Requests : At(s, "audit") /\ Holds(s, req[q].op.user)
  <2>1. PICK s \in Requests : Holds(s, req[q].op.user)
    BY <1>1 DEF LockWait, Locked
  <2>2. At(s, "audit")
    BY <2>1 DEF Holds, Ready, At
  <2> QED BY <2>1, <2>2 DEF Ready, At
<1>2. ~Free
  BY <1>1, NotReady
<1>3. ASSUME NEW q \in Requests, Connected(q)
      PROVE  At(q, "audit") \/ LockWait(q)
  BY <1>3, NotReady DEF Connected, At
<1>4. \E s \in Requests : At(s, "audit")
  BY <1>1, <1>2, <1>3, FullPool
<1> QED BY <1>1, <1>2, <1>3, <1>4

\* Row locks and connections are waited for in no circle but two: every
\* connection waiting for the connection of its audit row, and, until
\* command_timeout ends it, a statement waiting for the row of such a request.
THEOREM StandstillSoundness == Spec => []Standstills
<1>1. TypeOK => Standstills
  BY StandstillShape DEF Standstills
<1> QED BY <1>1, TypeCorrectness, PTL

\* What AnsweredUnlessWedged rests on: unless the pool is wedged, whoever is not
\* answered can go on or waits for one that can.
THEOREM ProgressSoundness == Spec => []NobodyWaitsForEver
<1>1. TypeOK => NobodyWaitsForEver
  <2> SUFFICES ASSUME TypeOK, NEW r \in Requests, ~At(r, "idle"), ~Ready(r), ~LockWait(r),
                      ~Wedged
               PROVE  \E s \in Requests : Connected(s) /\ (Ready(s) \/ LockWait(s))
    BY DEF NobodyWaitsForEver
  <2>1. ~Free
    BY NotReady
  <2>2. PICK s \in Requests : Connected(s) /\ ~At(s, "audit")
    <3>1. SUFFICES ASSUME \A s \in Requests : Connected(s) => At(s, "audit") PROVE FALSE
      OBVIOUS
    <3>2. {s \in Requests : Connected(s)} = {s \in Requests : At(s, "audit")}
      BY <3>1 DEF Connected, At
    <3>3. ~(Cardinality({s \in Requests : Connected(s)}) < PoolSize)
      BY <2>1 DEF Free
    <3>4. ~(Cardinality({s \in Requests : At(s, "audit")}) >= PoolSize)
      BY DEF Wedged
    <3>5. Cardinality({s \in Requests : At(s, "audit")}) \in Nat
      BY RequestsAssumption, FS_Subset, FS_CardinalityType
    <3> QED BY <3>2, <3>3, <3>4, <3>5, PoolAssumption
  <2> QED BY <2>2, NotReady DEF Connected, At
<1> QED BY <1>1, TypeCorrectness, PTL

\* What the helpers do to the stage of a request.
LEMMA StageSet ==
    ASSUME TypeOK, NEW r \in Requests, NEW stage
    PROVE  /\ [req[r] EXCEPT !.stage = stage].stage = stage
           /\ \A hit : [req[r] EXCEPT !.stage = stage, !.hit = hit].stage = stage
           /\ Goto(r, stage) => req'[r].stage = stage
           /\ \A q : Become(r, q) => req'[r] = q
<1>1. req[r] \in {Idle} \cup Granting \cup Serving /\ req \in [Requests -> {Idle} \cup Granting \cup Serving]
  BY DEF TypeOK
<1>2. "stage" \in DOMAIN req[r] /\ req[r] = [x \in DOMAIN req[r] |-> req[r][x]]
  BY <1>1 DEF Idle, Granting, Serving, Served
<1>3. /\ [req[r] EXCEPT !.stage = stage].stage = stage
      /\ \A hit : [req[r] EXCEPT !.stage = stage, !.hit = hit].stage = stage
  BY <1>2
<1> QED BY <1>1, <1>3 DEF Goto, Become

\* The ways a request goes: where Free is said, it takes a connection.
LEMMA OwnSteps ==
    ASSUME TypeOK, NEW r \in Requests, Grant(r) \/ Serve(r) \/ Fail(r)
    PROVE  /\ ~At(r, "idle")
           /\ \/ req'[r] = Idle
              \/ At(r, "delete") /\ req'[r].stage = "exchange"
              \/ At(r, "exchange") /\ req'[r].stage = "lookup"
              \/ At(r, "lookup") /\ req'[r].stage = "issue" /\ Free
              \/ At(r, "verify") /\ req'[r].stage = "handle"
              \/ At(r, "handle") /\ req'[r].stage = "revoke"
              \/ At(r, "handle") /\ req'[r].stage = "session" /\ Free
              \/ At(r, "session") /\ req'[r].stage = "audit"
              \/ At(r, "audit") /\ req'[r].stage = "commit" /\ Free
<1>1. CASE DeleteState(r)
  BY <1>1, StageSet DEF DeleteState, At
<1>2. CASE Exchange(r)
  BY <1>2, StageSet DEF Exchange, At
<1>3. CASE Lookup(r)
  BY <1>3, StageSet DEF Lookup, At
<1>4. CASE Issue(r) \/ Answer(r) \/ Revoke(r) \/ Fail(r)
  BY <1>4, StageSet DEF Issue, Answer, Revoke, Fail, At
<1>5. CASE Verify(r)
  BY <1>5, StageSet DEF Verify, At
<1>6. CASE Block(r)
  BY <1>6, StageSet DEF Block, At
<1>7. CASE OpenSession(r)
  BY <1>7, StageSet DEF OpenSession, At
<1>8. CASE Statement(r)
  <2>1. At(r, "session")
    BY <1>8 DEF Statement
  <2>2. \/ Become(r, Idle)
        \/ Become(r, [req[r] EXCEPT !.stage = "audit", !.hit = Hits(r)])
    BY <1>8 DEF Statement
  <2>3. req'[r] = Idle \/ req'[r] = [req[r] EXCEPT !.stage = "audit", !.hit = Hits(r)]
    BY <2>2 DEF Become, TypeOK
  <2>4. [req[r] EXCEPT !.stage = "audit", !.hit = Hits(r)].stage = "audit"
    BY StageSet
  <2> QED BY <2>1, <2>3, <2>4 DEF At
<1>9. CASE Audit(r)
  BY <1>9, StageSet DEF Audit, At
<1>10. CASE Commit(r)
  BY <1>10, StageSet DEF Commit, At
<1> QED BY <1>1, <1>2, <1>3, <1>4, <1>5, <1>6, <1>7, <1>8, <1>9, <1>10 DEF Grant, Serve

\* A request only takes a connection that is free.
LEMMA ConnectsWhenFree ==
    ASSUME TypeOK, [Next]_vars, NEW r \in Requests, Connected(r)', ~Connected(r)
    PROVE  Free
<1>1. req'[r] # req[r]
  BY DEF Connected
<1>2. req'[r].stage \in {"issue", "session", "audit", "commit"}
  BY DEF Connected
<1>3. CASE \E l \in Logins, u \in Users : Callback(r, l, u) \/ Refresh(r, l, u)
  <2>1. \E l \in Logins, u \in Users :
           \/ req'[r] = [stage |-> "delete", login |-> l, user |-> u]
           \/ req'[r] = [stage |-> "lookup", login |-> l, user |-> u]
    BY <1>3, StageSet DEF Callback, Refresh, Begin
  <2> QED BY <1>2, <2>1
<1>4. CASE \E t \in DOMAIN tokens, op \in Ops : Check(r, t, op)
  <2>1. PICK t \in DOMAIN tokens, op \in Ops :
           Become(r, [stage |-> "verify", token |-> t, op |-> op, late |-> tokens[t].blocked # 0])
    BY <1>4 DEF Check, Begin
  <2>2. req'[r] = [stage |-> "verify", token |-> t, op |-> op, late |-> tokens[t].blocked # 0]
    BY <2>1, StageSet
  <2> QED BY <1>2, <2>2
<1>5. CASE Grant(r) \/ Serve(r) \/ Fail(r)
  <2>1. req'[r] # Idle
    BY <1>2 DEF Idle
  <2> QED BY <1>2, <1>5, <2>1, OwnSteps DEF Connected, At
<1> QED BY <1>1, <1>3, <1>4, <1>5, RequestSteps

\* One request at a time.
LEMMA OneChanges ==
    ASSUME TypeOK, [Next]_vars, NEW r \in Requests, req'[r] # req[r]
    PROVE  \A s \in Requests \ {r} : req'[s] = req[s]
<1>1. PICK q : \/ req' = [req EXCEPT ![r] = q] \/ req' = [req EXCEPT ![r].stage = q]
  <2>1. CASE \E l \in Logins, u \in Users : Callback(r, l, u) \/ Refresh(r, l, u)
    BY <2>1 DEF Callback, Refresh, Begin, Become
  <2>2. CASE \E t \in DOMAIN tokens, op \in Ops : Check(r, t, op)
    BY <2>2 DEF Check, Begin, Become
  <2>3. CASE Grant(r)
    BY <2>3 DEF Grant, DeleteState, Exchange, Lookup, Issue, Become, Goto
  <2>4. CASE Serve(r)
    <3>1. CASE Verify(r) \/ Answer(r) \/ Block(r) \/ Revoke(r)
      BY <3>1 DEF Verify, Answer, Block, Revoke, Become, Goto
    <3>2. CASE OpenSession(r) \/ Statement(r) \/ Audit(r) \/ Commit(r)
      BY <3>2 DEF OpenSession, Statement, Audit, Commit, Become, Goto
    <3> QED BY <2>4, <3>1, <3>2 DEF Serve
  <2>5. CASE Fail(r)
    BY <2>5 DEF Fail, Become
  <2> QED BY RequestSteps, <2>1, <2>2, <2>3, <2>4, <2>5
<1> QED BY <1>1 DEF TypeOK

PoolHeld == Cardinality({r \in Requests : Connected(r)}) <= PoolSize

\* The transactions that are open at a time have a connection each.
THEOREM PoolSoundness == Spec => []PoolHeld
<1> DEFINE C == {r \in Requests : Connected(r)}
<1>0. IsFiniteSet(C) /\ Cardinality(C) \in Nat /\ IsFiniteSet(C') /\ Cardinality(C') \in Nat
  <2>1. C \subseteq Requests /\ C' \subseteq Requests
    OBVIOUS
  <2> QED BY <2>1, RequestsAssumption, FS_Subset, FS_CardinalityType
<1>1. Init => PoolHeld
  <2> SUFFICES ASSUME Init PROVE PoolHeld
    OBVIOUS
  <2>1. C = {}
    BY DEF Init, Connected, Idle
  <2> QED BY <2>1, FS_EmptySet, PoolAssumption DEF PoolHeld
<1>2. TypeOK /\ PoolHeld /\ [Next]_vars => PoolHeld'
  <2> SUFFICES ASSUME TypeOK, PoolHeld, [Next]_vars PROVE Cardinality(C') <= PoolSize
    BY DEF PoolHeld
  <2>1. Cardinality(C) <= PoolSize
    BY DEF PoolHeld
  <2>2. CASE C' \subseteq C
    <3>1. Cardinality(C') <= Cardinality(C)
      BY <1>0, <2>2, FS_Subset
    <3> QED BY <1>0, <2>1, <3>1, PoolAssumption
  <2>3. ASSUME NEW r \in Requests, Connected(r)', ~Connected(r)
        PROVE  Cardinality(C') <= PoolSize
    <3>1. Cardinality(C) < PoolSize
      BY <2>3, ConnectsWhenFree DEF Free
    <3>2. req'[r] # req[r]
      BY <2>3 DEF Connected
    <3>3. \A s \in Requests \ {r} : req'[s] = req[s]
      BY <3>2, OneChanges
    <3>4. C' \subseteq C \cup {r}
      BY <3>3 DEF Connected
    <3>5. IsFiniteSet(C \cup {r}) /\ Cardinality(C \cup {r}) <= Cardinality(C) + 1
      <4>1. r \notin C
        BY <2>3
      <4>2. IsFiniteSet(C) /\ Cardinality(C) \in Nat
        BY <1>0
      <4> HIDE DEF C
      <4> QED BY <4>1, <4>2, FS_AddElement
    <3>6. Cardinality(C') <= Cardinality(C \cup {r})
      BY <3>4, <3>5, FS_Subset
    <3>7. Cardinality(C \cup {r}) \in Nat
      BY <3>5, FS_CardinalityType
    <3> HIDE DEF C
    <3> QED BY <1>0, <3>1, <3>5, <3>6, <3>7, PoolAssumption
  <2> QED BY <2>2, <2>3
<1> QED BY <1>1, <1>2, TypeCorrectness, PTL DEF Spec

-----------------------------------------------------------------------------
(***************************************************************************)
(* That a request comes to its answer.                                     *)
(***************************************************************************)

\* The steps a request still has before it, at most.
Distance(r) ==
    (CASE At(r, "idle") -> 0
       [] req[r].stage \in {"issue", "commit", "revoke"} -> 1
       [] req[r].stage \in {"lookup", "audit"} -> 2
       [] req[r].stage \in {"exchange", "session"} -> 3
       [] req[r].stage \in {"delete", "handle"} -> 4
       [] At(r, "verify") -> 5)

\* A request is answered after five steps of its own at most: each brings it
\* nearer to its answer, and no step of another one takes it back.
RequestsAdvance ==
    \A r \in Requests : ~At(r, "idle") =>
        /\ Distance(r)' <= Distance(r)
        /\ Grant(r) \/ Serve(r) \/ LockTimeout(r) \/ Fail(r) => Distance(r)' < Distance(r)

LEMMA StageAfter ==
    ASSUME TypeOK', NEW r \in Requests
    PROVE  req'[r].stage \in {"idle", "delete", "exchange", "lookup", "issue", "verify",
                              "handle", "session", "audit", "commit", "revoke"}
<1>1. req'[r] \in {Idle} \cup Granting \cup Serving
  BY DEF TypeOK
<1> QED BY <1>1 DEF Idle, Granting, Serving, Served

LEMMA DistanceRange ==
    ASSUME TypeOK, NEW r \in Requests
    PROVE  Distance(r) \in 0 .. 5 /\ (Distance(r) = 0 <=> At(r, "idle"))
BY StageRange DEF Distance, At

LEMMA OwnStepAdvances ==
    ASSUME TypeOK, NEW r \in Requests, Grant(r) \/ Serve(r) \/ LockTimeout(r) \/ Fail(r)
    PROVE  Distance(r)' < Distance(r)
<1>1. Grant(r) \/ Serve(r) \/ Fail(r)
  BY DEF LockTimeout
<1>2. Distance(r) \in 0 .. 5 /\ Distance(r) # 0
  BY <1>1, DistanceRange, OwnSteps
<1>3. CASE req'[r] = Idle
  <2>1. Distance(r)' = 0
    BY <1>3 DEF Distance, At, Idle
  <2> QED BY <1>2, <2>1
<1>4. CASE req'[r] # Idle
  BY <1>1, <1>4, OwnSteps DEF Distance, At
<1> QED BY <1>3, <1>4

\* Whatever other requests do, and whatever fails, a request that was let in
\* comes nearer to its answer with every step of its own.
THEOREM RequestProgress == Spec => [][RequestsAdvance]_vars
<1>1. IndInv /\ [Next]_vars => [RequestsAdvance]_vars
  <2> SUFFICES ASSUME IndInv, [Next]_vars, NEW r \in Requests, ~At(r, "idle")
               PROVE  /\ Distance(r)' <= Distance(r)
                      /\ Grant(r) \/ Serve(r) \/ LockTimeout(r) \/ Fail(r) =>
                            Distance(r)' < Distance(r)
    BY DEF RequestsAdvance
  <2>1. Distance(r) \in Nat /\ TypeOK
    BY DistanceRange DEF IndInv
  <2>2. CASE req'[r] = req[r]
    <3>1. Distance(r)' = Distance(r)
      BY <2>2 DEF Distance, At
    <3> QED BY <2>1, <3>1, OwnStepAdvances
  <2>3. CASE req'[r] # req[r]
    <3>1. Grant(r) \/ Serve(r) \/ Fail(r)
      BY <2>1, <2>3, RequestSteps DEF Callback, Refresh, Check, Begin
    <3>2. Distance(r)' < Distance(r)
      BY <2>1, <3>1, OwnStepAdvances
    <3>3. Distance(r)' \in Nat
      <4>1. TypeOK'
        BY TypeNext
      <4> QED BY <4>1, StageAfter DEF Distance, At
    <3> QED BY <2>1, <3>1, <3>2, <3>3
  <2> QED BY <2>2, <2>3
<1> QED BY <1>1, Invariance, PTL DEF Spec

=============================================================================
