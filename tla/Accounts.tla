------------------------------- MODULE Accounts -------------------------------
(***************************************************************************)
(* Users, tenants, bindings and sessions (repositories/users_repo.py and   *)
(* sessions_repo.py, services/multiuser_auth_service.py,                   *)
(* core/tenant_context.py) and the administration requests that change     *)
(* them (application/admin_api_service.py).  A request is authorised,      *)
(* reads what its guards need, and writes; others run in between.  Names,  *)
(* passwords, plans and the audit record written at the end are left out.  *)
(***************************************************************************)
EXTENDS Integers, FiniteSets, FiniteSetTheorems, TLAPS

CONSTANTS Backend,  \* "sqlite" or "mysql"
          Users,    \* user ids; the least is the default admin
          Tenants,  \* tenant ids; 1 is the default tenant
          Tokens,   \* session tokens
          Procs,    \* request threads
          Open,     \* tenants that exist and are active at the start
          Ops,      \* kinds of requests made
          MaxOps    \* bound on the requests begun

ASSUME AccountsAssumption == /\ Backend \in {"sqlite", "mysql"}
                             /\ Users \subseteq Nat \ {0} /\ Tenants \subseteq Nat \ {0}
                             /\ 1 \in Users /\ 1 \in Open /\ Open \subseteq Tenants
                             /\ Ops \subseteq {"create", "role", "active", "bind", "unbind", "newtenant", "tenant"}

VARIABLES user,     \* row of each user
          bound,    \* role of each user in each tenant, "none" without a binding
          dflt,     \* tenants whose binding of the user is marked default
          tenant,   \* status of each tenant
          session,  \* row of each session token
          req,      \* what each thread is in the middle of
          begun,    \* requests begun
          raced,    \* what two requests in progress at once, or one that died, were changing
          rebound,  \* a binding was made or dropped by a request
          refused   \* tokens that were refused or logged out

vars == <<user, bound, dflt, tenant, session, req, begun, raced, rebound, refused>>

Roles == {"admin", "editor"}
Absent == [role |-> "none", active |-> FALSE]
NoSession == [user |-> 0, state |-> "unused"]
Idle == [at |-> "idle", by |-> 0, op |-> "none", u |-> 0, t |-> 0, next |-> 0, role |-> "editor", flag |-> FALSE]
IdsOf(ts) == {t \in ts : \A s \in ts : t <= s}
Exists(u) == user[u].role # "none"
BoundTo(u) == {t \in Tenants : bound[u][t] # "none"}

\* _default_binding: the default one first, then the least tenant.
DefaultTenant(u) == IdsOf(IF BoundTo(u) \cap dflt[u] # {} THEN BoundTo(u) \cap dflt[u] ELSE BoundTo(u))
RoleOf(u) == IF Backend = "sqlite" THEN user[u].role
             ELSE IF BoundTo(u) = {} THEN "editor" ELSE bound[u][CHOOSE t \in DefaultTenant(u) : TRUE]
ActiveAdmins == {u \in Users : user[u].active /\ IF Backend = "sqlite" THEN user[u].role = "admin"
                                                  ELSE \E t \in Tenants : bound[u][t] = "admin"}

Init == /\ user = [u \in Users |-> IF u = 1 THEN [role |-> "admin", active |-> TRUE] ELSE Absent]
        /\ bound = [u \in Users |-> [t \in Tenants |-> IF u = 1 /\ t = 1 THEN "admin" ELSE "none"]]
        /\ dflt = [u \in Users |-> IF u = 1 THEN {1} ELSE {}]
        /\ tenant = [t \in Tenants |-> IF t \in Open THEN "active" ELSE "absent"]
        /\ session = [k \in Tokens |-> NoSession]
        /\ req = [p \in Procs |-> Idle]
        /\ begun = 0
        /\ raced = {} /\ rebound = FALSE
        /\ refused = {}

-------------------------------------------------------------------------------
\* login: expired sessions are deleted, then the new one is written.
Login(u, k) ==
    /\ user[u].active
    /\ session[k].state = "unused" /\ \A j \in Tokens : j < k => session[j].state # "unused"
    /\ session' = [j \in Tokens |-> IF j = k THEN [user |-> u, state |-> "live"]
                                    ELSE IF session[j].state = "expired" THEN [session[j] EXCEPT !.state = "gone"] ELSE session[j]]
    /\ UNCHANGED <<user, bound, dflt, tenant, req, begun, raced, rebound, refused>>

SlipLogout(k) == /\ session[k].state # "unused"
                 /\ refused' = refused \cup {k}
                 /\ UNCHANGED <<user, bound, dflt, tenant, session, req, begun, raced, rebound>>
Logout(k) == /\ session[k].state # "unused"
             /\ session' = [session EXCEPT ![k].state = "gone"]
             /\ refused' = refused \cup {k}
             /\ UNCHANGED <<user, bound, dflt, tenant, req, begun, raced, rebound>>

Expire(k) == /\ session[k].state = "live"
             /\ session' = [session EXCEPT ![k].state = "expired"]
             /\ UNCHANGED <<user, bound, dflt, tenant, req, begun, raced, rebound, refused>>

\* get_session: an expired session, or that of a disabled user, is deleted.
Accepted(k) == session[k].state = "live" /\ user[session[k].user].active
SessionAfterUse(k) == IF Accepted(k) THEN session ELSE [session EXCEPT ![k].state = "gone"]

\* get_authenticated_tenant_context and require_role.
IsAdminOf(u, t) == tenant[t] = "active" /\ bound[u][t] = "admin"

\* What a request may change: who is an active administrator, or the bindings of a user.
Touches(r) == CASE r.op \in {"role", "active"} -> {0}
                [] r.op \in {"create", "bind", "unbind"} -> {r.u}
                [] OTHER -> {}

\* Any request under token k: get_authenticated_user.
Use(k) ==
    /\ session[k].state # "unused"
    /\ session' = SessionAfterUse(k)
    /\ refused' = IF Accepted(k) THEN refused ELSE refused \cup {k}
    /\ UNCHANGED <<user, bound, dflt, tenant, req, begun, raced, rebound>>

\* The start of an administration request; the threads are interchangeable.
Begin(p, k, r) ==
    /\ req[p].at = "idle" /\ \A q \in Procs : q < p => req[q].at # "idle"
    /\ begun < MaxOps
    /\ Accepted(k)
    /\ \E t \in Tenants : IsAdminOf(session[k].user, t)
    /\ session' = SessionAfterUse(k)
    /\ begun' = begun + 1
    /\ req' = [req EXCEPT ![p] = [r EXCEPT !.at = "check", !.by = session[k].user]]
    /\ raced' = raced \cup UNION {Touches(r) \cap Touches(req[q]) : q \in {q \in Procs : req[q].at # "idle"}}
    /\ UNCHANGED <<user, bound, dflt, tenant, rebound, refused>>

\* The guards of AdminApiService.
LastAdmin(u) == RoleOf(u) = "admin" /\ user[u].active /\ Cardinality(ActiveAdmins) <= 1
SlipMayDemote(r) == Exists(r.u)
MayDemote(r) == /\ Exists(r.u)
                /\ r.role # "admin" => ~(r.u = r.by /\ RoleOf(r.u) = "admin") /\ ~LastAdmin(r.u)
MayDisable(r) == Exists(r.u) /\ (~r.flag => r.u # r.by /\ ~LastAdmin(r.u))
SlipMayUnbind(r) == Exists(r.u) /\ Cardinality(BoundTo(r.u)) >= 1
MayUnbind(r) == Exists(r.u) /\ Cardinality(BoundTo(r.u)) > 1
Permitted(r) == CASE r.op = "create" -> ~Exists(r.u) /\ (r.t # 0 => tenant[r.t] # "absent")
                  [] r.op = "role" -> MayDemote(r)
                  [] r.op = "active" -> MayDisable(r)
                  [] r.op = "bind" -> Exists(r.u) /\ tenant[r.t] # "absent"
                  [] r.op = "unbind" -> MayUnbind(r)
                  [] r.op = "newtenant" -> tenant[r.t] = "absent"
                  [] r.op = "tenant" -> tenant[r.t] # "absent"

Check(p) ==
    /\ req[p].at = "check"
    /\ req' = IF Permitted(req[p]) THEN [req EXCEPT ![p].at = "write"] ELSE [req EXCEPT ![p] = Idle]
    /\ UNCHANGED <<user, bound, dflt, tenant, session, begun, raced, rebound, refused>>

\* create_user: on SQLite the row first and the binding after, on MySQL both at once.
\* The name is unique: a user who came in between makes it fail.
WriteUser(p) ==
    LET r == req[p] IN
    /\ r.at = "write" /\ r.op = "create"
    /\ IF Exists(r.u) THEN UNCHANGED <<user, bound, dflt>> /\ req' = [req EXCEPT ![p] = Idle]
       ELSE /\ user' = [user EXCEPT ![r.u] = [role |-> r.role, active |-> TRUE]]
            /\ IF Backend = "mysql"
               THEN /\ bound' = [bound EXCEPT ![r.u][1] = r.role]
                    /\ dflt' = [dflt EXCEPT ![r.u] = {1}]
                    /\ req' = [req EXCEPT ![p] = IF r.t = 0 THEN Idle ELSE [r EXCEPT !.op = "bind", !.flag = TRUE]]
               ELSE /\ req' = [req EXCEPT ![p] = [r EXCEPT !.op = "bind", !.flag = TRUE, !.t = 1, !.next = r.t]]
                    /\ UNCHANGED <<bound, dflt>>
    /\ UNCHANGED <<tenant, session, begun, raced, rebound, refused>>

\* bind_user_tenant: SQLite clears the default marks in a statement of its own.
ClearDefault(p) ==
    LET r == req[p] IN
    /\ Backend = "sqlite" /\ r.at = "write" /\ r.op = "bind" /\ r.flag
    /\ dflt' = [dflt EXCEPT ![r.u] = {}]
    /\ req' = [req EXCEPT ![p].at = "upsert"]
    /\ UNCHANGED <<user, bound, tenant, session, begun, raced, rebound, refused>>

\* A new user on SQLite is bound to tenant 1 first, then to the tenant asked for.
Bound(r) == IF r.next = 0 THEN Idle ELSE [r EXCEPT !.at = "write", !.t = r.next, !.next = 0]

Upsert(p) ==
    LET r == req[p] IN
    /\ r.op = "bind" /\ (r.at = "upsert" \/ (r.at = "write" /\ (Backend = "mysql" \/ ~r.flag)))
    /\ bound' = [bound EXCEPT ![r.u][r.t] = r.role]
    /\ dflt' = [dflt EXCEPT ![r.u] = IF r.flag THEN (IF Backend = "mysql" THEN {} ELSE @) \cup {r.t} ELSE @ \ {r.t}]
    /\ rebound' = TRUE
    /\ req' = [req EXCEPT ![p] = Bound(r)]
    /\ UNCHANGED <<user, tenant, session, begun, raced, refused>>

Unbind(p) ==
    LET r == req[p] IN
    /\ r.at = "write" /\ r.op = "unbind"
    /\ bound' = [bound EXCEPT ![r.u][r.t] = "none"]
    /\ dflt' = [dflt EXCEPT ![r.u] = @ \ {r.t}]
    /\ rebound' = TRUE
    /\ req' = [req EXCEPT ![p] = Idle]
    /\ UNCHANGED <<user, tenant, session, begun, raced, refused>>

\* update_user_role: the users row on SQLite, the default binding on MySQL.
SetRole(p) ==
    LET r == req[p] IN
    /\ r.at = "write" /\ r.op = "role"
    /\ IF Backend = "sqlite"
       THEN user' = [user EXCEPT ![r.u].role = r.role] /\ UNCHANGED <<bound, dflt>>
       ELSE /\ LET t == IF BoundTo(r.u) = {} THEN 1 ELSE CHOOSE d \in DefaultTenant(r.u) : TRUE
               IN /\ bound' = [bound EXCEPT ![r.u][t] = r.role]
                  /\ dflt' = IF BoundTo(r.u) = {} THEN [dflt EXCEPT ![r.u] = {1}] ELSE dflt
            /\ UNCHANGED user
    /\ req' = [req EXCEPT ![p] = Idle]
    /\ UNCHANGED <<tenant, session, begun, raced, rebound, refused>>

SetActive(p) ==
    LET r == req[p] IN
    /\ r.at = "write" /\ r.op = "active"
    /\ user' = [user EXCEPT ![r.u].active = r.flag]
    /\ req' = [req EXCEPT ![p] = Idle]
    /\ UNCHANGED <<bound, dflt, tenant, session, begun, raced, rebound, refused>>

SetTenant(p) ==
    LET r == req[p] IN
    /\ r.at = "write" /\ r.op \in {"newtenant", "tenant"}
    /\ tenant' = [tenant EXCEPT ![r.t] = IF r.op = "newtenant" \/ r.flag THEN "active" ELSE "disabled"]
    /\ req' = [req EXCEPT ![p] = Idle]
    /\ UNCHANGED <<user, bound, dflt, session, begun, raced, rebound, refused>>

\* The process dies between two steps of the request.
Die(p) == /\ req[p].at # "idle"
          /\ req' = [req EXCEPT ![p] = Idle]
          /\ raced' = raced \cup (Touches(req[p]) \ {0})
          /\ UNCHANGED <<user, bound, dflt, tenant, session, begun, rebound, refused>>

\* What a request names; the fields its kind has no use for are as in Idle.
Requests ==
    {r \in [at : {"idle"}, by : {0}, op : Ops, u : Users \cup {0}, t : Tenants \cup {0}, next : {0}, role : Roles, flag : BOOLEAN] :
        /\ r.op \in {"create", "role", "active", "bind", "unbind"} <=> r.u # 0
        /\ r.op \in {"bind", "unbind", "newtenant", "tenant"} => r.t # 0
        /\ r.op \in {"role", "active"} => r.t = 0
        /\ r.op \in {"create", "role", "bind"} \/ r.role = "editor"
        /\ r.op \in {"active", "bind", "newtenant", "tenant"} \/ ~r.flag}

Next == \/ \E u \in Users, k \in Tokens : Login(u, k)
        \/ \E k \in Tokens : Logout(k) \/ Expire(k) \/ Use(k)
        \/ \E p \in Procs : \/ \E k \in Tokens, r \in Requests : Begin(p, k, r)
                            \/ Check(p) \/ WriteUser(p) \/ ClearDefault(p) \/ Upsert(p)
                            \/ Unbind(p) \/ SetRole(p) \/ SetActive(p) \/ SetTenant(p) \/ Die(p)

Spec == Init /\ [][Next]_vars

-------------------------------------------------------------------------------
OpNames == {"create", "role", "active", "bind", "unbind", "newtenant", "tenant"}
RequestType ==
    [at : {"idle", "check", "write", "upsert"}, by : Users \cup {0}, op : OpNames \cup {"none"},
     u : Users \cup {0}, t : Tenants \cup {0}, next : Tenants \cup {0}, role : Roles, flag : BOOLEAN]
TypeOK ==
    /\ user \in [Users -> [role : Roles \cup {"none"}, active : BOOLEAN]]
    /\ bound \in [Users -> [Tenants -> Roles \cup {"none"}]]
    /\ dflt \in [Users -> SUBSET Tenants]
    /\ tenant \in [Tenants -> {"absent", "active", "disabled"}]
    /\ session \in [Tokens -> [user : Users \cup {0}, state : {"unused", "live", "expired", "gone"}]]
    /\ req \in [Procs -> RequestType]
    /\ rebound \in BOOLEAN /\ refused \subseteq Tokens

(* An active administrator remains unless two changes of role or of activity   *)
(* overlapped or, on MySQL, a binding was changed: bind_user_tenant and        *)
(* unbind_user_tenant have no guard of their own.                              *)
AdminRemains == 0 \notin raced /\ (Backend = "mysql" => ~rebound) => ActiveAdmins # {}

(* Every user whose creation is over keeps a binding, unless two requests on   *)
(* its bindings overlapped or one died between its writes.                     *)
BindingKept == \A u \in Users \ raced : Exists(u) /\ (\A p \in Procs : u \notin Touches(req[p])) => BoundTo(u) # {}

(* Of the bindings of a user at most one is marked default, unless requests on *)
(* them overlapped: the MySQL role of the user is that of the default binding. *)
OneDefault == \A u \in Users \ raced : Cardinality(dflt[u]) <= 1

(* A token that was refused or logged out never opens a session again, even    *)
(* when its user is disabled and enabled in between.                           *)
RefusedStaysRefused == \A k \in refused : ~Accepted(k)

-------------------------------------------------------------------------------
\* Proofs, for every set of users, tenants, tokens and threads.

\* What a request names is there for the writes of its kind.
Named ==
    \A p \in Procs :
        /\ req[p].op \in {"create", "role", "active", "bind", "unbind"} => req[p].u \in Users
        /\ req[p].op \in {"bind", "unbind", "newtenant", "tenant"} => req[p].t \in Tenants

\* The requests that may take an administrator away; at most one is in progress
\* while the flag of an overlap is not set.
Demoting == {"role", "active"}
Busy == \A p \in Procs : req[p].at = "idle" <=> req[p].op = "none"
Alone == 0 \notin raced =>
            \A p, q \in Procs : req[p].op \in Demoting /\ req[q].op \in Demoting => p = q

\* A user that does not exist is not active, and a user a write is about exists.
Known == /\ \A u \in Users : ~Exists(u) => ~user[u].active
         /\ \A p \in Procs : req[p].at = "write" /\ req[p].op \in Demoting => Exists(req[p].u)

\* On MySQL, until a request makes or drops a binding, each user has the one of tenant 1.
OnlyFirst == Backend = "mysql" /\ ~rebound =>
                \A u \in Users : BoundTo(u) = IF Exists(u) THEN {1} ELSE {}

\* While a request is about to take an administrator away there is another one.
TakesAway(r) == r.at = "write" /\ \/ r.op = "role" /\ r.role # "admin"
                                  \/ r.op = "active" /\ ~r.flag
Calm == 0 \notin raced /\ (Backend = "mysql" => ~rebound)
Another == Calm => \A p \in Procs : TakesAway(req[p]) => \E v \in ActiveAdmins : v # req[p].u

GoneStaysGone == \A k \in refused : session[k].state = "gone"

\* Of a user whose bindings no two requests were changing at once, at most one
\* request does; it keeps a binding or is about to get one, loses one only while
\* it has another, and is without default marks when SQLite sets one.
Apart == \A u \in Users \ raced : \A p, q \in Procs : u \in Touches(req[p]) /\ u \in Touches(req[q]) => p = q
Binding(p, u) == req[p].op = "bind" /\ req[p].u = u /\ req[p].at \in {"write", "upsert"}
Kept == \A u \in Users \ raced : Exists(u) => BoundTo(u) # {} \/ \E p \in Procs : Binding(p, u)
Spared == \A p \in Procs : req[p].op = "unbind" /\ req[p].at = "write" /\ req[p].u \notin raced
                              => \E s, t \in BoundTo(req[p].u) : s # t
Cleared == \A p \in Procs : req[p].at = "upsert" =>
                /\ Backend = "sqlite" /\ req[p].op = "bind"
                /\ req[p].u \in raced \/ dflt[req[p].u] = {}
OneMark == \A u \in Users \ raced : \A s, t \in dflt[u] : s = t

IInv == /\ TypeOK /\ Named /\ Busy /\ Alone /\ Known /\ OnlyFirst /\ Another /\ AdminRemains
        /\ GoneStaysGone /\ Apart /\ Kept /\ Spared /\ Cleared /\ OneMark

THEOREM InitIInv == Init => IInv
<1> SUFFICES ASSUME Init PROVE IInv
    OBVIOUS
<1> USE AccountsAssumption DEF Init
<1>1. TypeOK
    BY DEF TypeOK, Absent, Roles, NoSession, RequestType, Idle
<1>2. Named /\ Busy /\ Alone /\ GoneStaysGone
    BY DEF Named, Busy, Alone, Demoting, GoneStaysGone, Idle
<1>3. Known
    BY DEF Known, Exists, Absent, Idle
<1>4. OnlyFirst
    BY DEF OnlyFirst, BoundTo, Exists, Absent
<1>5. Another
    BY DEF Another, TakesAway, Idle
<1>6. 1 \in ActiveAdmins
    BY DEF ActiveAdmins
<1>7. AdminRemains
    BY <1>6 DEF AdminRemains
<1>8. Apart /\ Spared /\ Cleared
    BY DEF Apart, Touches, Spared, Cleared, Idle
<1>9. Kept /\ OneMark
    BY DEF Kept, OneMark, BoundTo, Exists, Absent
<1> QED BY <1>1, <1>2, <1>3, <1>4, <1>5, <1>7, <1>8, <1>9 DEF IInv

LEMMA RequestsTyped ==
    ASSUME NEW r \in Requests
    PROVE  /\ r \in RequestType /\ r.op # "none"
           /\ r.op \in {"create", "role", "active", "bind", "unbind"} => r.u \in Users
           /\ r.op \in {"bind", "unbind", "newtenant", "tenant"} => r.t \in Tenants
BY AccountsAssumption DEF Requests, RequestType, OpNames

LEMMA IdleTyped == Idle \in RequestType /\ Idle.op = "none" /\ Idle.at = "idle"
BY DEF Idle, RequestType, Roles

\* Where a request is after the step of one thread, and that the others stay.
LEMMA ThreadMoves ==
    ASSUME TypeOK, NEW p \in Procs, NEW r \in RequestType, req' = [req EXCEPT ![p] = r]
    PROVE  /\ req' \in [Procs -> RequestType]
           /\ req'[p] = r /\ \A q \in Procs \ {p} : req'[q] = req[q]
BY DEF TypeOK

\* The typing invariant, with what a request in progress names.
LEMMA SessionSteps ==
    ASSUME TypeOK, Named, Busy,
           \/ \E u \in Users, k \in Tokens : Login(u, k)
           \/ \E k \in Tokens : Logout(k) \/ Expire(k) \/ Use(k)
    PROVE  TypeOK' /\ Named' /\ Busy'
<1>1. ASSUME NEW u \in Users, NEW k \in Tokens, Login(u, k) PROVE TypeOK' /\ Named' /\ Busy'
    BY <1>1 DEF Login, TypeOK, Named, Busy
<1>2. ASSUME NEW k \in Tokens, Logout(k) \/ Expire(k) \/ Use(k) PROVE TypeOK' /\ Named' /\ Busy'
    BY <1>2 DEF Logout, Expire, Use, SessionAfterUse, Accepted, TypeOK, Named, Busy
<1> QED BY <1>1, <1>2

LEMMA BeginStep ==
    ASSUME TypeOK, Named, Busy, NEW p \in Procs, NEW k \in Tokens, NEW r \in Requests, Begin(p, k, r)
    PROVE  /\ TypeOK' /\ Named' /\ Busy'
           /\ req'[p].at = "check" /\ req'[p].op = r.op /\ req[p].op = "none"
           /\ \A q \in Procs \ {p} : req'[q] = req[q]
<1> DEFINE b == [r EXCEPT !.at = "check", !.by = session[k].user]
<1>1. /\ b \in RequestType /\ b.at = "check" /\ b.op = r.op /\ b.u = r.u /\ b.t = r.t
    BY RequestsTyped DEF RequestType, TypeOK
<1>2. req' = [req EXCEPT ![p] = b]
    BY DEF Begin
<1> HIDE DEF b
<1>3. /\ req' \in [Procs -> RequestType]
      /\ req'[p] = b /\ \A q \in Procs \ {p} : req'[q] = req[q]
    BY <1>1, <1>2, ThreadMoves
<1>4. session' = session
    BY DEF Begin, SessionAfterUse
<1>5. TypeOK'
    BY <1>3, <1>4 DEF Begin, TypeOK
<1>6. Named' /\ Busy'
    BY <1>1, <1>3, RequestsTyped DEF Named, Busy
<1> QED BY <1>1, <1>3, <1>5, <1>6 DEF Begin, Busy

\* The steps after Begin: a thread that is at work goes on or is done, and the
\* request it goes on with has the same kind, or changes from create to bind.
Continues(p) == /\ req'[p].op = req[p].op \/ (req[p].op = "create" /\ req'[p].op = "bind") \/ req'[p].op = "none"
                /\ req'[p].u = req[p].u \/ req'[p].op = "none"
                /\ \A q \in Procs \ {p} : req'[q] = req[q]
LEMMA WorkSteps ==
    ASSUME TypeOK, Named, Busy, NEW p \in Procs,
           \/ Check(p) \/ WriteUser(p) \/ ClearDefault(p) \/ Upsert(p)
           \/ Unbind(p) \/ SetRole(p) \/ SetActive(p) \/ SetTenant(p) \/ Die(p)
    PROVE  TypeOK' /\ Named' /\ Busy' /\ Continues(p)
<1> DEFINE r == req[p]
<1>r. r \in RequestType /\ r.at # "idle" /\ r.op # "none"
    BY DEF TypeOK, Busy, Check, WriteUser, ClearDefault, Upsert, Unbind, SetRole, SetActive, SetTenant, Die
<1>o. ASSUME NEW s \in RequestType, req' = [req EXCEPT ![p] = s],
             s.op = r.op \/ (r.op = "create" /\ s.op = "bind" /\ s.t \in Tenants) \/ s = Idle,
             s.u = r.u \/ s = Idle,
             s.t = r.t \/ s.t \in Tenants \/ s = Idle, s.at # "idle" \/ s = Idle
      PROVE  req' \in [Procs -> RequestType] /\ Named' /\ Busy' /\ Continues(p)
    BY <1>o, <1>r, ThreadMoves, IdleTyped DEF Named, Busy, Continues, OpNames, RequestType
<1>i. ASSUME req' = [req EXCEPT ![p] = Idle] PROVE req' \in [Procs -> RequestType] /\ Named' /\ Busy' /\ Continues(p)
    BY <1>i, <1>o, IdleTyped
<1>1. CASE Check(p)
  <2>1. [r EXCEPT !.at = "write"] \in RequestType
    BY <1>r DEF RequestType
  <2>2. req' = [req EXCEPT ![p] = [r EXCEPT !.at = "write"]] \/ req' = [req EXCEPT ![p] = Idle]
    BY <1>1 DEF Check
  <2>3. req' \in [Procs -> RequestType] /\ Named' /\ Busy' /\ Continues(p)
    BY <2>1, <2>2, <1>i, <1>o, <1>r DEF RequestType
  <2> QED BY <2>3, <1>1 DEF Check, TypeOK
<1>2. CASE WriteUser(p)
  <2> DEFINE s == [r EXCEPT !.op = "bind", !.flag = TRUE]
             w == [r EXCEPT !.op = "bind", !.flag = TRUE, !.t = 1, !.next = r.t]
  <2>1. r.u \in Users /\ r.op = "create"
    BY <1>2 DEF WriteUser, Named
  <2>2. /\ s \in RequestType /\ s.op = "bind" /\ s.u = r.u /\ s.t = r.t /\ s.at = r.at
        /\ w \in RequestType /\ w.op = "bind" /\ w.u = r.u /\ w.t = 1 /\ w.at = r.at
    BY <1>r, AccountsAssumption DEF RequestType, OpNames
  <2>3. \/ req' = [req EXCEPT ![p] = Idle]
        \/ r.t # 0 /\ req' = [req EXCEPT ![p] = s]
        \/ req' = [req EXCEPT ![p] = w]
    BY <1>2 DEF WriteUser
  <2>5. r.t # 0 => r.t \in Tenants
    BY <1>r DEF RequestType
  <2> HIDE DEF s, w
  <2>4. req' \in [Procs -> RequestType] /\ Named' /\ Busy' /\ Continues(p)
    BY <2>1, <2>2, <2>3, <2>5, <1>i, <1>o, <1>r, AccountsAssumption
  <2>a. r.role \in Roles
    BY <1>r DEF RequestType
  <2>b. dflt' = dflt \/ dflt' = [dflt EXCEPT ![r.u] = {1}]
    BY <1>2 DEF WriteUser
  <2>c. bound' = bound \/ bound' = [bound EXCEPT ![r.u][1] = r.role]
    BY <1>2 DEF WriteUser
  <2> DEFINE n == [role |-> r.role, active |-> TRUE]
  <2>d. user' = user \/ user' = [user EXCEPT ![r.u] = n]
    BY <1>2 DEF WriteUser
  <2>e. n \in [role : Roles \cup {"none"}, active : BOOLEAN]
    BY <2>a
  <2> HIDE DEF n
  <2>6. user' \in [Users -> [role : Roles \cup {"none"}, active : BOOLEAN]]
    BY <2>d, <2>e, <2>1 DEF TypeOK
  <2>7. bound' \in [Users -> [Tenants -> Roles \cup {"none"}]]
    <3>1. [bound[r.u] EXCEPT ![1] = r.role] \in [Tenants -> Roles \cup {"none"}]
        BY <2>a, <2>1, AccountsAssumption DEF TypeOK
    <3> QED BY <3>1, <2>c, <2>1 DEF TypeOK
  <2>8. dflt' \in [Users -> SUBSET Tenants]
    BY <2>b, <2>1, AccountsAssumption DEF TypeOK
  <2> QED BY <2>4, <2>6, <2>7, <2>8, <1>2 DEF WriteUser, TypeOK
<1>3. CASE ClearDefault(p)
  <2>1. [r EXCEPT !.at = "upsert"] \in RequestType
    BY <1>r DEF RequestType
  <2>2. req' = [req EXCEPT ![p] = [r EXCEPT !.at = "upsert"]]
    BY <1>3 DEF ClearDefault
  <2>3. req' \in [Procs -> RequestType] /\ Named' /\ Busy' /\ Continues(p)
    BY <2>1, <2>2, <1>o, <1>r DEF RequestType
  <2> QED BY <2>3, <1>3 DEF ClearDefault, TypeOK
<1>4. CASE Upsert(p)
  <2> DEFINE s == [r EXCEPT !.at = "write", !.t = r.next, !.next = 0]
  <2>1. r.u \in Users /\ r.t \in Tenants /\ r.op = "bind"
    BY <1>4 DEF Upsert, Named
  <2>2. r.next # 0 => s \in RequestType /\ s.op = "bind" /\ s.u = r.u /\ s.t \in Tenants /\ s.at = "write"
    BY <1>r, <2>1 DEF RequestType
  <2>3. req' = [req EXCEPT ![p] = Idle] \/ (r.next # 0 /\ req' = [req EXCEPT ![p] = s])
    BY <1>4 DEF Upsert, Bound
  <2> HIDE DEF s
  <2>4. req' \in [Procs -> RequestType] /\ Named' /\ Busy' /\ Continues(p)
    BY <2>1, <2>2, <2>3, <1>i, <1>o
  <2>5. /\ bound' \in [Users -> [Tenants -> Roles \cup {"none"}]]
        /\ dflt' \in [Users -> SUBSET Tenants]
    BY <1>4, <1>r, <2>1 DEF Upsert, TypeOK, RequestType
  <2> QED BY <2>4, <2>5, <1>4 DEF Upsert, TypeOK
<1>5. CASE Unbind(p)
  <2>1. bound' \in [Users -> [Tenants -> Roles \cup {"none"}]] /\ dflt' \in [Users -> SUBSET Tenants]
    BY <1>5 DEF Unbind, TypeOK, Named
  <2> QED BY <2>1, <1>5, <1>i DEF Unbind, TypeOK
<1>6. CASE SetRole(p)
  <2>1. r.u \in Users /\ r.role \in Roles
    BY <1>6, <1>r DEF SetRole, Named, RequestType
  <2> DEFINE t == IF BoundTo(r.u) = {} THEN 1 ELSE CHOOSE d \in DefaultTenant(r.u) : TRUE
  <2>2. user' \in [Users -> [role : Roles \cup {"none"}, active : BOOLEAN]]
    BY <1>6, <2>1 DEF SetRole, TypeOK
  <2>3. /\ bound' = bound \/ bound' = [bound EXCEPT ![r.u][t] = r.role]
        /\ dflt' = dflt \/ dflt' = [dflt EXCEPT ![r.u] = {1}]
    BY <1>6 DEF SetRole
  <2> HIDE DEF t
  <2>4. bound' \in [Users -> [Tenants -> Roles \cup {"none"}]]
    <3>1. CASE bound' = [bound EXCEPT ![r.u][t] = r.role] /\ t \in Tenants
        BY <2>1, <3>1 DEF TypeOK
    <3>2. CASE bound' = [bound EXCEPT ![r.u][t] = r.role] /\ t \notin Tenants
      <4>1. [bound[r.u] EXCEPT ![t] = r.role] = bound[r.u]
        BY <3>2, <2>1 DEF TypeOK
      <4>2. bound' = [bound EXCEPT ![r.u] = bound[r.u]]
        BY <3>2, <4>1
      <4> QED BY <4>2, <2>1 DEF TypeOK
    <3> QED BY <2>3, <3>1, <3>2 DEF TypeOK
  <2>5. dflt' \in [Users -> SUBSET Tenants]
    BY <2>1, <2>3, AccountsAssumption DEF TypeOK
  <2> QED BY <2>2, <2>4, <2>5, <1>6, <1>i DEF SetRole, TypeOK
<1>7. CASE SetActive(p)
  <2>1. user' \in [Users -> [role : Roles \cup {"none"}, active : BOOLEAN]]
    BY <1>7, <1>r DEF SetActive, TypeOK, Named, RequestType
  <2> QED BY <2>1, <1>7, <1>i DEF SetActive, TypeOK
<1>8. CASE SetTenant(p)
  <2>1. tenant' \in [Tenants -> {"absent", "active", "disabled"}]
    BY <1>8 DEF SetTenant, TypeOK
  <2> QED BY <2>1, <1>8, <1>i DEF SetTenant, TypeOK
<1>9. CASE Die(p)
    BY <1>9, <1>i DEF Die, TypeOK
<1> QED BY <1>1, <1>2, <1>3, <1>4, <1>5, <1>6, <1>7, <1>8, <1>9

LEMMA StutterTypes == TypeOK /\ Named /\ Busy /\ UNCHANGED vars => TypeOK' /\ Named' /\ Busy'
BY DEF TypeOK, Named, Busy, vars

LEMMA NextTypes ==
    ASSUME TypeOK, Named, Busy, [Next]_vars
    PROVE  TypeOK' /\ Named' /\ Busy'
BY StutterTypes, SessionSteps, BeginStep, WorkSteps DEF Next

-----------------------------------------------------------------------------
\* A refused token is gone, and a session that is gone never comes back.
LEMMA NextGone ==
    ASSUME TypeOK, GoneStaysGone, [Next]_vars
    PROVE  GoneStaysGone'
<1> USE DEF GoneStaysGone, TypeOK
<1>1. ASSUME NEW u \in Users, NEW k \in Tokens, Login(u, k) PROVE GoneStaysGone'
    BY <1>1 DEF Login
<1>2. ASSUME NEW k \in Tokens, Logout(k) \/ Expire(k) PROVE GoneStaysGone'
    BY <1>2 DEF Logout, Expire
<1>3. ASSUME NEW k \in Tokens, Use(k) PROVE GoneStaysGone'
    BY <1>3 DEF Use, SessionAfterUse, Accepted
<1>4. ASSUME NEW p \in Procs, NEW k \in Tokens, NEW r \in Requests, Begin(p, k, r) PROVE GoneStaysGone'
    BY <1>4 DEF Begin, SessionAfterUse, Accepted
<1>5. ASSUME NEW p \in Procs,
             \/ Check(p) \/ WriteUser(p) \/ ClearDefault(p) \/ Upsert(p)
             \/ Unbind(p) \/ SetRole(p) \/ SetActive(p) \/ SetTenant(p) \/ Die(p)
      PROVE  GoneStaysGone'
    BY <1>5 DEF Check, WriteUser, ClearDefault, Upsert, Unbind, SetRole, SetActive, SetTenant, Die
<1>6. CASE UNCHANGED vars
    BY <1>6 DEF vars
<1> QED BY <1>1, <1>2, <1>3, <1>4, <1>5, <1>6 DEF Next

-----------------------------------------------------------------------------
\* Two requests that may take an administrator away set the flag when they overlap.
LEMMA NextAlone ==
    ASSUME TypeOK, Named, Busy, Alone, [Next]_vars
    PROVE  Alone'
<1>1. ASSUME NEW p \in Procs, NEW k \in Tokens, NEW r \in Requests, Begin(p, k, r) PROVE Alone'
  <2>1. /\ req'[p].op = r.op /\ \A q \in Procs \ {p} : req'[q] = req[q]
    BY <1>1, BeginStep
  <2>2. raced \subseteq raced'
    BY <1>1 DEF Begin
  <2>3. ASSUME NEW q \in Procs, r.op \in Demoting, req[q].op \in Demoting PROVE 0 \in raced'
    <3>1. Touches(r) = {0} /\ Touches(req[q]) = {0}
        BY <2>3 DEF Touches, Demoting
    <3>2. req[q].at # "idle"
        BY <2>3 DEF Busy, Demoting
    <3>3. 0 \in UNION {Touches(r) \cap Touches(req[s]) : s \in {s \in Procs : req[s].at # "idle"}}
        BY <3>1, <3>2
    <3> QED BY <1>1, <3>3 DEF Begin
  <2> QED BY <2>1, <2>2, <2>3 DEF Alone
<1>2. ASSUME NEW p \in Procs,
             \/ Check(p) \/ WriteUser(p) \/ ClearDefault(p) \/ Upsert(p)
             \/ Unbind(p) \/ SetRole(p) \/ SetActive(p) \/ SetTenant(p) \/ Die(p)
      PROVE  Alone'
  <2>1. Continues(p)
    BY <1>2, WorkSteps
  <2>2. raced \subseteq raced'
    BY <1>2 DEF Check, WriteUser, ClearDefault, Upsert, Unbind, SetRole, SetActive, SetTenant, Die
  <2> QED BY <2>1, <2>2 DEF Alone, Continues, Demoting
<1>3. CASE \/ UNCHANGED vars
           \/ \E u \in Users, k \in Tokens : Login(u, k)
           \/ \E k \in Tokens : Logout(k) \/ Expire(k) \/ Use(k)
    BY <1>3 DEF vars, Login, Logout, Expire, Use, Alone
<1> QED BY <1>1, <1>2, <1>3 DEF Next

-----------------------------------------------------------------------------
\* A user stays once made.

LEMMA NextKnown ==
    ASSUME TypeOK, Named, Busy, Known, [Next]_vars
    PROVE  Known'
<1>1. ASSUME NEW p \in Procs, NEW k \in Tokens, NEW r \in Requests, Begin(p, k, r) PROVE Known'
    BY <1>1, BeginStep DEF Begin, Known, Exists
<1>2. ASSUME NEW p \in Procs, Check(p) PROVE Known'
  <2>1. Continues(p)
    BY <1>2, WorkSteps
  <2>2. req[p].op \in Demoting /\ req'[p].at = "write" => Exists(req[p].u) /\ req'[p].u = req[p].u
    <3>1. CASE Permitted(req[p]) /\ req[p].op = "role"
        BY <1>2, <3>1 DEF Check, Permitted, MayDemote, TypeOK, RequestType
    <3>2. CASE Permitted(req[p]) /\ req[p].op = "active"
        BY <1>2, <3>2 DEF Check, Permitted, MayDisable, TypeOK, RequestType
    <3>3. CASE ~Permitted(req[p])
        BY <1>2, <3>3 DEF Check, TypeOK, Idle
    <3> QED BY <3>1, <3>2, <3>3 DEF Demoting
  <2> QED BY <1>2, <2>1, <2>2 DEF Check, Known, Exists, Continues, Demoting
<1>3. ASSUME NEW p \in Procs, WriteUser(p) PROVE Known'
  <2>1. Continues(p) /\ req[p].op = "create" /\ req[p].u \in Users /\ req[p].role \in Roles
    BY <1>3, WorkSteps DEF WriteUser, Named, TypeOK, RequestType
  <2>2. ASSUME NEW u \in Users
        PROVE  /\ user[u].role # "none" => user'[u].role # "none"
               /\ user'[u].role = "none" => ~user'[u].active
    <3>1. CASE user' = user
        BY <3>1 DEF Known, Exists
    <3>2. CASE user' = [user EXCEPT ![req[p].u] = [role |-> req[p].role, active |-> TRUE]]
        BY <3>2, <2>1 DEF Known, Exists, TypeOK, Roles
    <3> QED BY <1>3, <3>1, <3>2 DEF WriteUser
  <2>3. ASSUME NEW q \in Procs, req'[q].at = "write", req'[q].op \in Demoting PROVE user'[req'[q].u].role # "none"
    BY <2>1, <2>2, <2>3 DEF Known, Exists, Continues, Demoting, Named
  <2> QED BY <2>2, <2>3 DEF Known, Exists
<1>4. ASSUME NEW p \in Procs, ClearDefault(p) \/ Upsert(p) \/ Unbind(p) \/ SetTenant(p) \/ Die(p) PROVE Known'
  <2>1. Continues(p)
    BY <1>4, WorkSteps
  <2>2. req[p].op \in Demoting => req'[p].op \notin Demoting
    BY <1>4 DEF ClearDefault, Upsert, Unbind, SetTenant, Die, Demoting, TypeOK, Idle
  <2> QED BY <1>4, <2>1, <2>2 DEF ClearDefault, Upsert, Unbind, SetTenant, Die, Known, Exists, Continues, Demoting
<1>5. ASSUME NEW p \in Procs, SetRole(p) \/ SetActive(p) PROVE Known'
  <2>1. Continues(p) /\ req[p].op \in Demoting /\ req[p].u \in Users /\ req[p].role \in Roles /\ req[p].flag \in BOOLEAN
    BY <1>5, WorkSteps DEF SetRole, SetActive, Demoting, Named, TypeOK, RequestType
  <2>2. req'[p] = Idle /\ Exists(req[p].u)
    BY <1>5 DEF SetRole, SetActive, TypeOK, Known, Demoting
  <2>3. \A u \in Users : /\ Exists(u) => Exists(u)'
                         /\ ~Exists(u)' => ~user'[u].active
    BY <1>5, <2>1, <2>2 DEF SetRole, SetActive, TypeOK, Known, Exists, Roles
  <2> QED BY <2>1, <2>2, <2>3 DEF Known, Idle, Demoting, Named, Continues
<1>6. CASE \/ UNCHANGED vars
           \/ \E u \in Users, k \in Tokens : Login(u, k)
           \/ \E k \in Tokens : Logout(k) \/ Expire(k) \/ Use(k)
    BY <1>6 DEF vars, Login, Logout, Expire, Use, Known, Exists
<1> QED BY <1>1, <1>2, <1>3, <1>4, <1>5, <1>6 DEF Next

-----------------------------------------------------------------------------
\* On MySQL the role of a user is that of its one binding while none is made or dropped.
LEMMA FirstRole ==
    ASSUME TypeOK, OnlyFirst, Backend = "mysql", ~rebound, NEW u \in Users, Exists(u)
    PROVE  /\ BoundTo(u) = {1} /\ DefaultTenant(u) = {1} /\ RoleOf(u) = bound[u][1]
           /\ \A t \in Tenants : t # 1 => bound[u][t] = "none"
<1>1. BoundTo(u) = {1}
    BY DEF OnlyFirst
<1>2. \A s : s \subseteq {1} /\ s # {} => s = {1}
    OBVIOUS
<1>3. (IF BoundTo(u) \cap dflt[u] # {} THEN BoundTo(u) \cap dflt[u] ELSE BoundTo(u)) = {1}
    BY <1>1, <1>2
<1>4. IdsOf({1}) = {1}
    BY DEF IdsOf
<1>5. DefaultTenant(u) = {1}
    BY <1>3, <1>4 DEF DefaultTenant
<1>6. (CHOOSE t \in {1} : TRUE) = 1
    OBVIOUS
<1>7. RoleOf(u) = bound[u][1]
    BY <1>1, <1>5, <1>6 DEF RoleOf
<1>8. \A t \in Tenants : t # 1 => bound[u][t] = "none"
    BY <1>1 DEF BoundTo
<1> QED BY <1>1, <1>5, <1>7, <1>8

LEMMA NextFirst ==
    ASSUME TypeOK, Named, Busy, Known, OnlyFirst, [Next]_vars
    PROVE  OnlyFirst'
<1> SUFFICES ASSUME Backend = "mysql", ~rebound'
             PROVE  \A u \in Users : BoundTo(u)' = IF user'[u].role # "none" THEN {1} ELSE {}
    BY DEF OnlyFirst, Exists
<1> USE AccountsAssumption
<1>b. \A u \in Users : BoundTo(u)' = {t \in Tenants : bound'[u][t] # "none"}
    BY DEF BoundTo
<1>o. ~rebound /\ \A u \in Users : BoundTo(u) = IF user[u].role # "none" THEN {1} ELSE {}
  <2>1. ~rebound
    BY DEF Next, vars, Login, Logout, Expire, Use, Begin, Check, WriteUser, ClearDefault, Upsert, Unbind, SetRole, SetActive, SetTenant, Die
  <2> QED BY <2>1 DEF OnlyFirst, Exists
<1>1. ASSUME NEW p \in Procs, WriteUser(p)
      PROVE  \A u \in Users : BoundTo(u)' = IF user'[u].role # "none" THEN {1} ELSE {}
  <2>1. req[p].u \in Users /\ req[p].role \in Roles
    BY <1>1 DEF WriteUser, Named, TypeOK, RequestType
  <2>2. CASE UNCHANGED <<user, bound, dflt>>
    BY <2>2, <1>o, <1>b DEF BoundTo
  <2>3. CASE /\ user' = [user EXCEPT ![req[p].u] = [role |-> req[p].role, active |-> TRUE]]
             /\ bound' = [bound EXCEPT ![req[p].u][1] = req[p].role]
             /\ ~Exists(req[p].u)
    <3>1. ASSUME NEW u \in Users, u # req[p].u PROVE BoundTo(u)' = IF user'[u].role # "none" THEN {1} ELSE {}
        BY <2>1, <2>3, <3>1, <1>o, <1>b DEF BoundTo, TypeOK
    <3>2. user'[req[p].u].role # "none"
        BY <2>1, <2>3 DEF TypeOK, Roles
    <3>3. BoundTo(req[p].u) = {}
        BY <2>1, <2>3, <1>o DEF Exists
    <3>4. \A t \in Tenants : bound'[req[p].u][t] = IF t = 1 THEN req[p].role ELSE "none"
        BY <2>1, <2>3, <3>3 DEF TypeOK, BoundTo
    <3>5. ASSUME NEW u \in Users, u = req[p].u PROVE BoundTo(u)' = {1}
      <4>1. \A t \in Tenants : bound'[u][t] # "none" <=> t = 1
        BY <2>1, <3>4, <3>5 DEF Roles
      <4> QED BY <4>1, <1>b
    <3> QED BY <3>1, <3>2, <3>5
  <2> QED BY <1>1, <2>2, <2>3 DEF WriteUser
<1>2. ASSUME NEW p \in Procs, SetRole(p)
      PROVE  \A u \in Users : BoundTo(u)' = IF user'[u].role # "none" THEN {1} ELSE {}
  <2>1. req[p].u \in Users /\ req[p].role \in Roles /\ Exists(req[p].u)
    BY <1>2 DEF SetRole, Named, TypeOK, RequestType, Known, Demoting
  <2>2. user' = user /\ bound' = [bound EXCEPT ![req[p].u][1] = req[p].role]
    <3>1. BoundTo(req[p].u) = {1} /\ (CHOOSE d \in DefaultTenant(req[p].u) : TRUE) = 1
        BY <2>1, <1>o, FirstRole
    <3> QED BY <1>2, <3>1 DEF SetRole
  <2>3. ASSUME NEW u \in Users, u # req[p].u PROVE BoundTo(u)' = BoundTo(u)
    BY <2>1, <2>2, <2>3, <1>b DEF BoundTo, TypeOK
  <2>4. \A t \in Tenants : bound'[req[p].u][t] = IF t = 1 THEN req[p].role ELSE bound[req[p].u][t]
    BY <2>1, <2>2 DEF TypeOK
  <2>5. \A t \in Tenants : t # 1 => bound[req[p].u][t] = "none"
    BY <2>1, <1>o, FirstRole
  <2>6. ASSUME NEW u \in Users, u = req[p].u PROVE BoundTo(u)' = {1}
    <3>1. \A t \in Tenants : bound'[u][t] # "none" <=> t = 1
        BY <2>1, <2>4, <2>5, <2>6 DEF Roles
    <3> QED BY <3>1, <1>b
  <2> QED BY <2>1, <2>2, <2>3, <2>6, <1>o DEF Exists
<1>3. ASSUME NEW p \in Procs, SetActive(p)
      PROVE  \A u \in Users : BoundTo(u)' = IF user'[u].role # "none" THEN {1} ELSE {}
  <2>1. bound' = bound /\ \A u \in Users : user'[u].role = user[u].role
    BY <1>3 DEF SetActive, TypeOK
  <2> QED BY <2>1, <1>o, <1>b DEF BoundTo
<1>4. CASE user' = user /\ bound' = bound
    BY <1>4, <1>o, <1>b DEF BoundTo
<1>5. ASSUME NEW p \in Procs, \/ Check(p) \/ ClearDefault(p) \/ Upsert(p) \/ Unbind(p) \/ SetTenant(p) \/ Die(p)
      PROVE  user' = user /\ bound' = bound
    BY <1>5 DEF Check, ClearDefault, Upsert, Unbind, SetTenant, Die
<1>6. ASSUME \/ \E u \in Users, k \in Tokens : Login(u, k)
             \/ \E k \in Tokens : Logout(k) \/ Expire(k) \/ Use(k)
             \/ \E p \in Procs : \E k \in Tokens, r \in Requests : Begin(p, k, r)
      PROVE  user' = user /\ bound' = bound
    BY <1>6 DEF Login, Logout, Expire, Use, Begin
<1> QED BY <1>1, <1>2, <1>3, <1>4, <1>5, <1>6 DEF Next, vars

-----------------------------------------------------------------------------
\* What the guard of the last administrator gives: somebody else is one.
LEMMA IsActiveAdmin ==
    ASSUME TypeOK, OnlyFirst, Calm, NEW u \in Users, Exists(u)
    PROVE  u \in ActiveAdmins <=> user[u].active /\ RoleOf(u) = "admin"
<1>1. CASE Backend = "sqlite"
    BY <1>1 DEF ActiveAdmins, RoleOf
<1>2. CASE Backend = "mysql"
  <2>1. RoleOf(u) = bound[u][1] /\ \A t \in Tenants : t # 1 => bound[u][t] = "none"
    BY <1>2, FirstRole DEF Calm
  <2> QED BY <1>2, <2>1, AccountsAssumption DEF ActiveAdmins
<1> QED BY <1>1, <1>2, AccountsAssumption

LEMMA SomebodyElse ==
    ASSUME TypeOK, OnlyFirst, Calm, AdminRemains, NEW u \in Users, Exists(u), ~LastAdmin(u)
    PROVE  \E v \in ActiveAdmins : v # u
<1>1. ActiveAdmins # {}
    BY DEF AdminRemains, Calm
<1>2. CASE u \notin ActiveAdmins
    BY <1>1, <1>2
<1>3. CASE u \in ActiveAdmins
  <2>1. ~(Cardinality(ActiveAdmins) <= 1)
    BY <1>3, IsActiveAdmin DEF LastAdmin
  <2>2. Cardinality({u}) = 1
    BY FS_Singleton
  <2>3. ActiveAdmins # {u}
    BY <2>1, <2>2
  <2> QED BY <1>3, <2>3
<1> QED BY <1>2, <1>3

-----------------------------------------------------------------------------
\* No step takes the last active administrator away while the flags are not set.
LEMMA Monotone ==
    ASSUME TypeOK, Named, Busy, Known, [Next]_vars, Calm',
           \A p \in Procs : ~(SetRole(p) \/ SetActive(p))
    PROVE  ActiveAdmins \subseteq ActiveAdmins'
<1>1. ASSUME NEW p \in Procs, WriteUser(p) PROVE ActiveAdmins \subseteq ActiveAdmins'
  <2>1. req[p].u \in Users
    BY <1>1 DEF WriteUser, Named
  <2>2. CASE UNCHANGED <<user, bound>>
    BY <2>2 DEF ActiveAdmins
  <2>3. CASE /\ user' = [user EXCEPT ![req[p].u] = [role |-> req[p].role, active |-> TRUE]]
             /\ bound' = bound \/ bound' = [bound EXCEPT ![req[p].u][1] = req[p].role]
             /\ ~Exists(req[p].u)
    <3>1. req[p].u \notin ActiveAdmins
        BY <2>1, <2>3 DEF Known, ActiveAdmins
    <3>2. \A u \in Users : u # req[p].u => user'[u] = user[u] /\ bound'[u] = bound[u]
        BY <2>1, <2>3 DEF TypeOK
    <3> QED BY <3>1, <3>2 DEF ActiveAdmins
  <2> QED BY <1>1, <2>2, <2>3 DEF WriteUser
<1>2. ASSUME user' = user, bound' = bound \/ Backend = "sqlite" PROVE ActiveAdmins \subseteq ActiveAdmins'
    BY <1>2 DEF ActiveAdmins
<1>3. ASSUME NEW p \in Procs, Upsert(p) \/ Unbind(p) PROVE user' = user /\ Backend = "sqlite"
    BY <1>3, AccountsAssumption DEF Upsert, Unbind, Calm
<1>4. ASSUME NEW p \in Procs, Check(p) \/ ClearDefault(p) \/ SetTenant(p) \/ Die(p) PROVE user' = user /\ bound' = bound
    BY <1>4 DEF Check, ClearDefault, SetTenant, Die
<1>5. ASSUME \/ UNCHANGED vars
             \/ \E u \in Users, k \in Tokens : Login(u, k)
             \/ \E k \in Tokens : Logout(k) \/ Expire(k) \/ Use(k)
             \/ \E p \in Procs : \E k \in Tokens, r \in Requests : Begin(p, k, r)
      PROVE  user' = user /\ bound' = bound
    BY <1>5 DEF vars, Login, Logout, Expire, Use, Begin
<1> QED BY <1>1, <1>2, <1>3, <1>4, <1>5 DEF Next

\* A demotion or a switch-off keeps everybody else, and takes its user only if it
\* is meant to.
LEMMA OthersStay ==
    ASSUME TypeOK, Named, Busy, Known, OnlyFirst, Calm, NEW p \in Procs, SetRole(p) \/ SetActive(p)
    PROVE  \A v \in ActiveAdmins : v # req[p].u \/ ~TakesAway(req[p]) => v \in ActiveAdmins'
<1> SUFFICES ASSUME NEW v \in ActiveAdmins, v # req[p].u \/ ~TakesAway(req[p])
             PROVE  v \in ActiveAdmins'
    OBVIOUS
<1>1. req[p].u \in Users /\ req[p].role \in Roles /\ req[p].flag \in BOOLEAN /\ v \in Users /\ Exists(req[p].u)
    BY DEF SetRole, SetActive, Named, TypeOK, RequestType, ActiveAdmins, Known, Demoting
<1>2. CASE SetActive(p)
  <2>1. bound' = bound /\ user'[v].role = user[v].role
    BY <1>1, <1>2 DEF SetActive, TypeOK
  <2>2. user[v].active => user'[v].active
    <3>1. CASE v # req[p].u
        BY <1>1, <1>2, <3>1 DEF SetActive, TypeOK
    <3>2. CASE v = req[p].u /\ req[p].flag
        BY <1>1, <1>2, <3>2 DEF SetActive, TypeOK
    <3> QED BY <1>2, <3>1, <3>2 DEF TakesAway, SetActive
  <2> QED BY <2>1, <2>2, <1>1 DEF ActiveAdmins
<1>3. CASE SetRole(p) /\ Backend = "sqlite"
  <2>1. user' = [user EXCEPT ![req[p].u].role = req[p].role]
    BY <1>3 DEF SetRole
  <2>2. CASE v # req[p].u
    BY <1>1, <1>3, <2>1, <2>2 DEF ActiveAdmins, TypeOK
  <2>3. CASE v = req[p].u /\ req[p].role = "admin"
    BY <1>1, <1>3, <2>1, <2>3 DEF ActiveAdmins, TypeOK
  <2> QED BY <1>3, <2>2, <2>3 DEF TakesAway, SetRole
<1>4. CASE SetRole(p) /\ Backend # "sqlite"
  <2>1. Backend = "mysql" /\ ~rebound /\ 1 \in Tenants
    BY <1>4, AccountsAssumption DEF Calm
  <2>2. BoundTo(req[p].u) = {1} /\ (CHOOSE d \in DefaultTenant(req[p].u) : TRUE) = 1
    BY <1>1, <2>1, FirstRole
  <2>3. user' = user /\ bound' = [bound EXCEPT ![req[p].u][1] = req[p].role]
    BY <1>4, <2>2 DEF SetRole
  <2>4. CASE v # req[p].u
    BY <1>1, <1>4, <2>3, <2>4 DEF ActiveAdmins, TypeOK
  <2>5. CASE v = req[p].u /\ req[p].role = "admin"
    <3>1. bound'[v][1] = "admin"
        BY <1>1, <2>1, <2>3, <2>5 DEF TypeOK
    <3> QED BY <1>1, <1>4, <2>1, <2>3, <3>1 DEF ActiveAdmins
  <2> QED BY <1>4, <2>4, <2>5 DEF TakesAway, SetRole
<1> QED BY <1>2, <1>3, <1>4

LEMMA NextAdmins ==
    ASSUME IInv, [Next]_vars, Alone', Known', OnlyFirst'
    PROVE  Another' /\ AdminRemains'
<1> SUFFICES ASSUME Calm'
             PROVE  /\ \A q \in Procs : TakesAway(req'[q]) => \E v \in ActiveAdmins' : v # req'[q].u
                    /\ ActiveAdmins' # {}
    BY DEF Another, AdminRemains, Calm, TakesAway
<1> USE DEF IInv
<1>0. Calm
  <2>1. raced \subseteq raced' /\ (rebound => rebound')
    <3>1. ASSUME NEW p \in Procs, NEW k \in Tokens, NEW r \in Requests, Begin(p, k, r)
          PROVE  raced \subseteq raced' /\ (rebound => rebound')
        BY <3>1 DEF Begin
    <3>2. ASSUME NEW p \in Procs, Check(p) \/ WriteUser(p) \/ ClearDefault(p) \/ SetRole(p) \/ SetActive(p) \/ SetTenant(p) \/ Die(p)
          PROVE  raced \subseteq raced' /\ (rebound => rebound')
        BY <3>2 DEF Check, WriteUser, ClearDefault, SetRole, SetActive, SetTenant, Die
    <3>3. ASSUME NEW p \in Procs, Upsert(p) \/ Unbind(p) PROVE raced \subseteq raced' /\ (rebound => rebound')
        BY <3>3 DEF Upsert, Unbind
    <3>4. ASSUME \/ UNCHANGED vars
                 \/ \E u \in Users, k \in Tokens : Login(u, k)
                 \/ \E k \in Tokens : Logout(k) \/ Expire(k) \/ Use(k)
          PROVE  raced \subseteq raced' /\ (rebound => rebound')
        BY <3>4 DEF vars, Login, Logout, Expire, Use
    <3> QED BY <3>1, <3>2, <3>3, <3>4, Zenon DEF Next
  <2> QED BY <2>1 DEF Calm
<1>a. ActiveAdmins # {} /\ \A q \in Procs : TakesAway(req[q]) => \E v \in ActiveAdmins : v # req[q].u
    BY <1>0 DEF AdminRemains, Calm, Another
<1>1. ASSUME NEW p \in Procs, SetRole(p) \/ SetActive(p)
      PROVE  /\ \A q \in Procs : TakesAway(req'[q]) => \E v \in ActiveAdmins' : v # req'[q].u
             /\ ActiveAdmins' # {}
  <2>1. req'[p] = Idle /\ (\A q \in Procs \ {p} : req'[q] = req[q]) /\ req[p].op \in Demoting
    BY <1>1 DEF SetRole, SetActive, TypeOK, Demoting
  <2>2. \A q \in Procs : ~TakesAway(req'[q])
    BY <2>1, <1>0 DEF Alone, Calm, Demoting, TakesAway, Idle
  <2>3. \A v \in ActiveAdmins : v # req[p].u \/ ~TakesAway(req[p]) => v \in ActiveAdmins'
    BY <1>0, <1>1, OthersStay
  <2>4. ActiveAdmins' # {}
    BY <2>3, <1>a
  <2> QED BY <2>2, <2>4
<1>2. ASSUME \A p \in Procs : ~(SetRole(p) \/ SetActive(p))
      PROVE  /\ \A q \in Procs : TakesAway(req'[q]) => \E v \in ActiveAdmins' : v # req'[q].u
             /\ ActiveAdmins' # {}
  <2>1. ActiveAdmins \subseteq ActiveAdmins'
    BY <1>2, Monotone
  <2>2. ASSUME NEW p \in Procs, Check(p), TakesAway(req'[p]) PROVE \E v \in ActiveAdmins : v # req'[p].u
    <3>1. /\ req'[p].u = req[p].u /\ req'[p].op = req[p].op /\ req'[p].role = req[p].role /\ req'[p].flag = req[p].flag
          /\ Permitted(req[p]) /\ req[p] \in RequestType
        BY <2>2 DEF Check, TypeOK, RequestType, TakesAway, Idle
    <3>2. Exists(req[p].u) /\ ~LastAdmin(req[p].u)
      <4>1. CASE req[p].op = "role"
        BY <2>2, <3>1, <4>1 DEF TakesAway, Permitted, MayDemote
      <4>2. CASE req[p].op = "active"
        BY <2>2, <3>1, <4>2 DEF TakesAway, Permitted, MayDisable
      <4> QED BY <2>2, <3>1, <4>1, <4>2 DEF TakesAway
    <3>3. req[p].u \in Users
        BY <2>2, <3>1 DEF TakesAway, Named
    <3> QED BY <1>0, <3>1, <3>2, <3>3, SomebodyElse
  <2>3. ASSUME NEW q \in Procs, TakesAway(req'[q]), req'[q] # req[q] PROVE \E v \in ActiveAdmins : v # req'[q].u
    <3>1. ASSUME NEW p \in Procs, NEW k \in Tokens, NEW r \in Requests, Begin(p, k, r) PROVE FALSE
        BY <2>3, <3>1, BeginStep DEF TakesAway
    <3>2. ASSUME NEW p \in Procs, WriteUser(p) \/ ClearDefault(p) \/ Upsert(p) \/ Unbind(p) \/ SetTenant(p) \/ Die(p) PROVE FALSE
      <4>1. Continues(p)
        BY <3>2, WorkSteps
      <4>2. q = p
        BY <4>1, <2>3 DEF Continues
      <4>3. req[p].op \notin Demoting
        BY <3>2, <4>1, <4>2, <2>3 DEF WriteUser, ClearDefault, Upsert, Unbind, SetTenant, Die, Demoting, TypeOK, TakesAway, Idle
      <4> QED BY <4>1, <4>2, <4>3, <2>3 DEF Continues, TakesAway, Demoting
    <3>3. ASSUME NEW p \in Procs, Check(p) PROVE q = p
        BY <2>3, <3>3, WorkSteps DEF Continues
    <3>4. CASE req' = req
        BY <3>4, <2>3
    <3>5. ASSUME \/ UNCHANGED vars
                 \/ \E u \in Users, k \in Tokens : Login(u, k)
                 \/ \E k \in Tokens : Logout(k) \/ Expire(k) \/ Use(k)
          PROVE  req' = req
        BY <3>5 DEF vars, Login, Logout, Expire, Use
    <3> QED BY <1>2, <2>2, <2>3, <3>1, <3>2, <3>3, <3>4, <3>5 DEF Next
  <2> QED BY <1>a, <2>1, <2>3
<1> QED BY <1>1, <1>2

-----------------------------------------------------------------------------
\* What was raced stays so.
LEMMA RacedGrows == [Next]_vars => raced \subseteq raced'
<1> SUFFICES ASSUME [Next]_vars PROVE raced \subseteq raced'
    OBVIOUS
<1>1. ASSUME NEW p \in Procs,
             \/ Check(p) \/ WriteUser(p) \/ ClearDefault(p) \/ Upsert(p)
             \/ Unbind(p) \/ SetRole(p) \/ SetActive(p) \/ SetTenant(p) \/ Die(p)
      PROVE  raced \subseteq raced'
    BY <1>1 DEF Check, WriteUser, ClearDefault, Upsert, Unbind, SetRole, SetActive, SetTenant, Die
<1>2. ASSUME NEW p \in Procs, NEW k \in Tokens, NEW r \in Requests, Begin(p, k, r) PROVE raced \subseteq raced'
    BY <1>2 DEF Begin
<1>3. CASE \/ UNCHANGED vars
           \/ \E u \in Users, k \in Tokens : Login(u, k)
           \/ \E k \in Tokens : Logout(k) \/ Expire(k) \/ Use(k)
    BY <1>3 DEF vars, Login, Logout, Expire, Use
<1> QED BY <1>1, <1>2, <1>3 DEF Next

\* A thread at work touches nothing it did not touch before.
LEMMA TouchesStay ==
    ASSUME NEW p \in Procs, Continues(p), NEW q \in Procs PROVE Touches(req'[q]) \subseteq Touches(req[q])
BY DEF Continues, Touches

\* Two requests on the bindings of a user mark it as raced.
LEMMA NextApart ==
    ASSUME TypeOK, Named, Busy, Apart, [Next]_vars
    PROVE  Apart'
<1>r. raced \subseteq raced'
    BY RacedGrows
<1>1. ASSUME NEW p \in Procs, NEW k \in Tokens, NEW r \in Requests, Begin(p, k, r) PROVE Apart'
  <2>1. /\ Touches(req'[p]) = Touches(r) /\ \A q \in Procs \ {p} : req'[q] = req[q]
    <3>1. r \in RequestType
        BY RequestsTyped
    <3>2. req'[p].op = r.op /\ req'[p].u = r.u
        BY <1>1, <3>1 DEF Begin, TypeOK, RequestType
    <3> QED BY <1>1, <3>2, BeginStep DEF Touches
  <2>2. ASSUME NEW q \in Procs \ {p}, NEW u \in Touches(r), u \in Touches(req[q]) PROVE u \in raced'
    <3>1. req[q].at # "idle"
        BY <2>2 DEF Busy, Touches
    <3>2. u \in UNION {Touches(r) \cap Touches(req[s]) : s \in {s \in Procs : req[s].at # "idle"}}
        BY <2>2, <3>1
    <3> QED BY <1>1, <3>2 DEF Begin
  <2> QED BY <1>r, <2>1, <2>2 DEF Apart, Touches
<1>2. ASSUME NEW p \in Procs,
             \/ Check(p) \/ WriteUser(p) \/ ClearDefault(p) \/ Upsert(p)
             \/ Unbind(p) \/ SetRole(p) \/ SetActive(p) \/ SetTenant(p) \/ Die(p)
      PROVE  Apart'
  <2>1. \A q \in Procs : Touches(req'[q]) \subseteq Touches(req[q])
    BY <1>2, WorkSteps, TouchesStay
  <2>2. \A q \in Procs : Touches(req[q])' = Touches(req'[q])
    BY DEF Touches
  <2> QED BY <1>r, <2>1, <2>2 DEF Apart
<1>3. CASE \/ UNCHANGED vars
           \/ \E u \in Users, k \in Tokens : Login(u, k)
           \/ \E k \in Tokens : Logout(k) \/ Expire(k) \/ Use(k)
  <2>1. req' = req
    BY <1>3 DEF vars, Login, Logout, Expire, Use
  <2> QED BY <1>r, <2>1 DEF Apart, Touches
<1> QED BY <1>1, <1>2, <1>3 DEF Next

\* Only an unbinding takes a binding away.
LEMMA BindingsStay ==
    ASSUME TypeOK, Named, [Next]_vars, NEW u \in Users, \A p \in Procs : ~(Unbind(p) /\ req[p].u = u)
    PROVE  BoundTo(u) \subseteq BoundTo(u)'
<1> SUFFICES ASSUME NEW t \in Tenants, bound[u][t] # "none" PROVE bound'[u][t] # "none"
    BY DEF BoundTo
<1>1. ASSUME bound' = bound PROVE bound'[u][t] # "none"
    BY <1>1
<1>2. ASSUME NEW v, NEW s, NEW role \in Roles, bound' = [bound EXCEPT ![v][s] = role] PROVE bound'[u][t] # "none"
    BY <1>2 DEF TypeOK, Roles
<1>3. ASSUME NEW p \in Procs, WriteUser(p) \/ Upsert(p) \/ SetRole(p) PROVE bound'[u][t] # "none"
  <2>1. req[p].role \in Roles
    BY DEF TypeOK, RequestType
  <2>2. \/ bound' = bound \/ \E v, s : bound' = [bound EXCEPT ![v][s] = req[p].role]
    BY <1>3 DEF WriteUser, Upsert, SetRole
  <2> QED BY <1>1, <1>2, <2>1, <2>2
<1>4. ASSUME NEW p \in Procs, Unbind(p) PROVE bound'[u][t] # "none"
    BY <1>4 DEF Unbind, TypeOK
<1>5. ASSUME NEW p \in Procs, Check(p) \/ ClearDefault(p) \/ SetActive(p) \/ SetTenant(p) \/ Die(p) PROVE bound' = bound
    BY <1>5 DEF Check, ClearDefault, SetActive, SetTenant, Die
<1>6. ASSUME \/ UNCHANGED vars
             \/ \E v \in Users, k \in Tokens : Login(v, k)
             \/ \E k \in Tokens : Logout(k) \/ Expire(k) \/ Use(k)
             \/ \E p \in Procs : \E k \in Tokens, r \in Requests : Begin(p, k, r)
      PROVE  bound' = bound
    BY <1>6 DEF vars, Login, Logout, Expire, Use, Begin
<1> QED BY <1>1, <1>3, <1>4, <1>5, <1>6 DEF Next

\* More than one binding is two different ones.
LEMMA TwoBindings == ASSUME NEW S, Cardinality(S) > 1 PROVE \E s, t \in S : s # t
<1>1. S # {}
    BY FS_EmptySet
<1>2. ASSUME NEW x, S = {x} PROVE FALSE
    BY <1>2, FS_Singleton
<1> QED BY <1>1, <1>2

LEMMA NextSpared ==
    ASSUME TypeOK, Named, Busy, Apart, Spared, [Next]_vars
    PROVE  Spared'
<1>r. raced \subseteq raced'
    BY RacedGrows
<1> SUFFICES ASSUME NEW p \in Procs, NEW u \in Users, req'[p].op = "unbind", req'[p].at = "write",
                    req'[p].u = u, u \notin raced'
             PROVE  \E s, t \in BoundTo(u)' : s # t
  <2>1. Named' /\ \A u \in Users : BoundTo(u)' = {t \in Tenants : bound'[u][t] # "none"}
    BY NextTypes DEF BoundTo
  <2> QED BY <2>1 DEF Spared, Named, BoundTo
<1>1. CASE req'[p] = req[p]
  <2>2. ASSUME NEW q \in Procs, Unbind(q), req[q].u = u PROVE FALSE
    <3>1. q = p
        BY <1>1, <1>r, <2>2 DEF Apart, Touches, Unbind
    <3>2. req'[q] = Idle
        BY <2>2 DEF Unbind, TypeOK
    <3> QED BY <3>1, <3>2 DEF Idle
  <2>3. BoundTo(u) \subseteq BoundTo(u)'
    BY <2>2, BindingsStay
  <2>4. \E s, t \in BoundTo(u) : s # t
    BY <1>1, <1>r DEF Spared
  <2> QED BY <2>3, <2>4
<1>2. CASE Check(p)
  <2>1. /\ req[p].op = "unbind" /\ req[p].u = u /\ Permitted(req[p]) /\ bound' = bound
    BY <1>2 DEF Check, TypeOK, RequestType, Idle
  <2>2. Cardinality(BoundTo(u)) > 1
    BY <2>1 DEF Permitted, MayUnbind
  <2>3. BoundTo(u)' = BoundTo(u)
    BY <2>1 DEF BoundTo
  <2> QED BY <2>2, <2>3, TwoBindings
<1>3. ASSUME NEW q \in Procs,
             \/ Check(q) \/ WriteUser(q) \/ ClearDefault(q) \/ Upsert(q)
             \/ Unbind(q) \/ SetRole(q) \/ SetActive(q) \/ SetTenant(q) \/ Die(q)
      PROVE  req'[p] = req[p] \/ Check(p)
  <2>1. Continues(q)
    BY <1>3, WorkSteps
  <2>2. CASE q = p /\ ~Check(q)
    <3>1. req[p].op = "unbind"
        BY <2>1, <2>2 DEF Continues
    <3>2. req'[p] = Idle
        BY <1>3, <2>2, <3>1 DEF WriteUser, ClearDefault, Upsert, Unbind, SetRole, SetActive, SetTenant, Die, TypeOK
    <3> QED BY <3>2 DEF Idle
  <2> QED BY <2>1, <2>2 DEF Continues
<1>4. ASSUME NEW q \in Procs, NEW k \in Tokens, NEW r \in Requests, Begin(q, k, r) PROVE req'[p] = req[p]
    BY <1>4, BeginStep
<1>5. ASSUME \/ UNCHANGED vars
             \/ \E v \in Users, k \in Tokens : Login(v, k)
             \/ \E k \in Tokens : Logout(k) \/ Expire(k) \/ Use(k)
      PROVE  req'[p] = req[p]
    BY <1>5 DEF vars, Login, Logout, Expire, Use
<1> QED BY <1>1, <1>2, <1>3, <1>4, <1>5 DEF Next

\* A user keeps a binding, or the request that made it is about to write one.
LEMMA NextKept ==
    ASSUME TypeOK, Named, Busy, Known, Apart, Kept, Spared, [Next]_vars
    PROVE  Kept'
<1>r. raced \subseteq raced'
    BY RacedGrows
<1> SUFFICES ASSUME NEW u \in Users, u \notin raced', user'[u].role # "none",
                    \A q \in Procs : ~(req'[q].op = "bind" /\ req'[q].u = u /\ req'[q].at \in {"write", "upsert"})
             PROVE  BoundTo(u)' # {}
    BY DEF Kept, Exists, Binding
<1>b. BoundTo(u)' = {t \in Tenants : bound'[u][t] # "none"} /\ BoundTo(u) = {t \in Tenants : bound[u][t] # "none"}
    BY DEF BoundTo
<1>o. user[u].role # "none" => BoundTo(u) # {} \/ \E q \in Procs : Binding(q, u)
    BY <1>r DEF Kept, Exists
<1>1. ASSUME NEW p \in Procs, WriteUser(p) PROVE BoundTo(u)' # {}
  <2>1. /\ req[p].u \in Users /\ req[p].role \in Roles /\ ~Binding(p, u)
        /\ \A q \in Procs \ {p} : req'[q] = req[q]
    BY <1>1, WorkSteps DEF WriteUser, Named, TypeOK, RequestType, Binding, Continues
  <2>2. CASE user'[u] = user[u] /\ bound'[u] = bound[u]
    BY <2>1, <2>2, <1>o, <1>b DEF Binding
  <2>3. CASE Backend = "mysql" /\ bound' = [bound EXCEPT ![req[p].u][1] = req[p].role] /\ req[p].u = u
    <3>1. bound'[u][1] # "none" /\ 1 \in Tenants
        BY <2>1, <2>3, AccountsAssumption DEF TypeOK, Roles
    <3> QED BY <3>1, <1>b
  <2>4. CASE Backend # "mysql" /\ ~Exists(req[p].u) /\ req[p].u = u
    <3>1. req'[p] = [req[p] EXCEPT !.op = "bind", !.flag = TRUE, !.t = 1, !.next = req[p].t]
        BY <1>1, <2>4 DEF WriteUser, TypeOK
    <3>2. req'[p].op = "bind" /\ req'[p].u = u /\ req'[p].at = "write"
        BY <1>1, <2>4, <3>1 DEF WriteUser, TypeOK, RequestType
    <3> QED BY <3>2
  <2> QED BY <1>1, <2>1, <2>2, <2>3, <2>4 DEF WriteUser, TypeOK
<1>2. ASSUME NEW p \in Procs, Upsert(p) PROVE BoundTo(u)' # {}
  <2>1. /\ req[p].u \in Users /\ req[p].t \in Tenants /\ req[p].role \in Roles
        /\ \A q \in Procs \ {p} : req'[q] = req[q]
    BY <1>2, WorkSteps DEF Upsert, Named, TypeOK, RequestType, Continues
  <2>2. bound' = [bound EXCEPT ![req[p].u][req[p].t] = req[p].role] /\ user' = user
    BY <1>2 DEF Upsert
  <2>3. CASE req[p].u = u
    <3>1. bound'[u][req[p].t] # "none"
        BY <2>1, <2>2, <2>3 DEF TypeOK, Roles
    <3> QED BY <2>1, <3>1, <1>b
  <2>4. CASE req[p].u # u
    <3>1. bound'[u] = bound[u] /\ ~Binding(p, u)
        BY <2>1, <2>2, <2>4 DEF TypeOK, Binding
    <3> QED BY <2>1, <2>2, <3>1, <1>o, <1>b DEF Binding
  <2> QED BY <2>3, <2>4
<1>3. ASSUME NEW p \in Procs, Unbind(p) PROVE BoundTo(u)' # {}
  <2>1. /\ user' = user /\ req[p].op = "unbind" /\ req[p].at = "write"
        /\ bound' = [bound EXCEPT ![req[p].u][req[p].t] = "none"]
        /\ \A q \in Procs \ {p} : req'[q] = req[q]
    BY <1>3, WorkSteps DEF Unbind, Continues
  <2>2. CASE req[p].u = u
    <3>1. PICK s, t \in BoundTo(u) : s # t
        BY <1>r, <2>1, <2>2 DEF Spared
    <3>2. \A x \in BoundTo(u) : x # req[p].t => x \in BoundTo(u)'
        BY <2>1, <2>2, <1>b DEF TypeOK
    <3> QED BY <3>1, <3>2
  <2>3. CASE req[p].u # u
    <3>1. bound'[u] = bound[u] /\ ~Binding(p, u)
        BY <2>1, <2>3 DEF TypeOK, Binding
    <3> QED BY <2>1, <3>1, <1>o, <1>b DEF Binding
  <2> QED BY <2>2, <2>3
<1>u. ASSUME \A p \in Procs : ~Unbind(p) PROVE BoundTo(u) \subseteq BoundTo(u)'
    BY <1>u, BindingsStay
<1>4. ASSUME NEW p \in Procs, SetRole(p) \/ SetActive(p) \/ SetTenant(p) \/ Check(p)
      PROVE  BoundTo(u)' # {}
  <2>1. \A q \in Procs \ {p} : req'[q] = req[q]
    BY <1>4, WorkSteps DEF Continues
  <2>2. ~Binding(p, u)
    BY <1>4 DEF SetRole, SetActive, SetTenant, Check, Binding
  <2>3. user[u].role # "none"
    <3>1. CASE SetRole(p)
        <4>1. Exists(req[p].u) /\ (user' = user \/ user' = [user EXCEPT ![req[p].u].role = req[p].role])
            BY <3>1 DEF SetRole, Known, Demoting
        <4> QED BY <4>1 DEF TypeOK, Exists
    <3>2. CASE SetActive(p)
        BY <3>2 DEF SetActive, TypeOK
    <3>3. CASE SetTenant(p) \/ Check(p)
        BY <3>3 DEF SetTenant, Check
    <3> QED BY <1>4, <3>1, <3>2, <3>3
  <2>4. \A t \in Tenants : bound[u][t] # "none" => bound'[u][t] # "none"
    <3>1. CASE SetRole(p)
        <4>1. req[p].role \in Roles
            BY DEF TypeOK, RequestType
        <4>2. bound' = bound \/ \E v, t : bound' = [bound EXCEPT ![v][t] = req[p].role]
            BY <3>1 DEF SetRole
        <4>3. ASSUME NEW v, NEW w, NEW role \in Roles, bound' = [bound EXCEPT ![v][w] = role],
                     NEW t \in Tenants, bound[u][t] # "none"
              PROVE  bound'[u][t] # "none"
            BY <4>3 DEF TypeOK, Roles
        <4> QED BY <4>1, <4>2, <4>3
    <3>2. CASE SetActive(p) \/ SetTenant(p) \/ Check(p)
        BY <3>2 DEF SetActive, SetTenant, Check
    <3> QED BY <1>4, <3>1, <3>2
  <2> QED BY <1>b, <1>o, <2>1, <2>2, <2>3, <2>4 DEF Binding
<1>5. ASSUME NEW p \in Procs, ClearDefault(p) PROVE BoundTo(u)' # {}
  <2>1. /\ user' = user /\ bound' = bound /\ req[p].op = "bind"
        /\ req'[p] = [req[p] EXCEPT !.at = "upsert"]
        /\ \A q \in Procs \ {p} : req'[q] = req[q]
    BY <1>5, WorkSteps DEF ClearDefault, Continues, TypeOK
  <2>2. req[p].u # u
    BY <2>1 DEF TypeOK, RequestType
  <2> QED BY <2>1, <2>2, <1>b, <1>o DEF Binding
<1>6. ASSUME NEW p \in Procs, Die(p) PROVE BoundTo(u)' # {}
  <2>1. /\ user' = user /\ bound' = bound /\ raced' = raced \cup (Touches(req[p]) \ {0})
        /\ \A q \in Procs \ {p} : req'[q] = req[q]
    BY <1>6, WorkSteps DEF Die, Continues
  <2>2. u # 0 /\ ~Binding(p, u)
    BY <2>1, AccountsAssumption DEF Binding, Touches
  <2> QED BY <2>1, <2>2, <1>b, <1>o DEF Binding
<1>7. ASSUME NEW p \in Procs, NEW k \in Tokens, NEW r \in Requests, Begin(p, k, r) PROVE BoundTo(u)' # {}
  <2>1. /\ user' = user /\ bound' = bound /\ req[p].op = "none"
        /\ \A q \in Procs \ {p} : req'[q] = req[q]
    BY <1>7, BeginStep DEF Begin
  <2> QED BY <2>1, <1>b, <1>o DEF Binding
<1>8. CASE \/ UNCHANGED vars
           \/ \E v \in Users, k \in Tokens : Login(v, k)
           \/ \E k \in Tokens : Logout(k) \/ Expire(k) \/ Use(k)
  <2>1. user' = user /\ bound' = bound /\ req' = req
    BY <1>8 DEF vars, Login, Logout, Expire, Use
  <2> QED BY <2>1, <1>b, <1>o DEF Binding
<1> QED BY <1>1, <1>2, <1>3, <1>4, <1>5, <1>6, <1>7, <1>8 DEF Next

\* What a step does to the default marks of a user no two requests were changing.
LEMMA NextMarks ==
    ASSUME TypeOK, Named, Busy, Apart, Cleared, OneMark, [Next]_vars
    PROVE  Cleared' /\ OneMark'
<1>r. raced \subseteq raced'
    BY RacedGrows
<1>1. ASSUME NEW p \in Procs, ClearDefault(p) PROVE Cleared' /\ OneMark'
  <2>1. /\ dflt' = [dflt EXCEPT ![req[p].u] = {}] /\ raced' = raced
        /\ req'[p] = [req[p] EXCEPT !.at = "upsert"] /\ req[p] \in RequestType
        /\ Backend = "sqlite" /\ req[p].op = "bind" /\ req[p].u \in Users
        /\ \A q \in Procs \ {p} : req'[q] = req[q]
    BY <1>1, WorkSteps DEF ClearDefault, Continues, TypeOK, Named
  <2>2. \A v \in Users : dflt'[v] = IF v = req[p].u THEN {} ELSE dflt[v]
    BY <2>1 DEF TypeOK
  <2>3. OneMark'
    BY <2>1, <2>2 DEF OneMark
  <2>4. req'[p].op = "bind" /\ req'[p].u = req[p].u
    BY <2>1 DEF RequestType
  <2>5. Cleared'
    <3> SUFFICES ASSUME NEW q \in Procs, req'[q].at = "upsert"
                 PROVE  req'[q].op = "bind" /\ (req'[q].u \in raced' \/ dflt'[req'[q].u] = {})
        BY <2>1 DEF Cleared
    <3>1. CASE q = p
        BY <2>1, <2>2, <2>4, <3>1
    <3>2. CASE q # p
        BY <2>1, <2>2, <3>2 DEF Cleared, Named
    <3> QED BY <3>1, <3>2
  <2> QED BY <2>3, <2>5
\* A write of the marks of one user by the request that alone is about them.
<1>2. ASSUME NEW p \in Procs, Upsert(p) \/ Unbind(p), NEW S, req[p].u \in Users,
             dflt' = [dflt EXCEPT ![req[p].u] = S], req[p].u \in raced \/ \A s, t \in S : s = t
      PROVE  Cleared' /\ OneMark'
  <2>1. /\ raced' = raced /\ req'[p].at # "upsert" /\ \A q \in Procs \ {p} : req'[q] = req[q]
    <3>1. req'[p] = Idle \/ req'[p] = [req[p] EXCEPT !.at = "write", !.t = req[p].next, !.next = 0]
      <4>1. req' = [req EXCEPT ![p] = Bound(req[p])] \/ req' = [req EXCEPT ![p] = Idle]
        BY <1>2 DEF Upsert, Unbind
      <4>2. req'[p] = Bound(req[p]) \/ req'[p] = Idle
        BY <4>1 DEF TypeOK
      <4> QED BY <4>2 DEF Bound
    <3>2. req'[p].at # "upsert"
      <4>1. ASSUME NEW r \in RequestType PROVE [r EXCEPT !.at = "write", !.t = r.next, !.next = 0].at = "write"
        BY DEF RequestType
      <4>2. req[p] \in RequestType
        BY DEF TypeOK
      <4> QED BY <3>1, <4>1, <4>2, IdleTyped
    <3> QED BY <1>2, <3>2, WorkSteps DEF Upsert, Unbind, Continues
  <2>2. \A v \in Users : dflt'[v] = IF v = req[p].u THEN S ELSE dflt[v]
    BY <1>2 DEF TypeOK
  <2>3. OneMark'
    BY <1>2, <2>1, <2>2 DEF OneMark
  <2>4. Cleared'
    <3> SUFFICES ASSUME NEW q \in Procs, q # p, req[q].at = "upsert"
                 PROVE  /\ Backend = "sqlite" /\ req[q].op = "bind"
                        /\ req[q].u \in raced \/ dflt'[req[q].u] = {}
        BY <2>1 DEF Cleared
    <3>1. Backend = "sqlite" /\ req[q].op = "bind" /\ req[q].u \in Users /\ (req[q].u \in raced \/ dflt[req[q].u] = {})
        BY DEF Cleared, Named
    <3>2. req[q].u = req[p].u => req[q].u \in raced
        BY <1>2, <3>1 DEF Apart, Touches, Upsert, Unbind
    <3> QED BY <2>2, <3>1, <3>2
  <2> QED BY <2>3, <2>4
<1>3. ASSUME NEW p \in Procs, Upsert(p) PROVE Cleared' /\ OneMark'
  <2> DEFINE old == dflt[req[p].u]
             S == IF req[p].flag THEN (IF Backend = "mysql" THEN {} ELSE old) \cup {req[p].t} ELSE old \ {req[p].t}
  <2>1. req[p].u \in Users /\ dflt' = [dflt EXCEPT ![req[p].u] = S]
    BY <1>3 DEF Upsert, Named
  <2>2. req[p].u \in raced \/ \A s, t \in S : s = t
    <3>1. CASE req[p].flag /\ Backend # "mysql"
        BY <1>3, <3>1 DEF Upsert, Cleared
    <3>2. CASE ~(req[p].flag /\ Backend # "mysql")
        BY <2>1, <3>2 DEF OneMark
    <3> QED BY <3>1, <3>2
  <2> HIDE DEF S
  <2> QED BY <1>2, <1>3, <2>1, <2>2
<1>4. ASSUME NEW p \in Procs, Unbind(p) PROVE Cleared' /\ OneMark'
  <2> DEFINE S == dflt[req[p].u] \ {req[p].t}
  <2>1. req[p].u \in Users /\ dflt' = [dflt EXCEPT ![req[p].u] = S]
    BY <1>4 DEF Unbind, Named
  <2>2. req[p].u \in raced \/ \A s, t \in S : s = t
    BY <2>1 DEF OneMark
  <2> HIDE DEF S
  <2> QED BY <1>2, <1>4, <2>1, <2>2
\* The marks stay, or a user of the MySQL tables gets its first one.
<1>5. ASSUME dflt' = dflt \/ (Backend = "mysql" /\ \E v : dflt' = [dflt EXCEPT ![v] = {1}]),
             \A q \in Procs : req'[q].at = "upsert" => req'[q] = req[q]
      PROVE  Cleared' /\ OneMark'
  <2>1. OneMark'
    BY <1>5, <1>r DEF OneMark, TypeOK
  <2>2. Cleared'
    BY <1>5, <1>r, AccountsAssumption DEF Cleared
  <2> QED BY <2>1, <2>2
<1>6. ASSUME NEW p \in Procs,
             Check(p) \/ WriteUser(p) \/ SetRole(p) \/ SetActive(p) \/ SetTenant(p) \/ Die(p)
      PROVE  Cleared' /\ OneMark'
  <2>1. dflt' = dflt \/ (Backend = "mysql" /\ \E v : dflt' = [dflt EXCEPT ![v] = {1}])
    BY <1>6, AccountsAssumption DEF Check, WriteUser, SetRole, SetActive, SetTenant, Die
  <2>2. req'[p].at # "upsert"
    <3>1. CASE WriteUser(p)
      <4>1. \/ req'[p] = Idle \/ req'[p] = [req[p] EXCEPT !.op = "bind", !.flag = TRUE]
            \/ req'[p] = [req[p] EXCEPT !.op = "bind", !.flag = TRUE, !.t = 1, !.next = req[p].t]
        BY <3>1 DEF WriteUser, TypeOK
      <4>2. req[p].at = "write" /\ req[p] \in RequestType
        BY <3>1 DEF WriteUser, TypeOK
      <4>3. ASSUME NEW r \in RequestType, r.at = "write", NEW n
            PROVE  /\ [r EXCEPT !.op = "bind", !.flag = TRUE].at = "write"
                   /\ [r EXCEPT !.op = "bind", !.flag = TRUE, !.t = 1, !.next = n].at = "write"
        BY <4>3 DEF RequestType
      <4> QED BY <4>1, <4>2, <4>3, IdleTyped
    <3>2. CASE ~WriteUser(p)
      <4>1. req'[p] = Idle \/ req'[p] = [req[p] EXCEPT !.at = "write"]
        BY <1>6, <3>2 DEF Check, SetRole, SetActive, SetTenant, Die, TypeOK
      <4> QED BY <4>1 DEF Idle, TypeOK, RequestType
    <3> QED BY <3>1, <3>2
  <2>3. \A q \in Procs : req'[q].at = "upsert" => req'[q] = req[q]
    BY <1>6, <2>2, WorkSteps DEF Continues
  <2> QED BY <1>5, <2>1, <2>3
<1>7. ASSUME NEW p \in Procs, NEW k \in Tokens, NEW r \in Requests, Begin(p, k, r) PROVE Cleared' /\ OneMark'
  <2>1. dflt' = dflt /\ \A q \in Procs : req'[q].at = "upsert" => req'[q] = req[q]
    BY <1>7, BeginStep DEF Begin
  <2> QED BY <1>5, <2>1
<1>8. CASE \/ UNCHANGED vars
           \/ \E v \in Users, k \in Tokens : Login(v, k)
           \/ \E k \in Tokens : Logout(k) \/ Expire(k) \/ Use(k)
  <2>1. dflt' = dflt /\ req' = req
    BY <1>8 DEF vars, Login, Logout, Expire, Use
  <2> QED BY <1>5, <2>1
<1> QED BY <1>1, <1>3, <1>4, <1>6, <1>7, <1>8 DEF Next

THEOREM NextIInv == IInv /\ [Next]_vars => IInv'
<1> SUFFICES ASSUME IInv, [Next]_vars PROVE IInv'
    OBVIOUS
<1> USE DEF IInv
<1>1. TypeOK' /\ Named' /\ Busy'
    BY NextTypes
<1>2. Alone' /\ Known' /\ OnlyFirst' /\ GoneStaysGone'
    BY NextAlone, NextKnown, NextFirst, NextGone
<1>3. Another' /\ AdminRemains'
    BY <1>2, NextAdmins
<1>4. Apart' /\ Kept' /\ Spared' /\ Cleared' /\ OneMark'
    BY NextApart, NextKept, NextSpared, NextMarks
<1> QED BY <1>1, <1>2, <1>3, <1>4

THEOREM Invariant == Spec => []IInv
BY InitIInv, NextIInv, PTL DEF Spec

(* An active administrator remains: no interleaving of administration requests *)
(* takes the last one away unless two changes of role or activity overlapped   *)
(* or, on MySQL, a binding was changed (admin_api_service.py).                 *)
THEOREM AnAdminRemains == Spec => []AdminRemains
<1>1. IInv => AdminRemains
    BY DEF IInv
<1> QED BY <1>1, Invariant, PTL

(* A token that was refused or logged out opens no session again.              *)
THEOREM RefusedStays == Spec => []RefusedStaysRefused
<1>1. IInv => RefusedStaysRefused
    BY DEF IInv, GoneStaysGone, RefusedStaysRefused, Accepted
<1> QED BY <1>1, Invariant, PTL

\* A user whose creation is over has a binding, and no user has two default ones.
LEMMA BindingsSound == IInv => BindingKept /\ OneDefault
<1> SUFFICES ASSUME IInv PROVE BindingKept /\ OneDefault
    OBVIOUS
<1>1. BindingKept
    BY DEF IInv, Kept, BindingKept, Binding, Touches
<1>2. ASSUME NEW u \in Users \ raced PROVE Cardinality(dflt[u]) <= 1
  <2>1. dflt[u] = {} \/ \E t : dflt[u] = {t}
    BY DEF IInv, OneMark
  <2> QED BY <2>1, FS_EmptySet, FS_Singleton
<1> QED BY <1>1, <1>2 DEF OneDefault

(* The rows of users, bindings, tenants and sessions keep their types, and so  *)
(* does what a request holds between its steps.                                *)
THEOREM TypeCorrect == Spec => []TypeOK
<1>1. IInv => TypeOK
    BY DEF IInv
<1> QED BY <1>1, Invariant, PTL
===============================================================================
