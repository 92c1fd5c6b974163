--------------------------- MODULE TenantAccess ---------------------------
(****************************************************************************)
(* The tenant boundary (tenants/services.py, middleware.py, permissions.py  *)
(* and TenantJWTAuth of api.py): which user, tenant and role a request acts *)
(* with.  Each SELECT of a request is a step; users, memberships, tenants   *)
(* and the browser's session may change between any two of them.            *)
(*                                                                          *)
(* A token stands for the user it decodes to, Nobody for one that does not  *)
(* decode (module Accounts says which do).  activate_tenant_session has no  *)
(* caller yet among the views: here a page of the session calls it.         *)
(****************************************************************************)
EXTENDS Naturals

CONSTANTS
    Requests,    \* request threads
    Users,
    Tenants,
    Browsers,    \* sessions of django.contrib.sessions
    OwnerOf,     \* the user logged in to a session
    Roles,       \* Membership.Role
    Nobody,      \* AnonymousUser, or the user of an invalid token
    NoTenant,    \* no active_tenant_id in the session
    NoBrowser,   \* a request without a session cookie
    NoRequest,   \* what an idle thread serves
    InitialGrants, \* memberships to start from
    MaxChanges   \* bound on the changes administrators make

ASSUME RoleAssumption ==
    Roles \subseteq {"admin", "operator", "viewer"}

ASSUME AccessAssumption ==
    /\ OwnerOf \in [Browsers -> Users]
    /\ Nobody \notin Users
    /\ NoTenant \notin Tenants
    /\ NoBrowser \notin Browsers
    /\ Tenants \cap {"missing", "malformed"} = {}
    /\ MaxChanges \in Nat

\* An inactive membership is no membership: "none".
Grant == Roles \cup {"none"}

Member == [user   : Users \cup {Nobody},
           tenant : Tenants \cup {NoTenant},
           role   : Grant]

ASSUME InitialAssumption == InitialGrants \subseteq [Users -> [Tenants -> Grant]]

\* Everything that access depends on, in effect.
Worlds == [active : SUBSET Users, role : [Users -> [Tenants -> Grant]]]

\* What the client sends.  "write" passes require_roles(ADMIN, OPERATOR).
Header == Tenants \cup {"missing", "malformed"}

APIRequest == [api : {TRUE}, browser : Browsers \cup {NoBrowser},
               token : Users \cup {Nobody}, tenant : Header,
               op : {"read", "write"}]

Page == [api : {FALSE}, browser : Browsers, token : {Nobody},
         tenant : Header, op : {"write", "select"}]

Request == APIRequest \cup Page

ASSUME RequestAssumption == NoRequest \notin Request

VARIABLES
    active,    \* users with is_active
    open,      \* tenants with is_active
    grants,    \* grants[u][t]: role of the active membership
    session,   \* session[b]: the saved active_tenant_id
    changes,   \* changes so far
    pc,        \* pc[r]: next step, or the status of the answer
    req,       \* req[r]: the request
    user,      \* request.user
    member,    \* request.membership, and request.tenant with it
    loaded,    \* active_tenant_id of request.session, in memory
    dirty,     \* request.session.modified
    seen       \* history: the worlds since the request has arrived

rows    == <<active, open, grants>>
request == <<req, user, member, loaded, dirty>>
vars    == <<active, open, grants, session, changes,
             pc, req, user, member, loaded, dirty, seen>>

-----------------------------------------------------------------------------
NoMember == [user |-> Nobody, tenant |-> NoTenant, role |-> "none"]

\* Mutation: the activity of the tenant is not looked at.
RoleIgnoringTenant(u, t) == grants[u][t]

\* The role that the query of resolve_membership finds, "none" if no row.
Role(u, t) == IF t \in open THEN grants[u][t] ELSE "none"

\* resolve_membership returns; otherwise it raises TenantContextMissing for a
\* tenant that is not given and TenantAccessDenied for anything else.
Resolves(u, t) == u \in Users /\ t \in Tenants /\ Role(u, t) # "none"

MemberOf(u, t) == [user |-> u, tenant |-> t, role |-> Role(u, t)]

\* ensure_membership_role
MayWrite(m) == m.role \in {"admin", "operator"}

World == [active |-> active,
          role   |-> [u \in Users |-> [t \in Tenants |-> Role(u, t)]]]

-----------------------------------------------------------------------------
Init ==
    /\ active = Users
    /\ open = Tenants
    /\ grants \in InitialGrants
    /\ session = [b \in Browsers |-> NoTenant]
    /\ changes = 0
    /\ pc = [r \in Requests |-> "idle"]
    /\ req = [r \in Requests |-> NoRequest]
    /\ user = [r \in Requests |-> Nobody]
    /\ member = [r \in Requests |-> NoMember]
    /\ loaded = [r \in Requests |-> NoTenant]
    /\ dirty = [r \in Requests |-> FALSE]
    /\ seen = [r \in Requests |-> {}]

GoTo(r, label) == pc' = [pc EXCEPT ![r] = label]

\* Before the middleware: request.user and request.session are lazy.
Arrive(r, q) ==
    /\ pc[r] = "idle"
    /\ GoTo(r, "session")
    /\ req' = [req EXCEPT ![r] = q]
    /\ seen' = [seen EXCEPT ![r] = {World}]
    /\ UNCHANGED <<rows, session, changes, user, member, loaded, dirty>>

\* request.user.is_authenticated loads the session and its user, who is
\* AnonymousUser when the row is not active any more.
LoadSession(r) ==
    /\ pc[r] = "session"
    /\ LET b == req[r].browser
       IN  IF b \in Browsers /\ OwnerOf[b] \in active
           THEN /\ user' = [user EXCEPT ![r] = OwnerOf[b]]
                /\ loaded' = [loaded EXCEPT ![r] = session[b]]
           ELSE UNCHANGED <<user, loaded>>
    /\ GoTo(r, "middleware")
    /\ UNCHANGED <<rows, session, changes, req, member, dirty, seen>>

\* Mutation: the middleware answers instead of dropping the selection.
RefuseStaleSession(r) ==
    /\ pc[r] = "middleware"
    /\ LET found == Resolves(user[r], loaded[r])
       IN  /\ member' = [member EXCEPT ![r] =
                  IF found THEN MemberOf(user[r], loaded[r]) ELSE NoMember]
           /\ GoTo(r, IF loaded[r] # NoTenant /\ ~found THEN "403"
                      ELSE IF req[r].api THEN "token" ELSE "view")
    /\ UNCHANGED <<rows, session, changes, req, user, loaded, dirty, seen>>

\* TenantContextMiddleware: the tenant of the session, dropped if the user
\* has no access to it any more.
Middleware(r) ==
    /\ pc[r] = "middleware"
    /\ LET found == Resolves(user[r], loaded[r])
       IN  /\ member' = [member EXCEPT ![r] =
                  IF found THEN MemberOf(user[r], loaded[r]) ELSE NoMember]
           /\ loaded' = [loaded EXCEPT ![r] = IF found THEN @ ELSE NoTenant]
           /\ dirty' = [dirty EXCEPT ![r] = loaded[r] # NoTenant /\ ~found]
    /\ GoTo(r, IF req[r].api THEN "token" ELSE "view")
    /\ UNCHANGED <<rows, session, changes, req, user, seen>>

\* Mutation: the user of the token is taken without a look at its row.
TrustToken(r) ==
    /\ pc[r] = "token"
    /\ LET found == req[r].token \in Users
       IN  /\ user' = [user EXCEPT ![r] = IF found THEN req[r].token ELSE @]
           /\ GoTo(r, IF found THEN "header" ELSE "401")
    /\ UNCHANGED <<rows, session, changes, req, member, loaded, dirty, seen>>

\* get_active_user_from_token(token, "access"), and request.user is replaced.
CheckToken(r) ==
    /\ pc[r] = "token"
    /\ LET found == req[r].token \in active
       IN  /\ user' = [user EXCEPT ![r] = IF found THEN req[r].token ELSE @]
           /\ GoTo(r, IF found THEN "header" ELSE "401")
    /\ UNCHANGED <<rows, session, changes, req, member, loaded, dirty, seen>>

\* The role guard of the endpoint, on the membership in memory.
Guard(r, m) ==
    GoTo(r, IF req[r].op = "write" /\ ~MayWrite(m) THEN "403" ELSE "act")

\* Mutation: the tenant of the session is good enough.
PreferSession(r) ==
    /\ pc[r] = "header"
    /\ LET u == user[r]
           t == IF member[r] # NoMember THEN member[r].tenant ELSE req[r].tenant
       IN  \/ /\ t = "missing"
              /\ GoTo(r, "400")
              /\ UNCHANGED member
           \/ /\ t # "missing" /\ ~Resolves(u, t)
              /\ GoTo(r, "403")
              /\ UNCHANGED member
           \/ /\ Resolves(u, t)
              /\ member' = [member EXCEPT ![r] = MemberOf(u, t)]
              /\ Guard(r, MemberOf(u, t))
    /\ UNCHANGED <<rows, session, changes, req, user, loaded, dirty, seen>>

\* resolve_tenant_from_header, which replaces the membership of the session,
\* and the role guard.
ResolveHeader(r) ==
    /\ pc[r] = "header"
    /\ LET u == user[r]
           t == req[r].tenant
       IN  \/ /\ t = "missing"
              /\ GoTo(r, "400")
              /\ UNCHANGED member
           \/ /\ t # "missing" /\ ~Resolves(u, t)
              /\ GoTo(r, "403")
              /\ UNCHANGED member
           \/ /\ Resolves(u, t)
              /\ member' = [member EXCEPT ![r] = MemberOf(u, t)]
              /\ Guard(r, MemberOf(u, t))
    /\ UNCHANGED <<rows, session, changes, req, user, loaded, dirty, seen>>

\* A page whose view require_roles guards.
GuardedView(r) ==
    /\ pc[r] = "view"
    /\ req[r].op = "write"
    /\ Guard(r, member[r])
    /\ UNCHANGED <<rows, session, changes, request, seen>>

\* Mutation: the key is written before the membership is looked up.
SelectUnchecked(r) ==
    /\ pc[r] = "view"
    /\ req[r].op = "select"
    /\ LET t == req[r].tenant
       IN  /\ loaded' = [loaded EXCEPT ![r] = t]
           /\ dirty' = [dirty EXCEPT ![r] = TRUE]
           /\ GoTo(r, IF Resolves(user[r], t) THEN "selected" ELSE "403")
    /\ UNCHANGED <<rows, session, changes, req, user, member, seen>>

\* A page that calls activate_tenant_session.
SelectTenant(r) ==
    /\ pc[r] = "view"
    /\ req[r].op = "select"
    /\ LET t == req[r].tenant
       IN  \/ /\ Resolves(user[r], t)
              /\ loaded' = [loaded EXCEPT ![r] = t]
              /\ dirty' = [dirty EXCEPT ![r] = TRUE]
              /\ GoTo(r, "selected")
           \/ /\ ~Resolves(user[r], t)
              /\ GoTo(r, IF user[r] # Nobody /\ t = "missing" THEN "400"
                                                              ELSE "403")
              /\ UNCHANGED <<loaded, dirty>>
    /\ UNCHANGED <<rows, session, changes, req, user, member, seen>>

\* The answer.  SessionMiddleware saves a modified session as a whole, over
\* whatever another request of the browser has saved meanwhile.
Respond(r) ==
    /\ pc[r] \in {"act", "selected", "400", "401", "403"}
    /\ session' = IF dirty[r]
                  THEN [session EXCEPT ![req[r].browser] = loaded[r]]
                  ELSE session
    /\ GoTo(r, "idle")
    /\ req' = [req EXCEPT ![r] = NoRequest]
    /\ user' = [user EXCEPT ![r] = Nobody]
    /\ member' = [member EXCEPT ![r] = NoMember]
    /\ loaded' = [loaded EXCEPT ![r] = NoTenant]
    /\ dirty' = [dirty EXCEPT ![r] = FALSE]
    /\ seen' = [seen EXCEPT ![r] = {}]
    /\ UNCHANGED <<rows, changes>>

Step(r) ==
    \/ LoadSession(r)
    \/ Middleware(r)
    \/ CheckToken(r)
    \/ ResolveHeader(r)
    \/ GuardedView(r)
    \/ SelectTenant(r)
    \/ Respond(r)

-----------------------------------------------------------------------------
(* Administrators.  Each form is saved in a transaction of its own.         *)

Change ==
    /\ changes < MaxChanges
    /\ changes' = changes + 1
    /\ seen' = [r \in Requests |->
                    IF pc[r] = "idle" THEN {} ELSE seen[r] \cup {World'}]
    /\ UNCHANGED <<session, pc, request>>

\* UserAdmin: is_active.
ChangeUser(u) ==
    /\ active' = IF u \in active THEN active \ {u} ELSE active \cup {u}
    /\ UNCHANGED <<open, grants>>
    /\ Change

\* TenantAdmin, with the memberships of the tenant inline: its is_active and
\* any of its memberships in one transaction.
ChangeTenant(t) ==
    /\ \/ open' = open
       \/ open' = open \ {t}
       \/ open' = open \cup {t}
    /\ \E g \in [Users -> Grant] :
          grants' = [u \in Users |-> [grants[u] EXCEPT ![t] = g[u]]]
    /\ UNCHANGED active
    /\ Change

Next ==
    \/ \E r \in Requests : Step(r)
    \/ \E r \in Requests, q \in Request : Arrive(r, q)
    \/ \E u \in Users : ChangeUser(u)
    \/ \E t \in Tenants : ChangeTenant(t)

Spec == Init /\ [][Next]_vars

-----------------------------------------------------------------------------
(* Properties.                                                              *)

\* Every variable has its type.
TypeOK ==
    /\ active \subseteq Users
    /\ open \subseteq Tenants
    /\ grants \in [Users -> [Tenants -> Grant]]
    /\ session \in [Browsers -> Tenants \cup {NoTenant}]
    /\ changes \in 0..MaxChanges
    /\ pc \in [Requests -> {"idle", "session", "middleware", "token",
                            "header", "view", "act", "selected",
                            "400", "401", "403"}]
    /\ req \in [Requests -> Request \cup {NoRequest}]
    /\ user \in [Requests -> Users \cup {Nobody}]
    /\ member \in [Requests -> Member]
    /\ loaded \in [Requests -> Tenants \cup {NoTenant}]
    /\ dirty \in [Requests -> BOOLEAN]
    /\ seen \in [Requests -> SUBSET Worlds]

\* The user, the tenant and the role that request r acts with hold in w.
HoldsIn(w, r) ==
    /\ member[r].user \in w.active
    /\ w.role[member[r].user][member[r].tenant] = member[r].role

\* An operation acts for the user of its token in the tenant of its header,
\* whatever the session of the browser says, in a role that the user really
\* had there since the request arrived and that the operation admits
\* (blueprint-saas-django.md:1773).  The role may have gone by then.
MembershipWitnessed ==
    \A r \in Requests : pc[r] = "act" =>
        LET m == member[r]
        IN  /\ \E w \in seen[r] : w.role[m.user][m.tenant] = m.role
            /\ m.role # "none"
            /\ req[r].op = "write" => MayWrite(m)
            /\ req[r].api => m.user = req[r].token /\ m.tenant = req[r].tenant
            /\ ~req[r].api => m.user = OwnerOf[req[r].browser]

\* The user and the membership come from two SELECTs.  With at most one
\* change while the request runs they are of one moment: the user was active
\* and had that role at once.  With more changes they need not be.
UserAndRoleTogether ==
    \A r \in Requests : pc[r] = "act" =>
        \A v, w \in seen[r] :
            seen[r] = {v, w} => HoldsIn(v, r) \/ HoldsIn(w, r)

\* A request that has access all the time it runs is not refused, also not
\* when the session of its browser selects a tenant that it has lost.
RefusedForCause ==
    \A r \in Requests :
        LET q == req[r]
        IN  /\ pc[r] = "401" => \E w \in seen[r] : q.token \notin w.active
            /\ pc[r] = "403" /\ q.api /\ q.tenant \in Tenants =>
                  /\ q.token \in Users
                  /\ \E w \in seen[r] :
                        \/ w.role[q.token][q.tenant] = "none"
                        \/ /\ q.op = "write"
                           /\ w.role[q.token][q.tenant] = "viewer"

\* A session comes to select a tenant only by a request of that browser,
\* during which its owner was a member of that tenant: requests that save
\* their copies of the session over each other do not make up a selection.
SelectionEarned ==
    [][\A b \in Browsers :
          session'[b] \notin {session[b], NoTenant} =>
              /\ session'[b] \in Tenants
              /\ \E r \in Requests :
                    /\ req[r] # NoRequest /\ req[r].browser = b
                    /\ \E w \in seen[r] :
                          w.role[OwnerOf[b]][session'[b]] # "none"]_vars
=============================================================================
