------------------------- MODULE TenantAccessProofs -------------------------
(****************************************************************************)
(* Theorems about TenantAccess, for every value of its constants.           *)
(*                                                                          *)
(*   1. TypeOK                                                              *)
(*   2. Course: what each request has passed, and a world that admitted it  *)
(*   3. Paired: two worlds that are all a request has seen differ in users  *)
(*      or in roles, not in both                                            *)
(****************************************************************************)
EXTENDS TenantAccess, TLAPS

-----------------------------------------------------------------------------
(* Type correctness.                                                        *)

\* What resolve_membership returns.
LEMMA MemberTypes ==
    ASSUME TypeOK, NEW u, NEW t, Resolves(u, t)
    PROVE  /\ MemberOf(u, t) \in Member
           /\ u \in Users /\ t \in Tenants
           /\ Role(u, t) \in Grant /\ Role(u, t) # "none"
           /\ t \notin {"missing", "malformed", NoTenant} /\ u # Nobody
BY AccessAssumption DEF TypeOK, Resolves, MemberOf, Member, Role, Grant

LEMMA NoMemberType == NoMember \in Member
BY DEF NoMember, Member, Grant

\* A world is a set of users and a table of roles.
LEMMA WorldType ==
    ASSUME TypeOK
    PROVE  /\ World \in Worlds
           /\ World.active = active /\ World.active \subseteq Users
           /\ World.role \in [Users -> [Tenants -> Grant]]
           /\ \A u \in Users, t \in Tenants : World.role[u][t] = Role(u, t)
BY DEF TypeOK, World, Worlds, Role, Grant

\* A step of a request leaves the world as it is.
LEMMA WorldStays == ASSUME UNCHANGED rows PROVE World' = World
BY DEF rows, World, Role

\* A step that reads and writes what belongs to one request is well typed.
THEOREM TypeCorrect == Spec => []TypeOK
<1>1. Init => TypeOK
  BY AccessAssumption, InitialAssumption, NoMemberType DEF Init, TypeOK
<1>2. TypeOK /\ [Next]_vars => TypeOK'
  <2> SUFFICES ASSUME TypeOK, [Next]_vars PROVE TypeOK'
    OBVIOUS
  <2>1. ASSUME NEW r \in Requests, LoadSession(r) PROVE TypeOK'
    <3>1. \A b \in Browsers : OwnerOf[b] \in Users
                              /\ session[b] \in Tenants \cup {NoTenant}
      BY AccessAssumption DEF TypeOK
    <3> QED BY <2>1, <3>1 DEF LoadSession, GoTo, TypeOK, rows
  <2>2. ASSUME NEW r \in Requests, Middleware(r) PROVE TypeOK'
    BY <2>2, MemberTypes, NoMemberType DEF Middleware, GoTo, TypeOK, rows
  <2>3. ASSUME NEW r \in Requests, CheckToken(r) PROVE TypeOK'
    BY <2>3 DEF CheckToken, GoTo, TypeOK, rows
  <2>4. ASSUME NEW r \in Requests, ResolveHeader(r) PROVE TypeOK'
    <3>1. /\ member' \in [Requests -> Member]
          /\ \E l \in {"act", "400", "403"} : pc' = [pc EXCEPT ![r] = l]
      BY <2>4, MemberTypes DEF ResolveHeader, Guard, GoTo, TypeOK
    <3>2. UNCHANGED <<rows, session, changes, req, user, loaded, dirty, seen>>
      BY <2>4 DEF ResolveHeader
    <3> QED BY <3>1, <3>2 DEF TypeOK, rows
  <2>5. ASSUME NEW r \in Requests, GuardedView(r) PROVE TypeOK'
    BY <2>5 DEF GuardedView, Guard, GoTo, TypeOK, rows, request
  <2>6. ASSUME NEW r \in Requests, SelectTenant(r) PROVE TypeOK'
    BY <2>6, MemberTypes DEF SelectTenant, GoTo, TypeOK, rows
  <2>7. ASSUME NEW r \in Requests, Respond(r) PROVE TypeOK'
    <3>1. session' \in [Browsers -> Tenants \cup {NoTenant}]
      BY <2>7 DEF Respond, TypeOK
    <3> QED BY <2>7, <3>1, NoMemberType DEF Respond, GoTo, TypeOK, rows
  <2>8. ASSUME NEW r \in Requests, NEW q \in Request, Arrive(r, q)
        PROVE TypeOK'
    BY <2>8, WorldType DEF Arrive, GoTo, TypeOK, rows
  <2>9. ASSUME Change, active' \subseteq Users, open' \subseteq Tenants,
               grants' \in [Users -> [Tenants -> Grant]]
        PROVE  TypeOK'
    <3>1. World' \in Worlds
      BY <2>9 DEF World, Worlds, Role, Grant
    <3>2. changes' \in 0..MaxChanges
      BY <2>9, AccessAssumption DEF Change, TypeOK
    <3> QED BY <2>9, <3>1, <3>2 DEF Change, TypeOK, request
  <2>10. ASSUME NEW u \in Users, ChangeUser(u) PROVE TypeOK'
    BY <2>9, <2>10 DEF ChangeUser, TypeOK
  <2>11. ASSUME NEW t \in Tenants, ChangeTenant(t) PROVE TypeOK'
    BY <2>9, <2>11 DEF ChangeTenant, TypeOK
  <2>12. CASE UNCHANGED vars
    BY <2>12 DEF vars, TypeOK
  <2> QED
    BY <2>1, <2>2, <2>3, <2>4, <2>5, <2>6, <2>7, <2>8, <2>10, <2>11, <2>12
    DEF Next, Step
<1> QED BY <1>1, <1>2, PTL DEF Spec

-----------------------------------------------------------------------------
(* The course of a request.                                                 *)

\* Request r has seen user u active, and has seen u in t with role x.
SawActive(r, u)  == \E w \in seen[r] : u \in w.active
SawRole(r, u, t, x) == \E w \in seen[r] : w.role[u][t] = x

\* Who the requests of a browser can be.
SessionUsers(r) == {Nobody, OwnerOf[req[r].browser]}

\* An operation under way: its membership was found, for its own user.
Admitted(r) ==
    LET m == member[r]
        q == req[r]
    IN  /\ SawRole(r, m.user, m.tenant, m.role)
        /\ SawActive(r, m.user)
        /\ m.role # "none"
        /\ q.op = "write" => MayWrite(m)
        /\ q.api => m.user = q.token /\ m.tenant = q.tenant
        /\ ~q.api => m.user = OwnerOf[q.browser]

\* A selection about to be saved was resolved for the owner of the session.
Chosen(r) ==
    LET q == req[r]
    IN  dirty[r] /\ loaded[r] # NoTenant =>
            \E w \in seen[r] : w.role[OwnerOf[q.browser]][loaded[r]] # "none"

\* The causes of RefusedForCause.
Caused(r) ==
    LET q == req[r]
    IN  /\ pc[r] = "401" => \E w \in seen[r] : q.token \notin w.active
        /\ pc[r] = "403" /\ q.api /\ q.tenant \in Tenants =>
              /\ q.token \in Users
              /\ \E w \in seen[r] :
                    \/ w.role[q.token][q.tenant] = "none"
                    \/ /\ q.op = "write"
                       /\ w.role[q.token][q.tenant] = "viewer"

Course(r) ==
    pc[r] # "idle" =>
        LET m == member[r]
        IN  /\ req[r] \in Request
            /\ World \in seen[r]
            /\ pc[r] \in {"token", "header", "401"} => req[r].api
            /\ pc[r] \in {"view", "selected"} => ~req[r].api
            /\ pc[r] = "session" => user[r] = Nobody
            /\ pc[r] \in {"session", "middleware"} => ~dirty[r]
            /\ pc[r] \in {"token", "header"} /\ dirty[r] =>
                  loaded[r] = NoTenant
            /\ pc[r] \in {"middleware", "view"} => user[r] \in SessionUsers(r)
            /\ user[r] # Nobody => SawActive(r, user[r])
            /\ pc[r] = "header" => user[r] = req[r].token /\ user[r] \in Users
            /\ pc[r] = "view" /\ m # NoMember =>
                  /\ SawRole(r, m.user, m.tenant, m.role)
                  /\ m.role # "none"
                  /\ m.user = user[r] /\ m.user \in Users
            /\ pc[r] = "act" => Admitted(r)
            /\ Chosen(r)
            /\ Caused(r)

\* What a request has seen stays seen, whatever it is that goes on.
LEMMA CourseStays ==
    ASSUME NEW r \in Requests, Course(r),
           pc'[r] = pc[r], req'[r] = req[r], user'[r] = user[r],
           member'[r] = member[r], loaded'[r] = loaded[r],
           dirty'[r] = dirty[r],
           seen[r] \subseteq seen'[r],
           pc[r] # "idle" => World' \in seen'[r]
    PROVE  Course(r)'
<1> USE DEF SawActive, SawRole
<1>1. CASE pc[r] = "idle"
  BY <1>1 DEF Course
<1>2. CASE pc[r] # "idle"
  <2>1. Admitted(r) => Admitted(r)'
    BY DEF Admitted, MayWrite
  <2>2. Chosen(r)'
    BY <1>2 DEF Course, Chosen
  <2>3. Caused(r)'
    BY <1>2 DEF Course, Caused
  <2>4. SessionUsers(r)' = SessionUsers(r)
    BY DEF SessionUsers
  <2> QED BY <1>2, <2>1, <2>2, <2>3, <2>4 DEF Course
<1> QED BY <1>1, <1>2

\* A step of one request: the others keep their course.
LEMMA OneCourse ==
    ASSUME \A v \in Requests : Course(v), NEW r \in Requests,
           UNCHANGED rows, Course(r)',
           \A v \in Requests \ {r} :
              /\ pc'[v] = pc[v] /\ req'[v] = req[v] /\ user'[v] = user[v]
              /\ member'[v] = member[v] /\ loaded'[v] = loaded[v]
              /\ dirty'[v] = dirty[v] /\ seen'[v] = seen[v]
    PROVE  \A v \in Requests : Course(v)'
<1> SUFFICES ASSUME NEW v \in Requests, v # r PROVE Course(v)'
  OBVIOUS
<1>1. World' = World
  BY WorldStays
<1>2. pc[v] # "idle" => World \in seen[v]
  BY DEF Course
<1> QED BY <1>1, <1>2, CourseStays

\* AuthenticationMiddleware.
LEMMA LoadSessionCourse ==
    ASSUME TypeOK, \A v \in Requests : Course(v),
           NEW r \in Requests, LoadSession(r)
    PROVE  \A v \in Requests : Course(v)'
<1>1. /\ Course(r) /\ pc[r] = "session" /\ pc'[r] = "middleware"
      /\ UNCHANGED <<rows, req, member, dirty, seen>>
  BY DEF LoadSession, GoTo, TypeOK
<1>2. user'[r] = Nobody \/ /\ user'[r] = OwnerOf[req[r].browser]
                           /\ user'[r] \in active
  BY DEF LoadSession, TypeOK, Course
<1>3. World' = World /\ World.active = active
  BY <1>1, WorldStays, WorldType
<1>4. Course(r)'
  BY <1>1, <1>2, <1>3 DEF Course, SawActive, SessionUsers, Chosen, Caused
<1> QED BY <1>1, <1>4, OneCourse DEF LoadSession, GoTo, TypeOK

\* TenantContextMiddleware.
LEMMA MiddlewareCourse ==
    ASSUME TypeOK, \A v \in Requests : Course(v),
           NEW r \in Requests, Middleware(r)
    PROVE  \A v \in Requests : Course(v)'
<1>1. /\ Course(r) /\ pc[r] = "middleware" /\ req[r] \in Request
      /\ pc'[r] = IF req[r].api THEN "token" ELSE "view"
      /\ UNCHANGED <<rows, req, user, seen>>
  BY DEF Middleware, GoTo, TypeOK, Course
<1>2. /\ World' = World /\ World \in seen[r]
      /\ \A u \in Users, t \in Tenants : World.role[u][t] = Role(u, t)
  BY <1>1, WorldStays, WorldType DEF Course
<1>3. dirty'[r] => loaded'[r] = NoTenant
  BY DEF Middleware, TypeOK
<1>4. \/ member'[r] = NoMember
      \/ /\ Resolves(user[r], loaded[r])
         /\ member'[r] = MemberOf(user[r], loaded[r])
  BY DEF Middleware, TypeOK
<1>5. member'[r] # NoMember =>
         /\ member'[r].user = user[r] /\ member'[r].user \in Users
         /\ member'[r].role # "none"
         /\ World.role[member'[r].user][member'[r].tenant] = member'[r].role
  BY <1>2, <1>4, MemberTypes DEF MemberOf
<1>6. SawActive(r, user[r])' <=> SawActive(r, user[r])
  BY <1>1 DEF SawActive
<1>7. Course(r)'
  BY <1>1, <1>2, <1>3, <1>5, <1>6
  DEF Course, SawRole, SessionUsers, Chosen, Caused
<1> QED BY <1>1, <1>7, OneCourse DEF Middleware, GoTo, TypeOK

\* TenantJWTAuth, the token.
LEMMA CheckTokenCourse ==
    ASSUME TypeOK, \A v \in Requests : Course(v),
           NEW r \in Requests, CheckToken(r)
    PROVE  \A v \in Requests : Course(v)'
<1>1. /\ Course(r) /\ pc[r] = "token" /\ req[r] \in Request
      /\ UNCHANGED <<rows, req, member, loaded, dirty, seen>>
  BY DEF CheckToken, TypeOK, Course
<1>2. /\ World' = World /\ World \in seen[r] /\ World.active = active
  BY <1>1, WorldStays, WorldType DEF Course
<1>3. \/ /\ req[r].token \in active
         /\ user'[r] = req[r].token /\ pc'[r] = "header"
      \/ /\ req[r].token \notin active
         /\ user'[r] = user[r] /\ pc'[r] = "401"
  BY DEF CheckToken, GoTo, TypeOK
<1>4. Course(r)'
  BY <1>1, <1>2, <1>3 DEF Course, SawActive, Chosen, Caused, TypeOK
<1> QED BY <1>1, <1>4, OneCourse DEF CheckToken, GoTo, TypeOK

\* TenantJWTAuth, the header, and the role guard of the endpoint.
LEMMA ResolveHeaderCourse ==
    ASSUME TypeOK, \A v \in Requests : Course(v),
           NEW r \in Requests, ResolveHeader(r)
    PROVE  \A v \in Requests : Course(v)'
<1> DEFINE u == user[r]
           t == req[r].tenant
<1>1. /\ Course(r) /\ pc[r] = "header" /\ req[r] \in Request
      /\ req[r].api /\ u = req[r].token /\ u \in Users /\ SawActive(r, u)
      /\ dirty[r] => loaded[r] = NoTenant
      /\ UNCHANGED <<rows, req, user, loaded, dirty, seen>>
  BY AccessAssumption DEF ResolveHeader, Course
<1>2. /\ World' = World /\ World \in seen[r]
      /\ \A x \in Users, y \in Tenants :
            World.role[x][y] = Role(x, y) /\ Role(x, y) \in Grant
  BY <1>1, WorldStays, WorldType DEF Course, TypeOK, Role, Grant
<1>3. SawActive(r, u)' /\ Chosen(r)'
  BY <1>1 DEF SawActive, Chosen
<1>4. CASE ~Resolves(u, t)
  <2>1. pc'[r] \in {"400", "403"}
    BY <1>4 DEF ResolveHeader, GoTo, TypeOK
  <2>2. t \in Tenants => World.role[u][t] = "none"
    BY <1>1, <1>2, <1>4 DEF Resolves
  <2>3. Caused(r)'
    BY <1>1, <1>2, <2>1, <2>2 DEF Caused
  <2>4. Course(r)'
    BY <1>1, <1>2, <1>3, <2>1, <2>3 DEF Course
  <2> QED BY <1>1, <1>4, <2>4, OneCourse DEF ResolveHeader, GoTo, TypeOK
<1>5. CASE Resolves(u, t)
  <2>1. /\ member'[r] = MemberOf(u, t)
        /\ pc'[r] = IF req[r].op = "write" /\ ~MayWrite(MemberOf(u, t))
                    THEN "403" ELSE "act"
    BY <1>5, MemberTypes DEF ResolveHeader, Guard, GoTo, TypeOK
  <2>2. /\ MemberOf(u, t).user = u /\ MemberOf(u, t).tenant = t
        /\ MemberOf(u, t).role = World.role[u][t]
        /\ MemberOf(u, t).role # "none" /\ t \in Tenants
        /\ MemberOf(u, t).role \in Grant
    BY <1>1, <1>2, <1>5, MemberTypes DEF MemberOf
  <2>3. pc'[r] = "act" => Admitted(r)'
    <3>1. member'[r].user = u /\ member'[r].tenant = t
      BY <2>1, <2>2
    <3>2. SawActive(r, member[r].user)'
      BY <1>1, <3>1 DEF SawActive
    <3> QED BY <1>1, <1>2, <2>1, <2>2, <3>1, <3>2
            DEF Admitted, SawRole, MayWrite
  <2>4. Caused(r)'
    <3>1. pc'[r] = "403" => /\ req[r].op = "write"
                            /\ World.role[u][t] = "viewer"
      BY <2>1, <2>2, RoleAssumption DEF MayWrite, Grant
    <3> QED BY <1>1, <1>2, <2>1, <3>1 DEF Caused
  <2>5. Course(r)'
    BY <1>1, <1>2, <1>3, <2>1, <2>3, <2>4 DEF Course
  <2> QED BY <1>1, <2>5, OneCourse DEF ResolveHeader, Guard, GoTo, TypeOK
<1> QED BY <1>4, <1>5

\* A page behind require_roles: the membership of the session.
LEMMA GuardedViewCourse ==
    ASSUME TypeOK, \A v \in Requests : Course(v),
           NEW r \in Requests, GuardedView(r)
    PROVE  \A v \in Requests : Course(v)'
<1>1. /\ Course(r) /\ pc[r] = "view" /\ req[r] \in Request /\ ~req[r].api
      /\ user[r] \in SessionUsers(r)
      /\ user[r] # Nobody => SawActive(r, user[r])
      /\ UNCHANGED <<rows, req, user, member, loaded, dirty, seen>>
      /\ pc'[r] = IF req[r].op = "write" /\ ~MayWrite(member[r])
                  THEN "403" ELSE "act"
  BY DEF GuardedView, Guard, GoTo, Course, TypeOK, request
<1>2. World' = World /\ World \in seen[r]
  BY <1>1, WorldStays DEF Course
<1>3. pc'[r] = "act" => member[r] # NoMember
  BY <1>1 DEF GuardedView, MayWrite, NoMember
<1>4. pc'[r] = "act" => Admitted(r)'
  <2> SUFFICES ASSUME pc'[r] = "act" PROVE Admitted(r)'
    OBVIOUS
  <2>1. LET m == member[r]
        IN  /\ SawRole(r, m.user, m.tenant, m.role)
            /\ m.role # "none"
            /\ m.user = user[r] /\ m.user \in Users
    BY <1>1, <1>3 DEF Course
  <2>2. user[r] = OwnerOf[req[r].browser] /\ SawActive(r, user[r])
    BY <1>1, <2>1, AccessAssumption DEF SessionUsers
  <2> QED BY <1>1, <2>1, <2>2 DEF Admitted, SawRole, SawActive, MayWrite
<1>5. /\ user'[r] # Nobody => SawActive(r, user[r])'
      /\ Chosen(r)' /\ Caused(r)'
  BY <1>1 DEF SawActive, Chosen, Caused, Course
<1>6. Course(r)'
  BY <1>1, <1>2, <1>4, <1>5 DEF Course
<1> QED BY <1>1, <1>6, OneCourse DEF GuardedView, Guard, GoTo, TypeOK, request

\* activate_tenant_session.
LEMMA SelectTenantCourse ==
    ASSUME TypeOK, \A v \in Requests : Course(v),
           NEW r \in Requests, SelectTenant(r)
    PROVE  \A v \in Requests : Course(v)'
<1> DEFINE u == user[r]
           t == req[r].tenant
<1>1. /\ Course(r) /\ pc[r] = "view" /\ req[r] \in Request /\ ~req[r].api
      /\ u \in SessionUsers(r)
      /\ u # Nobody => SawActive(r, u)
      /\ UNCHANGED <<rows, req, user, member, seen>>
      /\ pc'[r] \in {"selected", "400", "403"}
  BY DEF SelectTenant, GoTo, Course, TypeOK
<1>2. /\ World' = World /\ World \in seen[r]
      /\ \A x \in Users, y \in Tenants : World.role[x][y] = Role(x, y)
  BY <1>1, WorldStays, WorldType DEF Course
<1>3. Chosen(r)'
  <2>1. CASE Resolves(u, t)
    <3>1. loaded'[r] = t
      BY <2>1 DEF SelectTenant, Resolves, GoTo, TypeOK
    <3>2. u = OwnerOf[req[r].browser] /\ World.role[u][t] # "none"
      BY <1>1, <1>2, <2>1, MemberTypes DEF SessionUsers
    <3> QED BY <1>1, <1>2, <3>1, <3>2 DEF Chosen
  <2>2. CASE ~Resolves(u, t)
    <3>1. loaded'[r] = loaded[r] /\ dirty'[r] = dirty[r]
      BY <2>2 DEF SelectTenant
    <3> QED BY <1>1, <3>1 DEF Chosen, Course
  <2> QED BY <2>1, <2>2
<1>4. Course(r)'
  BY <1>1, <1>2, <1>3 DEF Course, SawActive, Caused
<1> QED BY <1>1, <1>4, OneCourse DEF SelectTenant, GoTo, TypeOK

\* The answer, and the next request of the thread.
LEMMA RespondCourse ==
    ASSUME TypeOK, \A v \in Requests : Course(v),
           NEW r \in Requests, Respond(r)
    PROVE  \A v \in Requests : Course(v)'
<1>1. Course(r)'
  BY DEF Respond, GoTo, TypeOK, Course
<1> QED BY <1>1, OneCourse DEF Respond, GoTo, TypeOK, rows

LEMMA ArriveCourse ==
    ASSUME TypeOK, \A v \in Requests : Course(v), NEW r \in Requests,
           user[r] = Nobody, ~dirty[r], NEW q \in Request, Arrive(r, q)
    PROVE  \A v \in Requests : Course(v)'
<1>1. Course(r)'
  <2>1. World' = World
    BY WorldStays DEF Arrive
  <2> QED BY <2>1 DEF Arrive, GoTo, TypeOK, Course, Chosen, Caused
<1> QED BY <1>1, OneCourse DEF Arrive, GoTo, TypeOK

\* An administrator commits a form.
LEMMA ChangeCourse ==
    ASSUME TypeOK, \A v \in Requests : Course(v), Change
    PROVE  \A v \in Requests : Course(v)'
<1> SUFFICES ASSUME NEW v \in Requests PROVE Course(v)'
  OBVIOUS
<1>1. /\ UNCHANGED <<pc, req, user, member, loaded, dirty>>
      /\ pc[v] # "idle" => seen'[v] = seen[v] \cup {World'}
  BY DEF Change, request
<1>2. CASE pc[v] = "idle"
  BY <1>1, <1>2 DEF Course
<1>3. CASE pc[v] # "idle"
  BY <1>1, <1>3, CourseStays
<1> QED BY <1>2, <1>3

-----------------------------------------------------------------------------
(* Two worlds that are all a request has seen.                              *)

Adjacent(v, w) == v.active = w.active \/ v.role = w.role

Paired == \A r \in Requests : \A v, w \in seen[r] :
              seen[r] = {v, w} => Adjacent(v, w)

\* An idle thread holds nothing.
Idle == \A r \in Requests : pc[r] = "idle" => user[r] = Nobody /\ ~dirty[r]

\* The form of a user and the form of a tenant are saved one at a time.
LEMMA OneRowAtATime ==
    /\ \A u \in Users : ChangeUser(u) => Adjacent(World, World')
    /\ \A t \in Tenants : ChangeTenant(t) => Adjacent(World, World')
BY DEF ChangeUser, ChangeTenant, Adjacent, World, Role

LEMMA ChangePaired ==
    ASSUME TypeOK, \A r \in Requests : Course(r), Paired, Change,
           Adjacent(World, World')
    PROVE  Paired'
<1> SUFFICES ASSUME NEW r \in Requests, NEW v \in seen'[r], NEW w \in seen'[r],
                    seen'[r] = {v, w}
             PROVE  Adjacent(v, w)
  BY DEF Paired, Adjacent
<1>1. pc[r] # "idle" /\ seen'[r] = seen[r] \cup {World'} /\ World \in seen[r]
  BY DEF Change, Course
<1>2. CASE World' \in seen[r]
  <2>1. seen'[r] = seen[r]
    BY <1>1, <1>2
  <2> QED BY <2>1 DEF Paired
<1>3. CASE World' \notin seen[r]
  <2>1. World' # World /\ World \in {v, w} /\ World' \in {v, w}
    BY <1>1, <1>3
  <2> QED BY <2>1 DEF Adjacent
<1> QED BY <1>2, <1>3

AccessInv ==
    /\ TypeOK
    /\ \A r \in Requests : Course(r)
    /\ Paired
    /\ Idle

\* The induction.
LEMMA AccessInductive == Spec => []AccessInv
<1>1. Init => (\A r \in Requests : Course(r)) /\ Paired /\ Idle
  BY DEF Init, Course, Paired, Idle
<1>2. AccessInv /\ TypeOK' /\ [Next]_vars => AccessInv'
  <2> SUFFICES ASSUME AccessInv, TypeOK', [Next]_vars PROVE AccessInv'
    OBVIOUS
  <2> USE DEF AccessInv
  <2>1. \A r \in Requests : Course(r)'
    <3>1. ASSUME NEW r \in Requests, Step(r)
          PROVE  \A v \in Requests : Course(v)'
      BY <3>1, LoadSessionCourse, MiddlewareCourse, CheckTokenCourse,
         ResolveHeaderCourse, GuardedViewCourse, SelectTenantCourse,
         RespondCourse DEF Step
    <3>2. ASSUME NEW r \in Requests, NEW q \in Request, Arrive(r, q)
          PROVE  \A v \in Requests : Course(v)'
      BY <3>2, ArriveCourse DEF Idle, Arrive
    <3>3. CASE UNCHANGED vars
      BY <3>3, WorldStays
      DEF vars, Course, rows, Chosen, Caused, Admitted, SawActive, SawRole,
          SessionUsers, MayWrite
    <3> QED BY <3>1, <3>2, <3>3, ChangeCourse
            DEF Next, ChangeUser, ChangeTenant
  <2>2. Paired' /\ Idle'
    <3>1. ASSUME NEW r \in Requests, Step(r) PROVE Paired' /\ Idle'
      <4>1. ASSUME NEW v \in Requests
            PROVE  seen'[v] = seen[v] \/ seen'[v] = {}
        BY <3>1 DEF Step, LoadSession, Middleware, CheckToken, ResolveHeader,
                    GuardedView, SelectTenant, Respond, TypeOK
      <4>2. Paired'
        <5> SUFFICES ASSUME NEW v \in Requests, NEW x \in seen'[v],
                            NEW y \in seen'[v], seen'[v] = {x, y}
                     PROVE  Adjacent(x, y)
          BY DEF Paired, Adjacent
        <5>1. seen'[v] = seen[v]
          BY <4>1
        <5> QED BY <5>1 DEF Paired
      <4>3. CASE Respond(r)
        BY <4>2, <4>3 DEF Respond, GoTo, Idle, TypeOK
      <4>4. CASE LoadSession(r)
        BY <4>2, <4>4 DEF LoadSession, GoTo, Idle, TypeOK
      <4>5. CASE Middleware(r)
        BY <4>2, <4>5 DEF Middleware, GoTo, Idle, TypeOK
      <4>6. CASE CheckToken(r)
        BY <4>2, <4>6 DEF CheckToken, GoTo, Idle, TypeOK
      <4>7. CASE ResolveHeader(r)
        <5>1. \E l \in {"act", "400", "403"} : pc' = [pc EXCEPT ![r] = l]
          BY <4>7 DEF ResolveHeader, Guard, GoTo
        <5> QED BY <4>2, <4>7, <5>1 DEF ResolveHeader, Idle, TypeOK
      <4>8. CASE GuardedView(r)
        BY <4>2, <4>8 DEF GuardedView, Guard, GoTo, Idle, TypeOK, request
      <4>9. CASE SelectTenant(r)
        BY <4>2, <4>9 DEF SelectTenant, GoTo, Idle, TypeOK
      <4> QED BY <3>1, <4>2, <4>3, <4>4, <4>5, <4>6, <4>7, <4>8, <4>9 DEF Step
    <3>2. ASSUME NEW r \in Requests, NEW q \in Request, Arrive(r, q)
          PROVE  Paired' /\ Idle'
      <4>1. ASSUME NEW v \in Requests
            PROVE  seen'[v] = seen[v] \/ seen'[v] = {World}
        BY <3>2 DEF Arrive, TypeOK
      <4> QED BY <3>2, <4>1 DEF Arrive, GoTo, Paired, Adjacent, Idle, TypeOK
    <3>3. ASSUME Change PROVE Idle'
      BY <3>3 DEF Change, Idle, request
    <3>4. CASE UNCHANGED vars
      BY <3>4 DEF vars, Paired, Adjacent, Idle
    <3> QED BY <3>1, <3>2, <3>3, <3>4, ChangePaired, OneRowAtATime
            DEF Next, ChangeUser, ChangeTenant
  <2> QED BY <2>1, <2>2
<1> QED BY <1>1, <1>2, TypeCorrect, PTL DEF Spec, AccessInv

-----------------------------------------------------------------------------
(* What follows.                                                            *)

\* An operation acts for the user of its token, in the tenant of its header
\* and in a role that was really held while the request ran.
THEOREM MembershipWitnessedCorrect == Spec => []MembershipWitnessed
<1>1. AccessInv => MembershipWitnessed
  BY DEF AccessInv, Course, Admitted, SawRole, MembershipWitnessed
<1> QED BY <1>1, AccessInductive, PTL

\* With at most one change meanwhile, user and role were there at once.
THEOREM UserAndRoleTogetherCorrect == Spec => []UserAndRoleTogether
<1>1. AccessInv => UserAndRoleTogether
  <2> SUFFICES ASSUME AccessInv, NEW r \in Requests, pc[r] = "act",
                      NEW v \in seen[r], NEW w \in seen[r], seen[r] = {v, w}
               PROVE  HoldsIn(v, r) \/ HoldsIn(w, r)
    BY DEF UserAndRoleTogether
  <2>1. Adjacent(v, w)
    BY DEF AccessInv, Paired
  <2>2. /\ SawActive(r, member[r].user)
        /\ SawRole(r, member[r].user, member[r].tenant, member[r].role)
    BY DEF AccessInv, Course, Admitted
  <2> QED BY <2>1, <2>2 DEF Adjacent, SawActive, SawRole, HoldsIn
<1> QED BY <1>1, AccessInductive, PTL

\* A request that has access all the time it runs is not refused.
THEOREM RefusedForCauseCorrect == Spec => []RefusedForCause
<1>1. AccessInv => RefusedForCause
  BY DEF AccessInv, Course, Caused, RefusedForCause
<1> QED BY <1>1, AccessInductive, PTL

\* A session comes to select a tenant only while its owner is a member.
THEOREM SelectionEarnedCorrect == Spec => SelectionEarned
<1> DEFINE Earned == \A b \in Browsers :
              session'[b] \notin {session[b], NoTenant} =>
                  /\ session'[b] \in Tenants
                  /\ \E r \in Requests :
                        /\ req[r] # NoRequest /\ req[r].browser = b
                        /\ \E w \in seen[r] :
                              w.role[OwnerOf[b]][session'[b]] # "none"
<1>1. AccessInv /\ [Next]_vars => [Earned]_vars
  <2> SUFFICES ASSUME AccessInv, Next, NEW b \in Browsers,
                      session'[b] \notin {session[b], NoTenant}
               PROVE  /\ session'[b] \in Tenants
                      /\ \E r \in Requests :
                            /\ req[r] # NoRequest /\ req[r].browser = b
                            /\ \E w \in seen[r] :
                                  w.role[OwnerOf[b]][session'[b]] # "none"
    OBVIOUS
  <2>1. PICK r \in Requests : Respond(r)
    BY DEF Next, Step, LoadSession, Middleware, CheckToken, ResolveHeader,
           GuardedView, SelectTenant, Arrive, Change, ChangeUser, ChangeTenant
  <2>2. dirty[r] /\ req[r].browser = b /\ session'[b] = loaded[r]
    BY <2>1 DEF Respond, AccessInv, TypeOK
  <2>3. req[r] # NoRequest /\ Chosen(r)
    BY <2>1, RequestAssumption DEF Respond, AccessInv, Course
  <2>4. session'[b] \in Tenants
    BY <2>2 DEF AccessInv, TypeOK
  <2> QED BY <2>2, <2>3, <2>4 DEF Chosen
<1>2. [][AccessInv /\ [Next]_vars]_vars => [][Earned]_vars
  BY <1>1, PTL
<1> QED BY <1>1, AccessInductive, PTL DEF Spec, SelectionEarned
=============================================================================
