------------------------------ MODULE Accounts ------------------------------
(****************************************************************************)
(* Login, refresh and use of JWTs (accounts/services.py, backends.py and    *)
(* the two auth endpoints of api.py).  Tokens are signed, not stored:       *)
(* nothing revokes one, a refresh token is not used up by a refresh, and a  *)
(* changed password ends no token.  What bounds them is that each carries   *)
(* its expiry and its type, and that the user is looked up again each time. *)
(*                                                                          *)
(* A credential is a user with a password; expiry[c][k] is that of the      *)
(* longest-lived token of kind k that descends from a login with c.  Older  *)
(* tokens are accepted whenever that one is, so that one stands for all.    *)
(****************************************************************************)
EXTENDS Integers

CONSTANTS
    Requests,     \* request threads
    Users,
    Passwords,
    AccessTTL,    \* JWT_ACCESS_TTL_SECONDS, in ticks of the clock
    RefreshTTL,   \* JWT_REFRESH_TTL_SECONDS
    MaxDuration,  \* ticks a request may take
    NoCall,       \* what an idle thread serves
    MaxTime,      \* bound on the clock
    MaxChanges    \* bound on the changes administrators make

ASSUME LifetimeAssumption ==
    /\ AccessTTL \in Nat \ {0}
    /\ RefreshTTL \in Nat \ {0}
    /\ MaxDuration \in Nat
    /\ MaxTime \in Nat
    /\ MaxChanges \in Nat

Credential == [user : Users, password : Passwords]
Kind == {"access", "refresh"}

\* What a request does and the kind of token it presents, if it does.
Call ==
    {q \in [op : {"login", "refresh", "use"}, by : Credential, token : Kind] :
        q.op = "login" => q.token = "access"}

ASSUME CallAssumption == NoCall \notin Call

VARIABLES
    now,       \* the clock
    active,    \* users with is_active
    password,  \* password[u]: the current one
    changes,   \* changes so far
    expiry,    \* expiry[c][k]: exp of the last token, 0 when there is none
    proved,    \* history: when a login with c last read the user; -1 if never
    pc,        \* pc[r]: next step
    call,      \* call[r]: the request
    since      \* since[r]: when it arrived

vars == <<now, active, password, changes, expiry, proved, pc, call, since>>

-----------------------------------------------------------------------------
Init ==
    /\ now = 0
    /\ active = Users
    /\ password \in [Users -> Passwords]
    /\ changes = 0
    /\ expiry = [c \in Credential |-> [k \in Kind |-> 0]]
    /\ proved = [c \in Credential |-> -1]
    /\ pc = [r \in Requests |-> "idle"]
    /\ call = [r \in Requests |-> NoCall]
    /\ since = [r \in Requests |-> 0]

\* The request goes on, or is answered.
GoOn(r, label) ==
    /\ pc' = [pc EXCEPT ![r] = label]
    /\ UNCHANGED <<call, since>>

Answer(r) ==
    /\ pc' = [pc EXCEPT ![r] = "idle"]
    /\ call' = [call EXCEPT ![r] = NoCall]
    /\ since' = [since EXCEPT ![r] = 0]

\* The kind of token an operation accepts: the expected_type of its call.
Expected(op) == IF op = "refresh" THEN "refresh" ELSE "access"

\* decode_token: the expiry, then the type.
Decodes(q) ==
    /\ q.token = Expected(q.op)
    /\ now < expiry[q.by][q.token]

\* EmailBackend: the user of the e-mail, its password and its is_active.
Authenticates(c) == c.user \in active /\ password[c.user] = c.password

Arrive(r, q) ==
    /\ pc[r] = "idle"
    /\ pc' = [pc EXCEPT ![r] =
                IF q.op = "login" THEN "password" ELSE "decode"]
    /\ call' = [call EXCEPT ![r] = q]
    /\ since' = [since EXCEPT ![r] = now]
    /\ UNCHANGED <<now, active, password, changes, expiry, proved>>

\* authenticate_user; hashing the password takes its time.
CheckPassword(r) ==
    /\ pc[r] = "password"
    /\ LET c == call[r].by
       IN  \/ /\ Authenticates(c)
              /\ proved' = [proved EXCEPT ![c] = now]
              /\ GoOn(r, "issue")
           \/ /\ ~Authenticates(c)
              /\ Answer(r)
              /\ UNCHANGED proved
    /\ UNCHANGED <<now, active, password, changes, expiry>>

\* decode_token, of the refresh endpoint or of TenantJWTAuth.
Decode(r) ==
    /\ pc[r] = "decode"
    /\ \/ Decodes(call[r]) /\ GoOn(r, "user")
       \/ ~Decodes(call[r]) /\ Answer(r)
    /\ UNCHANGED <<now, active, password, changes, expiry, proved>>

\* The SELECT of get_active_user_from_token.
FindUser(r) ==
    /\ pc[r] = "user"
    /\ \/ /\ call[r].by.user \in active
          /\ GoOn(r, IF call[r].op = "refresh" THEN "issue" ELSE "accepted")
       \/ /\ call[r].by.user \notin active
          /\ Answer(r)
    /\ UNCHANGED <<now, active, password, changes, expiry, proved>>

\* Mutation: a refresh replaces the pair of tokens by an access token.
IssueAlone(r) ==
    /\ pc[r] = "issue"
    /\ expiry' = [expiry EXCEPT ![call[r].by] =
            IF call[r].op = "login"
            THEN [access |-> now + AccessTTL, refresh |-> now + RefreshTTL]
            ELSE [access |-> now + AccessTTL]]
    /\ Answer(r)
    /\ UNCHANGED <<now, active, password, changes, proved>>

\* Mutation: a refresh renews the refresh token too.
IssueRotating(r) ==
    /\ pc[r] = "issue"
    /\ expiry' = [expiry EXCEPT ![call[r].by] =
            [access |-> now + AccessTTL, refresh |-> now + RefreshTTL]]
    /\ Answer(r)
    /\ UNCHANGED <<now, active, password, changes, proved>>

\* issue_token_pair of a login, issue_access_token of a refresh.
Issue(r) ==
    /\ pc[r] = "issue"
    /\ LET access == [expiry[call[r].by] EXCEPT !["access"] = now + AccessTTL]
       IN  expiry' = [expiry EXCEPT ![call[r].by] =
              IF call[r].op = "login"
              THEN [access EXCEPT !["refresh"] = now + RefreshTTL]
              ELSE access]
    /\ Answer(r)
    /\ UNCHANGED <<now, active, password, changes, proved>>

\* An API request goes on as the user of its token.
Use(r) ==
    /\ pc[r] = "accepted"
    /\ Answer(r)
    /\ UNCHANGED <<now, active, password, changes, expiry, proved>>

\* UserAdmin: is_active.
ChangeActive(u) ==
    /\ changes < MaxChanges
    /\ changes' = changes + 1
    /\ active' = IF u \in active THEN active \ {u} ELSE active \cup {u}
    /\ UNCHANGED <<now, password, expiry, proved, pc, call, since>>

\* UserAdmin: the password form.
ChangePassword(u, p) ==
    /\ changes < MaxChanges
    /\ changes' = changes + 1
    /\ p # password[u]
    /\ password' = [password EXCEPT ![u] = p]
    /\ UNCHANGED <<now, active, expiry, proved, pc, call, since>>

\* Time passes, but no request lasts longer than the server lets it.
Tick ==
    /\ now < MaxTime
    /\ \A r \in Requests : pc[r] # "idle" => now < since[r] + MaxDuration
    /\ now' = now + 1
    /\ UNCHANGED <<active, password, changes, expiry, proved, pc, call, since>>

Next ==
    \/ \E r \in Requests : \/ CheckPassword(r)
                           \/ Decode(r)
                           \/ FindUser(r)
                           \/ Issue(r)
                           \/ Use(r)
    \/ \E r \in Requests, q \in Call : Arrive(r, q)
    \/ \E u \in Users : ChangeActive(u)
    \/ \E u \in Users, p \in Passwords : ChangePassword(u, p)
    \/ Tick

Spec == Init /\ [][Next]_vars

-----------------------------------------------------------------------------
(* Properties.                                                              *)

\* Every variable has its type.
TypeOK ==
    /\ now \in 0..MaxTime
    /\ active \subseteq Users
    /\ password \in [Users -> Passwords]
    /\ changes \in 0..MaxChanges
    /\ expiry \in [Credential -> [Kind -> Nat]]
    /\ proved \in [Credential -> -1..MaxTime]
    /\ pc \in [Requests -> {"idle", "password", "decode", "user", "issue",
                            "accepted"}]
    /\ call \in [Requests -> Call \cup {NoCall}]
    /\ since \in [Requests -> 0..MaxTime]

\* How long after a login the tokens that descend from it can be of use: a
\* refresh in the last tick of the refresh token, by a request as slow as can
\* be after a login as slow as can be, and a request in the last tick of the
\* access token it gives.
Lapse == (RefreshTTL - 1) + (AccessTTL - 1) + 3 * MaxDuration

\* Access lapses.  A credential that was last good for a login more than
\* Lapse ago, because the password was changed or the user deactivated since
\* or because nobody logged in, is good for nothing: no chain of refreshes
\* extends it, also when the user is active again.
AccessLapses ==
    \A r \in Requests : pc[r] = "accepted" =>
        LET last == proved[call[r].by]
        IN  last # -1 /\ now - last <= Lapse
=============================================================================
