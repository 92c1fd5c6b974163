--------------------------- MODULE AccountsProofs ---------------------------
(****************************************************************************)
(* Theorems about Accounts, for every value of its constants.               *)
(*                                                                          *)
(* AccessLapses is a chain of bounds: the login that proved a credential    *)
(* bounds the refresh token, the refresh token the last refresh that is let *)
(* in, that refresh the last access token, and that token its last use.     *)
(* Lineage states every link of the chain and is inductive.                 *)
(****************************************************************************)
EXTENDS Accounts, TLAPS

-----------------------------------------------------------------------------
(* Type correctness.                                                        *)

\* TypeOK is inductive: nothing an action writes depends on where it is.
THEOREM TypeCorrect == Spec => []TypeOK
<1>1. Init => TypeOK
  BY LifetimeAssumption DEF Init, TypeOK
<1>2. TypeOK /\ [Next]_vars => TypeOK'
  <2> SUFFICES ASSUME TypeOK, [Next]_vars PROVE TypeOK'
    OBVIOUS
  <2> USE LifetimeAssumption DEF TypeOK
  <2>1. ASSUME NEW r \in Requests, CheckPassword(r) PROVE TypeOK'
    <3>1. proved' \in [Credential -> -1..MaxTime]
      BY <2>1 DEF CheckPassword
    <3>2. /\ pc' \in [Requests -> {"idle", "password", "decode", "user", "issue",
                                   "accepted"}]
          /\ call' \in [Requests -> Call \cup {NoCall}]
          /\ since' \in [Requests -> 0..MaxTime]
      BY <2>1 DEF CheckPassword, GoOn, Answer
    <3> QED BY <2>1, <3>1, <3>2 DEF CheckPassword
  <2>2. ASSUME NEW r \in Requests, Decode(r) PROVE TypeOK'
    BY <2>2 DEF Decode, GoOn, Answer
  <2>3. ASSUME NEW r \in Requests, FindUser(r) PROVE TypeOK'
    BY <2>3 DEF FindUser, GoOn, Answer
  <2>4. ASSUME NEW r \in Requests, Issue(r) PROVE TypeOK'
    <3> DEFINE access == [expiry[call[r].by] EXCEPT !["access"] =
                                now + AccessTTL]
               tokens == IF call[r].op = "login"
                         THEN [access EXCEPT !["refresh"] = now + RefreshTTL]
                         ELSE access
    <3>1. expiry' \in [Credential -> [Kind -> Nat]]
      <4>1. now + AccessTTL \in Nat /\ now + RefreshTTL \in Nat
        OBVIOUS
      <4>2. call[r].by \in Credential => tokens \in [Kind -> Nat]
        BY <4>1 DEF Kind
      <4>3. expiry' = [expiry EXCEPT ![call[r].by] = tokens]
        BY <2>4 DEF Issue
      <4> HIDE DEF tokens
      <4> QED BY <4>2, <4>3
    <3> QED BY <2>4, <3>1 DEF Issue, Answer
  <2>5. ASSUME NEW r \in Requests, Use(r) PROVE TypeOK'
    BY <2>5 DEF Use, Answer
  <2>6. ASSUME NEW r \in Requests, NEW q \in Call, Arrive(r, q) PROVE TypeOK'
    BY <2>6 DEF Arrive
  <2>7. ASSUME NEW u \in Users, ChangeActive(u) PROVE TypeOK'
    BY <2>7 DEF ChangeActive
  <2>8. ASSUME NEW u \in Users, NEW p \in Passwords, ChangePassword(u, p)
        PROVE TypeOK'
    BY <2>8 DEF ChangePassword
  <2>9. ASSUME Tick PROVE TypeOK'
    BY <2>9 DEF Tick
  <2>10. ASSUME UNCHANGED vars PROVE TypeOK'
    BY <2>10 DEF vars
  <2> QED
    BY <2>1, <2>2, <2>3, <2>4, <2>5, <2>6, <2>7, <2>8, <2>9, <2>10 DEF Next
<1> QED BY <1>1, <1>2, PTL DEF Spec

-----------------------------------------------------------------------------
(* Lineage.                                                                 *)

\* The time t is at most d after the last login with c.
Within(c, t, d) == proved[c] # -1 /\ t <= proved[c] + d

\* What a login, a refresh and the use of an access token inherit.
RefreshSpan == MaxDuration + RefreshTTL
AccessSpan  == RefreshSpan - 1 + MaxDuration + AccessTTL

\* The tokens of c descend from a login with c.
Tokens(c) ==
    /\ proved[c] <= now
    /\ expiry[c]["refresh"] # 0 =>
          Within(c, expiry[c]["refresh"], RefreshSpan)
    /\ expiry[c]["access"] # 0 =>
          Within(c, expiry[c]["access"], AccessSpan)

\* A request in progress is not older than the server lets it be, and what
\* it has passed bounds the time it arrived.
Course(r) ==
    pc[r] # "idle" =>
        LET c == call[r].by
            op == call[r].op
        IN  /\ call[r] \in Call
            /\ since[r] <= now /\ now <= since[r] + MaxDuration
            /\ pc[r] = "password" => op = "login"
            /\ pc[r] = "decode" => op # "login"
            /\ pc[r] = "user" => op # "login"
            /\ pc[r] = "accepted" => op = "use"
            /\ pc[r] = "issue" => op # "use"
            /\ pc[r] = "issue" /\ op = "login" => Within(c, since[r], 0)
            /\ pc[r] \in {"user", "issue"} /\ op = "refresh" =>
                  Within(c, since[r], RefreshSpan - 1)
            /\ pc[r] \in {"user", "accepted"} /\ op = "use" =>
                  Within(c, since[r], AccessSpan - 1)

Lineage ==
    /\ \A c \in Credential : Tokens(c)
    /\ \A r \in Requests : Course(r)

\* The spans are whole numbers, and a login spans no more than a refresh.
LEMMA Spans ==
    /\ RefreshSpan \in Nat /\ AccessSpan \in Nat
    /\ MaxDuration + AccessTTL <= AccessSpan
BY LifetimeAssumption DEF RefreshSpan, AccessSpan

\* What a token was worth when it was decoded.
LEMMA DecodedWithin ==
    ASSUME TypeOK, Lineage, NEW q \in Call, Decodes(q), q.op # "login"
    PROVE  /\ q.op = "refresh" => Within(q.by, now, RefreshSpan - 1)
           /\ q.op = "use" => Within(q.by, now, AccessSpan - 1)
<1>1. q.by \in Credential /\ q.op \in {"login", "refresh", "use"}
  BY DEF Call
<1>2. Tokens(q.by)
  BY <1>1 DEF Lineage
<1>3. /\ expiry[q.by]["refresh"] \in Nat /\ expiry[q.by]["access"] \in Nat
      /\ now \in Nat /\ proved[q.by] \in Int
  BY <1>1, LifetimeAssumption DEF TypeOK, Kind
<1>4. CASE q.op = "refresh"
  <2>1. now < expiry[q.by]["refresh"]
    BY <1>4 DEF Decodes, Expected
  <2> QED BY <1>2, <1>3, <1>4, <2>1, Spans DEF Tokens, Within
<1>5. CASE q.op = "use"
  <2>1. now < expiry[q.by]["access"]
    BY <1>5 DEF Decodes, Expected
  <2> QED BY <1>2, <1>3, <1>5, <2>1, Spans DEF Tokens, Within
<1> QED BY <1>1, <1>4, <1>5

\* A step that leaves the tokens, the logins and the clock alone and takes
\* request r on keeps the others where they are.
LEMMA OthersStay ==
    ASSUME TypeOK, Lineage, NEW r \in Requests,
           UNCHANGED <<now, expiry, proved>>,
           \A v \in Requests \ {r} :
              pc'[v] = pc[v] /\ call'[v] = call[v] /\ since'[v] = since[v],
           Course(r)'
    PROVE  Lineage'
<1>1. \A c \in Credential : Tokens(c)'
  BY DEF Lineage, Tokens, Within
<1>2. ASSUME NEW v \in Requests PROVE Course(v)'
  <2>1. CASE v = r
    BY <2>1
  <2>2. CASE v # r
    BY <2>2 DEF Lineage, Course, Within
  <2> QED BY <2>1, <2>2
<1> QED BY <1>1, <1>2 DEF Lineage

\* A request that is answered leaves nothing to show.
LEMMA AnswerStays ==
    ASSUME TypeOK, Lineage, NEW r \in Requests, Answer(r),
           UNCHANGED <<now, expiry, proved>>
    PROVE  Lineage'
<1>1. Course(r)'
  BY DEF Answer, TypeOK, Course
<1>2. \A v \in Requests \ {r} :
         pc'[v] = pc[v] /\ call'[v] = call[v] /\ since'[v] = since[v]
  BY DEF Answer, TypeOK
<1> QED BY <1>1, <1>2, OthersStay

\* A login that has read the user: nothing gets further from its proof.
LEMMA LoginProves ==
    ASSUME TypeOK, Lineage, NEW r \in Requests, CheckPassword(r)
    PROVE  Lineage'
<1> DEFINE c == call[r].by
<1>1. CASE ~Authenticates(c)
  BY <1>1, AnswerStays DEF CheckPassword
<1>2. CASE Authenticates(c)
  <2>1. /\ pc' = [pc EXCEPT ![r] = "issue"]
        /\ UNCHANGED <<call, since, now, expiry>>
        /\ proved' = [proved EXCEPT ![c] = now]
    BY <1>2 DEF CheckPassword, GoOn
  <2>2. /\ Course(r) /\ pc[r] = "password" /\ call[r] \in Call
        /\ c \in Credential
    BY DEF Lineage, CheckPassword, Course, Call
  <2>3. /\ now \in Nat
        /\ \A d \in Credential :
              /\ proved[d] \in Int /\ proved'[d] \in Int
              /\ proved[d] <= proved'[d] /\ proved'[d] <= now
              /\ proved[d] # -1 => proved'[d] # -1
    BY <2>1, <2>2, LifetimeAssumption DEF TypeOK, Lineage, Tokens
  <2>4. ASSUME NEW d \in Credential, NEW t \in Nat, NEW s \in Nat,
               Within(d, t, s)
        PROVE  Within(d, t, s)'
    BY <2>3, <2>4 DEF Within
  <2>5. \A d \in Credential : Tokens(d)'
    <3> SUFFICES ASSUME NEW d \in Credential PROVE Tokens(d)'
      OBVIOUS
    <3>1. expiry[d]["refresh"] \in Nat /\ expiry[d]["access"] \in Nat
      BY DEF TypeOK, Kind
    <3>2. Tokens(d)
      BY DEF Lineage
    <3>3. /\ RefreshSpan' = RefreshSpan /\ AccessSpan' = AccessSpan
      BY DEF RefreshSpan, AccessSpan
    <3> QED BY <2>1, <2>3, <2>4, <3>1, <3>2, <3>3, Spans DEF Tokens
  <2>6. Within(c, since[r], 0)'
    BY <2>1, <2>2, <2>3, LifetimeAssumption DEF Within, TypeOK, Course
  <2>7. Course(r)'
    BY <2>1, <2>2, <2>6 DEF Course, TypeOK
  <2>8. ASSUME NEW v \in Requests, v # r PROVE Course(v)'
    <3>1. /\ Course(v)
          /\ pc'[v] = pc[v] /\ call'[v] = call[v] /\ since'[v] = since[v]
          /\ now' = now /\ since[v] \in Nat
      BY <2>1, <2>8 DEF TypeOK, Lineage
    <3>2. call[v] \in Call => call[v].by \in Credential
      BY DEF Call
    <3>3. /\ RefreshSpan - 1 \in Nat /\ AccessSpan - 1 \in Nat
      BY LifetimeAssumption DEF RefreshSpan, AccessSpan
    <3> QED BY <2>4, <3>1, <3>2, <3>3 DEF Course
  <2> QED BY <2>5, <2>7, <2>8 DEF Lineage
<1> QED BY <1>1, <1>2

\* The tokens a login or a refresh gives are worth what it inherits.
LEMMA IssueInherits ==
    ASSUME TypeOK, Lineage, NEW r \in Requests, Issue(r),
           NEW c, c = call[r].by, NEW op, op = call[r].op
    PROVE  Lineage'
<1>1. /\ Course(r) /\ call[r] \in Call /\ c \in Credential
      /\ op \in {"login", "refresh"}
  BY DEF Lineage, Issue, Course, Call
<1>2. /\ now \in Nat /\ since[r] \in Nat /\ proved[c] \in Int
      /\ now <= since[r] + MaxDuration /\ proved[c] <= now
  BY <1>1, LifetimeAssumption DEF TypeOK, Course, Issue, Lineage, Tokens
<1>3. /\ expiry'[c]["access"] = now + AccessTTL
      /\ expiry'[c]["refresh"] = IF op = "login" THEN now + RefreshTTL
                                                 ELSE expiry[c]["refresh"]
      /\ \A d \in Credential \ {c} : expiry'[d] = expiry[d]
      /\ UNCHANGED <<now, proved>>
  BY <1>1 DEF Issue, TypeOK, Kind
<1>4. Tokens(c)'
  <2>1. CASE op = "login"
    <3>1. Within(c, since[r], 0)
      BY <1>1, <2>1 DEF Course, Issue
    <3> QED BY <1>2, <1>3, <2>1, <3>1, Spans, LifetimeAssumption
            DEF Tokens, Within, RefreshSpan, AccessSpan
  <2>2. CASE op = "refresh"
    <3>1. Within(c, since[r], RefreshSpan - 1) /\ Tokens(c)
      BY <1>1, <2>2 DEF Course, Issue, Lineage
    <3> QED BY <1>2, <1>3, <2>2, <3>1, LifetimeAssumption
            DEF Tokens, Within, RefreshSpan, AccessSpan
  <2> QED BY <1>1, <2>1, <2>2
<1>5. ASSUME NEW d \in Credential PROVE Tokens(d)'
  <2>1. CASE d = c
    BY <1>4, <2>1
  <2>2. CASE d # c
    BY <1>3, <2>2 DEF Lineage, Tokens, Within
  <2> QED BY <2>1, <2>2
<1>6. ASSUME NEW v \in Requests PROVE Course(v)'
  <2>1. CASE v = r
    BY <2>1 DEF Issue, Answer, TypeOK, Course
  <2>2. CASE v # r
    BY <1>3, <2>2 DEF Issue, Answer, TypeOK, Lineage, Course, Within
  <2> QED BY <2>1, <2>2
<1> QED BY <1>5, <1>6 DEF Lineage

-----------------------------------------------------------------------------
\* Every step keeps the lineage.
LEMMA LineageStep == TypeOK /\ Lineage /\ [Next]_vars => Lineage'
<1> SUFFICES ASSUME TypeOK, Lineage, [Next]_vars PROVE Lineage'
  OBVIOUS
<1>1. ASSUME NEW r \in Requests, Decode(r) PROVE Lineage'
  <2>1. CASE ~Decodes(call[r])
    BY <1>1, <2>1, AnswerStays DEF Decode
  <2>2. CASE Decodes(call[r])
    <3>1. /\ pc' = [pc EXCEPT ![r] = "user"]
          /\ UNCHANGED <<call, since, now, expiry, proved>>
      BY <1>1, <2>2 DEF Decode, GoOn
    <3>2. /\ Course(r) /\ call[r] \in Call /\ call[r].op # "login"
          /\ call[r].by \in Credential
      BY <1>1 DEF Lineage, Course, Decode, Call
    <3>3. /\ since[r] \in Nat /\ now \in Nat /\ since[r] <= now
          /\ proved[call[r].by] \in Int
      BY <1>1, <3>2, LifetimeAssumption DEF TypeOK, Course, Decode
    <3>4. /\ call[r].op = "refresh" =>
                Within(call[r].by, since[r], RefreshSpan - 1)
          /\ call[r].op = "use" =>
                Within(call[r].by, since[r], AccessSpan - 1)
      BY <2>2, <3>2, <3>3, DecodedWithin, Spans DEF Within
    <3>5. Course(r)'
      BY <1>1, <3>1, <3>2, <3>4 DEF Course, Within, Decode, TypeOK
    <3> QED BY <3>1, <3>5, OthersStay DEF TypeOK
  <2> QED BY <2>1, <2>2
<1>2. ASSUME NEW r \in Requests, FindUser(r) PROVE Lineage'
  <2>1. CASE call[r].by.user \notin active
    BY <1>2, <2>1, AnswerStays DEF FindUser
  <2>2. CASE call[r].by.user \in active
    <3>1. /\ pc' = [pc EXCEPT ![r] =
                IF call[r].op = "refresh" THEN "issue" ELSE "accepted"]
          /\ UNCHANGED <<call, since, now, expiry, proved>>
      BY <1>2, <2>2 DEF FindUser, GoOn
    <3>2. /\ Course(r) /\ pc[r] = "user"
          /\ call[r].op \in {"refresh", "use"}
      BY <1>2 DEF Lineage, FindUser, Course, Call
    <3>3. Course(r)'
      BY <3>1, <3>2 DEF Course, Within, TypeOK
    <3> QED BY <3>1, <3>3, OthersStay DEF TypeOK
  <2> QED BY <2>1, <2>2
<1>3. ASSUME NEW r \in Requests, Use(r) PROVE Lineage'
  BY <1>3, AnswerStays DEF Use
<1>4. ASSUME NEW r \in Requests, NEW q \in Call, Arrive(r, q) PROVE Lineage'
  <2>1. /\ pc' = [pc EXCEPT ![r] =
              IF q.op = "login" THEN "password" ELSE "decode"]
        /\ call' = [call EXCEPT ![r] = q]
        /\ since' = [since EXCEPT ![r] = now]
        /\ UNCHANGED <<now, expiry, proved>>
    BY <1>4 DEF Arrive
  <2>2. Course(r)'
    BY <2>1, LifetimeAssumption DEF Course, TypeOK
  <2> QED BY <2>1, <2>2, OthersStay DEF TypeOK
<1>5. ASSUME NEW u \in Users, ChangeActive(u) PROVE Lineage'
  BY <1>5 DEF ChangeActive, Lineage, Tokens, Course, Within
<1>6. ASSUME NEW u \in Users, NEW p \in Passwords, ChangePassword(u, p)
      PROVE Lineage'
  BY <1>6 DEF ChangePassword, Lineage, Tokens, Course, Within
<1>7. ASSUME Tick PROVE Lineage'
  <2>1. \A c \in Credential : Tokens(c)'
    <3>1. now \in Nat /\ \A c \in Credential : proved[c] \in Int
      BY LifetimeAssumption DEF TypeOK
    <3> QED BY <1>7, <3>1 DEF Tick, Lineage, Tokens, Within
  <2>2. ASSUME NEW r \in Requests PROVE Course(r)'
    <3>1. pc[r] # "idle" =>
             /\ since[r] <= now' /\ now' <= since[r] + MaxDuration
      BY <1>7, LifetimeAssumption DEF Tick, TypeOK, Lineage, Course
    <3> QED BY <1>7, <3>1 DEF Tick, Lineage, Course, Within
  <2> QED BY <2>1, <2>2 DEF Lineage
<1>8. CASE UNCHANGED vars
  BY <1>8 DEF vars, Lineage, Tokens, Course, Within
<1> QED
  BY <1>1, <1>2, <1>3, <1>4, <1>5, <1>6, <1>7, <1>8,
     LoginProves, IssueInherits DEF Next

\* A credential is good for nothing once its last login is Lapse ago, however
\* often its tokens are refreshed and the user is locked out and let in
\* again: for every lifetime, number of requests and length of a request.
THEOREM AccessLapsesCorrect == Spec => []AccessLapses
<1>1. Init => Lineage
  BY DEF Init, Lineage, Tokens, Course, Kind
<1>2. TypeOK /\ Lineage => AccessLapses
  <2> SUFFICES ASSUME TypeOK, Lineage, NEW r \in Requests,
                      pc[r] = "accepted"
               PROVE  LET last == proved[call[r].by]
                      IN  last # -1 /\ now - last <= Lapse
    BY DEF AccessLapses
  <2>1. /\ Course(r) /\ call[r].op = "use"
        /\ call[r].by \in Credential
    BY DEF Lineage, Course, Call
  <2>2. /\ Within(call[r].by, since[r], AccessSpan - 1)
        /\ now <= since[r] + MaxDuration
    BY <2>1 DEF Course
  <2>3. /\ now \in Nat /\ since[r] \in Nat /\ proved[call[r].by] \in Int
    BY <2>1, LifetimeAssumption DEF TypeOK
  <2> QED BY <2>2, <2>3, LifetimeAssumption
          DEF Within, Lapse, AccessSpan, RefreshSpan
<1> QED BY <1>1, <1>2, TypeCorrect, LineageStep, PTL DEF Spec
=============================================================================
