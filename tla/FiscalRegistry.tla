--------------------------- MODULE FiscalRegistry ---------------------------
(****************************************************************************)
(* What the upload endpoint promises its clients, without threads, tables   *)
(* or files: a registry with at most one document for each tenant, document *)
(* type and access key.  A request is answered by one atomic step, and the  *)
(* answer says what that step did: "created" registers the document,        *)
(* "existing" finds one registered at that moment.                          *)
(****************************************************************************)
EXTENDS Naturals

CONSTANTS
    Clients,   \* who sends requests, one at a time
    Tenants,   \* tenants
    Contents,  \* uploaded contents
    KindOf,    \* "cte", "nfe" or "invalid" for each content
    KeyOf      \* the access key of each valid content

VARIABLES
    registered,  \* documents, each the tenant and content it was made of
    open,        \* clients that wait for an answer
    req,         \* their current or last requests
    answer       \* the answers to them

vars == <<registered, open, req, answer>>

Request == [tenant : Tenants, content : Contents]
Answer  == {"none", "created", "existing", "refused", "rejected", "error"}

Equivalent(r, d) ==
    /\ r.tenant = d.tenant
    /\ KindOf[r.content] = KindOf[d.content]
    /\ KeyOf[r.content] = KeyOf[d.content]

\* The document that makes r a duplicate.
Registered(r) == {d \in registered : Equivalent(r, d)}

Init ==
    /\ registered = {}
    /\ open = {}
    /\ req \in [Clients -> Request]
    /\ answer = [c \in Clients |-> "none"]

Submit(c, r) ==
    /\ c \notin open
    /\ open' = open \cup {c}
    /\ req' = [req EXCEPT ![c] = r]
    /\ answer' = [answer EXCEPT ![c] = "none"]
    /\ UNCHANGED registered

\* Turned away at the door: not an XML name, too large, or not allowed.
Reject(c) ==
    /\ c \notin open
    /\ answer' = [answer EXCEPT ![c] = "rejected"]
    /\ UNCHANGED <<registered, open, req>>

Reply(c, a) ==
    /\ c \in open
    /\ open' = open \ {c}
    /\ answer' = [answer EXCEPT ![c] = a]
    /\ UNCHANGED req

Add(c) ==
    /\ c \in open
    /\ KindOf[req[c].content] # "invalid"
    /\ Registered(req[c]) = {}
    /\ registered' = registered \cup {req[c]}

Register(c) == Add(c) /\ Reply(c, "created")

\* The document is registered and the client is not told: it has no answer,
\* or it is left waiting.
RegisterSilently(c) ==
    /\ Add(c)
    /\ \/ Reply(c, "none")
       \/ UNCHANGED <<open, req, answer>>

Duplicate(c) ==
    /\ Registered(req[c]) # {}
    /\ Reply(c, "existing")
    /\ UNCHANGED registered

Refuse(c) ==
    /\ KindOf[req[c].content] = "invalid"
    /\ Reply(c, "refused")
    /\ UNCHANGED registered

\* A server error, or no answer at all: nothing is registered by this step.
Fail(c) ==
    /\ Reply(c, "error") \/ Reply(c, "none")
    /\ UNCHANGED registered

\* An administrator removes a document.
Withdraw(d) ==
    /\ d \in registered
    /\ registered' = registered \ {d}
    /\ UNCHANGED <<open, req, answer>>

Next ==
    \/ \E c \in Clients :
          \/ \E r \in Request : Submit(c, r)
          \/ Reject(c)
          \/ Register(c)
          \/ RegisterSilently(c)
          \/ Duplicate(c)
          \/ Refuse(c)
          \/ Fail(c)
    \/ \E d \in registered : Withdraw(d)

Spec == Init /\ [][Next]_vars
=============================================================================
