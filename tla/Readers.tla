------------------------------- MODULE Readers -------------------------------
(****************************************************************************)
(* The list and detail endpoints (documents/api.py) next to the uploads and *)
(* deletions of Ingestion.  A listing without a type reads the two document *)
(* tables in two statements, outside of any transaction.  An answer of an   *)
(* upload is compared with what the detail endpoint finds afterwards.       *)
(****************************************************************************)
EXTENDS Ingestion

CONSTANTS
    Clients,   \* clients that list documents, one request at a time
    NoTenant   \* between two requests of a client

ASSUME NoTenantAssumption == NoTenant \notin Tenants

VARIABLES
    listing,  \* listing[c]: the listing that c waits for or was answered
    told      \* what uploads were told is registered, until it is deleted

readerVars == <<vars, listing, told>>

\* A listing between its statements is of a tenant; answered, of none.
\* found is its result so far.  always and ever are history: the documents of
\* the tenant registered at each moment since the first statement, or at some.
NoListing == [tenant |-> NoTenant, found |-> {}, always |-> {}, ever |-> {}]

-----------------------------------------------------------------------------
(* The queries.                                                             *)

\* Mutation: the rows of every tenant.
OfAnyTenant(table, t) == table

\* for_tenant
ForTenant(table, t) == {d \in table : d.tenant = t}

\* get_fiscal_document
GetFiscalDocument(t, type, key) ==
    {d \in CASE type = "cte" -> ForTenant(CTes, t)
             [] type = "nfe" -> ForTenant(NFes, t)
             [] OTHER        -> {} : KeyOf[d.content] = key}

\* document_detail
DocumentDetail(t, type, key) ==
    LET found == GetFiscalDocument(t, type, key)
    IN  [code |-> IF found = {} THEN 404 ELSE 200, found |-> found]

\* For the history, whatever the queries do.
Owned(table, t) == {d \in table : d.tenant = t}

-----------------------------------------------------------------------------
ReadersInit ==
    /\ Init
    /\ listing = [c \in Clients |-> NoListing]
    /\ told = {}

\* documents.extend(CTe.objects.for_tenant(tenant)), for document_type None.
\* A listing of one type is one statement, which nothing can come between,
\* and another type is answered 400 without any.
ListCTes(c, t) ==
    /\ listing[c].tenant = NoTenant
    /\ listing' = [listing EXCEPT ![c] =
            [tenant |-> t,
             found  |-> ForTenant(CTes, t),
             always |-> Owned(docs, t),
             ever   |-> Owned(docs, t)]]
    /\ UNCHANGED <<vars, told>>

\* documents.extend(NFe.objects.for_tenant(tenant)), and the answer.
ListNFes(c) ==
    /\ listing[c].tenant # NoTenant
    /\ listing' = [listing EXCEPT
            ![c].tenant = NoTenant,
            ![c].found = @ \cup ForTenant(NFes, listing[c].tenant)]
    /\ UNCHANGED <<vars, told>>

-----------------------------------------------------------------------------
(* What the steps of Ingestion add to the history.                          *)

\* A document as a client names it.
NameOf(s) ==
    [tenant |-> s.tenant, type |-> KindOf[s.content], key |-> KeyOf[s.content]]

\* The upload of w is answered, with the document it is about.
Told(w) ==
    /\ pc[w] # "idle"
    /\ pc'[w] = "idle"
    /\ answer'[w] \in {"created", "existing"}

\* The history of a listing goes on while it runs, and ends when it has been
\* answered.
Watched(l) ==
    IF l.tenant = NoTenant
    THEN NoListing
    ELSE [l EXCEPT !.always = @ \cap docs',
                   !.ever = @ \cup Owned(docs', l.tenant)]

Upload ==
    /\ Next
    /\ listing' = [c \in Clients |-> Watched(listing[c])]
    /\ told' = (told \cup {NameOf(req[w]) : w \in {w \in Workers : Told(w)}})
                 \ {NameOf(d) : d \in docs \ docs'}

ReadersNext ==
    \/ Upload
    \/ \E c \in Clients, t \in Tenants : ListCTes(c, t)
    \/ \E c \in Clients : ListNFes(c)

ReadersSpec == ReadersInit /\ [][ReadersNext]_readerVars

-----------------------------------------------------------------------------
(* Properties.                                                              *)

\* A listing shows documents of its tenant only, each of them registered at
\* some moment while it ran; and it misses none that was registered all the
\* time, although uploads and deletions come between its two statements.
ListingFaithful ==
    \A c \in Clients :
        LET l == listing[c]
        IN  l.tenant = NoTenant => /\ l.always \subseteq l.found
                                   /\ l.found \subseteq l.ever

\* A document that some upload was told is registered, as new or as existing,
\* is the one that the detail endpoint finds, until an administrator deletes
\* it: never another tenant's, and never two.
ToldIsFound ==
    \A name \in told :
        \E d \in docs :
            /\ NameOf(d) = name
            /\ DocumentDetail(name.tenant, name.type, name.key)
                 = [code |-> 200, found |-> {d}]
=============================================================================
