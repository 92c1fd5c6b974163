------------------------------ MODULE Ingestion ------------------------------
(****************************************************************************)
(* Ingestion of fiscal XML files (documents/services.py) by concurrent      *)
(* request threads that share one PostgreSQL database and one file storage. *)
(*                                                                          *)
(* A thread executes ingest_fiscal_xml statement by statement.  The module  *)
(* keeps the two things the threads can see of each other: what is          *)
(* committed (uploads, docs, links) and the files (storage), which no       *)
(* transaction protects.  What a transaction has written and not committed  *)
(* is in the variables of its thread; the locks it holds on those rows are  *)
(* derived from where the thread is.  The database runs at READ COMMITTED,  *)
(* Django's default: a statement sees what is committed when it starts.     *)
(****************************************************************************)
EXTENDS Naturals, FiniteSets

CONSTANTS
    Workers,       \* request threads
    Tenants,       \* values of request.tenant
    Contents,      \* uploaded byte strings, each standing for its SHA-256
    Keys,          \* access keys
    Names,         \* file names a storage can give to one digest
    PlainName,     \* "<digest>.xml"; the other names carry a random suffix
    NoKey,         \* access_key = ""
    NoFile,        \* source_file = ""
    KindOf,        \* what parse_fiscal_xml makes of a content
    KeyOf,         \* the access key it reads in a valid content
    RefsOf,        \* the NF-e keys a CT-e refers to
    Unstorable,    \* valid contents with a value the database refuses
    OddKeys,       \* those of which it refuses the access key
    Incidents,     \* the kinds of incident of the environment
    MaxIncidents   \* bound on the number of incidents in a behaviour

ASSUME ContentAssumption ==
    /\ KindOf \in [Contents -> {"cte", "nfe", "invalid"}]
    /\ KeyOf \in [Contents -> Keys]
    /\ RefsOf \in [Contents -> SUBSET Keys]
    /\ Unstorable \subseteq Contents
    /\ OddKeys \subseteq Unstorable

ASSUME NameAssumption ==
    /\ PlainName \in Names
    /\ NoKey \notin Keys

ASSUME IncidentAssumption ==
    /\ Incidents \subseteq {"crash", "failure", "lost_commit", "delete"}
    /\ MaxIncidents \in Nat

\* DocumentUpload is unique by (tenant, content_sha256): a slot is that pair.
\* The document made of an upload is one-to-one with it and has its slot too.
Slot == [tenant : Tenants, content : Contents]

File == [owner : Slot, name : Names]

ASSUME NoFileAssumption == NoFile \notin File

Row == [type   : {"unknown", "cte", "nfe"},
        key    : Keys \cup {NoKey},
        status : {"absent", "pending", "processing", "processed", "failed"},
        file   : File \cup {NoFile}]

Link == [cte : Slot, nfe : Slot]

VARIABLES
    pc,        \* pc[w]: the next statement of thread w
    req,       \* req[w]: the slot of its current or last request
    answer,    \* answer[w]: how that request was answered
    row,       \* row[w]: its DocumentUpload instance
    created,   \* created[w]: its transaction has inserted that row
    stored,    \* stored[w]: stored_name
    pending,   \* pending[w]: links its transaction has inserted
    uploads,   \* committed DocumentUpload rows
    docs,      \* slots with a committed CTe or NFe row
    links,     \* committed CTeNFeLink rows
    storage,   \* files on disk
    incidents  \* incidents so far

local == <<row, created, stored, pending>>
db    == <<uploads, docs, links>>
vars  == <<pc, req, answer, row, created, stored, pending,
           uploads, docs, links, storage, incidents>>

-----------------------------------------------------------------------------
(* Rows, keys and links.                                                    *)

\* No row: also the value of row[w] outside a transaction.
NoRow == [type |-> "unknown", key |-> NoKey, status |-> "absent",
          file |-> NoFile]

\* What get_or_create inserts: the defaults of the model.
NewRow == [NoRow EXCEPT !.status = "pending"]

IsValid(s) == KindOf[s.content] # "invalid"

\* Two slots whose documents compete for the same (tenant, type, access key).
SameKey(s, d) ==
    /\ s.tenant = d.tenant
    /\ KindOf[s.content] = KindOf[d.content]
    /\ KeyOf[s.content] = KeyOf[d.content]

\* Mutation: the tenant left out of the lookup.
ExistingAnywhere(s) ==
    {d \in docs : /\ KindOf[s.content] = KindOf[d.content]
                  /\ KeyOf[s.content] = KeyOf[d.content]}

\* The lookup of _existing_result.
Existing(s) == {d \in docs : SameKey(d, s)}

\* The two document tables.
CTes == {d \in docs : KindOf[d.content] = "cte"}
NFes == {d \in docs : KindOf[d.content] = "nfe"}

\* The links _sync_cte_links makes for a new CT-e, of the NF-es of its tenant
\* that it refers to.
CTeLinks(s) ==
    {[cte |-> s, nfe |-> d] : d \in
        {d \in NFes : /\ d.tenant = s.tenant
                      /\ KeyOf[d.content] \in RefsOf[s.content]}}

\* Mutation: the tenant filter forgotten.
NFeLinksOfAnyTenant(s) ==
    {[cte |-> d, nfe |-> s] : d \in
        {d \in CTes : KeyOf[s.content] \in RefsOf[d.content]}}

\* Mutation: links made for a new CT-e only.
NFeLinksForgotten(s) == {}

\* The links _sync_nfe_links makes for a new NF-e, of the CT-es of its tenant
\* that refer to it.
NFeLinks(s) ==
    {[cte |-> d, nfe |-> s] : d \in
        {d \in CTes : /\ d.tenant = s.tenant
                      /\ KeyOf[s.content] \in RefsOf[d.content]}}

\* Storage.save: the plain name if it is free, otherwise any free name.
FreshFiles(s) ==
    LET plain == [owner |-> s, name |-> PlainName]
    IN  IF plain \notin storage
        THEN {plain}
        ELSE {f \in [owner : {s}, name : Names] : f \notin storage}

-----------------------------------------------------------------------------
(* Locks.  An inserted or updated row, and its entries in unique indexes,   *)
(* make other writers wait until the transaction ends.                      *)

\* Mutation: type and key among the defaults of get_or_create, so that they
\* are in the index from the INSERT on.
HoldsKeyEarly(w) ==
    \/ pc[w] \in {"document", "link", "commit", "dangling"}
    \/ created[w] /\ IsValid(req[w])

\* w has written the type and key of its upload row, in upload.save().
HoldsKey(w) == pc[w] \in {"document", "link", "commit", "dangling"}

\* It has inserted or updated that row.
HoldsRow(w) == HoldsKey(w) \/ created[w]

\* Mutation: no unique constraint by tenant, type and key.
KeyNeverBusy(w) == FALSE

RowBusy(w) == \E v \in Workers \ {w} : HoldsRow(v) /\ req[v] = req[w]
KeyBusy(w) == \E v \in Workers \ {w} : HoldsKey(v) /\ SameKey(req[v], req[w])

\* A committed row of another content has the type and key that w writes:
\* documents_upload_tenant_type_key_unique.
KeyTaken(w) ==
    \E s \in Slot : /\ s # req[w]
                    /\ s.tenant = req[w].tenant
                    /\ uploads[s].type = KindOf[req[w].content]
                    /\ uploads[s].key = KeyOf[req[w].content]

\* documents_cte_tenant_key_unique, documents_nfe_tenant_key_unique, and the
\* one-to-one upload, which Existing covers: the same upload has the same key.
DocumentTaken(w) == Existing(req[w]) # {}

-----------------------------------------------------------------------------
Init ==
    /\ pc = [w \in Workers |-> "idle"]
    /\ req \in [Workers -> Slot]
    /\ answer = [w \in Workers |-> "none"]
    /\ row = [w \in Workers |-> NoRow]
    /\ created = [w \in Workers |-> FALSE]
    /\ stored = [w \in Workers |-> NoFile]
    /\ pending = [w \in Workers |-> {}]
    /\ uploads = [s \in Slot |-> NoRow]
    /\ docs = {}
    /\ links = {}
    /\ storage = {}
    /\ incidents = 0

GoTo(w, label) == pc' = [pc EXCEPT ![w] = label]

\* The request ends; what the thread held of it is gone.
Reply(w, a) ==
    /\ GoTo(w, "idle")
    /\ answer' = [answer EXCEPT ![w] = a]
    /\ row' = [row EXCEPT ![w] = NoRow]
    /\ created' = [created EXCEPT ![w] = FALSE]
    /\ stored' = [stored EXCEPT ![w] = NoFile]
    /\ pending' = [pending EXCEPT ![w] = {}]
    /\ UNCHANGED req

\* An exception leaves transaction.atomic(): what w wrote is rolled back and
\* its locks are released.  An IntegrityError goes to "cleanup", any other
\* exception to "abort".
Rollback(w, label) ==
    /\ GoTo(w, label)
    /\ row' = [row EXCEPT ![w] = NoRow]
    /\ created' = [created EXCEPT ![w] = FALSE]
    /\ pending' = [pending EXCEPT ![w] = {}]
    /\ UNCHANGED <<req, answer, stored>>

-----------------------------------------------------------------------------
(* The request thread.                                                      *)

\* The name, the size and the role are accepted, and the content is parsed.
Receive(w, s) ==
    /\ pc[w] = "idle"
    /\ GoTo(w, IF IsValid(s) THEN "lookup" ELSE "get")
    /\ req' = [req EXCEPT ![w] = s]
    /\ answer' = [answer EXCEPT ![w] = "none"]
    /\ UNCHANGED <<local, db, storage, incidents>>

\* A name that is not *.xml, too many bytes, a role that may not upload, or a
\* parser that raises no DocumentParseError but another exception (UNCAUGHT in
\* FiscalParser): answered before anything is read or written.
Reject(w) ==
    /\ pc[w] = "idle"
    /\ answer' = [answer EXCEPT ![w] = "rejected"]
    /\ UNCHANGED <<pc, req, local, db, storage, incidents>>

\* existing = _existing_result(tenant, parsed)
Lookup(w) ==
    /\ pc[w] = "lookup"
    /\ \/ /\ Existing(req[w]) # {}
          /\ Reply(w, "existing")
       \/ /\ Existing(req[w]) = {}
          /\ GoTo(w, "get")
          /\ UNCHANGED <<req, answer, local>>
    /\ UNCHANGED <<db, storage, incidents>>

\* get_or_create has a row, found or inserted.
HaveRow(w, r, new) ==
    /\ GoTo(w, IF ~IsValid(req[w]) THEN "fail"
               ELSE IF new THEN "store" ELSE "inspect")
    /\ row' = [row EXCEPT ![w] = r]
    /\ created' = [created EXCEPT ![w] = new]

\* The SELECT of DocumentUpload.objects.get_or_create.
GetUpload(w) ==
    /\ pc[w] = "get"
    /\ \/ /\ uploads[req[w]].status # "absent"
          /\ HaveRow(w, uploads[req[w]], FALSE)
       \/ /\ uploads[req[w]].status = "absent"
          /\ GoTo(w, "insert")
          /\ UNCHANGED <<row, created>>
    /\ UNCHANGED <<req, answer, stored, pending, db, storage, incidents>>

\* Mutation: no transaction.atomic(), so that the row is visible at once.
InsertUploadAutocommit(w) ==
    /\ pc[w] = "insert"
    /\ uploads[req[w]].status = "absent"
    /\ uploads' = [uploads EXCEPT ![req[w]] = NewRow]
    /\ HaveRow(w, NewRow, TRUE)
    /\ UNCHANGED <<req, answer, stored, pending, docs, links, storage,
                   incidents>>

\* Its INSERT, in a savepoint.  It waits for a transaction that has written
\* the same slot; a committed row fails the INSERT and is selected instead.
InsertUpload(w) ==
    /\ pc[w] = "insert"
    /\ ~RowBusy(w)
    /\ \/ /\ uploads[req[w]].status # "absent"
          /\ HaveRow(w, uploads[req[w]], FALSE)
       \/ /\ uploads[req[w]].status = "absent"
          /\ HaveRow(w, NewRow, TRUE)
    /\ UNCHANGED <<req, answer, stored, pending, db, storage, incidents>>

\* existing_document = _document_for_upload(upload)
Inspect(w) ==
    /\ pc[w] = "inspect"
    /\ \/ /\ row[w].type # "unknown" /\ req[w] \in docs
          /\ Reply(w, "existing")
       \/ /\ ~(row[w].type # "unknown" /\ req[w] \in docs)
          /\ GoTo(w, "store")
          /\ UNCHANGED <<req, answer, local>>
    /\ UNCHANGED <<db, storage, incidents>>

\* Mutation: without "if not upload.source_file".
StoreAlways(w) ==
    /\ pc[w] = "store"
    /\ \E f \in FreshFiles(req[w]) :
          /\ row' = [row EXCEPT ![w].file = f]
          /\ stored' = [stored EXCEPT ![w] = f]
          /\ storage' = storage \cup {f}
    /\ GoTo(w, "save")
    /\ UNCHANGED <<req, answer, created, pending, db, incidents>>

\* upload.source_file.save(..., save=False), if it has no file yet.
Store(w) ==
    /\ pc[w] = "store"
    /\ \/ /\ row[w].file # NoFile
          /\ UNCHANGED <<row, stored, storage>>
       \/ /\ row[w].file = NoFile
          /\ \E f \in FreshFiles(req[w]) :
                /\ row' = [row EXCEPT ![w].file = f]
                /\ stored' = [stored EXCEPT ![w] = f]
                /\ storage' = storage \cup {f}
    /\ GoTo(w, "save")
    /\ UNCHANGED <<req, answer, created, pending, db, incidents>>

\* upload.save(): every column, after waiting for the row and for the key.  A
\* key with digits that documents_upload_access_key_valid does not know is
\* refused at once.
Save(w) ==
    /\ pc[w] = "save"
    /\ req[w].content \in OddKeys \/ (~RowBusy(w) /\ ~KeyBusy(w))
    /\ \/ /\ req[w].content \in OddKeys \/ KeyTaken(w)
          /\ Rollback(w, "cleanup")
       \/ /\ req[w].content \notin OddKeys
          /\ ~KeyTaken(w)
          /\ row' = [row EXCEPT ![w].type = KindOf[req[w].content],
                                ![w].key = KeyOf[req[w].content],
                                ![w].status = "processing"]
          /\ GoTo(w, "document")
          /\ UNCHANGED <<req, answer, created, stored, pending>>
    /\ UNCHANGED <<db, storage, incidents>>

\* CTe.objects.create or NFe.objects.create.  A value too long for its column
\* is a DataError, one a check constraint refuses an IntegrityError (a key with
\* odd digits has not come so far).
CreateDocument(w) ==
    /\ pc[w] = "document"
    /\ \/ /\ req[w].content \in Unstorable
          /\ \/ Rollback(w, "cleanup")
             \/ Rollback(w, "abort")
       \/ /\ req[w].content \notin Unstorable
          /\ DocumentTaken(w)
          /\ Rollback(w, "cleanup")
       \/ /\ req[w].content \notin Unstorable
          /\ ~DocumentTaken(w)
          /\ GoTo(w, "link")
          /\ UNCHANGED <<req, answer, local>>
    /\ UNCHANGED <<db, storage, incidents>>

\* Mutation: without the last update of the status.
SyncLinksOnly(w) ==
    /\ pc[w] = "link"
    /\ pending' = [pending EXCEPT ![w] =
            IF KindOf[req[w].content] = "cte" THEN CTeLinks(req[w])
                                              ELSE NFeLinks(req[w])]
    /\ GoTo(w, "commit")
    /\ UNCHANGED <<req, answer, row, created, stored, db, storage, incidents>>

\* _sync_cte_links or _sync_nfe_links, then status = PROCESSED.
SyncLinks(w) ==
    /\ pc[w] = "link"
    /\ pending' = [pending EXCEPT ![w] =
            IF KindOf[req[w].content] = "cte" THEN CTeLinks(req[w])
                                              ELSE NFeLinks(req[w])]
    /\ row' = [row EXCEPT ![w].status = "processed"]
    /\ GoTo(w, "commit")
    /\ UNCHANGED <<req, answer, created, stored, db, storage, incidents>>

\* What w has written becomes visible.
Publish(w) ==
    /\ uploads' = [uploads EXCEPT ![req[w]] = row[w]]
    /\ docs' = docs \cup {req[w]}
    /\ links' = links \cup pending[w]

\* Mutation: the file deleted in a finally clause, not in an except clause.
CommitThenDelete(w) ==
    /\ pc[w] = "commit"
    /\ Publish(w)
    /\ Reply(w, "created")
    /\ storage' = storage \ {stored[w]}
    /\ UNCHANGED incidents

\* The transaction of _persist_document commits and the request answers 201.
Commit(w) ==
    /\ pc[w] = "commit"
    /\ Publish(w)
    /\ Reply(w, "created")
    /\ UNCHANGED <<storage, incidents>>

\* The COMMIT finds a document that a pending link refers to gone: the
\* deferred foreign key fails.
CommitDangling(w) ==
    /\ pc[w] = "dangling"
    /\ Rollback(w, "cleanup")
    /\ UNCHANGED <<db, storage, incidents>>

\* Mutation: the status ERROR of the initial plan, which is not a Status.
RecordFailureAsError(w) ==
    /\ pc[w] = "fail"
    /\ ~RowBusy(w)
    /\ LET base == IF created[w] THEN row[w] ELSE uploads[req[w]]
       IN  uploads' = [uploads EXCEPT ![req[w]] =
                [base EXCEPT !.type = "unknown", !.status = "error"]]
    /\ Reply(w, "refused")
    /\ UNCHANGED <<docs, links, storage, incidents>>

\* The UPDATE of _record_parse_failure, after waiting for the row, becomes
\* visible.
PublishFailure(w) ==
    /\ ~RowBusy(w)
    /\ LET base == IF created[w] THEN row[w] ELSE uploads[req[w]]
       IN  uploads' = [uploads EXCEPT ![req[w]] =
                [base EXCEPT !.type = "unknown", !.status = "failed"]]
    /\ UNCHANGED <<docs, links>>

\* The transaction of _record_parse_failure commits and the request answers
\* 400.
RecordFailure(w) ==
    /\ pc[w] = "fail"
    /\ PublishFailure(w)
    /\ Reply(w, "refused")
    /\ UNCHANGED <<storage, incidents>>

\* Mutation: a conflict is not taken for a failure, and its file stays.
CleanupAbortOnly(w) ==
    /\ pc[w] \in {"cleanup", "abort"}
    /\ \/ /\ pc[w] = "cleanup"
          /\ GoTo(w, "recheck")
          /\ stored' = [stored EXCEPT ![w] = NoFile]
          /\ UNCHANGED <<req, answer, row, created, pending, storage>>
       \/ /\ pc[w] = "abort"
          /\ storage' = storage \ {stored[w]}
          /\ Reply(w, "error")
    /\ UNCHANGED <<db, incidents>>

\* except Exception: delete the file this request has stored.  An
\* IntegrityError is looked into further, any other exception is a 500.
Cleanup(w) ==
    /\ pc[w] \in {"cleanup", "abort"}
    /\ storage' = storage \ {stored[w]}
    /\ \/ /\ pc[w] = "cleanup"
          /\ GoTo(w, "recheck")
          /\ stored' = [stored EXCEPT ![w] = NoFile]
          /\ UNCHANGED <<req, answer, row, created, pending>>
       \/ /\ pc[w] = "abort"
          /\ Reply(w, "error")
    /\ UNCHANGED <<db, incidents>>

\* Mutations: the IntegrityError is raised, its document is reported as
\* created, or the transaction is tried again.
RecheckRaises(w) ==
    /\ pc[w] = "recheck"
    /\ Reply(w, "error")
    /\ UNCHANGED <<db, storage, incidents>>

RecheckCreated(w) ==
    /\ pc[w] = "recheck"
    /\ Reply(w, IF Existing(req[w]) # {} THEN "created" ELSE "error")
    /\ UNCHANGED <<db, storage, incidents>>

RecheckRetries(w) ==
    /\ pc[w] = "recheck"
    /\ GoTo(w, "get")
    /\ UNCHANGED <<req, answer, local, db, storage, incidents>>

\* except IntegrityError: the document another request has registered.
Recheck(w) ==
    /\ pc[w] = "recheck"
    /\ Reply(w, IF Existing(req[w]) # {} THEN "existing" ELSE "error")
    /\ UNCHANGED <<db, storage, incidents>>

Step(w) ==
    \/ Lookup(w)
    \/ GetUpload(w)
    \/ InsertUpload(w)
    \/ Inspect(w)
    \/ Store(w)
    \/ Save(w)
    \/ CreateDocument(w)
    \/ SyncLinks(w)
    \/ Commit(w)
    \/ CommitDangling(w)
    \/ RecordFailure(w)
    \/ Cleanup(w)
    \/ Recheck(w)

-----------------------------------------------------------------------------
(* The environment.  Every action counts as an incident.                    *)

Incident(kind) ==
    /\ kind \in Incidents
    /\ incidents < MaxIncidents
    /\ incidents' = incidents + 1

\* The process dies, or is told to exit (SystemExit is not an Exception): the
\* database rolls back, the client has no answer, and a stored file stays.
Crash(w) ==
    /\ Incident("crash")
    /\ pc[w] # "idle"
    /\ Reply(w, "none")
    /\ UNCHANGED <<db, storage>>

\* The database commits one of the two transactions of a request.
Commits(w) ==
    \/ pc[w] = "commit" /\ Publish(w)
    \/ pc[w] = "fail" /\ PublishFailure(w)

\* The process dies after the database has committed.
CrashAfterCommit(w) ==
    /\ Incident("crash")
    /\ Commits(w)
    /\ Reply(w, "none")
    /\ UNCHANGED storage

\* A statement fails with an error that is not an IntegrityError.  Outside of
\* _persist_document there is no file to delete, and "abort" only answers.
DatabaseFailure(w) ==
    /\ Incident("failure")
    /\ pc[w] \notin {"idle", "store", "cleanup", "abort"}
    /\ Rollback(w, "abort")
    /\ UNCHANGED <<db, storage>>

\* The storage fails while it writes: stored_name is still "", and the file
\* it has begun stays.
StoreFailure(w) ==
    /\ Incident("failure")
    /\ pc[w] = "store"
    /\ row[w].file = NoFile
    /\ \E f \in FreshFiles(req[w]) : storage' = storage \cup {f}
    /\ Rollback(w, "abort")
    /\ UNCHANGED db

\* The storage fails to delete: its exception takes the place of the other.
DeleteFailure(w) ==
    /\ Incident("failure")
    /\ pc[w] \in {"cleanup", "abort"}
    /\ stored[w] # NoFile
    /\ Reply(w, "error")
    /\ UNCHANGED <<db, storage>>

\* The database commits and the connection breaks before it can say so.
LostCommit(w) ==
    /\ Incident("lost_commit")
    /\ Commits(w)
    /\ Rollback(w, "abort")
    /\ UNCHANGED storage

\* An administrator deletes a link.
DeleteLink(l) ==
    /\ Incident("delete")
    /\ l \in links
    /\ links' = links \ {l}
    /\ UNCHANGED <<pc, req, answer, local, uploads, docs, storage>>

\* An administrator deletes a document.  The links protect it (PROTECT); one
\* that a transaction has not committed yet does not, and will fail there.
DeleteDocument(d) ==
    /\ Incident("delete")
    /\ d \in docs
    /\ \A l \in links : d # l.cte /\ d # l.nfe
    /\ docs' = docs \ {d}
    /\ pc' = [w \in Workers |->
                IF \E l \in pending[w] : d = l.cte \/ d = l.nfe
                THEN "dangling" ELSE pc[w]]
    /\ UNCHANGED <<req, answer, local, uploads, links, storage>>

Environment ==
    \/ \E w \in Workers : \/ Crash(w)
                          \/ CrashAfterCommit(w)
                          \/ DatabaseFailure(w)
                          \/ StoreFailure(w)
                          \/ DeleteFailure(w)
                          \/ LostCommit(w)
    \/ \E l \in links : DeleteLink(l)
    \/ \E d \in docs : DeleteDocument(d)

Next ==
    \/ \E w \in Workers : Step(w)
    \/ \E w \in Workers, s \in Slot : Receive(w, s)
    \/ \E w \in Workers : Reject(w)
    \/ Environment

Spec == Init /\ [][Next]_vars

\* A thread that has a request keeps running, and the database wakes a writer
\* when the transaction it waits for ends.
FairSpec == Spec /\ \A w \in Workers : WF_vars(Step(w))
-----------------------------------------------------------------------------
(* Properties.                                                              *)

\* Every variable has its type.
TypeOK ==
    /\ pc \in [Workers -> {"idle", "lookup", "get", "insert", "inspect",
                           "store", "save", "document", "link", "commit",
                           "dangling", "fail", "cleanup", "abort", "recheck"}]
    /\ req \in [Workers -> Slot]
    /\ answer \in [Workers -> {"none", "created", "existing", "refused",
                               "rejected", "error"}]
    /\ row \in [Workers -> Row]
    /\ created \in [Workers -> BOOLEAN]
    /\ stored \in [Workers -> File \cup {NoFile}]
    /\ pending \in [Workers -> SUBSET Link]
    /\ uploads \in [Slot -> Row]
    /\ docs \subseteq Slot
    /\ links \subseteq Link
    /\ storage \subseteq File
    /\ incidents \in 0..MaxIncidents

\* A tenant has at most one document of a type and access key, however the
\* transactions that check for one and create one interleave.
OneDocumentPerKey ==
    \A d, e \in docs : SameKey(d, e) => d = e

\* A document comes with the upload it was made of, committed in the same
\* transaction as "processed" and with the type and key of the document.
DocumentBacked ==
    \A d \in docs : /\ uploads[d].status = "processed"
                    /\ uploads[d].type = KindOf[d.content]
                    /\ uploads[d].key = KeyOf[d.content]

\* Uploads are seen as processed or failed only, never half done, and one is
\* processed exactly when its document exists.  (Without administrators, who
\* delete a document and leave its upload as it is.)
UploadsSettled ==
    \A s \in Slot : /\ uploads[s].status \in {"absent", "processed", "failed"}
                    /\ uploads[s].status = "processed" <=> s \in docs

\* The original XML of a processed upload is in the storage, in a file of its
\* own tenant and digest, although files and rows are not written atomically.
OriginalKept ==
    \A s \in Slot : uploads[s].status = "processed" =>
        /\ uploads[s].file \in storage
        /\ uploads[s].file.owner = s

\* Files that belong to no committed upload and to no request in progress.
Orphans ==
    {f \in storage : /\ \A s \in Slot : uploads[s].file # f
                     /\ \A w \in Workers : stored[w] # f}

\* The storage keeps no more stray files than there have been incidents: the
\* losers of every race clean up after themselves.
FilesAccounted == Cardinality(Orphans) <= incidents

\* A CT-e that refers to an NF-e of its tenant.
Refers(c, n) ==
    /\ c.tenant = n.tenant
    /\ KindOf[c.content] = "cte"
    /\ KindOf[n.content] = "nfe"
    /\ KeyOf[n.content] \in RefsOf[c.content]

\* A link joins two registered documents of one tenant, of which the CT-e
\* refers to the NF-e, also when either is deleted while the link is made.
LinksSound ==
    \A l \in links : /\ l.cte \in docs
                     /\ l.nfe \in docs
                     /\ Refers(l.cte, l.nfe)

\* A registered CT-e is linked to every registered NF-e it refers to
\* (implementation_plan.md:90, and "regardless of ingestion order" in
\* documents/tests/test_services.py:66).
LinksComplete ==
    \A c, n \in docs : Refers(c, n) => [cte |-> c, nfe |-> n] \in links

\* A valid document that the database can store is never answered with a
\* server error: the loser of a race finds the winner's document.
NoServerError ==
    \A w \in Workers : answer[w] = "error" => req[w].content \in Unstorable

\* The original of a processed upload is never replaced, and the upload never
\* fails or changes its type or key, also when it is registered again.
OriginalNeverReplaced ==
    [][\A s \in Slot : uploads[s].status = "processed" =>
                            uploads'[s] = uploads[s]]_vars

\* The statement of w cannot go on before the transaction of v ends.
WaitsFor(w, v) ==
    /\ v # w
    /\ pc[w] = "save" => req[w].content \notin OddKeys
    /\ \/ pc[w] \in {"insert", "save", "fail"} /\ HoldsRow(v) /\ req[v] = req[w]
       \/ pc[w] = "save" /\ HoldsKey(v) /\ SameKey(req[v], req[w])

\* No threads wait for each other in a circle, although a transaction locks
\* its row at one statement and its key at another: of every set of threads
\* one waits for none of the set.
NoCircularWait ==
    \A W \in (SUBSET Workers) \ {{}} :
        \E w \in W : \A v \in W : ~WaitsFor(w, v)

\* Every request is answered: no wait for a row or a key lasts forever.
EveryUploadAnswered ==
    \A w \in Workers : pc[w] # "idle" ~> pc[w] = "idle"

\* The threads, tables and files implement the registry: a request takes
\* effect in one step, and its answer is true of that step.
Registry == INSTANCE FiscalRegistry WITH
    Clients <- Workers,
    registered <- docs,
    open <- {w \in Workers : pc[w] # "idle"}

ImplementsRegistry == Registry!Spec
=============================================================================
