# SmartAudit: formal specification

SmartAudit is a multi-tenant Django application that receives the XML files of
Brazilian freight documents (CT-e) and invoices (NF-e), registers them once for
each tenant, links them, and lists them. This directory holds TLA+ models of
it, the TLC configurations that check them on small instances, and proofs that
TLAPS checks for instances of every size. Paths below are relative to
`src/src/smartaudit/`.

## 1. The system

| Component | State it keeps | Operations |
| --- | --- | --- |
| Document ingestion, `documents/services.py` | a transaction and a stored file per request in progress | `ingest_fiscal_xml` with `_existing_result`, `_record_parse_failure`, `_persist_document`, `_create_domain_document`, `_sync_cte_links`, `_sync_nfe_links`; the readers `list_fiscal_documents`, `get_fiscal_document` |
| Fiscal tables, `documents/models.py` | `DocumentUpload`, `CTe`, `NFe`, `CTeNFeLink` rows with unique constraints and protected foreign keys | insert, update, delete |
| File storage (Django) | the original XML files, by tenant and digest | save under a free name, delete |
| Upload, list and detail endpoints, `documents/api.py` | none | map results and errors to 200, 201, 400, 404, 413 |
| Parser, `documents/parsers.py` | none | `parse_fiscal_xml` |
| Document administration, `documents/admin.py` | none | edit and delete rows |
| Tokens, `api.py`, `accounts/services.py`, `accounts/backends.py` | none on the server; JWTs at the clients | login, refresh, authenticate a request |
| Tenant boundary, `tenants/*` | `Membership` and `Tenant` rows; the tenant selected in the session | resolve by header or by session, select, check the role |
| Accounts, `accounts/models.py`, `accounts/managers.py` | `User` rows | create |
| Celery, settings, core | none | configuration; no task is defined |

**Interaction.** A request is authenticated, resolved to a membership and a
tenant, checked for its role, and handed with the tenant to the service. The
services meet only in PostgreSQL and in the storage. There is no queue, no
cache and no lock of the application's own: unique constraints decide every
race. The database runs at READ COMMITTED and requests are not wrapped in a
transaction (`settings/base.py` sets neither), so that every statement sees
what is committed when it starts, and only `_persist_document` and
`_record_parse_failure` are atomic, each in its own `transaction.atomic()`.

**What is hard.** Two requests for one document run between each other's
statements; the file is written inside a transaction that can still roll back;
the COMMIT, the process and the storage can fail at any point; links are
computed from what happens to be committed; administrators delete rows under
requests in progress. `PROJECT.json` lists these hazards line by line, with the
properties that would show each going wrong.

**What makes each component correct.**

* Ingestion: at most one document for each tenant, type and key; the answer is
  true; no race ends in a server error; nothing half done is visible; every
  request is answered.
* Tables and storage: every document has its processed upload, every processed
  upload its original; no stray files without an incident; originals never
  change.
* Links: only within a tenant, between registered documents of which one refers
  to the other; never missing without a reason.
* Readers: a listing is of one tenant and misses no document that was there
  throughout; what an upload was told is registered can be looked up.
* Tenant boundary: an operation acts for the user of its token or session, in
  one tenant, with a role the user had there while the request ran; nobody is
  refused without a cause; a session selects only what its owner could select.
* Tokens: access ends a bounded time after the last login that was good.
* Parser: references without duplicates, maxima and sums as the document means
  them; of several things wrong with a document the first in the order of the
  code is its error, unless an exception escapes the parser, which is a 500;
  nothing accepted that the tables refuse, but for what section 2 names.

## 2. Modules

| Module | What it is |
| --- | --- |
| `Ingestion` | the request threads, the tables, the locks, the storage and what can befall them; the properties |
| `FiscalRegistry` | the abstract specification: a registry whose requests take effect in one step |
| `LinkRaces` | `Ingestion` with a history variable of the pairs of documents that may have missed each other |
| `Readers` | `Ingestion` composed with clients that list documents and look them up |
| `TenantAccess` | which user, tenant and role a request acts with, while all of these change |
| `Accounts` | login, refresh and use of tokens over time |
| `FiscalParser`, `Intake` | the parser as operators; one upload from its file to the parsed document |
| `MCIngestion`, `MCLinkRaces`, `MCReaders`, `MCTenantAccess`, `MCAccounts`, `MCIntake` | values of the constants for TLC |
| `IngestionProofs` | TLAPS: types, one document per key, documents backed by uploads, uploads settled; no circle of waits, no request goes back |
| `StorageProofs` | TLAPS: originals in the storage and never replaced, stray files accounted for |
| `LinkProofs` | TLAPS: links are sound, and missing only after an overlap or a deletion |
| `RegistryProofs` | TLAPS: `Ingestion` implements `FiscalRegistry`; no server errors |
| `ReadersProofs` | TLAPS: what is told is found, listings are faithful |
| `AccountsProofs`, `TenantAccessProofs` | TLAPS: the properties of the two modules they are named for |
| `IntakeProofs` | TLAPS: what the folds of the parser return, and from it the properties of `Intake`, for files of every size |

`FiscalParser` and `Intake` end where `Ingestion` starts: what they say of a
file are the constants `KindOf`, `KeyOf` and `RefsOf` there. `Readers` and
`LinkRaces` extend `Ingestion`. `Accounts` says which tokens decode to which
user, and `TenantAccess` starts from that user.

### Ingestion

The *content* of a file stands for its bytes and its SHA-256; what
`parse_fiscal_xml` makes of it is given by the constants `KindOf`, `KeyOf` and
`RefsOf`. A *slot* is a tenant with a content, the unique key of
`DocumentUpload`; because a document is one-to-one with its upload, documents
are named by slots as well. `Unstorable` contents are parsed and then refused
by the database: the parser bounds neither the length of `number` (20
characters in the table) nor the size of decimals, and accepts digits outside
ASCII, which the check constraints do not. When such a digit is in the access
key (`OddKeys`), `upload.save()` is refused already, before it waits for
anything; every other value is refused when the document is created.

| State | Code |
| --- | --- |
| `uploads`, `docs`, `links` | committed rows of the four tables |
| `storage` | files under `MEDIA_ROOT`; the name is plain or has a random suffix |
| `pc`, `req`, `answer` | the thread's next statement, its tenant and content, its HTTP answer: `created` 201, `existing` 200, `refused` 400 with a recorded failure, `rejected` 400, 403 or 413 without one (or the 500 of an exception that escapes the parser), `error` 500, `none` no answer |
| `row`, `created`, `stored`, `pending` | `upload`, whether this transaction inserted it, `stored_name`, and the links inserted and not committed |

One action is one statement that reads or writes what others can see:

| Action | Statement of `documents/services.py` |
| --- | --- |
| `Receive`, `Reject` | the checks of name and size and the parser, lines 220-249 |
| `Lookup` | `_existing_result`, 250-252 |
| `GetUpload`, `InsertUpload` | the SELECT and the INSERT of `get_or_create`, 166-173 and 84-91 |
| `Inspect` | `_document_for_upload`, 174-181 |
| `Store` | `source_file.save`, 190-196 |
| `Save` | `upload.save()`, 197 |
| `CreateDocument` | `CTe.objects.create`, `NFe.objects.create`, 143-151 |
| `SyncLinks` | `_sync_cte_links`, `_sync_nfe_links` and the status, 108-133 and 200-204 |
| `Commit`, `CommitDangling` | the end of `transaction.atomic()`; the second when a deferred foreign key fails |
| `RecordFailure` | the update of `_record_parse_failure` and its COMMIT, 90-105 |
| `Cleanup`, `Recheck` | the two `except` clauses, 206-209 and 263-267 |

Uncommitted writes are in the thread's own variables and become visible with
`Publish`; a rollback throws them away. The locks they imply are derived:
`HoldsRow` for the row a thread has inserted or updated, `HoldsKey` for its
entry in the unique index by tenant, type and key. A writer of the same row or
key waits (`RowBusy`, `KeyBusy`), and then either goes on or, if the other has
committed, gets an `IntegrityError` (`KeyTaken`). The rollback is merged with
the statement that fails. The update of the status follows the links without a
shared effect in between and is part of `SyncLinks`. The update of
`_record_parse_failure` and the COMMIT that follows it are one action as well:
nobody who waits for the row can tell them apart.

The environment may crash a thread (before or after either COMMIT, that of a
document or that of a recorded failure), fail a statement, fail the storage
while it writes (a partial file stays) or deletes, lose the acknowledgement of
either COMMIT (`Commits`), which for a recorded failure is answered 500 and not
400, and delete links and documents as an administrator. Each of these counts as an incident, `Incidents` says which
kinds there are, and `MaxIncidents` bounds their number.

### FiscalRegistry

A client submits a request, and one later step answers it. `created` registers
the document in that step, `existing` finds one at that moment, `refused` is
for invalid contents; a document may also be registered with the client never
told. `ImplementsRegistry` maps `docs` to `registered` and the threads that are
not idle to `open`.

### LinkRaces

`raced` collects, at each COMMIT, the pairs of the new document with the
documents of threads that have already selected their counterparts, and the
links administrators delete.

### Readers

`Upload` is any step of `Ingestion`, with what it adds to the history. A
listing of all documents is `ListCTes` and `ListNFes`, the two statements of
`list_fiscal_documents` (lines 279-284), of no transaction; `listing[c]` holds
the result so far, and as history the documents that were registered at every
moment and at some moment since the first statement. A listing of one type is
one statement and has nothing between. `DocumentDetail` is `document_detail`
with `get_fiscal_document`: 200 or 404 for a tenant, a type and a key. `told`
is history: the documents that uploads were answered with, until they are
deleted. A listing is not a snapshot, and `ListingFaithful` does not ask for
one. Its order, by date of issue, is left out.

### TenantAccess

| Action | Code |
| --- | --- |
| `Arrive` | a request reaches Django: an API request with a token and a header, or a page of the browser session |
| `LoadSession` | `request.user` is evaluated: the row of the session and the SELECT of its user (merged: the session row names a user, and only the user's state matters) |
| `Middleware` | `TenantContextMiddleware`, `tenants/middleware.py` |
| `CheckToken` | `get_active_user_from_token` as `TenantJWTAuth` calls it, `api.py` |
| `ResolveHeader` | `resolve_tenant_from_header` and the role guard of the endpoint |
| `GuardedView`, `SelectTenant` | a view behind `require_roles`; a page that calls `activate_tenant_session` |
| `Respond` | the answer, and `SessionMiddleware` saves a modified session as a whole |
| `ChangeUser`, `ChangeTenant` | the forms of the administration, each one transaction; that of a tenant has its memberships inline |

`user`, `member`, `loaded` and `dirty` are what a request has in memory;
`session` is what is saved. `seen` is history: the combinations of active users
and effective roles at every moment since the request arrived. Properties
compare what a request does with them. `MembershipWitnessed` says no more than
the code gives: the role was held at some moment of the request, not that it
is still. `UserAndRoleTogether` marks how far the two SELECTs can be apart:
with one change during the request, user and role were good at one moment;
with two they need not be.

A token stands for the user it decodes to, `Nobody` for one that does not
decode. No view calls `activate_tenant_session` yet; the module assumes a page
that does, as the function is written for.

### Accounts

`CheckPassword` is `authenticate_user`, `Decode` is `decode_token`, `FindUser`
the SELECT of `get_active_user_from_token`, `Issue` the end of the login
(`issue_token_pair`) or of the refresh (`issue_access_token`), `Use` an API
request that was accepted. Administrators change `is_active` and passwords
between any two. The server keeps no tokens; `expiry` holds the longest-lived
token of each kind that descends from a login with a credential, which stands
for the others because every use of an older one is possible with it. `proved`
is history: when a login with the credential last read the user. `MaxDuration`
bounds how long a request may take, as the server's timeout does: without it a
login could read the user today and issue its tokens next year, and no access
would ever be known to have lapsed. Signature, issuer and audience are not
modelled: a token is one the server has issued or one that does not decode.

### FiscalParser and Intake

A document is a record of the fields the parser reads, each reduced to the
class that decides its fate (listed at the head of `FiscalParser`). Each helper
of `documents/parsers.py` is an operator that returns a value or raises, and
`_parse_cte`, `_parse_nfe` are the sequence of their steps (`CTeSteps`,
`NFeSteps`) in the order Python evaluates them: the first error is the answer,
and without one their values make up `ParsedCTe`, `ParsedNFe`. Two things raise
something else than a `DocumentParseError`, which nothing catches: an encoding
that Python does not know or knows as one of several bytes, and a sum of
decimals beyond the exponents of the context (`MaxDecimal`). The answer is a
500 without a recorded failure, `UNCAUGHT` here and `Reject` in `Ingestion`. `CTe`, `NFe` and
`FiscalXML` are the types of the documents; `FileAssumption` says that the
uploaded files are of them, and puts no bound on the references, measures and
volumes of one. `parse_fiscal_xml` chooses by local name and namespace.
`Intake` adds the read of one byte beyond the limit
(`api.py`), the checks of name and size, and the parser, for one upload, which
shares nothing with others before `Ingestion`.

`AcceptedFitsChecks` compares the parser with the check constraints of
`documents/models.py` (`PassesChecks`), and says where they differ: a document
that is accepted passes them exactly when its access key and its identifiers
have no digit that Python takes for one (`str.isdigit`, `\d`) and the
expressions of the database do not (class `odd`). Those documents, and texts
and decimals wider than their columns, which are no matter of a check, are the
`Unstorable` contents of `Ingestion` and end in a 500 with nothing stored. The
keys a CT-e refers to may be odd too: they are in a JSON column, which nothing
checks.

## 3. Runs

| Run | Instance | Checks | Distinct states |
| --- | --- | --- | --- |
| `ingestion` | 2 threads, 1 tenant, 2 files of a CT-e, its NF-e, an invalid file, two that cannot be stored; 1 crash | `TypeOK`, `UploadsSettled`, `OriginalKept`, `NoServerError`, `ImplementsRegistry` | 656,848 |
| `faults` | 2 threads, 2 files of a CT-e, its NF-e, an invalid file; 2 crashes, failures, lost acknowledgements or deletions; symmetry of threads | `FilesAccounted`, `ImplementsRegistry` | 1,420,230 |
| `three_threads` | 3 threads, 2 files of a CT-e, an invalid file; fairness | `OneDocumentPerKey`, `NoServerError`, `NoCircularWait`, `EveryUploadAnswered` | 74,220 |
| `deletions` | 2 threads, 2 tenants, a CT-e and its NF-e in both; 2 deletions; symmetry of threads and of tenants | `DocumentBacked`, `OriginalKept`, `LinksSound`, `MissingLinkOnlyByRace`, `OriginalNeverReplaced` | 387,624 |
| `readers` | the same with 1 deletion, and 1 client that lists | `ListingFaithful`, `ToldIsFound` | 799,667 |
| `access` | 1 request at a time, 2 users, 2 tenants, 2 roles, a browser; 2 changes | `TypeOK`, `MembershipWitnessed`, `UserAndRoleTogether`, `RefusedForCause` | 2,134,953 |
| `sessions` | 2 requests of one browser or by token, 1 user, 2 tenants, 1 role; 1 change; symmetry of requests and tenants | `MembershipWitnessed`, `SelectionEarned` | 1,786,187 |
| `tokens` | 2 requests, 1 user, 2 passwords, lifetimes 1 and 2, duration 1, 6 ticks; 2 changes; symmetry of requests and passwords | `TypeOK`, `AccessLapses` | 2,481,694 |
| `intake` | about 20,000 files | `LimitExact`, `ReferencesOnce`, `WeightIsHeaviest`, `TotalsAddUp`, `AcceptedFitsChecks` | 77,380 |
| `missed_link` | 2 threads, a CT-e and its NF-e | `LinksComplete`, violated | |
| `lost_commit` | 1 thread, a CT-e; 1 lost acknowledgement | `OriginalKept`, violated | |
| `stuck_key` | 1 thread, 2 files of a CT-e; 1 deletion | `NoServerError`, violated | |

All runs but the violated ones are exhaustive. All check for deadlock, threads
that wait for each other being one, except `intake`, whose single request ends.

**Bounds.** Two threads are enough for every pair of statements to meet, and
three for a chain of waits: the one that holds the key, the one that waits for
it with a row of its own, and the one that waits for that row. Requests are not
bounded; a thread that is idle takes another. Two contents of one key are what
the two unique constraints distinguish, and the NF-e, the invalid and the
unstorable files (refused by the key and later) take the remaining branches. `Names` has one name more than
there can be files of one slot at a time (a stray file for each incident, one
being cleaned up, one being stored), so that the storage never runs out of
them. Two incidents are enough for a failure while another is cleaned up, and
two deletions to remove a link and then a document, and to register the
document again. Two changes are enough to withdraw and to grant, or for the
user and the membership to change in either order between two SELECTs; with
one role in `sessions` what matters is whether there is a membership. In
`tokens` the refresh token outlives the access token, six ticks are more than
`Lapse` and one change more than deactivation is reactivation. In `intake`
every pair of fields of a good document takes every pair of values, sequences
have up to three references, two measures and two volumes, and sizes go from
zero to three bytes beyond the limit; `MaxDecimal` is less than the two
greatest amounts together and not less than either.

**Fairness.** `EveryUploadAnswered` assumes weak fairness of every thread's
own statements and of nothing else: a thread of the server keeps running, and
PostgreSQL wakes a writer when the transaction it waits for ends. No client and
no administrator is assumed to do anything. Strong fairness is not needed: once
the holder of a key has committed it stays taken, so that a waiting writer is
not overtaken for ever.

**Mutants.** Each property of a passing run is shown to depend on the code: the
modules define, next to a definition, what it would be with a plausible bug
(`RecheckRaises`, `CommitThenDelete`, `NFeLinksOfAnyTenant`,
`PreferSession`, `IssueRotating`, `ReadToLimit`, ...), and the
property fails with it. Two of them are coarser than a slip in the code would
be: `KeyNeverBusy` stands for a schema without any constraint by key, since
the constraint of either table stops the second document alone; and under
`HoldsKeyEarly` the statement that waits for the key is still `upload.save()`.

## 4. What the violated runs show

* `missed_link`. The link functions read what is committed. When a CT-e and its
  NF-e are registered by overlapping transactions, neither finds the other, and
  no later step looks again: the pair stays unlinked.
  `MissingLinkOnlyByRace` shows that this is the only way, deletions apart.
* `lost_commit`. An exception at the end of `transaction.atomic()` does not
  mean that the database has rolled back. When only the acknowledgement of the
  COMMIT is lost, the cleanup deletes the file of a committed upload. Answers
  stay idempotent, so that no retry restores it.
* `stuck_key`. Deleting a document in the administration leaves its upload,
  processed, with its type and key. The same bytes can be registered again;
  other bytes of the same document fail on the upload's unique constraint, and
  the recheck looks for a document and finds none.

## 5. Proofs

The assumptions are those on the constants: the maps are functions of the right
type, `NoKey` is no key, `NoFile` no file, and so on. The sets of threads,
tenants, contents, names, users, requests and browsers may have any size.

* `IngestionProofs`. `TypeOK` is not inductive, because `upload.save()` writes
  the kind of the content into the row, and "invalid" is not a type of row.
  `Control` adds where a thread holds a valid content, may have inserted its
  row and may have pending links; `TypeOK /\ Control` is inductive.
  `Registers` adds the argument for one document per key: from `upload.save()`
  to the COMMIT a thread has the index entry of its key to itself
  (`KeysExclusive`), so that the absence of a document it has checked when
  creating its own lasts until the COMMIT (`KeysFree`), and the row it
  publishes is processed and has its type and key (`RowsReady`).
  `UploadsSettled` follows because only `Publish` and `RecordFailure` write
  rows (`DatabaseEffect`): the first writes a processed row with its document,
  the second is for invalid contents, which have none. It assumes that no
  document is deleted; a deletion leaves the upload behind.

  The rest is about waits. A thread locks its row by the INSERT or by
  `upload.save()`, and only while no other thread has it, so that the locks on
  a row exclude each other (`RowsExclusive`). A thread that is waited for and
  waits itself has its row by the INSERT, hence waits for a key, and whoever
  has that key is past `upload.save()` and waits for nothing (`ShortWaits`): a
  chain of waits has two links at most and none closes (`NoCircularWait`). And
  no step takes a request back to an earlier statement (`RequestsAdvance`).
  Together they are what `EveryUploadAnswered` rests on, apart from the
  fairness of the threads.
* `StorageProofs`. `Files` is the ownership of files: a thread that has found
  its row carries the file of the committed row, one that has inserted it
  carries the file it has stored, and while it has, no committed row is there
  (`RowsFiled`); a stored file belongs to no other thread and to no row
  (`StoredOwned`), except to the row of a thread that takes a lost
  acknowledgement for a rollback and is about to delete it. `Files` is
  inductive under every incident. From it, a COMMIT over a processed row writes
  the row that is there (`OriginalNeverReplaced`), and every step that adds a
  stray file is an incident that adds one (`FilesAccounted`, from `OrphansStep`
  and `OrphansIncident`). Only `OriginalKept` assumes that no acknowledgement
  of a COMMIT is lost, without which the run `lost_commit` refutes it: then no
  thread has the file of a committed upload to delete (`Kept`).
* `LinkProofs`. A thread that is about to commit has only pending links that
  join its document with registered ones (`PendingSound`): deleting a document
  is refused for committed links, and sends a thread with a pending one to the
  deferred foreign key error. With it `LinksSound` is inductive. For
  `MissingLinkOnlyByRace`, `Accounted` says that such a thread has a pending
  link for every registered document that it and its own refer to, except for
  those that were published after its SELECT, which are in `raced`.
* `RegistryProofs`. `ImplementsRegistryCorrect` is the refinement, for all
  constants and all incidents: under `Registers` every step of `Ingestion` is a
  step of `FiscalRegistry` or leaves its variables alone. The answers `created`
  and `existing` are the ones with something to show: that no document of the
  key was there before the COMMIT, and that one is there when `existing` is
  answered. `NoServerErrorCorrect` assumes that processes only die. Its
  invariant `Benign` says that a row with a type is of a registered document
  (`TypesRegistered`), so that a thread whose key is taken will find the
  document, and that a thread leaves its transaction only when there is such a
  document or the content cannot be stored (`LeavesForCause`).
* `ReadersProofs`. `ToldIsFound` is proved from the abstract registry, not from
  the threads: by the refinement an answer `created` or `existing` comes with a
  document of that name, `OneDocumentPerKey` makes it the only one, and it
  leaves `docs` only by a deletion, which takes it from `told`. For
  `ListingFaithful`, `Listings` says of a listing between its statements that
  it has found the CT-es that were there throughout and none that never were.
* `AccountsProofs`. `AccessLapses` is a chain of bounds, which `Lineage` states
  link by link: the login bounds the refresh token, the refresh token the last
  refresh that is let in, that refresh the last access token, and that token
  its last use. The bounds have to be stated for requests in progress as well,
  which may still issue what they were let in for.
* `TenantAccessProofs`. `Course` follows a request: what it has in memory was
  read in one of the worlds it has seen, and where it is says which checks it
  has passed; `SelectionEarned` needs of it that a session to be saved selects
  nothing or a tenant its owner was a member of. `Paired` is for
  `UserAndRoleTogether`: two worlds that are all a request has seen differ in
  users or in roles, not in both.

* `IntakeProofs`. The request reads only a file that has a good name and is not
  too large, has read one byte beyond the limit at most, and is answered with
  `Verdict` of the file (`IntakeInv`); so what is left to prove is about
  operators. The parser is written with folds over sequences of any length.
  The provers cannot use an induction theorem that takes an operator, but they
  can use that every set of naturals that is not empty has a least element
  (`LeastNatural`): `UpTo` is induction over the first `n` numbers as a fact
  about a set of them, and `FoldExists` shows with it that the functions by
  which the community modules define their folds exist and unfold as written.
  `OnceSteps`, `HeaviestSteps` and `TotalSteps` then give the values after each
  element, and `OnceCorrect`, `HeaviestCorrect`, `TotalCorrect` what is there
  at the end: each reference once, in the order of first mention; the greatest
  of the weights, or zero; the sums, which `TotalsAddUp` states as a sum over
  the set of volumes (`SumExists`, `SumGrown`).
  `AcceptedFitsChecks` needs no induction: each column is the value of a step
  that did not raise, and such a step lets an odd digit through as it is and
  nothing else that a check refuses.

Only model-checked: `EveryUploadAnswered`, because liveness and `ENABLED` are
outside of what the provers handle. Every other property of a passing run is
proved, under the assumptions named above.

## 6. Not modelled, and plan

* Deletion of uploads, and edits of rows, in the administration. Both are
  possible in its forms. An upload deleted under a request that has selected
  it is inserted again by `upload.save()`, with its old primary key, which
  `Ingestion` does not have: rows there are identified by their slot. Edits may
  write anything, also what no request can write.
* A new release of the parser that accepts a file that failed before: `KindOf`
  is constant.
* The creation of users with a canonical e-mail, which is sequential and which
  the unique constraint of the table decides.
* Signature, issuer and audience of tokens, which are the work of a library;
  hashing of passwords.
* The order of listings and the layout of answers.
* Celery, which has no task; settings, templates, views and migrations, of
  which the transaction mode and the isolation level are read and fixed in the
  models.

What is left of the plan: primary keys for uploads in `Ingestion`, so that
administrators can delete them; `KindOf` as a variable that a release changes
for failed contents, with `UploadsSettled` and the refinement over it.
