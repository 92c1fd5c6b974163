-------------------------- MODULE IngestionProofs --------------------------
(****************************************************************************)
(* Theorems about Ingestion, for every value of its constants.              *)
(*                                                                          *)
(*   1. TypeOK, together with Control: where a thread is says what it holds *)
(*   2. Registers: one document per key, each backed by its upload          *)
(*   3. UploadsSettled: uploads are failed, or processed with a document    *)
(*   4. RowsExclusive: the locks on rows, and why no circle of waits closes *)
(*   5. RequestsAdvance: no request goes back to an earlier statement       *)
(****************************************************************************)
EXTENDS Ingestion, TLAPS

-----------------------------------------------------------------------------
(* The values the actions write.                                            *)

\* No row and the row get_or_create inserts are rows.
LEMMA RowTypes == NoRow \in Row /\ NewRow \in Row
BY NameAssumption DEF NoRow, NewRow, Row

\* What the statements assign to the columns of an upload leaves it a row.
LEMMA RowUpdates ==
    ASSUME NEW r \in Row
    PROVE  /\ \A f \in File : [r EXCEPT !.file = f] \in Row
           /\ \A t \in {"cte", "nfe"}, k \in Keys :
                 [r EXCEPT !.type = t, !.key = k,
                           !.status = "processing"] \in Row
           /\ [r EXCEPT !.status = "processed"] \in Row
           /\ [r EXCEPT !.type = "unknown", !.status = "failed"] \in Row
BY DEF Row

\* Storage.save returns a file of its slot that is not in the storage.
LEMMA FreshFilesFresh ==
    ASSUME NEW s \in Slot, NEW f \in FreshFiles(s)
    PROVE  f \in File /\ f \notin storage /\ f.owner = s /\ f # NoFile
BY NameAssumption, NoFileAssumption DEF FreshFiles, File

\* What the two _sync_ functions make are links, of slots.
LEMMA LinksTyped ==
    ASSUME TypeOK, NEW s \in Slot
    PROVE  CTeLinks(s) \subseteq Link /\ NFeLinks(s) \subseteq Link
BY DEF TypeOK, CTeLinks, NFeLinks, CTes, NFes, Link

\* A content that is parsed is a CT-e or an NF-e, and has an access key.
LEMMA ContentTypes ==
    ASSUME NEW s \in Slot
    PROVE  /\ KeyOf[s.content] \in Keys
           /\ IsValid(s) => KindOf[s.content] \in {"cte", "nfe"}
BY ContentAssumption DEF Slot, IsValid

-----------------------------------------------------------------------------
(* Type correctness.  TypeOK is not inductive: upload.save() writes the type *)
(* of the content, which is one of the row's types only if the content is    *)
(* valid.  Control says, for the thread w, what is true where it is.         *)

\* Past the parser, a thread holds a valid content until it gives up; and it
\* fails, has inserted or has linked only where the code says so.
Local(w) ==
    /\ pc[w] \in {"lookup", "inspect", "store", "save", "document", "link",
                  "commit", "dangling"} => IsValid(req[w])
    /\ pc[w] = "fail" => ~IsValid(req[w])
    /\ created[w] => pc[w] \in {"store", "save", "document", "link", "commit",
                                "dangling", "fail"}
    /\ pending[w] # {} => pc[w] \in {"commit", "dangling"}

Control == \A w \in Workers : Local(w)

\* Before the first request.
LEMMA InitControl == Init => TypeOK /\ Control
BY RowTypes, IncidentAssumption DEF Init, TypeOK, Control, Local

\* The tables, the storage and the counter: what the actions that end a
\* request or a transaction leave to be shown.
SharedOK ==
    /\ uploads \in [Slot -> Row]
    /\ docs \subseteq Slot
    /\ links \subseteq Link
    /\ storage \subseteq File
    /\ incidents \in 0..MaxIncidents

\* A thread that answers holds nothing afterwards.
LEMMA ControlReply ==
    ASSUME TypeOK, Control, NEW w \in Workers,
           NEW a \in {"none", "created", "existing", "refused", "rejected",
                      "error"},
           Reply(w, a), SharedOK'
    PROVE  TypeOK' /\ Control'
BY RowTypes DEF TypeOK, SharedOK, Control, Local, Reply, GoTo

\* A thread whose transaction is rolled back has inserted and linked nothing.
LEMMA ControlRollback ==
    ASSUME TypeOK, Control, NEW w \in Workers,
           NEW label \in {"cleanup", "abort"}, Rollback(w, label), SharedOK'
    PROVE  TypeOK' /\ Control'
BY RowTypes DEF TypeOK, SharedOK, Control, Local, Rollback, GoTo

\* get_or_create: both of its ways to have a row.
LEMMA ControlHaveRow ==
    ASSUME TypeOK, Control, NEW w \in Workers, NEW r \in Row,
           NEW new \in BOOLEAN, HaveRow(w, r, new),
           pc[w] \in {"get", "insert"},
           UNCHANGED <<req, answer, stored, pending, db, storage, incidents>>
    PROVE  TypeOK' /\ Control'
<1>1. /\ pc' = [pc EXCEPT ![w] = IF ~IsValid(req[w]) THEN "fail"
                                 ELSE IF new THEN "store" ELSE "inspect"]
      /\ pending[w] = {}
  BY DEF HaveRow, GoTo, Control, Local
<1>2. TypeOK'
  BY <1>1 DEF HaveRow, TypeOK, db
<1>3. ASSUME NEW v \in Workers PROVE Local(v)'
  <2>1. CASE v # w
    BY <1>1, <2>1 DEF HaveRow, TypeOK, Control, Local, IsValid
  <2>2. CASE v = w
    <3>1. pc'[w] = IF ~IsValid(req[w]) THEN "fail"
                   ELSE IF new THEN "store" ELSE "inspect"
      BY <1>1 DEF TypeOK
    <3>2. created'[w] = new /\ req' = req /\ pending' = pending
      BY DEF HaveRow, TypeOK
    <3>3. CASE IsValid(req[w])
      BY <1>1, <2>2, <3>1, <3>2, <3>3 DEF Local, IsValid
    <3>4. CASE ~IsValid(req[w])
      BY <1>1, <2>2, <3>1, <3>2, <3>4 DEF Local, IsValid
    <3> QED BY <3>3, <3>4
  <2> QED BY <2>1, <2>2
<1> QED BY <1>2, <1>3 DEF Control

\* A COMMIT writes rows, documents and links.
LEMMA PublishShared ==
    ASSUME TypeOK, NEW w \in Workers, Publish(w)
    PROVE  uploads' \in [Slot -> Row] /\ docs' \subseteq Slot
           /\ links' \subseteq Link
BY DEF TypeOK, Publish

\* The COMMIT of a failure writes a row.
LEMMA FailureShared ==
    ASSUME TypeOK, NEW w \in Workers, PublishFailure(w)
    PROVE  uploads' \in [Slot -> Row] /\ docs' = docs /\ links' = links
<1> DEFINE base == IF created[w] THEN row[w] ELSE uploads[req[w]]
<1>1. base \in Row /\ req[w] \in Slot
  BY DEF TypeOK
<1>2. [base EXCEPT !.type = "unknown", !.status = "failed"] \in Row
  BY <1>1, RowUpdates
<1>3. uploads' = [uploads EXCEPT ![req[w]] =
            [base EXCEPT !.type = "unknown", !.status = "failed"]]
      /\ docs' = docs /\ links' = links
  BY DEF PublishFailure
<1> HIDE DEF base
<1>4. uploads' \in [Slot -> Row]
  BY <1>1, <1>2, <1>3 DEF TypeOK
<1> QED BY <1>3, <1>4

\* Either COMMIT keeps the types of the tables.
LEMMA CommitsShared ==
    ASSUME TypeOK, NEW w \in Workers, Commits(w)
    PROVE  uploads' \in [Slot -> Row] /\ docs' \subseteq Slot
           /\ links' \subseteq Link
<1>1. docs \subseteq Slot /\ links \subseteq Link
  BY DEF TypeOK
<1> QED BY <1>1, PublishShared, FailureShared DEF Commits

\* Incidents are counted up to their bound.
LEMMA IncidentShared ==
    ASSUME TypeOK, NEW kind, Incident(kind)
    PROVE  incidents' \in 0..MaxIncidents
BY IncidentAssumption DEF TypeOK, Incident

\* Every statement of a request thread keeps TypeOK and Control.
LEMMA ControlStep ==
    ASSUME TypeOK, Control, NEW w \in Workers, Step(w)
    PROVE  TypeOK' /\ Control'
<1>1. CASE Lookup(w)
  <2>1. CASE Reply(w, "existing")
    BY <1>1, <2>1, ControlReply DEF Lookup, TypeOK, SharedOK, db
  <2>2. CASE UNCHANGED local /\ GoTo(w, "get") /\ UNCHANGED <<req, answer>>
    BY <1>1, <2>2 DEF Lookup, TypeOK, Control, Local, IsValid, GoTo, db, local
  <2> QED BY <1>1, <2>1, <2>2 DEF Lookup
<1>2. CASE GetUpload(w)
  <2>1. CASE HaveRow(w, uploads[req[w]], FALSE)
    BY <1>2, <2>1, ControlHaveRow DEF GetUpload, TypeOK
  <2>2. CASE GoTo(w, "insert") /\ UNCHANGED <<row, created>>
    BY <1>2, <2>2
    DEF GetUpload, TypeOK, Control, Local, IsValid, GoTo, db
  <2> QED BY <1>2, <2>1, <2>2 DEF GetUpload
<1>3. CASE InsertUpload(w)
  BY <1>3, ControlHaveRow, RowTypes DEF InsertUpload, TypeOK
<1>4. CASE Inspect(w)
  <2>1. CASE Reply(w, "existing")
    BY <1>4, <2>1, ControlReply DEF Inspect, TypeOK, SharedOK, db
  <2>2. CASE UNCHANGED local /\ GoTo(w, "store") /\ UNCHANGED <<req, answer>>
    BY <1>4, <2>2 DEF Inspect, TypeOK, Control, Local, IsValid, GoTo, db, local
  <2> QED BY <1>4, <2>1, <2>2 DEF Inspect
<1>5. CASE Store(w)
  <2>1. row' \in [Workers -> Row] /\ stored' \in [Workers -> File \cup {NoFile}]
        /\ storage' \subseteq File
    <3>1. ASSUME NEW f \in File PROVE [row[w] EXCEPT !.file = f] \in Row
      BY RowUpdates DEF TypeOK
    <3>2. ASSUME NEW f \in File, row' = [row EXCEPT ![w].file = f]
          PROVE  row' \in [Workers -> Row]
      BY <3>1, <3>2 DEF TypeOK
    <3> QED BY <1>5, <3>2, FreshFilesFresh DEF Store, TypeOK
  <2>2. TypeOK'
    BY <1>5, <2>1 DEF Store, TypeOK, GoTo, db
  <2>3. Control'
    BY <1>5 DEF Store, TypeOK, Control, Local, IsValid, GoTo
  <2> QED BY <2>2, <2>3
<1>6. CASE Save(w)
  <2>1. CASE Rollback(w, "cleanup")
    BY <1>6, <2>1, ControlRollback DEF Save, TypeOK, SharedOK, db
  <2>2. CASE ~Rollback(w, "cleanup")
    <3>1. IsValid(req[w]) /\ req[w] \in Slot
      BY <1>6 DEF Save, Control, Local, TypeOK
    <3>2. row' \in [Workers -> Row]
      <4>1. KindOf[req[w].content] \in {"cte", "nfe"}
            /\ KeyOf[req[w].content] \in Keys
        BY <3>1, ContentTypes
      <4>2. [row[w] EXCEPT !.type = KindOf[req[w].content],
                           !.key = KeyOf[req[w].content],
                           !.status = "processing"] \in Row
        BY <4>1, RowUpdates DEF TypeOK
      <4> QED BY <1>6, <2>2, <4>2 DEF Save, TypeOK
    <3>3. TypeOK'
      BY <1>6, <2>2, <3>2 DEF Save, TypeOK, GoTo, db
    <3>4. Control'
      BY <1>6, <2>2, <3>1 DEF Save, TypeOK, Control, Local, IsValid, GoTo
    <3> QED BY <3>3, <3>4
  <2> QED BY <2>1, <2>2
<1>7. CASE CreateDocument(w)
  <2>1. ASSUME NEW label \in {"cleanup", "abort"}, Rollback(w, label)
        PROVE  TypeOK' /\ Control'
    BY <1>7, <2>1, ControlRollback DEF CreateDocument, TypeOK, SharedOK, db
  <2>2. CASE UNCHANGED local /\ GoTo(w, "link") /\ UNCHANGED <<req, answer>>
    BY <1>7, <2>2
    DEF CreateDocument, TypeOK, Control, Local, IsValid, GoTo, db, local
  <2> QED BY <1>7, <2>1, <2>2 DEF CreateDocument
<1>8. CASE SyncLinks(w)
  <2>1. pending' \in [Workers -> SUBSET Link]
    BY <1>8, LinksTyped DEF SyncLinks, TypeOK
  <2>2. row' \in [Workers -> Row]
    <3>1. [row[w] EXCEPT !.status = "processed"] \in Row
      BY RowUpdates DEF TypeOK
    <3> QED BY <1>8, <3>1 DEF SyncLinks, TypeOK
  <2>3. TypeOK'
    BY <1>8, <2>1, <2>2 DEF SyncLinks, TypeOK, GoTo, db
  <2>4. Control'
    BY <1>8 DEF SyncLinks, TypeOK, Control, Local, IsValid, GoTo
  <2> QED BY <2>3, <2>4
<1>9. CASE Commit(w)
  BY <1>9, ControlReply, PublishShared DEF Commit, TypeOK, SharedOK
<1>10. CASE CommitDangling(w)
  BY <1>10, ControlRollback DEF CommitDangling, TypeOK, SharedOK, db
<1>11. CASE RecordFailure(w)
  BY <1>11, ControlReply, FailureShared DEF RecordFailure, TypeOK, SharedOK
<1>12. CASE Cleanup(w)
  <2>1. CASE Reply(w, "error")
    BY <1>12, <2>1, ControlReply DEF Cleanup, TypeOK, SharedOK, db
  <2>2. CASE ~Reply(w, "error")
    BY <1>12, <2>2 DEF Cleanup, TypeOK, Control, Local, IsValid, GoTo, db
  <2> QED BY <2>1, <2>2
<1>13. CASE Recheck(w)
  BY <1>13, ControlReply DEF Recheck, TypeOK, SharedOK, db
<1> QED BY <1>1, <1>2, <1>3, <1>4, <1>5, <1>6, <1>7, <1>8, <1>9, <1>10,
           <1>11, <1>12, <1>13 DEF Step

\* So does everything that can befall a thread, and the administrator.
LEMMA ControlEnvironment ==
    ASSUME TypeOK, Control, Environment
    PROVE  TypeOK' /\ Control'
<1>1. ASSUME NEW w \in Workers, Crash(w) PROVE TypeOK' /\ Control'
  BY <1>1, ControlReply, IncidentShared DEF Crash, TypeOK, SharedOK, db
<1>2. ASSUME NEW w \in Workers, CrashAfterCommit(w) PROVE TypeOK' /\ Control'
  BY <1>2, ControlReply, CommitsShared, IncidentShared
  DEF CrashAfterCommit, TypeOK, SharedOK
<1>3. ASSUME NEW w \in Workers, DatabaseFailure(w) PROVE TypeOK' /\ Control'
  BY <1>3, ControlRollback, IncidentShared
  DEF DatabaseFailure, TypeOK, SharedOK, db
<1>4. ASSUME NEW w \in Workers, StoreFailure(w) PROVE TypeOK' /\ Control'
  <2>1. storage' \subseteq File
    BY <1>4, FreshFilesFresh DEF StoreFailure, TypeOK
  <2> QED BY <1>4, <2>1, ControlRollback, IncidentShared
          DEF StoreFailure, TypeOK, SharedOK, db
<1>5. ASSUME NEW w \in Workers, DeleteFailure(w) PROVE TypeOK' /\ Control'
  BY <1>5, ControlReply, IncidentShared DEF DeleteFailure, TypeOK, SharedOK, db
<1>6. ASSUME NEW w \in Workers, LostCommit(w) PROVE TypeOK' /\ Control'
  BY <1>6, ControlRollback, CommitsShared, IncidentShared
  DEF LostCommit, TypeOK, SharedOK
<1>7. ASSUME NEW l \in links, DeleteLink(l) PROVE TypeOK' /\ Control'
  <2>1. incidents' \in 0..MaxIncidents
    BY <1>7, IncidentShared DEF DeleteLink
  <2> QED BY <1>7, <2>1 DEF DeleteLink, TypeOK, Control, Local, IsValid, local
<1>8. ASSUME NEW d \in docs, DeleteDocument(d) PROVE TypeOK' /\ Control'
  <2>1. incidents' \in 0..MaxIncidents
    BY <1>8, IncidentShared DEF DeleteDocument
  <2>2. TypeOK'
    BY <1>8, <2>1 DEF DeleteDocument, TypeOK, local
  <2>3. ASSUME NEW v \in Workers PROVE Local(v)'
    <3>1. /\ pc'[v] = pc[v] \/ (pc'[v] = "dangling" /\ pending[v] # {})
          /\ UNCHANGED <<req, created, pending>>
      BY <1>8 DEF DeleteDocument, local, TypeOK
    <3> QED BY <3>1 DEF Control, Local, IsValid
  <2> QED BY <2>2, <2>3 DEF Control
<1> QED BY <1>1, <1>2, <1>3, <1>4, <1>5, <1>6, <1>7, <1>8 DEF Environment

\* TypeOK /\ Control is inductive.
LEMMA ControlNext ==
    ASSUME TypeOK, Control, [Next]_vars
    PROVE  TypeOK' /\ Control'
<1>1. ASSUME NEW w \in Workers, NEW s \in Slot, Receive(w, s)
      PROVE  TypeOK' /\ Control'
  BY <1>1 DEF Receive, TypeOK, Control, Local, IsValid, GoTo, db, local
<1>2. ASSUME NEW w \in Workers, Reject(w)
      PROVE  TypeOK' /\ Control'
  BY <1>2 DEF Reject, TypeOK, Control, Local, IsValid, db, local
<1>3. CASE UNCHANGED vars
  BY <1>3 DEF vars, TypeOK, Control, Local, IsValid
<1> QED BY <1>1, <1>2, <1>3, ControlStep, ControlEnvironment DEF Next

\* Every variable keeps its type in every behaviour, and every thread holds
\* what the place it has reached in ingest_fiscal_xml says.
THEOREM ControlCorrect == Spec => [](TypeOK /\ Control)
<1>1. Init => TypeOK /\ Control
  BY InitControl
<1>2. TypeOK /\ Control /\ [Next]_vars => (TypeOK /\ Control)'
  BY ControlNext
<1> QED BY <1>1, <1>2, PTL DEF Spec

\* Every variable keeps its type.
THEOREM TypeCorrect == Spec => []TypeOK
BY ControlCorrect, PTL
-----------------------------------------------------------------------------
(* One document per key.  Between the statements that check for a document  *)
(* and the COMMIT that publishes one, a thread relies on the unique entry   *)
(* of its upload row: no other thread can hold the same key, and no         *)
(* document of that key can appear.                                         *)

Writing(w) == pc[w] \in {"link", "commit", "dangling"}

\* Documents are made of valid contents, and come with their uploads.
DocumentsKnown ==
    /\ \A d \in docs : IsValid(d)
    /\ DocumentBacked

\* What upload.save() and the last update of status have put in the row.
RowsReady ==
    \A w \in Workers :
        /\ HoldsKey(w) => /\ row[w].type = KindOf[req[w].content]
                          /\ row[w].key = KeyOf[req[w].content]
        /\ pc[w] \in {"commit", "dangling"} => row[w].status = "processed"

\* documents_upload_tenant_type_key_unique, for rows not committed yet.
KeysExclusive ==
    \A v, w \in Workers :
        v # w /\ HoldsKey(v) /\ HoldsKey(w) => ~SameKey(req[v], req[w])

\* The document a thread has created is not there for anyone else.
KeysFree ==
    \A w \in Workers : Writing(w) => \A d \in docs : ~SameKey(d, req[w])

Registers ==
    /\ DocumentsKnown
    /\ OneDocumentPerKey
    /\ RowsReady
    /\ KeysExclusive
    /\ KeysFree

\* The thread v keeps what it had, or holds no key.
Keeps(v) ==
    \/ ~HoldsKey(v)'
    \/ /\ pc'[v] = pc[v] \/ (pc[v] = "commit" /\ pc'[v] = "dangling")
       /\ req'[v] = req[v]
       /\ row'[v] = row[v]

\* Competing for a key is mutual.
LEMMA SameKeySymmetric ==
    ASSUME NEW s, NEW d, SameKey(s, d) PROVE SameKey(d, s)
BY DEF SameKey

\* With no documents and no transactions there is nothing to show.
LEMMA InitRegisters == Init => Registers
BY DEF Init, Registers, DocumentsKnown, DocumentBacked, OneDocumentPerKey,
       RowsReady, KeysExclusive, KeysFree, HoldsKey, Writing

\* Steps that publish nothing and take no key.
LEMMA QuietStep ==
    ASSUME TypeOK, Registers, docs' \subseteq docs,
           \A d \in docs : uploads'[d] = uploads[d],
           \A v \in Workers : Keeps(v)
    PROVE  Registers'
<1>1. DocumentsKnown' /\ OneDocumentPerKey'
  BY DEF Registers, DocumentsKnown, DocumentBacked, OneDocumentPerKey,
         IsValid, SameKey
<1>2. RowsReady'
  BY DEF Registers, RowsReady, Keeps, HoldsKey
<1>3. KeysExclusive'
  BY DEF Registers, KeysExclusive, Keeps, HoldsKey, SameKey
<1>4. KeysFree'
  BY DEF Registers, KeysFree, Keeps, HoldsKey, Writing, SameKey
<1> QED BY <1>1, <1>2, <1>3, <1>4 DEF Registers

\* A COMMIT: the document that becomes visible had its key for itself.
LEMMA PublishStep ==
    ASSUME TypeOK, Control, Registers, NEW w \in Workers,
           pc[w] = "commit", Publish(w), ~HoldsKey(w)',
           \A v \in Workers \ {w} : Keeps(v)
    PROVE  Registers'
<1>1. /\ req[w] \in Slot /\ IsValid(req[w]) /\ HoldsKey(w) /\ Writing(w)
      /\ docs' = docs \cup {req[w]}
      /\ uploads'[req[w]] = row[w]
      /\ \A s \in Slot \ {req[w]} : uploads'[s] = uploads[s]
  BY DEF TypeOK, Control, Local, HoldsKey, Writing, Publish
<1>2. DocumentsKnown'
  <2>1. \A d \in docs' : IsValid(d)'
    BY <1>1 DEF Registers, DocumentsKnown, IsValid
  <2>2. DocumentBacked'
    BY <1>1 DEF Registers, DocumentsKnown, DocumentBacked, RowsReady, TypeOK
  <2> QED BY <2>1, <2>2 DEF DocumentsKnown
<1>3. OneDocumentPerKey'
  <2>1. \A d \in docs : ~SameKey(d, req[w]) /\ ~SameKey(req[w], d)
    BY <1>1, SameKeySymmetric DEF Registers, KeysFree
  <2>2. ASSUME NEW d \in docs', NEW e \in docs', SameKey(d, e)' PROVE d = e
    BY <1>1, <2>1, <2>2 DEF Registers, OneDocumentPerKey, SameKey
  <2> QED BY <2>2 DEF OneDocumentPerKey
<1>4. RowsReady'
  BY <1>1 DEF Registers, RowsReady, Keeps, HoldsKey
<1>5. KeysExclusive'
  BY <1>1 DEF Registers, KeysExclusive, Keeps, HoldsKey, SameKey
<1>6. KeysFree'
  <2>1. ASSUME NEW v \in Workers, Writing(v)', NEW d \in docs'
        PROVE  ~SameKey(d, req[v])'
    <3>1. v # w /\ HoldsKey(v) /\ Writing(v) /\ req'[v] = req[v]
      BY <1>1, <2>1 DEF Keeps, HoldsKey, Writing
    <3>2. ~SameKey(req[w], req[v])
      BY <1>1, <3>1 DEF Registers, KeysExclusive
    <3>3. d \in docs => ~SameKey(d, req[v])
      BY <3>1 DEF Registers, KeysFree
    <3> QED BY <1>1, <3>1, <3>2, <3>3 DEF SameKey
  <2> QED BY <2>1 DEF KeysFree
<1> QED BY <1>2, <1>3, <1>4, <1>5, <1>6 DEF Registers

\* The COMMIT of a failure: the upload has no document.
LEMMA FailureStep ==
    ASSUME TypeOK, Control, Registers, NEW w \in Workers,
           pc[w] = "fail", PublishFailure(w), \A v \in Workers : Keeps(v)
    PROVE  Registers'
<1>1. /\ req[w] \notin docs /\ docs' = docs
      /\ \A s \in Slot \ {req[w]} : uploads'[s] = uploads[s]
  BY DEF PublishFailure, Control, Local, Registers, DocumentsKnown, TypeOK
<1>2. \A d \in docs : uploads'[d] = uploads[d]
  BY <1>1 DEF TypeOK
<1> QED BY <1>1, <1>2, QuietStep

\* Every statement of a request thread keeps Registers.
LEMMA RegistersStep ==
    ASSUME TypeOK, Control, Registers, NEW w \in Workers, Step(w)
    PROVE  Registers'
<1> USE DEF HoldsKey, Keeps
<1>a. ASSUME NEW a, Reply(w, a) PROVE \A v \in Workers : Keeps(v)
  BY <1>a DEF Reply, GoTo, TypeOK
<1>b. ASSUME NEW label \in {"cleanup", "abort"}, Rollback(w, label)
      PROVE  \A v \in Workers : Keeps(v)
  BY <1>b DEF Rollback, GoTo, TypeOK
<1>1. CASE Lookup(w)
  <2>1. \A v \in Workers : Keeps(v)
    <3>1. CASE Reply(w, "existing")
      BY <3>1, <1>a
    <3>2. CASE GoTo(w, "get") /\ UNCHANGED <<req, answer, local>>
      BY <3>2 DEF GoTo, TypeOK, local
    <3> QED BY <1>1, <3>1, <3>2 DEF Lookup
  <2> QED BY <1>1, <2>1, QuietStep DEF Lookup, db
<1>2. CASE GetUpload(w)
  <2>1. \A v \in Workers : Keeps(v)
    BY <1>2 DEF GetUpload, HaveRow, GoTo, TypeOK
  <2> QED BY <1>2, <2>1, QuietStep DEF GetUpload, db
<1>3. CASE InsertUpload(w)
  <2>1. \A v \in Workers : Keeps(v)
    BY <1>3 DEF InsertUpload, HaveRow, GoTo, TypeOK
  <2> QED BY <1>3, <2>1, QuietStep DEF InsertUpload, db
<1>4. CASE Inspect(w)
  <2>1. \A v \in Workers : Keeps(v)
    <3>1. CASE Reply(w, "existing")
      BY <3>1, <1>a
    <3>2. CASE GoTo(w, "store") /\ UNCHANGED <<req, answer, local>>
      BY <3>2 DEF GoTo, TypeOK, local
    <3> QED BY <1>4, <3>1, <3>2 DEF Inspect
  <2> QED BY <1>4, <2>1, QuietStep DEF Inspect, db
<1>5. CASE Store(w)
  <2>1. \A v \in Workers : Keeps(v)
    BY <1>5 DEF Store, GoTo, TypeOK
  <2> QED BY <1>5, <2>1, QuietStep DEF Store, db
<1>6. CASE Save(w)
  <2>1. CASE Rollback(w, "cleanup")
    BY <1>6, <2>1, <1>b, QuietStep DEF Save, db
  <2>2. CASE ~Rollback(w, "cleanup")
    <3>1. /\ pc' = [pc EXCEPT ![w] = "document"]
          /\ UNCHANGED <<req, docs, uploads>>
          /\ row' = [row EXCEPT ![w].type = KindOf[req[w].content],
                                ![w].key = KeyOf[req[w].content],
                                ![w].status = "processing"]
          /\ ~KeyBusy(w)
      BY <1>6, <2>2 DEF Save, GoTo, db
    <3>2. DocumentsKnown' /\ OneDocumentPerKey'
      BY <3>1 DEF Registers, DocumentsKnown, DocumentBacked,
                  OneDocumentPerKey, IsValid, SameKey
    <3>3. RowsReady'
      <4>1. row[w] \in Row /\ row'[w] = [row[w] EXCEPT
                !.type = KindOf[req[w].content],
                !.key = KeyOf[req[w].content], !.status = "processing"]
        BY <3>1 DEF TypeOK
      <4>2. row'[w].type = KindOf[req[w].content]
            /\ row'[w].key = KeyOf[req[w].content]
        BY <4>1 DEF Row
      <4> QED BY <3>1, <4>2 DEF Registers, RowsReady, TypeOK
    <3>4. KeysExclusive'
      <4>1. \A v \in Workers \ {w} : /\ HoldsKey(v)' = HoldsKey(v)
                                     /\ HoldsKey(v) => ~SameKey(req[v], req[w])
        BY <3>1 DEF KeyBusy, TypeOK
      <4>2. \A v \in Workers \ {w} :
               HoldsKey(v) => ~SameKey(req[w], req[v])
        BY <4>1, SameKeySymmetric
      <4> QED BY <3>1, <4>1, <4>2 DEF Registers, KeysExclusive, SameKey
    <3>5. KeysFree'
      BY <3>1 DEF Registers, KeysFree, Writing, SameKey, TypeOK
    <3> QED BY <3>2, <3>3, <3>4, <3>5 DEF Registers
  <2> QED BY <2>1, <2>2
<1>7. CASE CreateDocument(w)
  <2>1. ASSUME NEW label \in {"cleanup", "abort"}, Rollback(w, label)
        PROVE  Registers'
    BY <1>7, <2>1, <1>b, QuietStep DEF CreateDocument, db
  <2>2. CASE /\ ~DocumentTaken(w) /\ GoTo(w, "link")
             /\ UNCHANGED <<req, answer, local>>
    <3>1. /\ pc[w] = "document" /\ pc' = [pc EXCEPT ![w] = "link"]
          /\ UNCHANGED <<req, row, docs, uploads>>
          /\ \A d \in docs : ~SameKey(d, req[w])
      BY <1>7, <2>2
      DEF CreateDocument, DocumentTaken, Existing, GoTo, db, local
    <3>2. DocumentsKnown' /\ OneDocumentPerKey'
      BY <3>1 DEF Registers, DocumentsKnown, DocumentBacked,
                  OneDocumentPerKey, IsValid, SameKey
    <3>3. RowsReady'
      BY <3>1 DEF Registers, RowsReady, TypeOK
    <3>4. KeysExclusive'
      BY <3>1 DEF Registers, KeysExclusive, SameKey, TypeOK
    <3>5. KeysFree'
      BY <3>1 DEF Registers, KeysFree, Writing, SameKey, TypeOK
    <3> QED BY <3>2, <3>3, <3>4, <3>5 DEF Registers
  <2> QED BY <1>7, <2>1, <2>2 DEF CreateDocument
<1>8. CASE SyncLinks(w)
  <2>1. /\ pc[w] = "link" /\ pc' = [pc EXCEPT ![w] = "commit"]
        /\ row' = [row EXCEPT ![w].status = "processed"]
        /\ UNCHANGED <<req, docs, uploads>>
    BY <1>8 DEF SyncLinks, GoTo, db
  <2>2. DocumentsKnown' /\ OneDocumentPerKey'
    BY <2>1 DEF Registers, DocumentsKnown, DocumentBacked, OneDocumentPerKey,
                IsValid, SameKey
  <2>3. RowsReady'
    <3>1. row[w] \in Row /\ row'[w] = [row[w] EXCEPT !.status = "processed"]
      BY <2>1 DEF TypeOK
    <3>2. /\ row'[w].type = row[w].type
          /\ row'[w].key = row[w].key
          /\ row'[w].status = "processed"
      BY <3>1 DEF Row
    <3> QED BY <2>1, <3>2 DEF Registers, RowsReady, TypeOK
  <2>4. KeysExclusive'
    BY <2>1 DEF Registers, KeysExclusive, SameKey, TypeOK
  <2>5. KeysFree'
    BY <2>1 DEF Registers, KeysFree, Writing, SameKey, TypeOK
  <2> QED BY <2>2, <2>3, <2>4, <2>5 DEF Registers
<1>9. CASE Commit(w)
  <2>1. ~HoldsKey(w)' /\ \A v \in Workers \ {w} : Keeps(v)
    BY <1>9 DEF Commit, Reply, GoTo, TypeOK
  <2> QED BY <1>9, <2>1, PublishStep DEF Commit
<1>10. CASE CommitDangling(w)
  BY <1>10, <1>b, QuietStep DEF CommitDangling, db
<1>11. CASE RecordFailure(w)
  <2>1. \A v \in Workers : Keeps(v)
    BY <1>11, <1>a DEF RecordFailure
  <2> QED BY <1>11, <2>1, FailureStep DEF RecordFailure
<1>12. CASE Cleanup(w)
  <2>1. \A v \in Workers : Keeps(v)
    <3>1. CASE Reply(w, "error")
      BY <3>1, <1>a
    <3>2. CASE GoTo(w, "recheck") /\ UNCHANGED <<req, row>>
      BY <3>2 DEF GoTo, TypeOK
    <3> QED BY <1>12, <3>1, <3>2 DEF Cleanup
  <2>2. UNCHANGED <<docs, uploads>>
    BY <1>12 DEF Cleanup, db
  <2> QED BY <2>1, <2>2, QuietStep
<1>13. CASE Recheck(w)
  BY <1>13, <1>a, QuietStep DEF Recheck, db
<1> QED BY <1>1, <1>2, <1>3, <1>4, <1>5, <1>6, <1>7, <1>8, <1>9, <1>10,
           <1>11, <1>12, <1>13 DEF Step

\* So do crashes, failures, lost acknowledgements and deletions.
LEMMA RegistersEnvironment ==
    ASSUME TypeOK, Control, Registers, Environment
    PROVE  Registers'
<1> USE DEF HoldsKey, Keeps
<1>1. ASSUME NEW w \in Workers, Crash(w) PROVE Registers'
  BY <1>1, QuietStep DEF Crash, Reply, GoTo, TypeOK, db
<1>2. ASSUME NEW w \in Workers, CrashAfterCommit(w) PROVE Registers'
  <2>1. ~HoldsKey(w)' /\ \A v \in Workers : Keeps(v)
    BY <1>2 DEF CrashAfterCommit, Reply, GoTo, TypeOK
  <2> QED BY <1>2, <2>1, PublishStep, FailureStep DEF CrashAfterCommit, Commits
<1>3. ASSUME NEW w \in Workers, DatabaseFailure(w) PROVE Registers'
  BY <1>3, QuietStep DEF DatabaseFailure, Rollback, GoTo, TypeOK, db
<1>4. ASSUME NEW w \in Workers, StoreFailure(w) PROVE Registers'
  BY <1>4, QuietStep DEF StoreFailure, Rollback, GoTo, TypeOK, db
<1>5. ASSUME NEW w \in Workers, DeleteFailure(w) PROVE Registers'
  BY <1>5, QuietStep DEF DeleteFailure, Reply, GoTo, TypeOK, db
<1>6. ASSUME NEW w \in Workers, LostCommit(w) PROVE Registers'
  <2>1. ~HoldsKey(w)' /\ \A v \in Workers : Keeps(v)
    BY <1>6 DEF LostCommit, Rollback, GoTo, TypeOK
  <2> QED BY <1>6, <2>1, PublishStep, FailureStep DEF LostCommit, Commits
<1>7. ASSUME NEW l \in links, DeleteLink(l) PROVE Registers'
  BY <1>7, QuietStep DEF DeleteLink, TypeOK, local
<1>8. ASSUME NEW d \in docs, DeleteDocument(d) PROVE Registers'
  <2>1. \A v \in Workers : Keeps(v)
    BY <1>8 DEF DeleteDocument, Control, Local, TypeOK, local
  <2> QED BY <1>8, <2>1, QuietStep DEF DeleteDocument
<1> QED BY <1>1, <1>2, <1>3, <1>4, <1>5, <1>6, <1>7, <1>8 DEF Environment

\* Registers is inductive, relative to TypeOK and Control.
LEMMA RegistersNext ==
    ASSUME TypeOK, Control, Registers, [Next]_vars
    PROVE  Registers'
<1> USE DEF HoldsKey, Keeps
<1>1. ASSUME NEW w \in Workers, NEW s \in Slot, Receive(w, s)
      PROVE  Registers'
  BY <1>1, QuietStep DEF Receive, GoTo, TypeOK, db, local
<1>2. ASSUME NEW w \in Workers, Reject(w) PROVE Registers'
  BY <1>2, QuietStep DEF Reject, TypeOK, db, local
<1>3. CASE UNCHANGED vars
  BY <1>3, QuietStep DEF vars
<1> QED BY <1>1, <1>2, <1>3, RegistersStep, RegistersEnvironment DEF Next

\* Documents, upload rows and the keys that transactions hold fit together in
\* every reachable state.
THEOREM RegistersCorrect == Spec => []Registers
<1>1. Init => Registers
  BY InitRegisters
<1>2. TypeOK /\ Control /\ Registers /\ [Next]_vars => Registers'
  BY RegistersNext
<1> QED BY <1>1, <1>2, ControlCorrect, PTL DEF Spec

\* However many requests and tenants there are, and whatever fails, a tenant
\* has at most one document of a type and access key.
THEOREM OneDocumentPerKeyCorrect == Spec => []OneDocumentPerKey
<1>1. Registers => OneDocumentPerKey
  BY DEF Registers
<1> QED BY <1>1, RegistersCorrect, PTL

\* Every document has its processed upload, of its type and key.
THEOREM DocumentBackedCorrect == Spec => []DocumentBacked
<1>1. Registers => DocumentBacked
  BY DEF Registers, DocumentsKnown
<1> QED BY <1>1, RegistersCorrect, PTL

-----------------------------------------------------------------------------
(* What a step does to the upload and document tables, and UploadsSettled.  *)

\* The columns that _record_parse_failure writes.
FailedRow(r) == [r EXCEPT !.type = "unknown", !.status = "failed"]

\* Only a COMMIT, a recorded failure and an administrator write the tables.
DatabaseEffect ==
    \/ UNCHANGED <<uploads, docs>>
    \/ \E w \in Workers : pc[w] = "commit" /\ Publish(w)
    \/ \E w \in Workers :
          /\ pc[w] = "fail"
          /\ uploads' = [uploads EXCEPT ![req[w]] =
                FailedRow(IF created[w] THEN row[w] ELSE uploads[req[w]])]
          /\ docs' = docs
    \/ "delete" \in Incidents /\ uploads' = uploads /\ docs' \subseteq docs

\* Every step has one of these effects.
LEMMA DatabaseStep == [Next]_vars => DatabaseEffect
<1> SUFFICES ASSUME [Next]_vars PROVE DatabaseEffect
  OBVIOUS
<1>1. ASSUME NEW w \in Workers, Step(w) PROVE DatabaseEffect
  <2>1. CASE Commit(w)
    BY <2>1 DEF Commit, DatabaseEffect
  <2>2. CASE RecordFailure(w)
    BY <2>2 DEF RecordFailure, PublishFailure, DatabaseEffect, FailedRow
  <2>3. CASE ~Commit(w) /\ ~RecordFailure(w)
    <3>1. UNCHANGED <<uploads, docs>>
      BY <1>1, <2>3 DEF Step, Lookup, GetUpload, InsertUpload, Inspect, Store,
         Save, CreateDocument, SyncLinks, CommitDangling, Cleanup, Recheck, db
    <3> QED BY <3>1 DEF DatabaseEffect
  <2> QED BY <2>1, <2>2, <2>3
<1>2. CASE Environment
  <2>1. ASSUME NEW w \in Workers, CrashAfterCommit(w) \/ LostCommit(w)
        PROVE  DatabaseEffect
    BY <2>1 DEF CrashAfterCommit, LostCommit, Commits, PublishFailure,
       DatabaseEffect, FailedRow
  <2>2. ASSUME NEW w \in Workers, \/ Crash(w) \/ DatabaseFailure(w)
                                  \/ StoreFailure(w) \/ DeleteFailure(w)
        PROVE  DatabaseEffect
    BY <2>2 DEF Crash, DatabaseFailure, StoreFailure, DeleteFailure, db,
       DatabaseEffect
  <2>3. ASSUME NEW l \in links, DeleteLink(l) PROVE DatabaseEffect
    BY <2>3 DEF DeleteLink, DatabaseEffect
  <2>4. ASSUME NEW d \in docs, DeleteDocument(d) PROVE DatabaseEffect
    BY <2>4 DEF DeleteDocument, Incident, DatabaseEffect
  <2> QED BY <1>2, <2>1, <2>2, <2>3, <2>4 DEF Environment
<1>3. ASSUME NEW w \in Workers, Reject(w) \/ \E s \in Slot : Receive(w, s)
      PROVE  DatabaseEffect
  BY <1>3 DEF Reject, Receive, db, DatabaseEffect
<1>4. CASE UNCHANGED vars
  BY <1>4 DEF vars, DatabaseEffect
<1> QED BY <1>1, <1>2, <1>3, <1>4 DEF Next

\* The row of a recorded failure: a failed one with the file it had.
LEMMA FailedRowColumns ==
    ASSUME NEW r \in Row
    PROVE  /\ FailedRow(r).type = "unknown"
           /\ FailedRow(r).status = "failed"
           /\ FailedRow(r).file = r.file
BY DEF FailedRow, Row

\* The step of UploadsSettled.
LEMMA SettledNext ==
    ASSUME "delete" \notin Incidents, TypeOK, Control, Registers,
           UploadsSettled, [Next]_vars
    PROVE  UploadsSettled'
<1>1. CASE UNCHANGED <<uploads, docs>>
  BY <1>1 DEF UploadsSettled
<1>2. ASSUME NEW w \in Workers, pc[w] = "commit", Publish(w)
      PROVE  UploadsSettled'
  <2>1. /\ req[w] \in Slot /\ row[w].status = "processed"
        /\ uploads' = [uploads EXCEPT ![req[w]] = row[w]]
        /\ docs' = docs \cup {req[w]}
    BY <1>2 DEF Publish, TypeOK, Registers, RowsReady
  <2> QED BY <2>1 DEF UploadsSettled, TypeOK
<1>3. ASSUME NEW w \in Workers, NEW r \in Row, pc[w] = "fail",
             uploads' = [uploads EXCEPT ![req[w]] = FailedRow(r)],
             docs' = docs
      PROVE  UploadsSettled'
  <2>1. req[w] \in Slot /\ req[w] \notin docs /\ FailedRow(r).status = "failed"
    BY <1>3, FailedRowColumns
    DEF TypeOK, Control, Local, Registers, DocumentsKnown
  <2> QED BY <1>3, <2>1 DEF UploadsSettled, TypeOK
<1>4. \A w \in Workers : (IF created[w] THEN row[w] ELSE uploads[req[w]]) \in Row
  BY DEF TypeOK
<1> QED BY <1>1, <1>2, <1>3, <1>4, DatabaseStep DEF DatabaseEffect

\* As long as no administrator deletes a document, every upload anyone can
\* see is failed, or processed with its document.
THEOREM UploadsSettledCorrect ==
    ASSUME "delete" \notin Incidents
    PROVE  Spec => []UploadsSettled
<1>1. Init => UploadsSettled
  BY DEF Init, UploadsSettled, NoRow
<1>2. TypeOK /\ Control /\ Registers /\ UploadsSettled /\ [Next]_vars
      => UploadsSettled'
  BY SettledNext
<1> QED BY <1>1, <1>2, ControlCorrect, RegistersCorrect, PTL DEF Spec

-----------------------------------------------------------------------------
(* Waits.  A transaction locks its row by the INSERT or by the UPDATE, and  *)
(* its key only by the UPDATE, after which it waits for nothing.            *)

\* Threads that have inserted or updated one upload row exclude each other.
RowsExclusive ==
    \A v, w \in Workers :
        v # w /\ HoldsRow(v) /\ HoldsRow(w) => req[v] # req[w]

\* A statement that does not lock a row that is busy keeps RowsExclusive.
LEMMA LockStep ==
    ASSUME TypeOK, RowsExclusive, NEW w \in Workers,
           pc' = [pc EXCEPT ![w] = pc'[w]],
           created' = [created EXCEPT ![w] = created'[w]],
           req' = req,
           HoldsRow(w)' => HoldsRow(w) \/ ~RowBusy(w)
    PROVE  RowsExclusive'
BY DEF RowsExclusive, HoldsRow, HoldsKey, RowBusy, TypeOK

\* RowsExclusive is inductive, relative to TypeOK and Control.
LEMMA RowsExclusiveNext ==
    ASSUME TypeOK, Control, RowsExclusive, [Next]_vars
    PROVE  RowsExclusive'
<1> USE DEF HoldsRow, HoldsKey
<1>1. ASSUME NEW w \in Workers, NEW a, Reply(w, a) PROVE RowsExclusive'
  BY <1>1, LockStep DEF Reply, GoTo, TypeOK
<1>2. ASSUME NEW w \in Workers, NEW label \in {"cleanup", "abort"},
             Rollback(w, label)
      PROVE  RowsExclusive'
  BY <1>2, LockStep DEF Rollback, GoTo, TypeOK
<1>3. ASSUME NEW w \in Workers, Step(w) PROVE RowsExclusive'
  <2>1. CASE Lookup(w)
    BY <2>1, <1>1, LockStep DEF Lookup, GoTo, local, TypeOK
  <2>2. CASE GetUpload(w)
    BY <2>2, LockStep DEF GetUpload, HaveRow, GoTo, Control, Local, TypeOK
  <2>3. CASE InsertUpload(w)
    BY <2>3, LockStep DEF InsertUpload, HaveRow, GoTo, TypeOK
  <2>4. CASE Inspect(w)
    BY <2>4, <1>1, LockStep DEF Inspect, GoTo, local, TypeOK
  <2>5. CASE Store(w)
    <3>1. /\ pc[w] = "store" /\ pc' = [pc EXCEPT ![w] = "save"]
          /\ UNCHANGED <<req, created>>
      BY <2>5 DEF Store, GoTo
    <3> QED BY <3>1, LockStep DEF TypeOK
  <2>6. CASE Save(w)
    BY <2>6, <1>2, LockStep DEF Save, GoTo, TypeOK
  <2>7. CASE CreateDocument(w)
    BY <2>7, <1>2, LockStep DEF CreateDocument, GoTo, local, TypeOK
  <2>8. CASE SyncLinks(w)
    BY <2>8, LockStep DEF SyncLinks, GoTo, TypeOK
  <2>9. CASE Commit(w) \/ RecordFailure(w) \/ Recheck(w)
    BY <2>9, <1>1 DEF Commit, RecordFailure, Recheck
  <2>10. CASE CommitDangling(w)
    BY <2>10, <1>2 DEF CommitDangling
  <2>11. CASE Cleanup(w)
    BY <2>11, <1>1, LockStep DEF Cleanup, GoTo, TypeOK
  <2> QED BY <1>3, <2>1, <2>2, <2>3, <2>4, <2>5, <2>6, <2>7, <2>8, <2>9,
             <2>10, <2>11 DEF Step
<1>4. CASE Environment
  <2>1. ASSUME NEW w \in Workers, \/ Crash(w) \/ CrashAfterCommit(w)
                                  \/ DeleteFailure(w)
        PROVE  RowsExclusive'
    BY <2>1, <1>1 DEF Crash, CrashAfterCommit, DeleteFailure
  <2>2. ASSUME NEW w \in Workers, \/ DatabaseFailure(w) \/ StoreFailure(w)
                                  \/ LostCommit(w)
        PROVE  RowsExclusive'
    BY <2>2, <1>2 DEF DatabaseFailure, StoreFailure, LostCommit
  <2>3. ASSUME NEW l \in links, DeleteLink(l) PROVE RowsExclusive'
    BY <2>3 DEF DeleteLink, local, RowsExclusive
  <2>4. ASSUME NEW d \in docs, DeleteDocument(d) PROVE RowsExclusive'
    <3>1. \A w \in Workers : pc'[w] = pc[w] \/ HoldsKey(w)
      BY <2>4 DEF DeleteDocument, Control, Local
    <3> QED BY <2>4, <3>1 DEF DeleteDocument, local, RowsExclusive
  <2> QED BY <1>4, <2>1, <2>2, <2>3, <2>4 DEF Environment
<1>5. ASSUME NEW w \in Workers, Reject(w) PROVE RowsExclusive'
  BY <1>5 DEF Reject, local, RowsExclusive
<1>6. ASSUME NEW w \in Workers, NEW s \in Slot, Receive(w, s)
      PROVE  RowsExclusive'
  <2>1. ~created[w]
    BY <1>6 DEF Receive, Control, Local
  <2> QED BY <1>6, <2>1 DEF Receive, GoTo, local, RowsExclusive, TypeOK
<1>7. CASE UNCHANGED vars
  BY <1>7 DEF vars, RowsExclusive
<1> QED BY <1>3, <1>4, <1>5, <1>6, <1>7 DEF Next

\* No two threads ever hold the lock on one row.
THEOREM RowsExclusiveCorrect == Spec => []RowsExclusive
<1>1. Init => RowsExclusive
  BY DEF Init, RowsExclusive, HoldsRow, HoldsKey
<1> QED BY <1>1, RowsExclusiveNext, ControlCorrect, PTL DEF Spec

\* A thread that is waited for and waits has inserted its row, and so waits for
\* a key; whoever holds the key waits for nothing.
LEMMA ShortWaits ==
    ASSUME Control, RowsExclusive,
           NEW u \in Workers, NEW v \in Workers, NEW w \in Workers,
           NEW x \in Workers,
           WaitsFor(u, v), WaitsFor(v, w)
    PROVE  ~WaitsFor(w, x)
<1>1. HoldsRow(v) /\ ~HoldsKey(v)
  BY DEF WaitsFor, HoldsRow, HoldsKey
<1>2. HoldsKey(w)
  BY <1>1 DEF WaitsFor, RowsExclusive
<1> QED BY <1>2 DEF WaitsFor, HoldsKey

\* Of any set of threads, however many, one waits for none of the others:
\* requests for one document never lock each other out.
THEOREM NoCircularWaitCorrect == Spec => []NoCircularWait
<1>1. Control /\ RowsExclusive => NoCircularWait
  <2> SUFFICES ASSUME Control, RowsExclusive,
                      NEW W \in (SUBSET Workers) \ {{}},
                      \A w \in W : \E v \in W : WaitsFor(w, v)
               PROVE  FALSE
    BY DEF NoCircularWait
  <2>1. PICK u \in W : TRUE
    OBVIOUS
  <2>2. PICK v \in W : WaitsFor(u, v)
    BY <2>1
  <2>3. PICK w \in W : WaitsFor(v, w)
    BY <2>2
  <2>4. PICK x \in W : WaitsFor(w, x)
    BY <2>3
  <2> QED BY <2>2, <2>3, <2>4, ShortWaits
<1> QED BY <1>1, ControlCorrect, RowsExclusiveCorrect, PTL

-----------------------------------------------------------------------------
(* Requests advance.                                                        *)

\* How many steps a request takes at most from a statement on.
Ahead == [idle |-> 0, abort |-> 1, recheck |-> 2, cleanup |-> 3, dangling |-> 4,
          commit |-> 5, link |-> 6, document |-> 7, save |-> 8, fail |-> 8,
          store |-> 9, inspect |-> 10, insert |-> 11, get |-> 12, lookup |-> 13]

\* Its values, for the provers.
LEMMA AheadValues ==
    /\ Ahead["idle"] = 0 /\ Ahead["abort"] = 1 /\ Ahead["recheck"] = 2
    /\ Ahead["cleanup"] = 3 /\ Ahead["dangling"] = 4 /\ Ahead["commit"] = 5
    /\ Ahead["link"] = 6 /\ Ahead["document"] = 7 /\ Ahead["save"] = 8
    /\ Ahead["fail"] = 8 /\ Ahead["store"] = 9 /\ Ahead["inspect"] = 10
    /\ Ahead["insert"] = 11 /\ Ahead["get"] = 12 /\ Ahead["lookup"] = 13
BY DEF Ahead

\* Whatever a thread that has a request does, and whatever befalls it, it goes
\* on to a later statement or ends: nothing is tried again, so that a request
\* is over after 13 steps of its own.
RequestsAdvance ==
    [][\A w \in Workers : pc[w] # "idle" /\ pc'[w] # pc[w] =>
                              Ahead[pc'[w]] < Ahead[pc[w]]]_vars

\* Every step of a thread that has a request is a step ahead, and with what
\* NoCircularWait says of the waits this is why all requests are answered.
THEOREM RequestsAdvanceCorrect == Spec => RequestsAdvance
<1> DEFINE Advance == \A w \in Workers : pc[w] # "idle" /\ pc'[w] # pc[w] =>
                                          Ahead[pc'[w]] < Ahead[pc[w]]
<1>1. ASSUME TypeOK, Control, [Next]_vars PROVE Advance
  <2>1. ASSUME NEW w \in Workers, NEW label, pc' = [pc EXCEPT ![w] = label],
               pc[w] # "idle" => Ahead[label] < Ahead[pc[w]]
        PROVE  Advance
    BY <1>1, <2>1 DEF TypeOK
  <2> HIDE DEF Advance
  <2>2. ASSUME NEW w \in Workers, NEW a, Reply(w, a) PROVE Advance
    <3>1. pc[w] # "idle" => Ahead["idle"] < Ahead[pc[w]]
      BY <1>1, AheadValues DEF TypeOK
    <3> QED BY <2>1, <2>2, <3>1, AheadValues DEF Reply, GoTo
  <2>3. ASSUME NEW w \in Workers, NEW label \in {"cleanup", "abort"},
               Rollback(w, label),
               pc[w] \notin {"idle", "abort", "recheck", "cleanup"}
        PROVE  Advance
    <3>1. Ahead[label] < Ahead[pc[w]]
      BY <1>1, <2>3, AheadValues DEF TypeOK
    <3> QED BY <2>1, <2>3, <3>1 DEF Rollback, GoTo
  <2>4. ASSUME NEW w \in Workers, Step(w) PROVE Advance
    <3>1. CASE Lookup(w)
      BY <2>1, <2>2, <3>1, AheadValues DEF Lookup, GoTo
    <3>2. CASE GetUpload(w)
      BY <2>1, <3>2, AheadValues DEF GetUpload, HaveRow, GoTo
    <3>3. CASE InsertUpload(w)
      BY <2>1, <3>3, AheadValues DEF InsertUpload, HaveRow, GoTo
    <3>4. CASE Inspect(w)
      BY <2>1, <2>2, <3>4, AheadValues DEF Inspect, GoTo
    <3>5. CASE Store(w)
      <4>1. pc[w] = "store" /\ pc' = [pc EXCEPT ![w] = "save"]
        BY <3>5 DEF Store, GoTo
      <4>2. Ahead["save"] < Ahead["store"]
        BY AheadValues
      <4> QED BY <2>1, <4>1, <4>2
    <3>6. CASE Save(w)
      <4>1. CASE GoTo(w, "document")
        <5>1. Ahead["document"] < Ahead["save"]
          BY AheadValues
        <5> QED BY <2>1, <3>6, <4>1, <5>1 DEF Save, GoTo
      <4>2. CASE Rollback(w, "cleanup")
        BY <2>3, <3>6, <4>2 DEF Save
      <4> QED BY <3>6, <4>1, <4>2 DEF Save
    <3>7. CASE CreateDocument(w)
      <4>1. CASE GoTo(w, "link")
        <5>1. Ahead["link"] < Ahead["document"]
          BY AheadValues
        <5> QED BY <2>1, <3>7, <4>1, <5>1 DEF CreateDocument, GoTo
      <4>2. ASSUME NEW label \in {"cleanup", "abort"}, Rollback(w, label)
            PROVE  Advance
        BY <2>3, <3>7, <4>2 DEF CreateDocument
      <4> QED BY <3>7, <4>1, <4>2 DEF CreateDocument
    <3>8. CASE SyncLinks(w)
      <4>1. Ahead["commit"] < Ahead["link"]
        BY AheadValues
      <4> QED BY <2>1, <3>8, <4>1 DEF SyncLinks, GoTo
    <3>9. CASE Commit(w) \/ RecordFailure(w) \/ Recheck(w)
      BY <2>2, <3>9 DEF Commit, RecordFailure, Recheck
    <3>10. CASE CommitDangling(w)
      BY <2>3, <3>10 DEF CommitDangling
    <3>11. CASE Cleanup(w)
      BY <2>1, <2>2, <3>11, AheadValues DEF Cleanup, GoTo
    <3> QED BY <2>4, <3>1, <3>2, <3>3, <3>4, <3>5, <3>6, <3>7, <3>8, <3>9,
               <3>10, <3>11 DEF Step
  <2>5. CASE Environment
    <3>1. ASSUME NEW w \in Workers, \/ Crash(w) \/ CrashAfterCommit(w)
                                    \/ DeleteFailure(w)
          PROVE  Advance
      BY <2>2, <3>1 DEF Crash, CrashAfterCommit, DeleteFailure
    <3>2. ASSUME NEW w \in Workers, DatabaseFailure(w) PROVE Advance
      <4>1. Ahead["abort"] < Ahead[pc[w]]
        BY <1>1, <3>2, AheadValues DEF DatabaseFailure, TypeOK
      <4> QED BY <2>1, <3>2, <4>1 DEF DatabaseFailure, Rollback, GoTo
    <3>3. ASSUME NEW w \in Workers, StoreFailure(w) \/ LostCommit(w)
          PROVE  Advance
      BY <2>3, <3>3 DEF StoreFailure, LostCommit, Commits
    <3>4. ASSUME NEW l \in links, DeleteLink(l) PROVE Advance
      BY <3>4 DEF DeleteLink, Advance
    <3>5. ASSUME NEW d \in docs, DeleteDocument(d) PROVE Advance
      <4>1. ASSUME NEW w \in Workers, pc'[w] # pc[w]
            PROVE  pc[w] = "commit" /\ pc'[w] = "dangling"
        BY <1>1, <3>5, <4>1 DEF DeleteDocument, Control, Local, TypeOK
      <4> QED BY <4>1, AheadValues DEF Advance
    <3> QED BY <2>5, <3>1, <3>2, <3>3, <3>4, <3>5 DEF Environment
  <2>6. ASSUME NEW w \in Workers, Reject(w) \/ \E s \in Slot : Receive(w, s)
        PROVE  Advance
    BY <2>1, <2>6 DEF Reject, Receive, GoTo, Advance
  <2>7. CASE UNCHANGED vars
    BY <2>7 DEF vars, Advance
  <2> QED BY <1>1, <2>4, <2>5, <2>6, <2>7 DEF Next
<1>2. TypeOK /\ Control /\ [Next]_vars => [Advance]_vars
  BY <1>1
<1> QED BY <1>2, ControlCorrect, PTL DEF Spec, RequestsAdvance
=============================================================================
