--------------------------- MODULE RegistryProofs ---------------------------
(****************************************************************************)
(* What clients can rely on, for every value of the constants: the threads, *)
(* tables and files of Ingestion implement FiscalRegistry, whatever fails;  *)
(* and if nothing does but processes that die, no storable document is      *)
(* answered with a server error.                                            *)
(****************************************************************************)
EXTENDS IngestionProofs

Open == {w \in Workers : pc[w] # "idle"}

\* A slot is a request of the registry, and competing for a key is what makes
\* two of them equivalent.
LEMMA RegistryTerms ==
    /\ Registry!Request = Slot
    /\ \A r, d : Registry!Equivalent(r, d) <=> SameKey(r, d)
    /\ \A r : Registry!Registered(r) = {d \in docs : SameKey(r, d)}
BY DEF Registry!Request, Slot, Registry!Equivalent, SameKey,
       Registry!Registered

\* A step that a client cannot tell from no step at all.
LEMMA RegistryStutter ==
    ASSUME docs' = docs, Open' = Open, req' = req, answer' = answer
    PROVE  UNCHANGED Registry!vars
BY DEF Registry!vars, Open

\* A thread that goes on with its request leaves the open requests as they
\* are.
LEMMA StillOpen ==
    ASSUME TypeOK, NEW w \in Workers, NEW label, GoTo(w, label),
           pc[w] # "idle", label # "idle"
    PROVE  Open' = Open
BY DEF TypeOK, GoTo, Open

\* An answer closes the request of its thread.
LEMMA RegistryReply ==
    ASSUME TypeOK, NEW w \in Workers, NEW a, pc[w] # "idle", Reply(w, a)
    PROVE  Registry!Reply(w, a)
<1>1. Open' = Open \ {w} /\ w \in Open
  BY DEF TypeOK, Reply, GoTo, Open
<1> QED BY <1>1 DEF Reply, Registry!Reply, Open

\* A COMMIT registers a document of a key that was free.
LEMMA RegistryAdd ==
    ASSUME TypeOK, Control, Registers, NEW w \in Workers,
           pc[w] = "commit", Publish(w)
    PROVE  Registry!Add(w)
<1>1. IsValid(req[w]) /\ docs' = docs \cup {req[w]}
  BY DEF Control, Local, Publish
<1>2. \A d \in docs : ~SameKey(req[w], d)
  BY SameKeySymmetric DEF Registers, KeysFree, Writing
<1>3. Registry!Registered(req[w]) = {}
  BY <1>2, RegistryTerms
<1> QED BY <1>1, <1>3 DEF Registry!Add, IsValid, Open

\* Answers that say a document is there, while it is.
LEMMA RegistryDuplicate ==
    ASSUME TypeOK, NEW w \in Workers, pc[w] # "idle", NEW d \in docs,
           SameKey(d, req[w]), Reply(w, "existing"), docs' = docs
    PROVE  Registry!Duplicate(w)
<1>1. Registry!Registered(req[w]) # {}
  BY RegistryTerms, SameKeySymmetric
<1> QED BY <1>1, RegistryReply DEF Registry!Duplicate

\* Every statement of a request thread is a step of the registry or none.
LEMMA RegistryStep ==
    ASSUME TypeOK, Control, Registers, NEW w \in Workers, Step(w)
    PROVE  \/ UNCHANGED Registry!vars
           \/ Registry!Register(w)
           \/ Registry!Duplicate(w)
           \/ Registry!Refuse(w)
           \/ Registry!Fail(w)
<1>a. ASSUME NEW label \in {"get", "insert", "store", "inspect", "fail",
                            "save", "document", "link", "commit", "cleanup",
                            "abort", "recheck"},
             GoTo(w, label), pc[w] # "idle",
             UNCHANGED <<docs, req, answer>>
      PROVE  UNCHANGED Registry!vars
  BY <1>a, StillOpen, RegistryStutter
<1>b. ASSUME pc[w] # "idle", Reply(w, "error"), docs' = docs
      PROVE  Registry!Fail(w)
  BY <1>b, RegistryReply DEF Registry!Fail
<1>1. CASE Lookup(w)
  BY <1>1, <1>a, RegistryDuplicate DEF Lookup, Existing, db
<1>2. CASE GetUpload(w)
  BY <1>2, <1>a DEF GetUpload, HaveRow, db
<1>3. CASE InsertUpload(w)
  BY <1>3, <1>a DEF InsertUpload, HaveRow, db
<1>4. CASE Inspect(w)
  <2>1. SameKey(req[w], req[w])
    BY DEF SameKey
  <2> QED BY <1>4, <2>1, <1>a, RegistryDuplicate DEF Inspect, db
<1>5. CASE Store(w)
  BY <1>5, <1>a DEF Store, db
<1>6. CASE Save(w)
  BY <1>6, <1>a DEF Save, Rollback, db
<1>7. CASE CreateDocument(w)
  BY <1>7, <1>a DEF CreateDocument, Rollback, db
<1>8. CASE SyncLinks(w)
  BY <1>8, <1>a DEF SyncLinks, db
<1>9. CASE Commit(w)
  BY <1>9, RegistryAdd, RegistryReply DEF Commit, Registry!Register
<1>10. CASE CommitDangling(w)
  BY <1>10, <1>a DEF CommitDangling, Rollback, db
<1>11. CASE RecordFailure(w)
  <2>1. pc[w] # "idle" /\ ~IsValid(req[w]) /\ docs' = docs
        /\ Reply(w, "refused")
    BY <1>11 DEF RecordFailure, PublishFailure, Control, Local
  <2> QED BY <2>1, RegistryReply DEF Registry!Refuse, IsValid
<1>12. CASE Cleanup(w)
  BY <1>12, <1>a, <1>b DEF Cleanup, db
<1>13. CASE Recheck(w)
  <2>1. pc[w] # "idle" /\ docs' = docs
    BY <1>13 DEF Recheck, db
  <2>2. CASE Existing(req[w]) = {}
    BY <1>13, <1>b, <2>1, <2>2 DEF Recheck
  <2>3. CASE Existing(req[w]) # {}
    BY <1>13, <2>1, <2>3, RegistryDuplicate DEF Recheck, Existing
  <2> QED BY <2>2, <2>3
<1> QED BY <1>1, <1>2, <1>3, <1>4, <1>5, <1>6, <1>7, <1>8, <1>9, <1>10,
           <1>11, <1>12, <1>13 DEF Step

\* So is everything that can befall a thread, and the administrator.
LEMMA RegistryEnvironment ==
    ASSUME TypeOK, Control, Registers, Environment
    PROVE  \/ UNCHANGED Registry!vars
           \/ \E w \in Workers : \/ Registry!Fail(w)
                                 \/ Registry!RegisterSilently(w)
           \/ \E d \in docs : Registry!Withdraw(d)
<1>1. ASSUME NEW w \in Workers, Crash(w) \/ DeleteFailure(w)
      PROVE  Registry!Fail(w)
  <2>1. /\ pc[w] # "idle" /\ docs' = docs
        /\ Reply(w, "none") \/ Reply(w, "error")
    BY <1>1 DEF Crash, DeleteFailure, db
  <2> QED BY <2>1, RegistryReply DEF Registry!Fail
<1>2. ASSUME NEW w \in Workers, CrashAfterCommit(w)
      PROVE  Registry!RegisterSilently(w) \/ Registry!Fail(w)
  <2>1. pc[w] # "idle" /\ Reply(w, "none")
    BY <1>2 DEF CrashAfterCommit, Commits
  <2>2. CASE pc[w] = "commit" /\ Publish(w)
    BY <2>1, <2>2, RegistryAdd, RegistryReply DEF Registry!RegisterSilently
  <2>3. CASE docs' = docs
    BY <2>1, <2>3, RegistryReply DEF Registry!Fail
  <2> QED BY <1>2, <2>2, <2>3 DEF CrashAfterCommit, Commits, PublishFailure
<1>3. ASSUME NEW w \in Workers, DatabaseFailure(w) \/ StoreFailure(w)
      PROVE  UNCHANGED Registry!vars
  <2>1. /\ pc[w] # "idle" /\ GoTo(w, "abort")
        /\ UNCHANGED <<docs, req, answer>>
    BY <1>3 DEF DatabaseFailure, StoreFailure, Rollback, db
  <2> QED BY <2>1, StillOpen, RegistryStutter
<1>4. ASSUME NEW w \in Workers, LostCommit(w)
      PROVE  Registry!RegisterSilently(w) \/ UNCHANGED Registry!vars
  <2>1. Open' = Open /\ UNCHANGED <<req, answer>>
    BY <1>4, StillOpen DEF LostCommit, Commits, Rollback
  <2>2. CASE pc[w] = "commit" /\ Publish(w)
    BY <2>1, <2>2, RegistryAdd DEF Registry!RegisterSilently, Open
  <2>3. CASE docs' = docs
    BY <2>1, <2>3, RegistryStutter
  <2> QED BY <1>4, <2>2, <2>3 DEF LostCommit, Commits, PublishFailure
<1>5. ASSUME NEW l \in links, DeleteLink(l) PROVE UNCHANGED Registry!vars
  BY <1>5, RegistryStutter DEF DeleteLink, Open
<1>6. ASSUME NEW d \in docs, DeleteDocument(d) PROVE Registry!Withdraw(d)
  <2>1. Open' = Open
    BY <1>6 DEF DeleteDocument, Control, Local, TypeOK, Open
  <2> QED BY <1>6, <2>1 DEF DeleteDocument, Registry!Withdraw, Open
<1> QED BY <1>1, <1>2, <1>3, <1>4, <1>5, <1>6 DEF Environment

\* Every step is a step of the registry or leaves it as it is.
LEMMA RegistryNext ==
    ASSUME TypeOK, Control, Registers, [Next]_vars
    PROVE  [Registry!Next]_(Registry!vars)
<1>1. ASSUME NEW w \in Workers, NEW s \in Slot, Receive(w, s)
      PROVE  Registry!Submit(w, s)
  <2>1. Open' = Open \cup {w} /\ w \notin Open
    BY <1>1 DEF Receive, GoTo, TypeOK, Open
  <2> QED BY <1>1, <2>1 DEF Receive, Registry!Submit, Open, db
<1>2. ASSUME NEW w \in Workers, Reject(w) PROVE Registry!Reject(w)
  BY <1>2 DEF Reject, Registry!Reject, db
<1>3. CASE UNCHANGED vars
  BY <1>3, RegistryStutter DEF vars, Open
<1> QED BY <1>1, <1>2, <1>3, RegistryTerms, RegistryStep, RegistryEnvironment
        DEF Next, Registry!Next

\* However the statements of concurrent requests interleave, and whatever
\* crashes, fails, is lost or is deleted, the upload endpoint behaves like a
\* registry that answers each request in one step, truthfully.
THEOREM ImplementsRegistryCorrect == Spec => ImplementsRegistry
<1>1. Init => Registry!Init
  BY RegistryTerms DEF Init, Registry!Init
<1>2. TypeOK /\ Control /\ Registers /\ [Next]_vars
      => [Registry!Next]_(Registry!vars)
  BY RegistryNext
<1> QED BY <1>1, <1>2, ControlCorrect, RegistersCorrect, PTL
        DEF Spec, ImplementsRegistry, Registry!Spec

-----------------------------------------------------------------------------
(* No server error.  A thread that gives up has found a value that the      *)
(* database refuses, or a document that makes its request a duplicate; and  *)
(* that document is still there when it looks again.                        *)

\* The type of an upload says that there is a document.
TypesRegistered ==
    \A s \in Slot : uploads[s].type # "unknown" => s \in docs

\* Why a thread is on its way out.
LeavesForCause ==
    \A w \in Workers :
        /\ pc[w] # "dangling"
        /\ pc[w] = "abort" => req[w].content \in Unstorable
        /\ pc[w] \in {"cleanup", "recheck"} =>
              req[w].content \in Unstorable \/ Existing(req[w]) # {}

Benign == TypesRegistered /\ LeavesForCause /\ NoServerError

\* The step of TypesRegistered.
LEMMA TypesRegisteredNext ==
    ASSUME "delete" \notin Incidents, TypeOK, TypesRegistered, [Next]_vars
    PROVE  TypesRegistered' /\ docs \subseteq docs'
<1>1. ASSUME NEW w \in Workers, Publish(w)
      PROVE  TypesRegistered' /\ docs \subseteq docs'
  BY <1>1 DEF Publish, TypesRegistered, TypeOK
<1>2. ASSUME NEW w \in Workers, NEW r \in Row, docs' = docs,
             uploads' = [uploads EXCEPT ![req[w]] = FailedRow(r)]
      PROVE  TypesRegistered'
  BY <1>2, FailedRowColumns DEF TypesRegistered, TypeOK
<1>3. \A w \in Workers : (IF created[w] THEN row[w] ELSE uploads[req[w]]) \in Row
  BY DEF TypeOK
<1> QED BY <1>1, <1>2, <1>3, DatabaseStep DEF DatabaseEffect, TypesRegistered

\* upload.save() fails for a key that a document has.
LEMMA KeyTakenExisting ==
    ASSUME TypeOK, Registers, TypesRegistered, NEW w \in Workers,
           IsValid(req[w]), KeyTaken(w)
    PROVE  Existing(req[w]) # {}
<1>1. PICK s \in Slot : /\ s.tenant = req[w].tenant
                        /\ uploads[s].type = KindOf[req[w].content]
                        /\ uploads[s].key = KeyOf[req[w].content]
  BY DEF KeyTaken
<1>2. s \in docs
  BY <1>1, ContentTypes DEF TypesRegistered, TypeOK
<1>3. SameKey(s, req[w])
  BY <1>1, <1>2 DEF SameKey, Registers, DocumentsKnown, DocumentBacked
<1> QED BY <1>2, <1>3 DEF Existing

\* A step of w, towards an exit that has its cause.
LEMMA CauseStep ==
    ASSUME TypeOK, LeavesForCause, NoServerError, docs \subseteq docs',
           NEW w \in Workers,
           \A v \in Workers \ {w} : /\ pc'[v] = pc[v] /\ req'[v] = req[v]
                                   /\ answer'[v] = answer[v],
           pc'[w] # "dangling",
           pc'[w] = "abort" => req'[w].content \in Unstorable,
           pc'[w] \in {"cleanup", "recheck"} =>
               req'[w].content \in Unstorable \/ Existing(req'[w]) # {},
           answer'[w] = "error" => req'[w].content \in Unstorable
    PROVE  LeavesForCause' /\ NoServerError'
<1>1. \A s : Existing(s) \subseteq Existing(s)'
  BY DEF Existing, SameKey
<1>2. ASSUME NEW v \in Workers
      PROVE  /\ pc'[v] # "dangling"
             /\ pc'[v] = "abort" => req'[v].content \in Unstorable
             /\ pc'[v] \in {"cleanup", "recheck"} =>
                   req'[v].content \in Unstorable \/ Existing(req'[v]) # {}
             /\ answer'[v] = "error" => req'[v].content \in Unstorable
  BY DEF LeavesForCause, NoServerError
<1>3. ASSUME NEW v \in Workers, Existing(req'[v]) # {}
      PROVE  Existing(req[v])' # {}
  BY <1>1, <1>3 DEF Existing, SameKey
<1> QED BY <1>2, <1>3 DEF LeavesForCause, NoServerError

\* Every statement of a request thread keeps Benign.
LEMMA CauseRequest ==
    ASSUME TypeOK, Control, Registers, TypesRegistered, LeavesForCause,
           NoServerError, docs \subseteq docs', NEW w \in Workers, Step(w)
    PROVE  LeavesForCause' /\ NoServerError'
<1>a. ASSUME NEW label \in {"get", "insert", "store", "inspect", "fail",
                            "save", "document", "link", "commit"},
             GoTo(w, label), UNCHANGED <<req, answer>>
      PROVE  LeavesForCause' /\ NoServerError'
  BY <1>a, CauseStep DEF GoTo, TypeOK, NoServerError
<1>b. ASSUME NEW label \in {"cleanup", "abort"}, Rollback(w, label),
             \/ req[w].content \in Unstorable
             \/ label = "cleanup" /\ Existing(req[w]) # {}
      PROVE  LeavesForCause' /\ NoServerError'
  BY <1>b, CauseStep DEF Rollback, GoTo, TypeOK, NoServerError
<1>c. ASSUME NEW a, Reply(w, a),
             a = "error" => req[w].content \in Unstorable
      PROVE  LeavesForCause' /\ NoServerError'
  BY <1>c, CauseStep DEF Reply, GoTo, TypeOK
<1>1. CASE Lookup(w)
  BY <1>1, <1>a, <1>c DEF Lookup
<1>2. CASE GetUpload(w)
  BY <1>2, <1>a DEF GetUpload, HaveRow
<1>3. CASE InsertUpload(w)
  BY <1>3, <1>a DEF InsertUpload, HaveRow
<1>4. CASE Inspect(w)
  BY <1>4, <1>a, <1>c DEF Inspect
<1>5. CASE Store(w)
  BY <1>5, <1>a DEF Store
<1>6. CASE Save(w)
  <2>1. KeyTaken(w) => Existing(req[w]) # {}
    BY <1>6, KeyTakenExisting DEF Save, Control, Local
  <2> QED BY <1>6, <2>1, <1>a, <1>b, ContentAssumption DEF Save
<1>7. CASE CreateDocument(w)
  BY <1>7, <1>a, <1>b DEF CreateDocument, DocumentTaken
<1>8. CASE SyncLinks(w)
  BY <1>8, <1>a DEF SyncLinks
<1>9. CASE Commit(w)
  BY <1>9, <1>c DEF Commit
<1>10. CASE CommitDangling(w)
  BY <1>10 DEF CommitDangling, LeavesForCause
<1>11. CASE RecordFailure(w)
  BY <1>11, <1>c DEF RecordFailure
<1>12. CASE Cleanup(w)
  <2>1. CASE pc[w] = "cleanup" /\ GoTo(w, "recheck") /\ UNCHANGED <<req, answer>>
    BY <2>1, CauseStep DEF GoTo, TypeOK, LeavesForCause, NoServerError
  <2>2. CASE pc[w] = "abort" /\ Reply(w, "error")
    BY <2>2, <1>c DEF LeavesForCause
  <2> QED BY <1>12, <2>1, <2>2 DEF Cleanup
<1>13. CASE Recheck(w)
  <2>1. pc[w] = "recheck"
        /\ Reply(w, IF Existing(req[w]) # {} THEN "existing" ELSE "error")
    BY <1>13 DEF Recheck
  <2>2. req[w].content \in Unstorable \/ Existing(req[w]) # {}
    BY <2>1 DEF LeavesForCause
  <2>3. CASE Existing(req[w]) = {}
    BY <2>1, <2>2, <2>3, <1>c
  <2>4. CASE Existing(req[w]) # {}
    BY <2>1, <2>4, <1>c
  <2> QED BY <2>3, <2>4
<1> QED BY <1>1, <1>2, <1>3, <1>4, <1>5, <1>6, <1>7, <1>8, <1>9, <1>10,
           <1>11, <1>12, <1>13 DEF Step

\* Only processes die.
CrashesOnly == Incidents \subseteq {"crash"}

\* Benign is inductive.
LEMMA BenignNext ==
    ASSUME CrashesOnly, TypeOK, Control, Registers, Benign, [Next]_vars
    PROVE  Benign'
<1>1. TypesRegistered' /\ docs \subseteq docs'
  BY TypesRegisteredNext DEF Benign, CrashesOnly
<1>2. ASSUME NEW w \in Workers, Step(w)
      PROVE  LeavesForCause' /\ NoServerError'
  BY <1>1, <1>2, CauseRequest DEF Benign
<1>3. CASE Environment
  <2>1. PICK w \in Workers : Crash(w) \/ CrashAfterCommit(w)
    BY <1>3 DEF Environment, Incident, CrashesOnly, DatabaseFailure,
       StoreFailure, DeleteFailure, LostCommit, DeleteLink, DeleteDocument
  <2>2. Reply(w, "none")
    BY <2>1 DEF Crash, CrashAfterCommit
  <2> QED BY <1>1, <2>2, CauseStep DEF Reply, GoTo, TypeOK, Benign
<1>4. ASSUME NEW w \in Workers, Reject(w) \/ \E s \in Slot : Receive(w, s)
      PROVE  LeavesForCause' /\ NoServerError'
  <2>1. CASE Reject(w)
    BY <1>1, <2>1, CauseStep DEF Reject, TypeOK, Benign
  <2>2. ASSUME NEW s \in Slot, Receive(w, s)
        PROVE  LeavesForCause' /\ NoServerError'
    BY <1>1, <2>2, CauseStep DEF Receive, GoTo, TypeOK, Benign
  <2> QED BY <1>4, <2>1, <2>2
<1>5. CASE UNCHANGED vars
  <2>1. UNCHANGED <<pc, req, answer, docs>>
    BY <1>5 DEF vars
  <2>2. ASSUME NEW w \in Workers PROVE Existing(req[w])' = Existing(req[w])
    BY <2>1 DEF Existing, SameKey
  <2> QED BY <1>1, <2>1, <2>2 DEF Benign, LeavesForCause, NoServerError
<1>6. LeavesForCause' /\ NoServerError'
  BY <1>2, <1>3, <1>4, <1>5 DEF Next, Benign
<1> QED BY <1>1, <1>6 DEF Benign

\* If nothing happens but that processes die, only a document with a value
\* that the database refuses is answered with a server error: the loser of
\* every race finds the document of the winner.
THEOREM NoServerErrorCorrect ==
    ASSUME CrashesOnly
    PROVE  Spec => []NoServerError
<1>1. Init => Benign
  BY DEF Init, Benign, TypesRegistered, LeavesForCause, NoServerError, NoRow
<1>2. TypeOK /\ Control /\ Registers /\ Benign /\ [Next]_vars => Benign'
  BY BenignNext
<1>3. Benign => NoServerError
  BY DEF Benign
<1> QED BY <1>1, <1>2, <1>3, ControlCorrect, RegistersCorrect, PTL DEF Spec
=============================================================================
