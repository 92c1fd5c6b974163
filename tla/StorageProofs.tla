--------------------------- MODULE StorageProofs ---------------------------
(****************************************************************************)
(* Rows and files are not written atomically.  What keeps them together is  *)
(* that a file has one owner, the thread that stored it or the committed    *)
(* row, and that only the thread that has inserted a row stores a file for  *)
(* it.  So a processed upload never changes and every stray file has an     *)
(* incident of its own, whatever the incidents; and the original of every   *)
(* processed upload is in the storage, as long as no acknowledgement of a   *)
(* COMMIT is lost.                                                          *)
(****************************************************************************)
EXTENDS IngestionProofs, FiniteSetTheorems

\* What the committed uploads look like.
UploadsFiled ==
    \A s \in Slot :
        /\ uploads[s].status = "absent" => uploads[s].file = NoFile
        /\ ~IsValid(s) => uploads[s].status \in {"absent", "failed"}
        /\ IsValid(s) /\ uploads[s].status # "absent" =>
                uploads[s].file # NoFile
        /\ uploads[s].file # NoFile => uploads[s].file.owner = s

\* Where the file in a thread's row comes from: the committed upload it has
\* found, or the file it has stored for the row it has inserted.
RowsFiled ==
    \A w \in Workers :
        /\ created[w] => uploads[req[w]].status = "absent"
        /\ created[w] /\ pc[w] \in {"store", "fail"} => row[w] = NewRow
        /\ created[w] /\ pc[w] \in {"save", "document", "link", "commit",
                                    "dangling"} =>
                stored[w] # NoFile /\ row[w].file = stored[w]
        /\ ~created[w] /\ pc[w] \in {"inspect", "store", "save", "document",
                                     "link", "commit", "dangling"} =>
                /\ uploads[req[w]].status # "absent"
                /\ row[w].file = uploads[req[w]].file

\* A stored file belongs to its thread alone, until it is committed; a thread
\* that takes a lost acknowledgement for a rollback still thinks it does.
StoredOwned ==
    \A w \in Workers : stored[w] # NoFile =>
        /\ stored[w] \in storage
        /\ stored[w].owner = req[w]
        /\ created[w] \/ pc[w] \in {"cleanup", "abort"}
        /\ \A s \in Slot : uploads[s].file = stored[w] => pc[w] = "abort"
        /\ \A v \in Workers \ {w} : stored[v] # stored[w]

Files ==
    /\ UploadsFiled
    /\ RowsFiled
    /\ StoredOwned

\* There are no files at first.
LEMMA InitFiles == Init => Files
BY DEF Init, Files, UploadsFiled, RowsFiled, StoredOwned, NoRow

\* The thread w ends its request or its transaction, and writes nothing.
LEMMA LeaveStep ==
    ASSUME TypeOK, Files, NEW w \in Workers,
           \/ \E a : Reply(w, a)
           \/ Rollback(w, "cleanup") /\ pc[w] # "abort"
           \/ Rollback(w, "abort"),
           uploads' = uploads, storage \subseteq storage'
    PROVE  Files'
<1>1. /\ pc' = [pc EXCEPT ![w] = pc'[w]]
      /\ pc'[w] \in {"idle", "cleanup", "abort"}
      /\ req' = req
      /\ row' = [row EXCEPT ![w] = NoRow]
      /\ created' = [created EXCEPT ![w] = FALSE]
      /\ \/ stored' = [stored EXCEPT ![w] = NoFile]
         \/ /\ stored' = stored
            /\ pc'[w] = "abort" \/ (pc'[w] = "cleanup" /\ pc[w] # "abort")
  BY DEF Reply, Rollback, GoTo, TypeOK
<1>2. UploadsFiled'
  BY DEF Files, UploadsFiled, IsValid
<1>3. RowsFiled'
  BY <1>1 DEF Files, RowsFiled, TypeOK
<1>4. StoredOwned'
  BY <1>1 DEF Files, StoredOwned, TypeOK
<1> QED BY <1>2, <1>3, <1>4 DEF Files

\* A COMMIT, acknowledged or not: the file passes from the thread to the
\* committed row.
LEMMA CommitFiles ==
    ASSUME TypeOK, Control, Registers, RowsExclusive, Files,
           NEW w \in Workers, pc[w] = "commit", Publish(w),
           (\E a : Reply(w, a)) \/ Rollback(w, "abort"),
           storage' = storage
    PROVE  Files'
<1>1. /\ req[w] \in Slot /\ IsValid(req[w]) /\ row[w].status = "processed"
      /\ uploads' = [uploads EXCEPT ![req[w]] = row[w]]
      /\ row[w].file.owner = req[w]
      /\ row[w].file # NoFile
  BY DEF Publish, TypeOK, Control, Local, Registers, RowsReady, HoldsKey,
         Files, UploadsFiled, RowsFiled, StoredOwned
<1>2. /\ pc' = [pc EXCEPT ![w] = pc'[w]]
      /\ req' = req
      /\ row' = [row EXCEPT ![w] = NoRow]
      /\ created' = [created EXCEPT ![w] = FALSE]
      /\ \/ pc'[w] = "idle" /\ stored' = [stored EXCEPT ![w] = NoFile]
         \/ pc'[w] = "abort" /\ stored' = stored
  BY DEF Reply, Rollback, GoTo, TypeOK
<1>3. UploadsFiled'
  BY <1>1 DEF Files, UploadsFiled, IsValid, TypeOK
<1>4. RowsFiled'
  <2>1. ASSUME NEW v \in Workers \ {w}, req[v] = req[w]
        PROVE  ~created[v]
    BY <2>1 DEF RowsExclusive, HoldsRow, HoldsKey
  <2>2. ASSUME NEW v \in Workers \ {w}, req[v] = req[w],
               uploads[req[v]].status # "absent"
        PROVE  row[w].file = uploads[req[v]].file
    BY <2>2 DEF Files, RowsFiled
  <2> QED BY <1>1, <1>2, <2>1, <2>2 DEF Files, RowsFiled, TypeOK
<1>5. StoredOwned'
  <2>1. ASSUME NEW v \in Workers \ {w}, stored[v] # NoFile,
               row[w].file = stored[v]
        PROVE  pc[v] = "abort"
    <3>1. ~created[w]
      BY <2>1 DEF Files, StoredOwned, RowsFiled
    <3>2. row[w].file = uploads[req[w]].file
      BY <3>1 DEF Files, RowsFiled
    <3> QED BY <1>1, <2>1, <3>2 DEF Files, StoredOwned
  <2>2. \A s \in Slot : uploads'[s] = IF s = req[w] THEN row[w] ELSE uploads[s]
    BY <1>1 DEF TypeOK
  <2> QED BY <1>2, <2>1, <2>2 DEF Files, StoredOwned, TypeOK
<1> QED BY <1>3, <1>4, <1>5 DEF Files

\* get_or_create finds a committed row.
LEMMA FoundRow ==
    ASSUME TypeOK, Control, Files, NEW w \in Workers,
           pc[w] \in {"get", "insert"},
           uploads[req[w]].status # "absent",
           HaveRow(w, uploads[req[w]], FALSE),
           UNCHANGED <<req, answer, stored, pending, db, storage, incidents>>
    PROVE  Files'
<1>1. /\ pc' = [pc EXCEPT ![w] = pc'[w]]
      /\ pc'[w] \in {"inspect", "fail"}
      /\ row' = [row EXCEPT ![w] = uploads[req[w]]]
      /\ created' = [created EXCEPT ![w] = FALSE]
      /\ UNCHANGED <<req, stored, uploads, storage>>
  BY DEF HaveRow, GoTo, db, TypeOK
<1>2. UploadsFiled'
  BY <1>1 DEF Files, UploadsFiled, IsValid
<1>3. RowsFiled'
  BY <1>1 DEF Files, RowsFiled, TypeOK
<1>4. StoredOwned'
  BY <1>1 DEF Files, StoredOwned, Control, Local, TypeOK
<1> QED BY <1>2, <1>3, <1>4 DEF Files

\* The COMMIT of a failure leaves the file of its upload where it is.
LEMMA FailureFiles ==
    ASSUME TypeOK, Control, Files, NEW w \in Workers,
           pc[w] = "fail", PublishFailure(w),
           (\E a : Reply(w, a)) \/ Rollback(w, "abort"),
           storage' = storage
    PROVE  Files'
<1> DEFINE base == IF created[w] THEN row[w] ELSE uploads[req[w]]
<1> DEFINE failed == [base EXCEPT !.type = "unknown", !.status = "failed"]
<1>1. /\ pc' = [pc EXCEPT ![w] = pc'[w]] /\ pc'[w] \in {"idle", "abort"}
      /\ row' = [row EXCEPT ![w] = NoRow]
      /\ created' = [created EXCEPT ![w] = FALSE]
      /\ \/ pc'[w] = "abort" /\ stored' = stored
         \/ stored' = [stored EXCEPT ![w] = NoFile]
      /\ uploads' = [uploads EXCEPT ![req[w]] = failed]
      /\ UNCHANGED <<req, storage>>
      /\ ~RowBusy(w)
      /\ req[w] \in Slot /\ ~IsValid(req[w]) /\ base \in Row
  BY DEF PublishFailure, Reply, Rollback, GoTo, TypeOK, Control, Local
<1>2. failed.status = "failed" /\ failed.file = base.file
  BY <1>1 DEF Row
<1>3. base.file = NoFile \/ base.file = uploads[req[w]].file
  BY <1>1 DEF Files, RowsFiled, NewRow, NoRow
<1> HIDE DEF base, failed
<1>4. UploadsFiled'
  BY <1>1, <1>2, <1>3 DEF Files, UploadsFiled, IsValid, TypeOK
<1>5. RowsFiled'
  <2>1. ASSUME NEW v \in Workers \ {w}, req[v] = req[w]
        PROVE  /\ ~created[v]
               /\ pc[v] \notin {"inspect", "store", "save", "document",
                                "link", "commit", "dangling"}
    BY <1>1, <2>1 DEF RowBusy, HoldsRow, HoldsKey, Control, Local, IsValid
  <2> QED BY <1>1, <2>1 DEF Files, RowsFiled, TypeOK
<1>6. StoredOwned'
  BY <1>1, <1>2, <1>3 DEF Files, StoredOwned, TypeOK
<1> QED BY <1>4, <1>5, <1>6 DEF Files

\* Every statement of a request thread keeps Files.
LEMMA FilesStep ==
    ASSUME TypeOK, Control, Registers, RowsExclusive, Files,
           NEW w \in Workers, Step(w)
    PROVE  Files'
<1>1. CASE Lookup(w)
  <2>1. CASE Reply(w, "existing")
    BY <1>1, <2>1, LeaveStep DEF Lookup, db
  <2>2. CASE GoTo(w, "get") /\ UNCHANGED <<req, answer, local>>
    BY <1>1, <2>2 DEF Lookup, GoTo, local, db, TypeOK, IsValid, Files,
       UploadsFiled, RowsFiled, StoredOwned
  <2> QED BY <1>1, <2>1, <2>2 DEF Lookup
<1>2. CASE GetUpload(w)
  <2>1. CASE GoTo(w, "insert") /\ UNCHANGED <<row, created>>
    BY <1>2, <2>1 DEF GetUpload, GoTo, db, TypeOK, IsValid, Files, Control,
       Local, UploadsFiled, RowsFiled, StoredOwned
  <2>2. CASE HaveRow(w, uploads[req[w]], FALSE)
             /\ uploads[req[w]].status # "absent"
    BY <1>2, <2>2, FoundRow DEF GetUpload
  <2> QED BY <1>2, <2>1, <2>2 DEF GetUpload
<1>3. CASE InsertUpload(w)
  <2>1. CASE HaveRow(w, uploads[req[w]], FALSE)
             /\ uploads[req[w]].status # "absent"
    BY <1>3, <2>1, FoundRow DEF InsertUpload
  <2>2. CASE HaveRow(w, NewRow, TRUE) /\ uploads[req[w]].status = "absent"
    <3>1. /\ pc[w] = "insert" /\ pc' = [pc EXCEPT ![w] = pc'[w]]
          /\ pc'[w] \in {"store", "fail"}
          /\ row' = [row EXCEPT ![w] = NewRow]
          /\ created' = [created EXCEPT ![w] = TRUE]
          /\ UNCHANGED <<req, stored, uploads, storage>>
      BY <1>3, <2>2 DEF InsertUpload, HaveRow, GoTo, db, TypeOK
    <3>2. UploadsFiled'
      BY <3>1 DEF Files, UploadsFiled, IsValid
    <3>3. RowsFiled'
      BY <2>2, <3>1 DEF Files, RowsFiled, TypeOK
    <3>4. StoredOwned'
      BY <3>1 DEF Files, StoredOwned, TypeOK
    <3> QED BY <3>2, <3>3, <3>4 DEF Files
  <2> QED BY <1>3, <2>1, <2>2 DEF InsertUpload
<1>4. CASE Inspect(w)
  <2>1. CASE Reply(w, "existing")
    BY <1>4, <2>1, LeaveStep DEF Inspect, db
  <2>2. CASE GoTo(w, "store") /\ UNCHANGED <<req, answer, local>>
    BY <1>4, <2>2 DEF Inspect, GoTo, local, db, TypeOK, IsValid, Files,
       Control, Local, UploadsFiled, RowsFiled, StoredOwned
  <2> QED BY <1>4, <2>1, <2>2 DEF Inspect
<1>5. CASE Store(w)
  <2>1. /\ pc[w] = "store" /\ pc' = [pc EXCEPT ![w] = "save"]
        /\ UNCHANGED <<req, created, uploads>>
        /\ req[w] \in Slot /\ IsValid(req[w])
    BY <1>5 DEF Store, GoTo, db, TypeOK, Control, Local
  <2>2. CASE row[w].file # NoFile
    <3>1. UNCHANGED <<row, stored, storage>>
      BY <1>5, <2>2 DEF Store
    <3>2. ~created[w]
      BY <2>1, <2>2 DEF Files, RowsFiled, NewRow, NoRow
    <3>3. UploadsFiled' /\ RowsFiled' /\ StoredOwned'
      BY <2>1, <3>1, <3>2
      DEF Files, UploadsFiled, RowsFiled, StoredOwned, IsValid, TypeOK
    <3> QED BY <3>3 DEF Files
  <2>3. CASE row[w].file = NoFile
    <3>1. PICK f \in FreshFiles(req[w]) :
             /\ row' = [row EXCEPT ![w].file = f]
             /\ stored' = [stored EXCEPT ![w] = f]
             /\ storage' = storage \cup {f}
      BY <1>5, <2>3 DEF Store
    <3>2. f \in File /\ f \notin storage /\ f.owner = req[w] /\ f # NoFile
      BY <2>1, FreshFilesFresh
    <3>3. created[w]
      BY <2>1, <2>3 DEF Files, RowsFiled, UploadsFiled
    <3>4. row'[w].file = f
      BY <3>1 DEF TypeOK, Row
    <3>5. UploadsFiled'
      BY <2>1, <3>1 DEF Files, UploadsFiled, IsValid
    <3>6. RowsFiled'
      BY <2>1, <3>1, <3>2, <3>3, <3>4 DEF Files, RowsFiled, TypeOK
    <3>7. \A r \in Slot : uploads[r].file # f
      BY <3>2, <3>3 DEF Files, RowsFiled, UploadsFiled
    <3>8. \A v \in Workers : stored[v] # f
      BY <3>2 DEF Files, StoredOwned
    <3>9. StoredOwned'
      BY <2>1, <3>1, <3>2, <3>3, <3>7, <3>8 DEF Files, StoredOwned, TypeOK
    <3> QED BY <3>5, <3>6, <3>9 DEF Files
  <2> QED BY <2>2, <2>3
<1>6. CASE Save(w)
  <2>1. CASE Rollback(w, "cleanup")
    BY <1>6, <2>1, LeaveStep DEF Save, db
  <2>2. CASE ~Rollback(w, "cleanup")
    <3>1. /\ pc[w] = "save" /\ pc' = [pc EXCEPT ![w] = "document"]
          /\ UNCHANGED <<req, created, stored, uploads, storage>>
          /\ row' = [row EXCEPT ![w].type = KindOf[req[w].content],
                                ![w].key = KeyOf[req[w].content],
                                ![w].status = "processing"]
      BY <1>6, <2>2 DEF Save, GoTo, db
    <3>2. row'[w].file = row[w].file
      BY <3>1 DEF TypeOK, Row
    <3>3. UploadsFiled'
      BY <3>1 DEF Files, UploadsFiled, IsValid
    <3>4. RowsFiled'
      BY <3>1, <3>2 DEF Files, RowsFiled, TypeOK
    <3>5. StoredOwned'
      BY <3>1 DEF Files, StoredOwned, TypeOK
    <3> QED BY <3>3, <3>4, <3>5 DEF Files
  <2> QED BY <2>1, <2>2
<1>7. CASE CreateDocument(w)
  <2>1. ASSUME NEW label \in {"cleanup", "abort"}, Rollback(w, label)
        PROVE  Files'
    BY <1>7, <2>1, LeaveStep DEF CreateDocument, db
  <2>2. CASE GoTo(w, "link") /\ UNCHANGED <<req, answer, local>>
    BY <1>7, <2>2 DEF CreateDocument, GoTo, local, db, TypeOK, IsValid, Files,
       UploadsFiled, RowsFiled, StoredOwned
  <2> QED BY <1>7, <2>1, <2>2 DEF CreateDocument
<1>8. CASE SyncLinks(w)
  <2>1. /\ pc[w] = "link" /\ pc' = [pc EXCEPT ![w] = "commit"]
        /\ UNCHANGED <<req, created, stored, uploads, storage>>
        /\ row' = [row EXCEPT ![w].status = "processed"]
    BY <1>8 DEF SyncLinks, GoTo, db
  <2>2. row'[w].file = row[w].file
    BY <2>1 DEF TypeOK, Row
  <2>3. UploadsFiled'
    BY <2>1 DEF Files, UploadsFiled, IsValid
  <2>4. RowsFiled'
    BY <2>1, <2>2 DEF Files, RowsFiled, TypeOK
  <2>5. StoredOwned'
    BY <2>1 DEF Files, StoredOwned, TypeOK
  <2> QED BY <2>3, <2>4, <2>5 DEF Files
<1>9. CASE Commit(w)
  BY <1>9, CommitFiles DEF Commit
<1>10. CASE CommitDangling(w)
  BY <1>10, LeaveStep DEF CommitDangling, db
<1>11. CASE RecordFailure(w)
  BY <1>11, FailureFiles DEF RecordFailure
<1>12. CASE Cleanup(w)
  <2>1. /\ pc[w] \in {"cleanup", "abort"}
        /\ pc' = [pc EXCEPT ![w] = pc'[w]]
        /\ pc'[w] \in {"idle", "recheck"}
        /\ UNCHANGED <<req, uploads>>
        /\ row' = row \/ row' = [row EXCEPT ![w] = NoRow]
        /\ created' = created \/ created' = [created EXCEPT ![w] = FALSE]
        /\ stored' = [stored EXCEPT ![w] = NoFile]
        /\ storage' = storage \ {stored[w]}
    BY <1>12 DEF Cleanup, Reply, GoTo, db, TypeOK
  <2>2. UploadsFiled'
    BY <2>1 DEF Files, UploadsFiled, StoredOwned, IsValid, TypeOK
  <2>3. RowsFiled'
    BY <2>1 DEF Files, RowsFiled, Control, Local, TypeOK
  <2>4. StoredOwned'
    BY <2>1 DEF Files, StoredOwned, TypeOK
  <2> QED BY <2>2, <2>3, <2>4 DEF Files
<1>13. CASE Recheck(w)
  BY <1>13, LeaveStep DEF Recheck, db
<1> QED BY <1>1, <1>2, <1>3, <1>4, <1>5, <1>6, <1>7, <1>8, <1>9, <1>10,
           <1>11, <1>12, <1>13 DEF Step

\* So does the environment.
LEMMA FilesEnvironment ==
    ASSUME TypeOK, Control, Registers, RowsExclusive, Files, Environment
    PROVE  Files'
<1>1. ASSUME NEW w \in Workers, Crash(w) PROVE Files'
  BY <1>1, LeaveStep DEF Crash, db
<1>2. ASSUME NEW w \in Workers, CrashAfterCommit(w) PROVE Files'
  BY <1>2, CommitFiles, FailureFiles DEF CrashAfterCommit, Commits
<1>3. ASSUME NEW w \in Workers, DatabaseFailure(w) PROVE Files'
  BY <1>3, LeaveStep DEF DatabaseFailure, db
<1>4. ASSUME NEW w \in Workers, StoreFailure(w) PROVE Files'
  BY <1>4, LeaveStep DEF StoreFailure, db
<1>5. ASSUME NEW w \in Workers, DeleteFailure(w) PROVE Files'
  BY <1>5, LeaveStep DEF DeleteFailure, db
<1>6. ASSUME NEW w \in Workers, LostCommit(w) PROVE Files'
  BY <1>6, CommitFiles, FailureFiles DEF LostCommit, Commits
<1>7. ASSUME NEW l \in links, DeleteLink(l) PROVE Files'
  BY <1>7 DEF DeleteLink, local, Files, UploadsFiled, RowsFiled, StoredOwned,
     IsValid
<1>8. ASSUME NEW d \in docs, DeleteDocument(d) PROVE Files'
  <2>1. \A w \in Workers : \/ pc'[w] = pc[w]
                           \/ pc[w] \in {"commit", "dangling"}
                              /\ pc'[w] = "dangling"
    BY <1>8 DEF DeleteDocument, Control, Local, TypeOK
  <2>2. UNCHANGED <<req, local, uploads, storage>>
    BY <1>8 DEF DeleteDocument
  <2>3. UploadsFiled'
    BY <2>2 DEF Files, UploadsFiled, IsValid
  <2>4. RowsFiled'
    BY <2>1, <2>2 DEF local, Files, RowsFiled
  <2>5. StoredOwned'
    BY <2>1, <2>2 DEF local, Files, StoredOwned, Control, Local
  <2> QED BY <2>3, <2>4, <2>5 DEF Files
<1> QED BY <1>1, <1>2, <1>3, <1>4, <1>5, <1>6, <1>7, <1>8 DEF Environment

\* Files is inductive, relative to TypeOK, Control, Registers, RowsExclusive.
LEMMA FilesNext ==
    ASSUME TypeOK, Control, Registers, RowsExclusive, Files, [Next]_vars
    PROVE  Files'
<1>1. ASSUME NEW w \in Workers, NEW s \in Slot, Receive(w, s) PROVE Files'
  <2>1. ~created[w] /\ stored[w] = NoFile
    BY <1>1 DEF Receive, Control, Local, Files, StoredOwned
  <2>2. /\ pc' = [pc EXCEPT ![w] = pc'[w]]
        /\ pc'[w] \in {"lookup", "get"}
        /\ req' = [req EXCEPT ![w] = s]
        /\ UNCHANGED <<row, created, stored, uploads, storage>>
    BY <1>1 DEF Receive, GoTo, db, local, TypeOK
  <2>3. UploadsFiled'
    BY <2>2 DEF Files, UploadsFiled, IsValid
  <2>4. RowsFiled'
    BY <2>1, <2>2 DEF Files, RowsFiled, TypeOK
  <2>5. StoredOwned'
    BY <2>1, <2>2 DEF Files, StoredOwned, TypeOK
  <2> QED BY <2>3, <2>4, <2>5 DEF Files
<1>2. ASSUME NEW w \in Workers, Reject(w) PROVE Files'
  BY <1>2 DEF Reject, db, local, Files, UploadsFiled, RowsFiled, StoredOwned,
     IsValid
<1>3. CASE UNCHANGED vars
  BY <1>3 DEF vars, Files, UploadsFiled, RowsFiled, StoredOwned, IsValid
<1> QED BY <1>1, <1>2, <1>3, FilesStep, FilesEnvironment DEF Next

\* The inductive invariant of the storage, whatever the incidents.
THEOREM FilesCorrect == Spec => []Files
<1>1. Init => Files
  BY InitFiles
<1>2. TypeOK /\ Control /\ Registers /\ RowsExclusive /\ Files /\ [Next]_vars
      => Files'
  BY FilesNext
<1> QED BY <1>1, <1>2, ControlCorrect, RegistersCorrect, RowsExclusiveCorrect,
           PTL DEF Spec

-----------------------------------------------------------------------------
(* The original is never replaced: a second COMMIT for a processed upload   *)
(* writes the row that is there.                                            *)

\* A processed upload has the type and the key of its content.
ProcessedNamed ==
    \A s \in Slot : uploads[s].status = "processed" =>
        /\ uploads[s].type = KindOf[s.content]
        /\ uploads[s].key = KeyOf[s.content]

\* The two writers of an upload row leave a processed one as it is.
LEMMA ProcessedKept ==
    ASSUME TypeOK, Control, Registers, Files, ProcessedNamed, [Next]_vars,
           NEW s \in Slot, uploads[s].status = "processed"
    PROVE  uploads'[s] = uploads[s]
<1>1. ASSUME NEW w \in Workers, pc[w] = "commit", Publish(w), s = req[w]
      PROVE  uploads'[s] = uploads[s]
  <2>1. uploads'[s] = row[w] /\ row[w] \in Row /\ uploads[s] \in Row
    BY <1>1 DEF Publish, TypeOK
  <2>2. ~created[w] /\ row[w].file = uploads[s].file
    BY <1>1 DEF Files, RowsFiled
  <2>3. /\ row[w].type = uploads[s].type
        /\ row[w].key = uploads[s].key
        /\ row[w].status = uploads[s].status
    BY <1>1 DEF Registers, RowsReady, HoldsKey, ProcessedNamed
  <2> QED BY <2>1, <2>2, <2>3 DEF Row
<1>2. ASSUME NEW w \in Workers, pc[w] = "fail" PROVE s # req[w]
  BY <1>2 DEF Control, Local, Files, UploadsFiled
<1> QED BY <1>1, <1>2, DatabaseStep DEF DatabaseEffect, Publish, TypeOK

\* The step of ProcessedNamed.
LEMMA ProcessedNext ==
    ASSUME TypeOK, Registers, ProcessedNamed, [Next]_vars
    PROVE  ProcessedNamed'
<1>1. ASSUME NEW w \in Workers, NEW r \in Row, pc[w] = "fail",
             uploads' = [uploads EXCEPT ![req[w]] = FailedRow(r)]
      PROVE  ProcessedNamed'
  BY <1>1, FailedRowColumns DEF ProcessedNamed, TypeOK
<1>2. ASSUME NEW w \in Workers, pc[w] = "commit", Publish(w)
      PROVE  ProcessedNamed'
  BY <1>2 DEF Publish, Registers, RowsReady, HoldsKey, ProcessedNamed, TypeOK
<1>3. \A w \in Workers : (IF created[w] THEN row[w] ELSE uploads[req[w]]) \in Row
  BY DEF TypeOK
<1> QED BY <1>1, <1>2, <1>3, DatabaseStep DEF DatabaseEffect, ProcessedNamed

\* No step changes a processed upload: its original, its type and its key are
\* there for good, also when it is uploaded again after its document has been
\* deleted.
THEOREM OriginalNeverReplacedCorrect == Spec => OriginalNeverReplaced
<1> DEFINE IInv == TypeOK /\ Control /\ Registers /\ Files
<1>1. Init => ProcessedNamed
  BY DEF Init, ProcessedNamed, NoRow
<1>2. IInv /\ ProcessedNamed /\ [Next]_vars => ProcessedNamed'
  BY ProcessedNext
<1>3. IInv /\ ProcessedNamed /\ [Next]_vars =>
        [\A s \in Slot : uploads[s].status = "processed" =>
                             uploads'[s] = uploads[s]]_vars
  BY ProcessedKept
<1>4. Spec => []IInv
  BY ControlCorrect, RegistersCorrect, FilesCorrect, PTL
<1> QED BY <1>1, <1>2, <1>3, <1>4, PTL DEF Spec, OriginalNeverReplaced

-----------------------------------------------------------------------------
(* Every stray file comes from an incident of its own.                      *)

\* A thread has a file of its own from the statement that stores it until the
\* transaction commits or the file is deleted.
StoredInHand ==
    \A w \in Workers : stored[w] # NoFile =>
        pc[w] \in {"save", "document", "link", "commit", "dangling",
                   "cleanup", "abort"}

\* The step of StoredInHand.
LEMMA StoredInHandNext ==
    ASSUME TypeOK, Control, StoredInHand, [Next]_vars
    PROVE  StoredInHand'
<1> USE DEF StoredInHand, TypeOK
<1>1. ASSUME NEW w \in Workers, NEW a, Reply(w, a) PROVE StoredInHand'
  BY <1>1 DEF Reply, GoTo
<1>2. ASSUME NEW w \in Workers, NEW label \in {"cleanup", "abort"},
             Rollback(w, label)
      PROVE  StoredInHand'
  BY <1>2 DEF Rollback, GoTo
<1>3. ASSUME NEW w \in Workers, Step(w) PROVE StoredInHand'
  <2>1. CASE Lookup(w)
    BY <2>1, <1>1 DEF Lookup, GoTo, local
  <2>2. CASE GetUpload(w)
    BY <2>2 DEF GetUpload, HaveRow, GoTo
  <2>3. CASE InsertUpload(w)
    BY <2>3 DEF InsertUpload, HaveRow, GoTo
  <2>4. CASE Inspect(w)
    BY <2>4, <1>1 DEF Inspect, GoTo, local
  <2>5. CASE Store(w)
    BY <2>5 DEF Store, GoTo
  <2>6. CASE Save(w)
    BY <2>6, <1>2 DEF Save, GoTo
  <2>7. CASE CreateDocument(w)
    BY <2>7, <1>2 DEF CreateDocument, GoTo, local
  <2>8. CASE SyncLinks(w)
    BY <2>8 DEF SyncLinks, GoTo
  <2>9. CASE Commit(w) \/ RecordFailure(w) \/ Recheck(w)
    BY <2>9, <1>1 DEF Commit, RecordFailure, Recheck
  <2>10. CASE CommitDangling(w)
    BY <2>10, <1>2 DEF CommitDangling
  <2>11. CASE Cleanup(w)
    BY <2>11, <1>1 DEF Cleanup, GoTo
  <2> QED BY <1>3, <2>1, <2>2, <2>3, <2>4, <2>5, <2>6, <2>7, <2>8, <2>9,
             <2>10, <2>11 DEF Step
<1>4. CASE Environment
  <2>1. ASSUME NEW w \in Workers, \/ Crash(w) \/ CrashAfterCommit(w)
                                  \/ DeleteFailure(w)
        PROVE  StoredInHand'
    BY <2>1, <1>1 DEF Crash, CrashAfterCommit, DeleteFailure
  <2>2. ASSUME NEW w \in Workers, \/ DatabaseFailure(w) \/ StoreFailure(w)
                                  \/ LostCommit(w)
        PROVE  StoredInHand'
    BY <2>2, <1>2 DEF DatabaseFailure, StoreFailure, LostCommit
  <2>3. ASSUME NEW l \in links, DeleteLink(l) PROVE StoredInHand'
    BY <2>3 DEF DeleteLink, local
  <2>4. ASSUME NEW d \in docs, DeleteDocument(d) PROVE StoredInHand'
    BY <2>4 DEF DeleteDocument, local
  <2> QED BY <1>4, <2>1, <2>2, <2>3, <2>4 DEF Environment
<1>5. ASSUME NEW w \in Workers, Reject(w) \/ \E s \in Slot : Receive(w, s)
      PROVE  StoredInHand'
  BY <1>5 DEF Reject, Receive, GoTo, local, Control, Local
<1>6. CASE UNCHANGED vars
  BY <1>6 DEF vars
<1> QED BY <1>3, <1>4, <1>5, <1>6 DEF Next

\* No file of an upload is given up when its row is written again.
LEMMA UploadFilesKept ==
    ASSUME TypeOK, Control, Files, [Next]_vars,
           NEW s \in Slot, uploads[s].file # NoFile
    PROVE  uploads'[s].file = uploads[s].file
<1>1. ASSUME NEW w \in Workers, pc[w] = "commit", Publish(w), s = req[w]
      PROVE  uploads'[s].file = uploads[s].file
  <2>1. uploads'[s] = row[w] /\ ~created[w]
    BY <1>1 DEF Publish, TypeOK, Files, RowsFiled, UploadsFiled
  <2> QED BY <1>1, <2>1 DEF Files, RowsFiled
<1>2. ASSUME NEW w \in Workers, NEW r, pc[w] = "fail", s = req[w],
             r = IF created[w] THEN row[w] ELSE uploads[req[w]],
             uploads' = [uploads EXCEPT ![req[w]] = FailedRow(r)]
      PROVE  uploads'[s].file = uploads[s].file
  <2>1. ~created[w]
    BY <1>2 DEF Files, RowsFiled, UploadsFiled
  <2>2. uploads'[s] = FailedRow(uploads[s]) /\ uploads[s] \in Row
    BY <1>2, <2>1 DEF TypeOK
  <2> QED BY <2>2, FailedRowColumns
<1> QED BY <1>1, <1>2, DatabaseStep DEF DatabaseEffect, Publish, TypeOK

\* A step makes a stray file only of one that it drops or stores.
Dropped == {f \in File : \E w \in Workers : stored[w] = f /\ stored'[w] # f}
LEMMA OrphansMade ==
    ASSUME TypeOK, Control, Files, [Next]_vars
    PROVE  Orphans' \subseteq Orphans \cup Dropped \cup (storage' \ storage)
<1> SUFFICES ASSUME NEW f \in Orphans', f \notin Dropped, f \in storage
             PROVE  f \in Orphans
  BY DEF Orphans
<1>1. \A s \in Slot : uploads[s].file # f
  BY UploadFilesKept, NoFileAssumption DEF Orphans, TypeOK
<1>2. \A w \in Workers : stored[w] # f
  BY DEF Orphans, Dropped, TypeOK
<1> QED BY <1>1, <1>2 DEF Orphans

\* Without an incident there is none: a file that is dropped has been
\* committed or deleted, and one that is stored is in the hand of its thread.
LEMMA OrphansStep ==
    ASSUME TypeOK, Control, Registers, Files, StoredInHand,
           NEW w \in Workers, Step(w)
    PROVE  Orphans' \subseteq Orphans
<1>1. ASSUME stored' = stored, storage' = storage
      PROVE  Orphans' \subseteq Orphans
  BY <1>1, OrphansMade DEF Dropped, Next
<1>2. ASSUME stored[w] = NoFile, stored' = [stored EXCEPT ![w] = NoFile],
             storage' = storage
      PROVE  Orphans' \subseteq Orphans
  BY <1>1, <1>2 DEF TypeOK
<1>3. CASE Commit(w)
  <2>1. /\ storage' = storage /\ stored' = [stored EXCEPT ![w] = NoFile]
        /\ uploads'[req[w]] = row[w] /\ req[w] \in Slot /\ pc[w] = "commit"
    BY <1>3 DEF Commit, Reply, Publish, TypeOK
  <2>2. stored[w] # NoFile => stored[w] = row[w].file
    BY <2>1 DEF Files, StoredOwned, RowsFiled
  <2>3. Dropped \subseteq {row[w].file}
    BY <2>1, <2>2, NoFileAssumption DEF Dropped, TypeOK
  <2>4. row[w].file \notin Orphans'
    BY <2>1 DEF Orphans
  <2> QED BY <2>1, <2>3, <2>4, OrphansMade DEF Next
<1>4. CASE Cleanup(w)
  <2>1. /\ storage' = storage \ {stored[w]}
        /\ stored' = [stored EXCEPT ![w] = NoFile]
    BY <1>4 DEF Cleanup, Reply
  <2>2. Dropped \subseteq {stored[w]} /\ stored[w] \notin Orphans'
    BY <2>1 DEF Dropped, Orphans, TypeOK
  <2> QED BY <2>1, <2>2, OrphansMade DEF Next
<1>5. CASE Store(w)
  <2>1. CASE row[w].file # NoFile
    BY <1>1, <1>5, <2>1 DEF Store
  <2>2. CASE row[w].file = NoFile
    <3>1. PICK f \in FreshFiles(req[w]) : /\ stored' = [stored EXCEPT ![w] = f]
                                          /\ storage' = storage \cup {f}
      BY <1>5, <2>2 DEF Store
    <3>2. stored[w] = NoFile
      BY <1>5 DEF Store, StoredInHand
    <3>3. Dropped = {} /\ f \notin Orphans'
      BY <3>1, <3>2, NoFileAssumption DEF Dropped, Orphans, TypeOK
    <3> QED BY <3>1, <3>3, OrphansMade DEF Next
  <2> QED BY <2>1, <2>2
<1>6. CASE Lookup(w)
  BY <1>1, <1>2, <1>6 DEF Lookup, Reply, StoredInHand, local
<1>7. CASE Inspect(w)
  BY <1>1, <1>2, <1>7 DEF Inspect, Reply, StoredInHand, local
<1>8. CASE RecordFailure(w)
  BY <1>2, <1>8 DEF RecordFailure, Reply, StoredInHand
<1>9. CASE Recheck(w)
  BY <1>2, <1>9 DEF Recheck, Reply, StoredInHand
<1>10. CASE Save(w)
  BY <1>1, <1>10 DEF Save, Rollback
<1>11. CASE CreateDocument(w)
  BY <1>1, <1>11 DEF CreateDocument, Rollback, local
<1>12. CASE \/ GetUpload(w) \/ InsertUpload(w) \/ SyncLinks(w)
            \/ CommitDangling(w)
  BY <1>1, <1>12 DEF GetUpload, InsertUpload, SyncLinks, CommitDangling,
     Rollback
<1> QED BY <1>3, <1>4, <1>5, <1>6, <1>7, <1>8, <1>9, <1>10, <1>11, <1>12
        DEF Step

\* An incident makes one at most.
LEMMA OrphansIncident ==
    ASSUME TypeOK, Control, Registers, Files, StoredInHand, Environment
    PROVE  /\ \E f : Orphans' \subseteq Orphans \cup {f}
           /\ incidents' = incidents + 1
<1>0. Orphans' \subseteq Orphans \cup Dropped \cup (storage' \ storage)
  BY OrphansMade DEF Next
<1>1. ASSUME NEW w \in Workers, \/ Crash(w) \/ CrashAfterCommit(w)
                                \/ DeleteFailure(w)
      PROVE  /\ \E f : Orphans' \subseteq Orphans \cup {f}
             /\ incidents' = incidents + 1
  <2>1. /\ stored' = [stored EXCEPT ![w] = NoFile] /\ storage' = storage
        /\ incidents' = incidents + 1
    BY <1>1 DEF Crash, CrashAfterCommit, DeleteFailure, Reply, Incident
  <2>2. Dropped \subseteq {stored[w]}
    BY <2>1 DEF Dropped, TypeOK
  <2> QED BY <1>0, <2>1, <2>2
<1>2. ASSUME NEW w \in Workers, \/ DatabaseFailure(w) \/ StoreFailure(w)
                                \/ LostCommit(w)
      PROVE  /\ \E f : Orphans' \subseteq Orphans \cup {f}
             /\ incidents' = incidents + 1
  <2>1. stored' = stored /\ incidents' = incidents + 1
    BY <1>2 DEF DatabaseFailure, StoreFailure, LostCommit, Rollback, Incident
  <2>2. \E f : storage' \ storage \subseteq {f}
    BY <1>2 DEF DatabaseFailure, StoreFailure, LostCommit
  <2>3. Dropped = {}
    BY <2>1 DEF Dropped
  <2> QED BY <1>0, <2>1, <2>2, <2>3
<1>3. ASSUME \/ \E l \in links : DeleteLink(l)
             \/ \E d \in docs : DeleteDocument(d)
      PROVE  /\ \E f : Orphans' \subseteq Orphans \cup {f}
             /\ incidents' = incidents + 1
  <2>1. stored' = stored /\ storage' = storage /\ incidents' = incidents + 1
    BY <1>3 DEF DeleteLink, DeleteDocument, local, Incident
  <2>2. Dropped = {}
    BY <2>1 DEF Dropped
  <2> QED BY <1>0, <2>1, <2>2
<1> QED BY <1>1, <1>2, <1>3 DEF Environment

\* The stray files are finitely many, and no more than the incidents.
StrayFiles == IsFiniteSet(Orphans) /\ FilesAccounted

\* The step of StrayFiles.
LEMMA StrayFilesNext ==
    ASSUME TypeOK, Control, Registers, Files, StoredInHand, StrayFiles,
           [Next]_vars
    PROVE  StrayFiles'
<1>1. incidents \in Nat /\ Cardinality(Orphans) \in Nat
  BY FS_CardinalityType, IncidentAssumption DEF TypeOK, StrayFiles
<1>2. ASSUME Orphans' \subseteq Orphans, incidents' = incidents
      PROVE  StrayFiles'
  BY <1>1, <1>2, FS_Subset, FS_CardinalityType
  DEF StrayFiles, FilesAccounted
<1>3. ASSUME NEW f, Orphans' \subseteq Orphans \cup {f},
             incidents' = incidents + 1
      PROVE  StrayFiles'
  <2>1. /\ IsFiniteSet(Orphans \cup {f})
        /\ Cardinality(Orphans \cup {f}) <= Cardinality(Orphans) + 1
        /\ Cardinality(Orphans \cup {f}) \in Nat
    BY <1>1, FS_AddElement, FS_CardinalityType DEF StrayFiles
  <2>2. /\ IsFiniteSet(Orphans')
        /\ Cardinality(Orphans') <= Cardinality(Orphans \cup {f})
        /\ Cardinality(Orphans') \in Nat
    BY <1>3, <2>1, FS_Subset, FS_CardinalityType
  <2> QED BY <1>1, <1>3, <2>1, <2>2 DEF StrayFiles, FilesAccounted
<1>4. ASSUME NEW w \in Workers, Step(w) PROVE StrayFiles'
  <2>1. incidents' = incidents
    BY <1>4 DEF Step, Lookup, GetUpload, InsertUpload, Inspect, Store, Save,
       CreateDocument, SyncLinks, Commit, CommitDangling, RecordFailure,
       Cleanup, Recheck
  <2> QED BY <1>2, <1>4, <2>1, OrphansStep
<1>5. CASE Environment
  BY <1>3, <1>5, OrphansIncident
<1>6. ASSUME NEW w \in Workers, Reject(w) \/ \E s \in Slot : Receive(w, s)
      PROVE  StrayFiles'
  <2>1. UNCHANGED <<uploads, stored, storage, incidents>>
    BY <1>6 DEF Reject, Receive, db, local
  <2> QED BY <1>2, <2>1 DEF Orphans
<1>7. CASE UNCHANGED vars
  BY <1>2, <1>7 DEF vars, Orphans
<1> QED BY <1>4, <1>5, <1>6, <1>7 DEF Next

\* The stray files in the storage are never more than the crashes, errors and
\* deletions there have been: no race of two uploads leaves one behind.
THEOREM FilesAccountedCorrect == Spec => []FilesAccounted
<1> DEFINE IInv == TypeOK /\ Control /\ Registers /\ Files
<1>1. Init => StoredInHand /\ StrayFiles
  <2>1. Init => Orphans = {} /\ incidents = 0
    BY DEF Init, Orphans
  <2> QED BY <2>1, FS_EmptySet DEF Init, StoredInHand, StrayFiles,
             FilesAccounted
<1>2. IInv /\ StoredInHand /\ [Next]_vars => StoredInHand'
  BY StoredInHandNext
<1>3. IInv /\ StoredInHand /\ StrayFiles /\ [Next]_vars => StrayFiles'
  BY StrayFilesNext
<1>4. Spec => []IInv
  BY ControlCorrect, RegistersCorrect, FilesCorrect, PTL
<1>5. StrayFiles => FilesAccounted
  BY DEF StrayFiles
<1> QED BY <1>1, <1>2, <1>3, <1>4, <1>5, PTL DEF Spec

-----------------------------------------------------------------------------
(* The originals stay, if the application learns what the database did.     *)

\* The file of an upload is in the storage, and no thread will delete it.
Kept ==
    \A s \in Slot : uploads[s].file # NoFile =>
        /\ uploads[s].file \in storage
        /\ \A w \in Workers : stored[w] # uploads[s].file

\* A step that writes no file into a row, deletes none but that of its thread,
\* and stores none but a new one.
LEMMA KeptLeave ==
    ASSUME TypeOK, Files, Kept,
           \A s \in Slot : uploads'[s].file = uploads[s].file,
           \A v \in Workers : \/ stored'[v] \in {stored[v], NoFile}
                              \/ stored'[v] \notin storage,
           \/ storage \subseteq storage'
           \/ \E w \in Workers : storage' = storage \ {stored[w]}
    PROVE  Kept'
BY DEF Kept

\* A COMMIT that is acknowledged hands the file over.
LEMMA KeptCommit ==
    ASSUME TypeOK, Files, Kept, NEW w \in Workers,
           pc[w] = "commit", Publish(w), \E a : Reply(w, a),
           storage' = storage
    PROVE  Kept'
<1>1. \A s \in Slot : uploads'[s] = IF s = req[w] THEN row[w] ELSE uploads[s]
  BY DEF Publish, TypeOK
<1>2. stored' = [stored EXCEPT ![w] = NoFile]
  BY DEF Reply
<1>3. CASE created[w]
  <2>1. row[w].file = stored[w] /\ stored[w] # NoFile
    BY <1>3 DEF Files, RowsFiled
  <2>2. stored[w] \in storage /\ \A v \in Workers \ {w} : stored[v] # stored[w]
    BY <2>1 DEF Files, StoredOwned
  <2> QED BY <1>1, <1>2, <2>1, <2>2 DEF Kept, TypeOK
<1>4. CASE ~created[w]
  <2>1. row[w].file = uploads[req[w]].file
    BY <1>4 DEF Files, RowsFiled
  <2> QED BY <1>1, <1>2, <2>1 DEF Kept, TypeOK
<1> QED BY <1>3, <1>4

\* A failure is recorded of an upload that keeps its file.
LEMMA KeptFailure ==
    ASSUME TypeOK, Files, Kept, NEW w \in Workers,
           pc[w] = "fail", PublishFailure(w), \E a : Reply(w, a),
           storage' = storage
    PROVE  Kept'
<1> DEFINE base == IF created[w] THEN row[w] ELSE uploads[req[w]]
<1>1. /\ base \in Row
      /\ uploads' = [uploads EXCEPT ![req[w]] = FailedRow(base)]
      /\ stored' = [stored EXCEPT ![w] = NoFile]
  BY DEF PublishFailure, Reply, FailedRow, TypeOK
<1>2. base.file = uploads[req[w]].file
  BY <1>1 DEF Files, RowsFiled, UploadsFiled, NewRow, NoRow, TypeOK
<1> HIDE DEF base
<1>3. FailedRow(base).file = uploads[req[w]].file
  BY <1>1, <1>2, FailedRowColumns
<1>4. \A s \in Slot : uploads'[s].file = uploads[s].file
  BY <1>1, <1>3 DEF TypeOK
<1> QED BY <1>1, <1>4, KeptLeave DEF TypeOK

\* Kept is inductive, relative to TypeOK, Control and Files.
LEMMA KeptNext ==
    ASSUME "lost_commit" \notin Incidents,
           TypeOK, Control, Files, Kept, [Next]_vars
    PROVE  Kept'
<1>1. ASSUME NEW w \in Workers, Commit(w) PROVE Kept'
  BY <1>1, KeptCommit DEF Commit
<1>2. ASSUME NEW w \in Workers, RecordFailure(w) PROVE Kept'
  BY <1>2, KeptFailure DEF RecordFailure
<1>3. ASSUME NEW w \in Workers, Store(w) PROVE Kept'
  <2>1. uploads' = uploads /\ storage \subseteq storage'
    BY <1>3 DEF Store, db
  <2>2. \/ stored' = stored
        \/ \E f \in FreshFiles(req[w]) : stored' = [stored EXCEPT ![w] = f]
    BY <1>3 DEF Store
  <2>3. \A v \in Workers : stored'[v] = stored[v] \/ stored'[v] \notin storage
    BY <2>2, FreshFilesFresh DEF TypeOK
  <2> QED BY <2>1, <2>3, KeptLeave
<1>4. ASSUME uploads' = uploads,
             \/ storage \subseteq storage'
             \/ \E w \in Workers : storage' = storage \ {stored[w]},
             \/ stored' = stored
             \/ \E w \in Workers : stored' = [stored EXCEPT ![w] = NoFile]
      PROVE  Kept'
  <2>1. \A v \in Workers : stored'[v] \in {stored[v], NoFile}
    BY <1>4 DEF TypeOK
  <2> QED BY <1>4, <2>1, KeptLeave
<1>5. ASSUME NEW w \in Workers, Step(w) PROVE Kept'
  <2>1. CASE \/ Lookup(w) \/ GetUpload(w) \/ InsertUpload(w) \/ Inspect(w)
             \/ CommitDangling(w) \/ Recheck(w)
    BY <1>4, <2>1 DEF Lookup, GetUpload, InsertUpload, Inspect,
       CommitDangling, Recheck, Reply, Rollback, db, local
  <2>2. CASE Save(w) \/ CreateDocument(w) \/ SyncLinks(w)
    BY <1>4, <2>2 DEF Save, CreateDocument, SyncLinks, Rollback, db, local
  <2>3. CASE Cleanup(w)
    BY <1>4, <2>3 DEF Cleanup, Reply, db
  <2> QED BY <1>1, <1>2, <1>3, <1>5, <2>1, <2>2, <2>3 DEF Step
<1>6. CASE Environment
  <2>1. ASSUME NEW w \in Workers, \/ Crash(w) \/ DatabaseFailure(w)
                                  \/ StoreFailure(w) \/ DeleteFailure(w)
        PROVE  Kept'
    BY <1>4, <2>1 DEF Crash, DatabaseFailure, StoreFailure, DeleteFailure,
       Reply, Rollback, db
  <2>2. ASSUME NEW w \in Workers PROVE ~LostCommit(w)
    BY DEF LostCommit, Incident
  <2>3. ASSUME NEW w \in Workers, CrashAfterCommit(w) PROVE Kept'
    BY <2>3, KeptCommit, KeptFailure DEF CrashAfterCommit, Commits
  <2>4. ASSUME \/ \E l \in links : DeleteLink(l)
               \/ \E d \in docs : DeleteDocument(d)
        PROVE  Kept'
    BY <1>4, <2>4 DEF DeleteLink, DeleteDocument, local
  <2> QED BY <1>6, <2>1, <2>2, <2>3, <2>4 DEF Environment
<1>7. ASSUME NEW w \in Workers, Reject(w) \/ \E s \in Slot : Receive(w, s)
      PROVE  Kept'
  BY <1>4, <1>7 DEF Reject, Receive, db, local
<1>8. CASE UNCHANGED vars
  BY <1>8 DEF vars, Kept
<1> QED BY <1>5, <1>6, <1>7, <1>8 DEF Next

\* Whatever the crashes, errors and races, every processed upload has its
\* original in the storage, in a file of its own slot.
THEOREM OriginalKeptCorrect ==
    ASSUME "lost_commit" \notin Incidents
    PROVE  Spec => []OriginalKept
<1>1. Init => Kept
  BY DEF Init, Kept, NoRow
<1>2. TypeOK /\ Control /\ Files /\ Kept /\ [Next]_vars => Kept'
  BY KeptNext
<1>3. Files /\ Kept => OriginalKept
  BY DEF Files, UploadsFiled, Kept, OriginalKept
<1> QED BY <1>1, <1>2, <1>3, ControlCorrect, FilesCorrect, PTL DEF Spec
=============================================================================
