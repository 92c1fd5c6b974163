----------------------------- MODULE LinkProofs -----------------------------
(****************************************************************************)
(* Links: every committed link is sound, and every link that should be      *)
(* there is, unless the two transactions overlapped or an administrator     *)
(* deleted it.                                                              *)
(****************************************************************************)
EXTENDS LinkRaces, IngestionProofs

-----------------------------------------------------------------------------
(* Soundness.                                                               *)

\* The links of a transaction that can still commit join its document with
\* registered ones.
PendingSound ==
    \A w \in Workers : pc[w] = "commit" => \A l \in pending[w] :
        /\ Refers(l.cte, l.nfe)
        /\ l.cte \in docs \cup {req[w]}
        /\ l.nfe \in docs \cup {req[w]}

Joined == LinksSound /\ PendingSound

\* The threads keep their pending links, or cannot commit.
PendingKept(v) ==
    pc'[v] # "commit" \/ (pc[v] = "commit" /\ pending'[v] = pending[v]
                          /\ req'[v] = req[v])

\* Steps that delete no document, commit no link and make no thread ready to
\* commit.
LEMMA JoinedQuiet ==
    ASSUME Joined, docs \subseteq docs', links' \subseteq links,
           \A v \in Workers : PendingKept(v)
    PROVE  Joined'
<1>1. LinksSound'
  BY DEF Joined, LinksSound, Refers
<1>2. PendingSound'
  BY DEF Joined, PendingSound, PendingKept, Refers
<1> QED BY <1>1, <1>2 DEF Joined

\* The links of a COMMIT join registered documents, one of them its own.
LEMMA JoinedPublish ==
    ASSUME Joined, NEW w \in Workers, pc[w] = "commit", Publish(w),
           pc'[w] # "commit",
           \A v \in Workers \ {w} : PendingKept(v)
    PROVE  Joined'
<1>1. LinksSound'
  BY DEF Joined, LinksSound, PendingSound, Publish, Refers
<1>2. PendingSound'
  BY DEF Joined, PendingSound, PendingKept, Publish, Refers
<1> QED BY <1>1, <1>2 DEF Joined

\* What _sync_cte_links and _sync_nfe_links make.
LEMMA SyncedLinks ==
    ASSUME TypeOK, NEW s \in Slot, IsValid(s)
    PROVE  LET made == IF KindOf[s.content] = "cte" THEN CTeLinks(s)
                                                    ELSE NFeLinks(s)
           IN  /\ \A l \in made : /\ Refers(l.cte, l.nfe)
                                  /\ l.cte \in docs \cup {s}
                                  /\ l.nfe \in docs \cup {s}
               /\ \A d \in docs :
                     /\ Refers(s, d) => [cte |-> s, nfe |-> d] \in made
                     /\ Refers(d, s) => [cte |-> d, nfe |-> s] \in made
<1>1. KindOf[s.content] \in {"cte", "nfe"}
  BY ContentTypes
<1>2. CASE KindOf[s.content] = "cte"
  BY <1>2 DEF CTeLinks, NFes, Refers
<1>3. CASE KindOf[s.content] = "nfe"
  BY <1>3 DEF NFeLinks, CTes, Refers
<1> QED BY <1>1, <1>2, <1>3

\* A step of a thread that does not link or publish: it is not at "commit"
\* afterwards, and the tables of documents and links stay as they are.
Plain(w) ==
    /\ UNCHANGED <<docs, links>>
    /\ pc'[w] # "commit"
    /\ \A v \in Workers \ {w} : /\ pc'[v] = pc[v]
                                /\ req'[v] = req[v]
                                /\ pending'[v] = pending[v]

\* Every statement but the links and the COMMIT is plain.
LEMMA PlainSteps ==
    ASSUME TypeOK, Control, NEW w \in Workers,
           Step(w), ~SyncLinks(w), ~Commit(w)
    PROVE  Plain(w)
<1>1. CASE Lookup(w)
  BY <1>1 DEF Lookup, Plain, Reply, GoTo, TypeOK, db, local
<1>2. CASE GetUpload(w)
  BY <1>2 DEF GetUpload, HaveRow, Plain, GoTo, TypeOK, db
<1>3. CASE InsertUpload(w)
  BY <1>3 DEF InsertUpload, HaveRow, Plain, GoTo, TypeOK, db
<1>4. CASE Inspect(w)
  BY <1>4 DEF Inspect, Plain, Reply, GoTo, TypeOK, db, local
<1>5. CASE Store(w)
  BY <1>5 DEF Store, Plain, GoTo, TypeOK, db
<1>6. CASE Save(w)
  BY <1>6 DEF Save, Plain, Rollback, GoTo, TypeOK, db
<1>7. CASE CreateDocument(w)
  BY <1>7 DEF CreateDocument, Plain, Rollback, GoTo, TypeOK, db, local
<1>8. CASE CommitDangling(w)
  BY <1>8 DEF CommitDangling, Plain, Rollback, GoTo, TypeOK, db
<1>9. CASE RecordFailure(w)
  BY <1>9 DEF RecordFailure, PublishFailure, Plain, Reply, GoTo, TypeOK
<1>10. CASE Cleanup(w)
  BY <1>10 DEF Cleanup, Plain, Reply, GoTo, TypeOK, db
<1>11. CASE Recheck(w)
  BY <1>11 DEF Recheck, Plain, Reply, GoTo, TypeOK, db
<1> QED BY <1>1, <1>2, <1>3, <1>4, <1>5, <1>6, <1>7, <1>8, <1>9, <1>10,
           <1>11 DEF Step

\* So is every incident that commits no document and deletes none.
LEMMA PlainIncidents ==
    ASSUME TypeOK, Control, NEW w \in Workers,
           \/ Crash(w) \/ DatabaseFailure(w) \/ StoreFailure(w)
           \/ DeleteFailure(w)
           \/ pc[w] = "fail" /\ (CrashAfterCommit(w) \/ LostCommit(w))
    PROVE  Plain(w)
<1>1. CASE Crash(w)
  BY <1>1 DEF Crash, Plain, Reply, GoTo, TypeOK, db
<1>2. CASE DatabaseFailure(w)
  BY <1>2 DEF DatabaseFailure, Plain, Rollback, GoTo, TypeOK, db
<1>3. CASE StoreFailure(w)
  BY <1>3 DEF StoreFailure, Plain, Rollback, GoTo, TypeOK, db
<1>4. CASE DeleteFailure(w)
  BY <1>4 DEF DeleteFailure, Plain, Reply, GoTo, TypeOK, db
<1>5. CASE pc[w] = "fail" /\ (CrashAfterCommit(w) \/ LostCommit(w))
  <2>1. UNCHANGED <<docs, links>>
    BY <1>5 DEF CrashAfterCommit, LostCommit, Commits, PublishFailure
  <2>2. Reply(w, "none") \/ Rollback(w, "abort")
    BY <1>5 DEF CrashAfterCommit, LostCommit
  <2> QED BY <2>1, <2>2 DEF Plain, Reply, Rollback, GoTo, TypeOK
<1> QED BY <1>1, <1>2, <1>3, <1>4, <1>5

\* The COMMIT of a document, however it ends for the thread.
Publishing(w) ==
    /\ pc[w] = "commit"
    /\ Commit(w) \/ CrashAfterCommit(w) \/ LostCommit(w)

\* It publishes one thread's work.
LEMMA PublishingSteps ==
    ASSUME TypeOK, NEW w \in Workers, Publishing(w)
    PROVE  /\ pc[w] = "commit" /\ Publish(w) /\ pc'[w] # "commit"
           /\ req' = req
           /\ \A v \in Workers \ {w} : /\ pc'[v] = pc[v]
                                       /\ pending'[v] = pending[v]
<1>1. CASE Commit(w)
  BY <1>1 DEF Commit, Reply, GoTo, TypeOK
<1>2. CASE pc[w] = "commit" /\ CrashAfterCommit(w)
  BY <1>2 DEF CrashAfterCommit, Commits, Reply, GoTo, TypeOK
<1>3. CASE pc[w] = "commit" /\ LostCommit(w)
  BY <1>3 DEF LostCommit, Commits, Rollback, GoTo, TypeOK
<1> QED BY <1>1, <1>2, <1>3 DEF Publishing

\* The ways to commit are publishing or plain.
LEMMA CommitSteps ==
    ASSUME TypeOK, Control, NEW w \in Workers,
           Commit(w) \/ CrashAfterCommit(w) \/ LostCommit(w)
    PROVE  Publishing(w) \/ Plain(w)
<1>1. pc[w] = "commit" \/ pc[w] = "fail"
  BY DEF Commit, CrashAfterCommit, LostCommit, Commits
<1>2. CASE pc[w] = "fail"
  <2>1. ~Commit(w)
    BY <1>2 DEF Commit
  <2> QED BY <1>2, <2>1, PlainIncidents
<1> QED BY <1>1, <1>2 DEF Publishing

\* There are no links at first.
LEMMA InitJoined == Init => Joined
BY DEF Init, Joined, LinksSound, PendingSound

\* Plain steps touch no link.
LEMMA JoinedPlain ==
    ASSUME Joined, NEW w \in Workers, Plain(w) PROVE Joined'
<1>1. \A v \in Workers : PendingKept(v)
  BY DEF Plain, PendingKept
<1> QED BY <1>1, JoinedQuiet DEF Plain

\* All three ways to commit publish sound links.
LEMMA JoinedPublishing ==
    ASSUME TypeOK, Joined, NEW w \in Workers, Publishing(w)
    PROVE  Joined'
<1>1. \A v \in Workers \ {w} : PendingKept(v)
  BY PublishingSteps DEF PendingKept
<1> QED BY <1>1, PublishingSteps, JoinedPublish

\* The links that _sync_cte_links and _sync_nfe_links make are of committed
\* documents that one of the two refers to.
LEMMA JoinedSync ==
    ASSUME TypeOK, Control, Joined, NEW w \in Workers, SyncLinks(w)
    PROVE  Joined'
<1> DEFINE made == IF KindOf[req[w].content] = "cte" THEN CTeLinks(req[w])
                                                     ELSE NFeLinks(req[w])
<1>1. /\ UNCHANGED <<docs, links, req>>
      /\ pending'[w] = made
      /\ \A v \in Workers \ {w} : pending'[v] = pending[v] /\ pc'[v] = pc[v]
  BY DEF SyncLinks, TypeOK, GoTo, db
<1>2. \A l \in made : /\ Refers(l.cte, l.nfe)
                      /\ l.cte \in docs \cup {req[w]}
                      /\ l.nfe \in docs \cup {req[w]}
  <2>1. req[w] \in Slot /\ IsValid(req[w])
    BY DEF SyncLinks, TypeOK, Control, Local
  <2> QED BY <2>1, SyncedLinks
<1> HIDE DEF made
<1>3. LinksSound'
  BY <1>1 DEF Joined, LinksSound, Refers
<1>4. PendingSound'
  BY <1>1, <1>2 DEF Joined, PendingSound, Refers
<1> QED BY <1>3, <1>4 DEF Joined

\* No committed link is lost: the links protect the document.  A pending one
\* makes its thread fail.
LEMMA JoinedDelete ==
    ASSUME TypeOK, Joined, NEW d \in docs, DeleteDocument(d)
    PROVE  Joined'
<1>1. /\ docs' = docs \ {d} /\ UNCHANGED <<links, req, pending>>
      /\ \A l \in links : d # l.cte /\ d # l.nfe
      /\ \A w \in Workers : pc'[w] = "commit" =>
            /\ pc[w] = "commit"
            /\ \A l \in pending[w] : d # l.cte /\ d # l.nfe
  BY DEF DeleteDocument, local
<1>2. LinksSound'
  BY <1>1 DEF Joined, LinksSound, Refers
<1>3. PendingSound'
  BY <1>1 DEF Joined, PendingSound, Refers
<1> QED BY <1>2, <1>3 DEF Joined

\* Joined is inductive, relative to TypeOK and Control.
LEMMA JoinedNext ==
    ASSUME TypeOK, Control, Joined, [Next]_vars
    PROVE  Joined'
<1>1. ASSUME NEW w \in Workers, Step(w) PROVE Joined'
  BY <1>1, PlainSteps, JoinedPlain, JoinedSync, CommitSteps,
     JoinedPublishing
<1>2. ASSUME NEW w \in Workers, NEW s \in Slot, Receive(w, s)
      PROVE  Joined'
  <2>1. Plain(w)
    BY <1>2 DEF Receive, Plain, GoTo, TypeOK, db, local
  <2> QED BY <2>1, JoinedPlain
<1>3. CASE Environment
  <2>1. ASSUME NEW w \in Workers,
               Crash(w) \/ DatabaseFailure(w) \/ StoreFailure(w)
                        \/ DeleteFailure(w)
        PROVE  Joined'
    BY <2>1, PlainIncidents, JoinedPlain
  <2>2. ASSUME NEW w \in Workers, CrashAfterCommit(w) \/ LostCommit(w)
        PROVE  Joined'
    BY <2>2, CommitSteps, JoinedPlain, JoinedPublishing
  <2>3. ASSUME NEW l \in links, DeleteLink(l) PROVE Joined'
    BY <2>3, JoinedQuiet DEF DeleteLink, PendingKept, local
  <2> QED BY <1>3, <2>1, <2>2, <2>3, JoinedDelete DEF Environment
<1>4. ASSUME NEW w \in Workers, Reject(w) PROVE Joined'
  BY <1>4, JoinedQuiet DEF Reject, PendingKept, db, local
<1>5. CASE UNCHANGED vars
  BY <1>5, JoinedQuiet DEF vars, PendingKept
<1> QED BY <1>1, <1>2, <1>3, <1>4, <1>5 DEF Next

\* Every link joins two registered documents of one tenant, of which the CT-e
\* refers to the NF-e, whatever is deleted while the link is made.
THEOREM LinksSoundCorrect == Spec => []LinksSound
<1>1. Init => Joined
  BY InitJoined
<1>2. TypeOK /\ Control /\ Joined /\ [Next]_vars => Joined'
  BY JoinedNext
<1>3. Joined => LinksSound
  BY DEF Joined
<1> QED BY <1>1, <1>2, <1>3, ControlCorrect, PTL DEF Spec

-----------------------------------------------------------------------------
(* Completeness.  A thread that has linked has a pending link for every      *)
(* document committed before its SELECT; those committed since are raced.   *)

Known(w, d) ==
    /\ Refers(req[w], d) => [cte |-> req[w], nfe |-> d] \in pending[w] \cup raced
    /\ Refers(d, req[w]) => [cte |-> d, nfe |-> req[w]] \in pending[w] \cup raced

Accounted ==
    /\ MissingLinkOnlyByRace
    /\ \A w \in Workers : pc[w] = "commit" => \A d \in docs : Known(w, d)

\* Steps that publish no document and take links away only to raced.
LEMMA AccountedQuiet ==
    ASSUME Accounted, docs' \subseteq docs, links \subseteq links' \cup raced',
           raced \subseteq raced', \A v \in Workers : PendingKept(v)
    PROVE  Accounted'
<1>1. MissingLinkOnlyByRace'
  BY DEF Accounted, MissingLinkOnlyByRace, Refers
<1>2. ASSUME NEW w \in Workers, pc'[w] = "commit", NEW d \in docs'
      PROVE  Known(w, d)'
  BY <1>2 DEF Accounted, PendingKept, Known, Refers
<1> QED BY <1>1, <1>2 DEF Accounted

\* Plain steps publish nothing.
LEMMA AccountedPlain ==
    ASSUME Accounted, NEW w \in Workers, Plain(w), raced \subseteq raced'
    PROVE  Accounted'
<1>1. \A v \in Workers : PendingKept(v)
  BY DEF Plain, PendingKept
<1> QED BY <1>1, AccountedQuiet DEF Plain

\* A thread that links knows every committed document.
LEMMA AccountedSync ==
    ASSUME TypeOK, Control, Accounted, NEW w \in Workers, SyncLinks(w),
           raced \subseteq raced'
    PROVE  Accounted'
<1> DEFINE made == IF KindOf[req[w].content] = "cte" THEN CTeLinks(req[w])
                                                     ELSE NFeLinks(req[w])
<1>1. /\ UNCHANGED <<docs, links, req>>
      /\ pending'[w] = made
      /\ \A v \in Workers \ {w} : pending'[v] = pending[v] /\ pc'[v] = pc[v]
  BY DEF SyncLinks, TypeOK, GoTo, db
<1>2. \A d \in docs :
         /\ Refers(req[w], d) => [cte |-> req[w], nfe |-> d] \in made
         /\ Refers(d, req[w]) => [cte |-> d, nfe |-> req[w]] \in made
  <2>1. req[w] \in Slot /\ IsValid(req[w])
    BY DEF SyncLinks, TypeOK, Control, Local
  <2> QED BY <2>1, SyncedLinks
<1> HIDE DEF made
<1>3. MissingLinkOnlyByRace'
  BY <1>1 DEF Accounted, MissingLinkOnlyByRace, Refers
<1>4. ASSUME NEW v \in Workers, pc'[v] = "commit", NEW d \in docs'
      PROVE  Known(v, d)'
  <2>1. CASE v = w
    BY <1>1, <1>2, <2>1 DEF Known, Refers
  <2>2. CASE v # w
    BY <1>1, <1>4, <2>2 DEF Accounted, Known, Refers
  <2> QED BY <2>1, <2>2
<1> QED BY <1>3, <1>4 DEF Accounted

\* A COMMIT: the document it publishes is linked to those known to w, and
\* raced with those that other threads are about to publish.
LEMMA AccountedPublishing ==
    ASSUME TypeOK, Accounted, NEW w \in Workers, Publishing(w),
           raced \subseteq raced', Overlapping \subseteq raced'
    PROVE  Accounted'
<1>1. /\ pc[w] = "commit" /\ pc'[w] # "commit" /\ req' = req
      /\ docs' = docs \cup {req[w]}
      /\ links' = links \cup pending[w]
      /\ \A v \in Workers \ {w} : pc'[v] = pc[v] /\ pending'[v] = pending[v]
  BY PublishingSteps DEF Publish
<1>2. MissingLinkOnlyByRace'
  <2>1. ASSUME NEW c \in docs', NEW n \in docs', Refers(c, n)
        PROVE  [cte |-> c, nfe |-> n] \in links' \cup raced'
    <3>1. CASE c \in docs /\ n \in docs
      BY <1>1, <2>1, <3>1 DEF Accounted, MissingLinkOnlyByRace
    <3>2. CASE c = req[w] /\ n \in docs
      BY <1>1, <2>1, <3>2 DEF Accounted, Known
    <3>3. CASE c \in docs /\ n = req[w]
      BY <1>1, <2>1, <3>3 DEF Accounted, Known
    <3>4. ~(c = req[w] /\ n = req[w])
      BY <2>1 DEF Refers
    <3> QED BY <1>1, <3>1, <3>2, <3>3, <3>4
  <2> QED BY <2>1 DEF MissingLinkOnlyByRace, Refers
<1>3. ASSUME NEW v \in Workers, pc'[v] = "commit", NEW d \in docs'
      PROVE  Known(v, d)'
  <2>1. v # w /\ pc[v] = "commit" /\ pending'[v] = pending[v]
    BY <1>1, <1>3
  <2>2. CASE d \in docs
    BY <1>1, <2>1, <2>2 DEF Accounted, Known, Refers
  <2>3. CASE d \notin docs
    <3>1. d \in docs' \ docs /\ v \in Linked /\ d \in Slot /\ req[v] \in Slot
      BY <1>1, <2>1, <2>3 DEF Linked, TypeOK
    <3>2. Refers(req[v], d) => [cte |-> req[v], nfe |-> d] \in Overlapping
      BY <3>1 DEF Overlapping, Link
    <3>3. Refers(d, req[v]) => [cte |-> d, nfe |-> req[v]] \in Overlapping
      BY <3>1 DEF Overlapping, Link
    <3> QED BY <1>1, <3>2, <3>3 DEF Known, Refers
  <2> QED BY <2>2, <2>3
<1> QED BY <1>2, <1>3 DEF Accounted

\* Accounted is inductive, relative to TypeOK and Control.
LEMMA AccountedNext ==
    ASSUME TypeOK, Control, Accounted, [RNext]_rvars
    PROVE  Accounted'
<1>1. CASE UNCHANGED rvars
  BY <1>1, AccountedQuiet DEF rvars, vars, PendingKept
<1> SUFFICES ASSUME RNext PROVE Accounted'
  BY <1>1
<1>2. /\ raced \subseteq raced'
      /\ Overlapping \subseteq raced'
      /\ links \subseteq links' \cup raced'
  BY DEF RNext
<1>3. ASSUME NEW w \in Workers, Step(w) PROVE Accounted'
  BY <1>2, <1>3, PlainSteps, AccountedPlain, AccountedSync,
     CommitSteps, AccountedPublishing
<1>4. ASSUME NEW w \in Workers, NEW s \in Slot, Receive(w, s)
      PROVE  Accounted'
  <2>1. Plain(w)
    BY <1>4 DEF Receive, Plain, GoTo, TypeOK, db, local
  <2> QED BY <1>2, <2>1, AccountedPlain
<1>5. ASSUME NEW w \in Workers, Reject(w) PROVE Accounted'
  BY <1>2, <1>5, AccountedQuiet DEF Reject, PendingKept, db, local
<1>6. CASE Environment
  <2>1. ASSUME NEW w \in Workers,
               Crash(w) \/ DatabaseFailure(w) \/ StoreFailure(w)
                        \/ DeleteFailure(w)
        PROVE  Accounted'
    BY <1>2, <2>1, PlainIncidents, AccountedPlain
  <2>2. ASSUME NEW w \in Workers, CrashAfterCommit(w) \/ LostCommit(w)
        PROVE  Accounted'
    BY <1>2, <2>2, CommitSteps, AccountedPlain, AccountedPublishing
  <2>3. ASSUME NEW l \in links, DeleteLink(l) PROVE Accounted'
    BY <1>2, <2>3, AccountedQuiet DEF DeleteLink, PendingKept, local
  <2>4. ASSUME NEW d \in docs, DeleteDocument(d) PROVE Accounted'
    BY <1>2, <2>4, AccountedQuiet DEF DeleteDocument, PendingKept, local
  <2> QED BY <1>6, <2>1, <2>2, <2>3, <2>4 DEF Environment
<1> QED BY <1>3, <1>4, <1>5, <1>6 DEF RNext, Next

\* A link that is missing between two documents that refer to each other is
\* one that an administrator deleted, or one whose two transactions both
\* read the other table before either had committed.
THEOREM MissingLinkOnlyByRaceCorrect == RSpec => []MissingLinkOnlyByRace
<1>1. RInit => TypeOK /\ Control
  BY InitControl DEF RInit
<1>2. TypeOK /\ Control /\ [RNext]_rvars => (TypeOK /\ Control)'
  BY ControlNext DEF RNext, rvars
<1>3. RInit => Accounted
  BY DEF RInit, Init, Accounted, MissingLinkOnlyByRace
<1>4. TypeOK /\ Control /\ Accounted /\ [RNext]_rvars => Accounted'
  BY AccountedNext
<1>5. Accounted => MissingLinkOnlyByRace
  BY DEF Accounted
<1> QED BY <1>1, <1>2, <1>3, <1>4, <1>5, PTL DEF RSpec
=============================================================================
