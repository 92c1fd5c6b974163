---------------------------- MODULE ReadersProofs ----------------------------
(****************************************************************************)
(* Theorems about Readers: the list and detail endpoints next to uploads.   *)
(* A step of an upload is a step of the registry (RegistryNext), which is   *)
(* what makes its answer agree with the detail endpoint.                    *)
(****************************************************************************)
EXTENDS Readers, RegistryProofs

\* What the invariants of Ingestion say, in a behaviour of Readers.
Kept == TypeOK /\ Control /\ Registers

\* Listings read what uploads write, and write nothing.
LEMMA ReadersStep == ReadersNext => [Next]_vars
BY DEF ReadersNext, Upload, ListCTes, ListNFes

\* So the invariants of Ingestion hold.
THEOREM KeptCorrect == ReadersSpec => []Kept
<1>1. ReadersInit => Kept
  BY InitControl, InitRegisters DEF ReadersInit, Kept
<1>2. Kept /\ [ReadersNext]_readerVars => Kept'
  BY ControlNext, RegistersNext, ReadersStep DEF Kept, readerVars
<1> QED BY <1>1, <1>2, PTL DEF ReadersSpec

-----------------------------------------------------------------------------
(* What uploads were told.                                                  *)

\* Every name in told is the name of a document.
Named == \A name \in told : \E d \in docs : NameOf(d) = name

\* Two slots compete for a key when clients would name their documents alike.
LEMMA SameName ==
    ASSUME NEW r, NEW d PROVE SameKey(r, d) <=> NameOf(r) = NameOf(d)
BY DEF SameKey, NameOf

\* An upload that answers "created" or "existing" is the registry's Register
\* or Duplicate, and there is a document of its name.
LEMMA ToldRegistered ==
    ASSUME Kept, Next, NEW w \in Workers, Told(w)
    PROVE  \E d \in docs' : NameOf(d) = NameOf(req[w])
<1>1. w \in Open /\ w \notin Open'
  BY DEF Told, Open
<1>2. [Registry!Next]_(Registry!vars)
  BY RegistryNext DEF Kept
<1>3. CASE UNCHANGED Registry!vars
  BY <1>1, <1>3 DEF Registry!vars, Open
<1>4. ASSUME NEW c \in Workers, NEW a, Registry!Reply(c, a)
      PROVE  c = w /\ answer'[w] = a
  BY <1>1, <1>4 DEF Registry!Reply, Open, Kept, TypeOK
<1>5. ASSUME NEW c \in Workers, Registry!Add(c), c = w
      PROVE  \E d \in docs' : NameOf(d) = NameOf(req[w])
  BY <1>5 DEF Registry!Add
<1>6. ASSUME NEW c \in Workers, Registry!Duplicate(c)
      PROVE  \E d \in docs' : NameOf(d) = NameOf(req[w])
  <2>1. c = w /\ Registry!Registered(req[w]) # {} /\ docs' = docs
    BY <1>4, <1>6 DEF Registry!Duplicate
  <2>2. PICK d \in docs : SameKey(req[w], d)
    BY <2>1, RegistryTerms
  <2> QED BY <2>1, <2>2, SameName
<1>7. ASSUME NEW c \in Workers, Registry!Register(c)
      PROVE  \E d \in docs' : NameOf(d) = NameOf(req[w])
  BY <1>4, <1>5, <1>7 DEF Registry!Register
<1>8. ASSUME NEW c \in Workers, Registry!RegisterSilently(c)
      PROVE  \E d \in docs' : NameOf(d) = NameOf(req[w])
  <2>1. Registry!Reply(c, "none")
    BY <1>1, <1>8 DEF Registry!RegisterSilently, Open
  <2> QED BY <2>1, <1>4 DEF Told
<1>9. ASSUME NEW c \in Workers,
             \/ \E r \in Registry!Request : Registry!Submit(c, r)
             \/ Registry!Reject(c) \/ Registry!Refuse(c) \/ Registry!Fail(c)
      PROVE  FALSE
  <2>1. CASE Registry!Refuse(c)
    BY <2>1, <1>4 DEF Registry!Refuse, Told
  <2>2. CASE Registry!Fail(c)
    BY <2>2, <1>4 DEF Registry!Fail, Told
  <2>3. CASE Registry!Reject(c)
    BY <2>3, <1>1 DEF Registry!Reject, Open
  <2>4. ASSUME NEW r \in Registry!Request, Registry!Submit(c, r)
        PROVE  FALSE
    BY <2>4, <1>1 DEF Registry!Submit, Open
  <2> QED BY <1>9, <2>1, <2>2, <2>3, <2>4
<1>10. ASSUME NEW d \in docs, Registry!Withdraw(d) PROVE FALSE
  BY <1>10, <1>1 DEF Registry!Withdraw, Open
<1> QED BY <1>2, <1>3, <1>6, <1>7, <1>8, <1>9, <1>10 DEF Registry!Next

\* The step of Named.
LEMMA NamedNext ==
    ASSUME Kept, Named, [ReadersNext]_readerVars
    PROVE  Named'
<1>1. CASE Upload
  <2> SUFFICES ASSUME NEW name \in told'
               PROVE  \E d \in docs' : NameOf(d) = name
    BY DEF Named, NameOf
  <2>1. CASE name \in told
    <3>1. PICK d \in docs : NameOf(d) = name
      BY <2>1 DEF Named
    <3>2. d \in docs'
      BY <1>1, <3>1 DEF Upload
    <3> QED BY <3>1, <3>2
  <2>2. CASE name \notin told
    <3>1. PICK w \in Workers : Told(w) /\ name = NameOf(req[w])
      BY <1>1, <2>2 DEF Upload
    <3> QED BY <1>1, <3>1, ToldRegistered DEF Upload
  <2> QED BY <2>1, <2>2
<1>2. CASE UNCHANGED <<vars, told>>
  BY <1>2 DEF Named, NameOf, vars
<1> QED BY <1>1, <1>2 DEF ReadersNext, ListCTes, ListNFes, readerVars

\* The detail endpoint finds the one document of a name.
LEMMA NamedFound ==
    ASSUME Kept, NEW d \in docs, NEW name, NameOf(d) = name
    PROVE  DocumentDetail(name.tenant, name.type, name.key)
             = [code |-> 200, found |-> {d}]
<1>1. /\ name.tenant = d.tenant
      /\ name.type = KindOf[d.content]
      /\ name.key = KeyOf[d.content]
      /\ KindOf[d.content] \in {"cte", "nfe"}
  <2>1. IsValid(d) /\ d \in Slot
    BY DEF Kept, TypeOK, Registers, DocumentsKnown
  <2> QED BY <2>1, ContentTypes DEF NameOf
<1>2. \A e \in docs : SameKey(e, d) <=> e = d
  BY DEF Kept, Registers, OneDocumentPerKey, SameKey
<1>3. GetFiscalDocument(name.tenant, name.type, name.key) = {d}
  <2>1. CASE name.type = "cte"
    BY <1>1, <1>2, <2>1 DEF GetFiscalDocument, ForTenant, CTes, SameKey
  <2>2. CASE name.type = "nfe"
    BY <1>1, <1>2, <2>2 DEF GetFiscalDocument, ForTenant, NFes, SameKey
  <2> QED BY <1>1, <2>1, <2>2
<1> QED BY <1>3 DEF DocumentDetail

\* Whatever an upload was told is registered, the detail endpoint finds, and
\* finds once, until an administrator deletes it.
THEOREM ToldIsFoundCorrect == ReadersSpec => []ToldIsFound
<1>1. ReadersInit => Named
  BY DEF ReadersInit, Named
<1>2. Kept /\ Named /\ [ReadersNext]_readerVars => Named'
  BY NamedNext
<1>3. Kept /\ Named => ToldIsFound
  BY NamedFound DEF Named, ToldIsFound
<1> QED BY <1>1, <1>2, <1>3, KeptCorrect, PTL DEF ReadersSpec

-----------------------------------------------------------------------------
(* Listings.                                                                *)

\* Between its statements a listing has the CT-es that were there all the
\* time, nothing that was never there, and a history of what is there.
ListingCourse(l) ==
    /\ l.tenant = NoTenant => l.always \subseteq l.found
    /\ l.tenant # NoTenant => /\ l.always \subseteq Owned(docs, l.tenant)
                              /\ Owned(docs, l.tenant) \subseteq l.ever
                              /\ l.always \cap CTes \subseteq l.found
    /\ l.found \subseteq l.ever

Listings ==
    /\ listing \in [Clients -> [tenant : Tenants \cup {NoTenant},
                                found  : SUBSET Slot,
                                always : SUBSET Slot,
                                ever   : SUBSET Slot]]
    /\ \A c \in Clients : ListingCourse(listing[c])

\* An upload or a deletion between the statements.
LEMMA WatchedCourse ==
    ASSUME Listings, Kept, Kept', NEW c \in Clients, Upload
    PROVE  ListingCourse(listing[c])'
<1>1. listing'[c] = Watched(listing[c])
  BY DEF Upload
<1>2. CASE listing[c].tenant = NoTenant
  BY <1>1, <1>2 DEF Watched, NoListing, ListingCourse
<1>3. CASE listing[c].tenant # NoTenant
  <2>1. /\ listing'[c].tenant = listing[c].tenant
        /\ listing'[c].found = listing[c].found
        /\ listing'[c].always = listing[c].always \cap docs'
        /\ listing'[c].ever =
              listing[c].ever \cup Owned(docs', listing[c].tenant)
    BY <1>1, <1>3 DEF Watched, Listings
  <2>2. listing[c].always \cap docs' \subseteq Owned(docs', listing[c].tenant)
    BY <1>3 DEF Listings, ListingCourse, Owned
  <2>3. listing[c].always \cap CTes' \subseteq listing[c].found
    BY <1>3 DEF Listings, ListingCourse, Owned, CTes
  <2> QED BY <1>3, <2>1, <2>2, <2>3 DEF Listings, ListingCourse, Owned
<1> QED BY <1>2, <1>3

\* The first statement of a listing.
LEMMA ListCTesCourse ==
    ASSUME Listings, Kept, NEW c \in Clients, NEW t \in Tenants,
           ListCTes(c, t)
    PROVE  Listings'
<1>1. /\ listing' = [listing EXCEPT ![c] =
                        [tenant |-> t, found |-> ForTenant(CTes, t),
                         always |-> Owned(docs, t), ever |-> Owned(docs, t)]]
      /\ docs' = docs
  BY DEF ListCTes, vars
<1>2. /\ ForTenant(CTes, t) \subseteq Owned(docs, t)
      /\ Owned(docs, t) \cap CTes \subseteq ForTenant(CTes, t)
      /\ Owned(docs, t) \subseteq Slot
  BY DEF ForTenant, Owned, CTes, Kept, TypeOK
<1>3. t # NoTenant
  BY NoTenantAssumption
<1> QED BY <1>1, <1>2, <1>3 DEF Listings, ListingCourse, Owned, CTes

\* The second statement: what was there all the time is a CT-e that it has
\* found already, or an NF-e that it finds now.
LEMMA ListNFesCourse ==
    ASSUME Listings, Kept, NEW c \in Clients, ListNFes(c)
    PROVE  Listings'
<1> DEFINE l == listing[c]
           found == l.found \cup ForTenant(NFes, l.tenant)
<1>1. /\ listing' = [listing EXCEPT ![c].tenant = NoTenant,
                                    ![c].found = found]
      /\ docs' = docs
      /\ l.tenant # NoTenant
  BY DEF ListNFes, vars
<1>2. found \subseteq l.ever
  BY <1>1 DEF Listings, ListingCourse, ForTenant, NFes, Owned
<1>3. ASSUME NEW d \in l.always PROVE d \in found
  <2>1. d \in docs /\ d.tenant = l.tenant
    BY <1>1 DEF Listings, ListingCourse, Owned
  <2>2. KindOf[d.content] \in {"cte", "nfe"}
    BY <2>1, ContentTypes DEF Kept, TypeOK, Registers, DocumentsKnown
  <2>3. CASE KindOf[d.content] = "cte"
    BY <1>1, <2>1, <2>3 DEF Listings, ListingCourse, CTes
  <2>4. CASE KindOf[d.content] = "nfe"
    BY <2>1, <2>4 DEF ForTenant, NFes
  <2> QED BY <2>2, <2>3, <2>4
<1>4. /\ l.always \subseteq Slot /\ l.ever \subseteq Slot
      /\ found \subseteq Slot
  BY <1>2 DEF Listings
<1>5. listing'[c] = [tenant |-> NoTenant, found |-> found,
                     always |-> l.always, ever |-> l.ever]
  BY <1>1 DEF Listings
<1>6. ASSUME NEW b \in Clients PROVE ListingCourse(listing[b])'
  <2>1. CASE b = c
    BY <1>2, <1>3, <1>5, <2>1 DEF ListingCourse
  <2>2. CASE b # c
    BY <1>1, <2>2 DEF Listings, ListingCourse, Owned, CTes
  <2> QED BY <2>1, <2>2
<1>7. listing' \in [Clients -> [tenant : Tenants \cup {NoTenant},
                                found  : SUBSET Slot,
                                always : SUBSET Slot,
                                ever   : SUBSET Slot]]
  BY <1>1, <1>4, <1>5 DEF Listings
<1> QED BY <1>6, <1>7 DEF Listings

\* The step of Listings.
LEMMA ListingsNext ==
    ASSUME Listings, Kept, Kept', [ReadersNext]_readerVars
    PROVE  Listings'
<1>1. CASE Upload
  <2>1. ASSUME NEW c \in Clients
        PROVE  Watched(listing[c]) \in [tenant : Tenants \cup {NoTenant},
                                        found  : SUBSET Slot,
                                        always : SUBSET Slot,
                                        ever   : SUBSET Slot]
    <3>1. docs \subseteq Slot /\ docs' \subseteq Slot
      BY DEF Kept, TypeOK
    <3> QED BY <3>1 DEF Watched, NoListing, Listings, Owned
  <2>2. listing' = [c \in Clients |-> Watched(listing[c])]
    BY <1>1 DEF Upload
  <2>3. \A c \in Clients : ListingCourse(listing[c])'
    BY <1>1, <2>2, WatchedCourse
  <2> QED BY <2>1, <2>2, <2>3 DEF Listings
<1>2. CASE UNCHANGED readerVars
  <2>1. listing' = listing /\ docs' = docs
    BY <1>2 DEF readerVars, vars
  <2>2. \A c \in Clients : ListingCourse(listing[c])'
    BY <2>1 DEF Listings, ListingCourse, Owned, CTes
  <2> QED BY <2>1, <2>2 DEF Listings
<1> QED BY <1>1, <1>2, ListCTesCourse, ListNFesCourse DEF ReadersNext

\* A listing shows no document that was not its tenant's while it ran, and
\* misses none that was all the time.
THEOREM ListingFaithfulCorrect == ReadersSpec => []ListingFaithful
<1>1. ReadersInit => Listings
  BY DEF ReadersInit, Listings, ListingCourse, NoListing
<1>2. Listings /\ Kept /\ Kept' /\ [ReadersNext]_readerVars => Listings'
  BY ListingsNext
<1>3. Listings => ListingFaithful
  BY DEF Listings, ListingCourse, ListingFaithful
<1> QED BY <1>1, <1>2, <1>3, KeptCorrect, PTL DEF ReadersSpec
=============================================================================
