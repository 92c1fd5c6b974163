\* Two threads, two files of one CT-e, its NF-e and a file that is no document,
\* while processes die, statements and the storage fail, the acknowledgement of a
\* commit is lost, and an administrator deletes links and documents.
SPECIFICATION Spec
CONSTANTS
    Workers = {w1, w2}
    Tenants = {t1}
    Contents = {"cte", "cte2", "nfe", "bad"}
    Keys = {"kc", "kn"}
    Names = {"plain", "suffix1", "suffix2", "suffix3"}
    PlainName = "plain"
    NoKey = NoKey
    NoFile = NoFile
    KindOf <- MCKindOf
    KeyOf <- MCKeyOf
    RefsOf <- MCRefsOf
    Unstorable = {}
    OddKeys = {}
    Incidents = {"crash", "failure", "lost_commit", "delete"}
    MaxIncidents = 2
SYMMETRY MCSymmetry
INVARIANTS
    FilesAccounted
PROPERTIES
    ImplementsRegistry
