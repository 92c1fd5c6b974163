\* Two threads, two files of one CT-e, the NF-e they refer to, a file that is
\* no document, two that cannot be stored, and a process that may die once.
SPECIFICATION Spec
CONSTANTS
    Workers = {w1, w2}
    Tenants = {t1}
    Contents = {"cte", "cte2", "nfe", "bad", "long", "odd"}
    Keys = {"kc", "kn", "kl", "ko"}
    Names = {"plain", "suffix1", "suffix2"}
    PlainName = "plain"
    NoKey = NoKey
    NoFile = NoFile
    KindOf <- MCKindOf
    KeyOf <- MCKeyOf
    RefsOf <- MCRefsOf
    Unstorable = {"long", "odd"}
    OddKeys = {"odd"}
    Incidents = {"crash"}
    MaxIncidents = 1
INVARIANTS
    TypeOK
    UploadsSettled
    OriginalKept
    NoServerError
PROPERTIES
    ImplementsRegistry
