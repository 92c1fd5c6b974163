\* Two tenants upload the same CT-e and NF-e, and an administrator deletes
\* links and documents.
SPECIFICATION RSpec
CONSTANTS
    Workers = {w1, w2}
    Tenants = {t1, t2}
    Contents = {"cte", "nfe"}
    Keys = {"kc", "kn"}
    Names = {"plain", "suffix1", "suffix2"}
    PlainName = "plain"
    NoKey = NoKey
    NoFile = NoFile
    KindOf <- MCKindOf
    KeyOf <- MCKeyOf
    RefsOf <- MCRefsOf
    Unstorable = {}
    OddKeys = {}
    Incidents = {"delete"}
    MaxIncidents = 2
SYMMETRY MCSymmetry
INVARIANTS
    DocumentBacked
    OriginalKept
    LinksSound
    MissingLinkOnlyByRace
PROPERTIES
    OriginalNeverReplaced
