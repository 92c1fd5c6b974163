------------------------------- MODULE Intake -------------------------------
(****************************************************************************)
(* From the file of an upload to the document that is registered: the read  *)
(* of upload_document, the checks of ingest_fiscal_xml and the parser, up   *)
(* to where module Ingestion takes over with KindOf, KeyOf and RefsOf.      *)
(****************************************************************************)
EXTENDS FiscalParser

CONSTANTS
    Files,     \* the files clients upload: [name, size, xml]
    MaxBytes   \* DOCUMENT_UPLOAD_MAX_BYTES

ASSUME LimitAssumption == MaxBytes \in Nat

\* A file name: it ends in .xml, is empty, ends in .xml after more than 255
\* characters, or ends otherwise.
FileName == {"xml", "empty", "cut", "other"}

ASSUME FileAssumption ==
    Files \subseteq [name : FileName, size : Nat, xml : FiscalXML]

VARIABLES
    pc,       \* next step of the request
    file,     \* the uploaded file
    content,  \* xml_content: what was read of it
    answer    \* the DocumentIngestionError, the exception that escapes the
              \* parser (UNCAUGHT: a 500), or the parsed document

vars == <<pc, file, content, answer>>

Init ==
    /\ pc = "read"
    /\ file \in Files
    /\ content = [size |-> 0, whole |-> FALSE]
    /\ answer = Ok("none")

\* Mutation: up to the limit only.
ReadToLimit ==
    /\ pc = "read"
    /\ content' = [size  |-> IF file.size > MaxBytes THEN MaxBytes
                                                     ELSE file.size,
                   whole |-> file.size <= MaxBytes]
    /\ pc' = "checks"
    /\ UNCHANGED <<file, answer>>

\* uploaded_file.read(DOCUMENT_UPLOAD_MAX_BYTES + 1)
Read ==
    /\ pc = "read"
    /\ content' = [size  |-> IF file.size > MaxBytes + 1 THEN MaxBytes + 1
                                                         ELSE file.size,
                   whole |-> file.size <= MaxBytes + 1]
    /\ pc' = "checks"
    /\ UNCHANGED <<file, answer>>

\* _safe_filename: the default of an empty name ends in .xml, and 255
\* characters of a name may not.
AcceptedName(name) == name \in {"xml", "empty"}

\* The checks of ingest_fiscal_xml, in their order.
Check ==
    /\ pc = "checks"
    /\ \/ /\ ~AcceptedName(file.name)
          /\ pc' = "answered"
          /\ answer' = Raise("INVALID_FILE_TYPE")
       \/ /\ AcceptedName(file.name)
          /\ content.size > MaxBytes
          /\ pc' = "answered"
          /\ answer' = Raise("FILE_TOO_LARGE")
       \/ /\ AcceptedName(file.name)
          /\ content.size <= MaxBytes
          /\ pc' = "parse"
          /\ UNCHANGED answer
    /\ UNCHANGED <<file, content>>

\* parsed = parse_fiscal_xml(xml_content); half a file is no XML.
Parse ==
    /\ pc = "parse"
    /\ answer' = IF content.whole THEN ParseFiscalXML(file.xml)
                                  ELSE Raise("INVALID_XML")
    /\ pc' = "answered"
    /\ UNCHANGED <<file, content>>

Next == Read \/ Check \/ Parse

Spec == Init /\ [][Next]_vars

-----------------------------------------------------------------------------
(* Properties.                                                              *)

Answered(error) == pc = "answered" /\ answer.error = error
Registers       == Answered("none")

\* A file is too large exactly when it has more bytes than the limit, and no
\* part of a larger file is taken for the whole: the byte beyond the limit is
\* read, and counted.
LimitExact ==
    pc = "answered" /\ AcceptedName(file.name) =>
        (answer.error = "FILE_TOO_LARGE" <=> file.size > MaxBytes)

\* The references of a CT-e are kept without repetition, all of them, in the
\* order in which each comes first.
ReferencesOnce ==
    Registers /\ answer.value.type = "cte" =>
        LET given == file.xml.cte.refs
            kept  == answer.value.refs
            first(k) == CHOOSE i \in DOMAIN given :
                           /\ given[i] = k
                           /\ \A j \in DOMAIN given : given[j] = k => i <= j
        IN  /\ ToSet(kept) = ToSet(given)
            /\ \A i, j \in DOMAIN kept :
                  i < j => first(kept[i]) < first(kept[j])

\* An amount as the document means it.
Meant(amount) == IF amount = Blank THEN 0 ELSE amount

\* The weight of a CT-e is that of a measure of weight, and none is heavier;
\* it is 0 without one.
WeightIsHeaviest ==
    Registers /\ answer.value.type = "cte" =>
        LET given == {Meant(m.amount) : m \in
                        {m \in ToSet(file.xml.cte.measures) : m.weight}}
        IN  /\ answer.value.weight \in given \cup {0}
            /\ \A w \in given : w <= answer.value.weight

\* The volumes of an NF-e add up: each amount counts as often as it occurs.
TotalsAddUp ==
    Registers /\ answer.value.type = "nfe" =>
        LET vol == file.xml.nfe.vol
            times(f, a) == Cardinality({i \in DOMAIN vol : vol[i][f] = a})
            sum(f) == MapThenSumSet(LAMBDA a : a * times(f, a),
                        {Meant(vol[i][f]) : i \in DOMAIN vol} \ {0})
        IN  /\ answer.value.gross = sum("pesoB")
            /\ answer.value.net = sum("pesoL")
            /\ 10 * answer.value.volume = sum("qVol")

\* The check constraints of DocumentUpload, CTe and NFe, for the values of a
\* parsed document.
PassesChecks(d) ==
    /\ d.key \notin {"bad", "odd"}
    /\ d.issuer = "good"
    /\ d.optional \subseteq {"blank", "good"}
    /\ \A a \in d.amounts : a >= 0
    /\ d.type = "cte" =>
          d.status \in {"normal", "complementary", "annulment", "substitute"}

\* A digit in the file that is one for Python and none for the database, in
\* the key of the document or in an identifier.
HasOddDigit(type, x) ==
    "odd" \in IF type = "cte"
              THEN {x.cte.key, x.cte.emitCNPJ, x.cte.remCNPJ,
                    x.cte.enderRemeCEP, x.cte.destCNPJ, x.cte.enderDestCEP}
              ELSE {x.nfe.key, x.nfe.emitCNPJ, x.nfe.destCNPJ,
                    x.nfe.enderDestCEP}

\* A document that the parser accepts passes the check constraints exactly
\* when no digit of its key and identifiers is odd: of all that the tables
\* check, odd digits are what the parser lets through.  Besides it has a date
\* with an offset and its required texts, which no constraint asks for.
AcceptedFitsChecks ==
    Registers =>
        /\ PassesChecks(answer.value)
              <=> ~HasOddDigit(answer.value.type, file.xml)
        /\ answer.value.issue_at = "aware"
        /\ "blank" \notin answer.value.texts
=============================================================================
