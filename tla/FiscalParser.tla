---------------------------- MODULE FiscalParser ----------------------------
(****************************************************************************)
(* documents/parsers.py: what is made of an XML file.                       *)
(*                                                                          *)
(* A document is a record of the texts the parser looks at, each reduced to *)
(* the class that decides its fate:                                         *)
(*   text        "blank" (missing or empty), "fits", "long" for its column  *)
(*   identifier  "blank", "letters" (without a digit), "good" (the right    *)
(*               number of digits), "odd" (as many, of which str.isdigit    *)
(*               accepts one that \d does not), "wrong" (another number)    *)
(*   date        "blank", "bad", "naive", "aware" (with a UTC offset)       *)
(*   amount      a number of tenths, Blank or Refused (not a finite decimal *)
(*               from 0 on)                                                 *)
(*   key         an access key, "odd" (44 digits, of which \d of Python      *)
(*               accepts one that \d of the database does not), or "bad"    *)
(*                                                                          *)
(* Every helper of the parser returns a value or raises a                   *)
(* DocumentParseError, except where another exception escapes (UNCAUGHT).   *)
(* The steps of a parser are in the order in which the code evaluates them, *)
(* and the first error is the one that is raised.                           *)
(****************************************************************************)
EXTENDS Integers, Sequences, FiniteSets, SequencesExt

CONSTANT
    MaxDecimal   \* the greatest sum of two decimals (Emax of the context)

ASSUME DecimalAssumption == MaxDecimal \in Nat

Blank   == -1
Refused == -2

Text       == {"blank", "fits", "long"}
Identifier == {"blank", "letters", "good", "odd", "wrong"}
Date       == {"blank", "bad", "naive", "aware"}
Amount     == {Blank, Refused} \cup Nat

Measure == [weight : BOOLEAN, amount : Amount]
Volume  == [pesoB : Amount, pesoL : Amount, qVol : Amount]

\* The fields of a CT-e and of an NF-e that are read.
CTe == [refs : Seq(STRING), measures : Seq(Measure),
        key : STRING, nCT : Text, serie : Text, dhEmi : Date, tpCTe : STRING,
        remCNPJ : Identifier, enderRemeCEP : Identifier,
        destCNPJ : Identifier, enderDestCEP : Identifier,
        emitCNPJ : Identifier, emitNome : Text,
        vTPrest : Amount, vCarga : Amount]

NFe == [vol : Seq(Volume),
        key : STRING, nNF : Text, serie : Text, dhEmi : Date, dEmi : Date,
        emitCNPJ : Identifier, emitNome : Text,
        destCNPJ : Identifier, enderDestCEP : Identifier, vNF : Amount]

\* A file: what is wrong with its text, or the nodes of its tree.
FiscalXML == [text  : {"blank", "unsafe", "malformed", "encoding", "xml"},
              nodes : SUBSET [name : STRING, namespace : STRING],
              cte   : CTe,
              nfe   : NFe]

Ok(v)       == [error |-> "none", value |-> v]
Raise(code) == [error |-> code, value |-> 0]
Raises(r)   == r.error # "none"

-----------------------------------------------------------------------------
(* The helpers.                                                             *)

\* _required_text
RequiredText(text) ==
    IF text = "blank" THEN Raise("MISSING_FIELD") ELSE Ok(text)

\* Mutation: the number of digits not checked.
AnyDigits(id) == IF id \in {"blank", "letters"} THEN Ok("blank") ELSE Ok(id)

\* _normalized_digits of an optional field: what has no digit is "".
NormalizedDigits(id) ==
    CASE id \in {"blank", "letters"} -> Ok("blank")
      [] id = "wrong"                -> Raise("INVALID_IDENTIFIER")
      [] OTHER                       -> Ok(id)

\* _normalized_digits(_required_text(...), required=True)
RequiredDigits(id) ==
    CASE id = "blank"                -> Raise("MISSING_FIELD")
      [] id \in {"letters", "wrong"} -> Raise("INVALID_IDENTIFIER")
      [] OTHER                       -> Ok(id)

\* _datetime, and the required text of its field.
IssueDate(date) ==
    CASE date = "blank" -> Raise("MISSING_FIELD")
      [] date = "bad"   -> Raise("INVALID_DATETIME")
      [] date = "naive" -> Ok("aware")
      [] OTHER          -> Ok(date)

\* _access_key: ACCESS_KEY_RE takes every digit that \d is for Python.
AccessKey(key) == IF key = "bad" THEN Raise("INVALID_ACCESS_KEY") ELSE Ok(key)

\* _decimal, with the default 0.
Decimal(amount) ==
    CASE amount = Refused -> Raise("INVALID_DECIMAL")
      [] amount = Blank   -> Ok(0)
      [] OTHER            -> Ok(amount)

\* _decimal(_required_text(...))
RequiredDecimal(amount) ==
    IF amount = Blank THEN Raise("MISSING_FIELD") ELSE Decimal(amount)

\* _integer: a decimal that is whole.
Integer(amount) ==
    LET r == Decimal(amount)
    IN  IF Raises(r) THEN r
        ELSE IF r.value % 10 # 0 THEN Raise("INVALID_INTEGER")
        ELSE Ok(r.value \div 10)

\* Mutation: the references as they come.
RepeatedKeys(refs) ==
    IF Contains(refs, "bad")
    THEN Raise("INVALID_REFERENCED_ACCESS_KEY")
    ELSE Ok(refs)

Once(keys, k) == IF Contains(keys, k) THEN keys ELSE Append(keys, k)

\* _referenced_nfe_keys: each key once, where it comes first (dict.fromkeys).
ReferencedKeys(refs) ==
    IF Contains(refs, "bad")
    THEN Raise("INVALID_REFERENCED_ACCESS_KEY")
    ELSE Ok(FoldLeft(Once, << >>, refs))

\* Mutation: the last measure of weight, not the heaviest.
LastMeasure(measures) ==
    LET Last1(w, m) ==
            IF Raises(w) \/ ~m.weight THEN w ELSE Decimal(m.amount)
    IN  FoldLeft(Last1, Ok(0), measures)

Heavier(w, m) ==
    LET r == Decimal(m.amount)
    IN  IF Raises(w) \/ ~m.weight THEN w
        ELSE IF Raises(r) \/ r.value > w.value THEN r ELSE w

\* The heaviest of the infQ whose tpMed contains "peso".
Heaviest(measures) == FoldLeft(Heavier, Ok(0), measures)

\* Mutation: a sum that starts over at every volume.
LastOf(results, range) ==
    LET Add(s, r) == IF Raises(s) THEN s ELSE r
    IN  FoldLeft(Add, Ok(0), results)

\* decimal.Overflow is no DocumentParseError.
Plus(s, r, range) ==
    IF Raises(s) THEN s
    ELSE IF Raises(r) THEN r
    ELSE IF s.value + r.value \in range THEN Ok(s.value + r.value)
    ELSE Raise("UNCAUGHT")

\* The sum over the converted amounts of the volumes of an NF-e.  The generator
\* converts one when it is added, so that the first error ends it.  A sum has a
\* range: decimals overflow, Python's integers do not.
Total(results, range) ==
    LET Add(s, r) == Plus(s, r, range)
    IN  FoldLeft(Add, Ok(0), results)

-----------------------------------------------------------------------------
(* The parsers.                                                             *)

\* The first step that raises ends the parser; without one, document.
Outcome(steps, document) ==
    LET i == SelectInSeq(steps, Raises)
    IN  IF i = 0 THEN Ok(document) ELSE steps[i]

\* _parse_cte: its steps, and the ParsedCTe made of their values.
CTeSteps(c) ==
    << ReferencedKeys(c.refs),
       Heaviest(c.measures),
       AccessKey(c.key),
       RequiredText(c.nCT),
       RequiredText(c.serie),
       IssueDate(c.dhEmi),
       NormalizedDigits(c.remCNPJ),
       NormalizedDigits(c.enderRemeCEP),
       NormalizedDigits(c.destCNPJ),
       NormalizedDigits(c.enderDestCEP),
       RequiredDigits(c.emitCNPJ),
       RequiredText(c.emitNome),
       RequiredDecimal(c.vTPrest),
       Decimal(c.vCarga) >>

ParsedCTe(c) ==
    LET steps == CTeSteps(c)
        v(i) == steps[i].value
    IN  [type     |-> "cte",
         refs     |-> v(1),
         weight   |-> v(2),
         key      |-> v(3),
         texts    |-> {v(4), v(5), v(12)},
         issue_at |-> v(6),
         optional |-> {v(7), v(8), v(9), v(10)},
         issuer   |-> v(11),
         amounts  |-> {v(2), v(13), v(14)},
         status   |-> CASE c.tpCTe = "1" -> "complementary"
                        [] c.tpCTe = "2" -> "annulment"
                        [] c.tpCTe = "3" -> "substitute"
                        [] OTHER         -> "normal"]

ParseCTe(c) == Outcome(CTeSteps(c), ParsedCTe(c))

\* _parse_nfe, in the same way.
NFeSteps(n) ==
    << Total([i \in DOMAIN n.vol |-> Decimal(n.vol[i].pesoB)], 0..MaxDecimal),
       Total([i \in DOMAIN n.vol |-> Decimal(n.vol[i].pesoL)], 0..MaxDecimal),
       Total([i \in DOMAIN n.vol |-> Integer(n.vol[i].qVol)], Nat),
       AccessKey(n.key),
       RequiredText(n.nNF),
       RequiredText(n.serie),
       IssueDate(IF n.dhEmi # "blank" THEN n.dhEmi ELSE n.dEmi),
       RequiredDigits(n.emitCNPJ),
       RequiredText(n.emitNome),
       NormalizedDigits(n.destCNPJ),
       NormalizedDigits(n.enderDestCEP),
       RequiredDecimal(n.vNF) >>

ParsedNFe(n) ==
    LET steps == NFeSteps(n)
        v(i) == steps[i].value
    IN  [type     |-> "nfe",
         gross    |-> v(1),
         net      |-> v(2),
         volume   |-> v(3),
         key      |-> v(4),
         texts    |-> {v(5), v(6), v(9)},
         issue_at |-> v(7),
         issuer   |-> v(8),
         optional |-> {v(10), v(11)},
         amounts  |-> {v(1), v(2), v(3), v(12)}]

ParseNFe(n) == Outcome(NFeSteps(n), ParsedNFe(n))

\* _first_descendant finds a node: local name and namespace must agree.
Found(nodes, name, namespace) ==
    [name |-> name, namespace |-> namespace] \in nodes

\* parse_fiscal_xml.  What defusedxml refuses or cannot parse has no nodes; for
\* an encoding that Python does not know or that is of several bytes it raises
\* a LookupError or a ValueError, which neither except clause is for.
ParseFiscalXML(x) ==
    CASE x.text = "blank"     -> Raise("EMPTY_FILE")
      [] x.text = "unsafe"    -> Raise("UNSAFE_XML")
      [] x.text = "malformed" -> Raise("INVALID_XML")
      [] x.text = "encoding"  -> Raise("UNCAUGHT")
      [] x.text = "xml" ->
            IF Found(x.nodes, "infCte", "cte") THEN ParseCTe(x.cte)
            ELSE IF Found(x.nodes, "infNFe", "nfe") THEN ParseNFe(x.nfe)
            ELSE Raise("UNSUPPORTED_DOCUMENT")
=============================================================================
