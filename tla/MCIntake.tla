------------------------------ MODULE MCIntake ------------------------------
(****************************************************************************)
(* The files of the instance of Intake for TLC: a good CT-e and a good NF-e *)
(* with any two of their fields given any value, every set of nodes an XML  *)
(* can have, and every size around the limit.  One weight of a volume is    *)
(* below the bound of a sum, two are beyond it.                             *)
(****************************************************************************)
EXTENDS Intake, TLC

MCKey == {"k0", "odd", "bad"}

\* A decimal that is not whole and two that are.
MCAmount == {Blank, Refused, 5, 10, 20}

MCCTe ==
    [refs |-> <<"k1">>, measures |-> << >>, key |-> "k0", nCT |-> "fits",
     serie |-> "fits", dhEmi |-> "aware", tpCTe |-> "0", remCNPJ |-> "good",
     enderRemeCEP |-> "blank", destCNPJ |-> "good", enderDestCEP |-> "good",
     emitCNPJ |-> "good", emitNome |-> "fits", vTPrest |-> 10,
     vCarga |-> Blank]

MCCTeValues ==
    [refs |-> BoundedSeq({"k1", "odd", "bad"}, 3),
     measures |-> BoundedSeq([weight : BOOLEAN,
                              amount : {Blank, Refused, 5, 20}], 2),
     key |-> MCKey, nCT |-> Text, serie |-> Text, dhEmi |-> Date,
     tpCTe |-> {"blank", "0", "1", "2", "3", "9"}, remCNPJ |-> Identifier,
     enderRemeCEP |-> Identifier, destCNPJ |-> Identifier,
     enderDestCEP |-> Identifier, emitCNPJ |-> Identifier, emitNome |-> Text,
     vTPrest |-> MCAmount, vCarga |-> MCAmount]

MCNFe ==
    [vol |-> << >>, key |-> "k0", nNF |-> "fits", serie |-> "fits",
     dhEmi |-> "aware", dEmi |-> "blank", emitCNPJ |-> "good",
     emitNome |-> "fits", destCNPJ |-> "good", enderDestCEP |-> "blank",
     vNF |-> 10]

MCNFeValues ==
    [vol |-> BoundedSeq([pesoB : {Blank, 20}, pesoL : {Refused, 5},
                         qVol : {Refused, 5, 10}], 2),
     key |-> MCKey, nNF |-> Text, serie |-> Text, dhEmi |-> Date,
     dEmi |-> Date, emitCNPJ |-> Identifier, emitNome |-> Text,
     destCNPJ |-> Identifier, enderDestCEP |-> Identifier, vNF |-> MCAmount]

\* The document d with two of its fields replaced.
MCVary(d, values) ==
    UNION {LET f == CHOOSE f \in pair : TRUE
               g == CHOOSE g \in pair : g # f
           IN  {[d EXCEPT ![f] = x, ![g] = y] :
                   x \in values[f], y \in values[g]} :
           pair \in kSubset(2, DOMAIN d)}

MCNode(name, namespace) == [name |-> name, namespace |-> namespace]

MCFile(name, size, text, nodes, cte, nfe) ==
    [name |-> name, size |-> size,
     xml |-> [text |-> text, nodes |-> nodes, cte |-> cte, nfe |-> nfe]]

\* A CT-e holds the infNFe of its references, in its own namespace.
MCFiles ==
    {MCFile("xml", 1, "xml", {MCNode("infCte", "cte"), MCNode("infNFe", "cte")},
            cte, MCNFe) : cte \in MCVary(MCCTe, MCCTeValues)}
    \cup
    {MCFile("xml", 1, "xml", {MCNode("infNFe", "nfe")}, MCCTe, nfe) :
        nfe \in MCVary(MCNFe, MCNFeValues)}
    \cup
    {MCFile(name, size, IF size = 0 THEN "blank" ELSE text, nodes, MCCTe,
            MCNFe) :
        name \in FileName,
        size \in 0..MaxBytes + 3,
        text \in {"blank", "unsafe", "malformed", "encoding", "xml"},
        nodes \in SUBSET {MCNode(name, namespace) :
                            name \in {"infCte", "infNFe"},
                            namespace \in {"cte", "nfe", "other"}}}
=============================================================================
