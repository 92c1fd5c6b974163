---------------------------- MODULE MCIngestion ----------------------------
(****************************************************************************)
(* Instances of Ingestion for TLC.                                          *)
(*                                                                          *)
(* "cte" and "cte2" are two XML files of one CT-e: their bytes differ, the  *)
(* access key is the same.  "nfe" is the NF-e they refer to.  "bad" is not  *)
(* a fiscal document.  "long" is a CT-e with a value too long to store,     *)
(* "odd" one with digits in its key that the database does not know.        *)
(****************************************************************************)
EXTENDS Ingestion, TLC

MCKindOf == [c \in Contents |->
                CASE c = "bad" -> "invalid"
                  [] c = "nfe" -> "nfe"
                  [] OTHER     -> "cte"]

MCKeyOf == [c \in Contents |->
                CASE c = "nfe"  -> "kn"
                  [] c = "long" -> "kl"
                  [] c = "odd"  -> "ko"
                  [] OTHER      -> "kc"]

MCRefsOf == [c \in Contents |-> IF MCKindOf[c] = "cte" THEN {"kn"} ELSE {}]

\* Threads and tenants are interchangeable in every safety property.
MCSymmetry == Permutations(Workers) \cup Permutations(Tenants)
=============================================================================
