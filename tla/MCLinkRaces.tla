---------------------------- MODULE MCLinkRaces ----------------------------
(****************************************************************************)
(* Instances of LinkRaces for TLC: the contents of MCIngestion.             *)
(****************************************************************************)
EXTENDS LinkRaces, TLC

MCKindOf == [c \in Contents |-> IF c = "nfe" THEN "nfe" ELSE "cte"]

MCKeyOf == [c \in Contents |-> IF c = "nfe" THEN "kn" ELSE "kc"]

MCRefsOf == [c \in Contents |-> IF c = "nfe" THEN {} ELSE {"kn"}]

\* Threads and tenants are interchangeable in every property of the run.
MCSymmetry == Permutations(Workers) \cup Permutations(Tenants)
=============================================================================
