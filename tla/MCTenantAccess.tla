---------------------------- MODULE MCTenantAccess ----------------------------
(****************************************************************************)
(* Instances of TenantAccess for TLC.  The browser is logged in as u1.      *)
(****************************************************************************)
EXTENDS TenantAccess, TLC

CONSTANTS u1, t1

MCOwnerOf == [b \in Browsers |-> u1]

\* The weaker of the roles of the instance.
MCGuest == IF "viewer" \in Roles THEN "viewer" ELSE "operator"

\* u1 works in t1 and is a guest in the others, where everybody else works.
MCInitialGrants ==
    {[u \in Users |-> [t \in Tenants |->
        IF u = u1 THEN IF t = t1 THEN "operator" ELSE MCGuest
                  ELSE IF t = t1 THEN "none" ELSE "operator"]]}

MCSymmetry == Permutations(Requests)

\* With one role u1 has it everywhere, and no tenant is different.
MCSymmetryOneRole == MCSymmetry \cup Permutations(Tenants)
=============================================================================
