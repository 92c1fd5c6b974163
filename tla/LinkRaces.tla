----------------------------- MODULE LinkRaces -----------------------------
(****************************************************************************)
(* Which links can be missing.  _sync_cte_links and _sync_nfe_links read    *)
(* the documents of the other type that are committed when they run, just   *)
(* before the COMMIT.  This module adds to Ingestion a history variable     *)
(* with the pairs of documents that could have missed each other that way,  *)
(* and states that no other pair lacks its link.                            *)
(****************************************************************************)
EXTENDS Ingestion

VARIABLE
    raced  \* pairs whose commits overlapped, or whose link was deleted

rvars == <<vars, raced>>

\* Threads past the SELECT of their _sync_ function and before their COMMIT.
Linked == {v \in Workers : pc[v] = "commit"}

\* The step publishes d while v has read and not published: neither sees the
\* other.  Or it is an administrator who deletes a link.
Overlapping ==
    {l \in Link :
        /\ Refers(l.cte, l.nfe)
        /\ \E d \in docs' \ docs, v \in Linked :
              \/ l.cte = d /\ l.nfe = req[v]
              \/ l.cte = req[v] /\ l.nfe = d}

RInit == Init /\ raced = {}

RNext == Next /\ raced' = raced \cup Overlapping \cup (links \ links')

RSpec == RInit /\ [][RNext]_rvars

\* A link that _sync_cte_links and _sync_nfe_links should have made is only
\* missing when the two transactions overlapped between reading and
\* committing, or when an administrator has deleted it.
MissingLinkOnlyByRace ==
    \A c, n \in docs :
        Refers(c, n) => [cte |-> c, nfe |-> n] \in links \cup raced
=============================================================================
