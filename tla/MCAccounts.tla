----------------------------- MODULE MCAccounts -----------------------------
(****************************************************************************)
(* Instances of Accounts for TLC.                                           *)
(****************************************************************************)
EXTENDS Accounts, TLC

\* Threads and passwords are interchangeable.
MCSymmetry == Permutations(Requests) \cup Permutations(Passwords)
=============================================================================
