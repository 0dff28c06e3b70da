----------------------------- MODULE MCSession ------------------------------
(***************************************************************************)
(* A model of Session.                                                     *)
(***************************************************************************)
EXTENDS Session

\* Payloads that differ only in their lengths are named by them.
OwnLength == [p \in Payloads |-> p]

\* A policy below the clamp to 1, and the largest byte limit that a single
\* frame cannot jump over when the byte counter wraps.
Loose == [maxBytes |-> 2, maxAge |-> 2]
SomePolicies == {Loose, [maxBytes |-> 0, maxAge |-> 0]}
=============================================================================
