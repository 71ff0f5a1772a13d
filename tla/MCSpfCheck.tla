----------------------------- MODULE MCSpfCheck -----------------------------
(***************************************************************************)
(* SpfCheck with two domains that may lead to each other and to themselves.*)
(***************************************************************************)
EXTENDS SpfCheck

MCSpfConfig == [max_lookups |-> 2, void_limit |-> 3]

\* One key at most, in either case.
MCOverrides == UNION {[ks -> Record] : ks \in {{}} \cup {{k} : k \in Name}}

MCDns == [Domain -> Record \cup {NoRecord, NoAnswer}]
=============================================================================
