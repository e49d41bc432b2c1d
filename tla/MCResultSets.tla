---------------------------- MODULE MCResultSets ----------------------------
(* Instances of ResultSets for TLC.  "b" and "B" are two spellings of one   *)
(* name; "" is read as "default".                                           *)
EXTENDS ResultSets

CONSTANTS e1, e2

MCKey == [n \in Name |-> CASE n = "b" -> "B"
                           [] n = "" -> "DEFAULT"
                           [] n = "default" -> "DEFAULT"
                           [] OTHER -> n]

\* One hit, two hits.
MCBody == {[ents |-> <<e1>>, type |-> "Boolean"],
           [ents |-> <<e1, e2>>, type |-> "ranked"]}
=============================================================================
