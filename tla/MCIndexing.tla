----------------------------- MODULE MCIndexing -----------------------------
(* Instances of Indexing for TLC: the documents c1 and c2 have the primary    *)
(* key k1, which c2 has twice, c3 has k2, and c4 does not parse; a and b are  *)
(* words.                                                                     *)
EXTENDS Indexing

CONSTANTS c1, c2, c3, c4, k1, k2, a, b

Count(some) == [t \in Term |-> IF t \in DOMAIN some THEN some[t] ELSE 0]

\* c1 has a twice, c2 has a and b, c3 has a.
MCWords == [c \in Doc |->
  [x \in {"pk", "kw"} |->
    Count(CASE x = "pk" -> [t \in {IF c = c3 THEN k2 ELSE k1} |-> IF c = c2 THEN 2 ELSE 1]
            [] x = "kw" /\ c = c1 -> [t \in {a} |-> 2]
            [] x = "kw" /\ c = c2 -> [t \in {a, b} |-> 1]
            [] OTHER -> [t \in {a} |-> 1])]]

\* c1 has one component.
MCParts == [c \in Doc |-> IF c = c1 THEN <<Count([t \in {a} |-> 1])>> ELSE <<>>]
=============================================================================
