----------------------------- MODULE MCZSession -----------------------------
(* Instances of ZSession for TLC: "default" and "DEFAULT" are one name. *)
EXTENDS ZSession

CONSTANTS o1, o2, o3, o4

\* Addresses are told apart by equality only.
Addresses == Permutations({o1, o2, o3, o4})

\* No action reads resp, and only action properties speak about it.
SessionView == <<st, names, cur, cnt, conn>>

MCKey == [n \in Name |-> IF n = "default" THEN "DEFAULT" ELSE n]

\* No hit, one, two, and two ranked ones that are not in record order.
MCBody == {[ents |-> <<>>,     type |-> "Boolean"],
           [ents |-> <<1>>,    type |-> "Boolean"],
           [ents |-> <<1, 2>>, type |-> "Boolean"],
           [ents |-> <<2, 1>>, type |-> "ranked"]}

\* Two sets without a record in common.
MCDisjoint == {[ents |-> <<1>>, type |-> "Boolean"], [ents |-> <<2>>, type |-> "Boolean"]}
=============================================================================
