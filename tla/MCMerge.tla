------------------------------ MODULE MCMerge ------------------------------
(* Operands with up to MaxHits entries over record numbers 1..MaxRec, in    *)
(* every order; even records weigh 1, odd ones 2.                           *)
EXTENDS Merge

CONSTANTS MaxHits, MaxRec

MCEntry == {[record_num |-> r, weight |-> 1 + (r % 2)] : r \in 1..MaxRec}

MCSets == {s \in UNION {[1..n -> MCEntry] : n \in 0..MaxHits} : Distinct(s)}
=============================================================================
