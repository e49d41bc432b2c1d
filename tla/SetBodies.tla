----------------------------- MODULE SetBodies -----------------------------
(***************************************************************************)
(* What a result set holds, [ents, type]: its entries in order and what    *)
(* kind of set it is.  The entries are opaque; a document has one at most. *)
(***************************************************************************)
EXTENDS Integers, Sequences

Entries(b) == {b.ents[i] : i \in DOMAIN b.ents}

\* The same entries; the order of a ranked set may differ.
SameEntries(b, c) ==
  /\ b.type = c.type
  /\ Len(b.ents) = Len(c.ents)
  /\ Entries(b) = Entries(c)
  /\ b.type # "ranked" => b = c

\* What a merge may leave of an operand: se_sortwtset puts a ranked set into
\* record order where it is.
Reorderings(b) ==
  {c \in {[b EXCEPT !.ents = e] : e \in [DOMAIN b.ents -> Entries(b)]} : SameEntries(b, c)}
=============================================================================
