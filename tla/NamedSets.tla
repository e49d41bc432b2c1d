----------------------------- MODULE NamedSets -----------------------------
(***************************************************************************)
(* What the result set store promises its callers: a map from names to     *)
(* result sets.  Storing under a name in use needs the replace flag, a set *)
(* stays as it was stored until it is replaced or deleted, and giving back *)
(* the memory of a set does not change what the name stands for.  Only the *)
(* order of a ranked set is not safe from merges.                          *)
(*                                                                         *)
(* sets maps a key to the body stored under it; last is the latest call    *)
(* together with its answer.                                               *)
(***************************************************************************)
EXTENDS SetBodies

CONSTANTS Name, Key, Keys, Body, NULL,
          Merges  \* the host merges named sets with others

VARIABLES sets, last

vars == <<sets, last>>

Init == /\ sets = [k \in Keys |-> NULL]
        /\ last = [op |-> "start"]

\* The answer to a store of body b under name n.
Answer(n, b, replace, op) ==
  LET ok == sets[Key[n]] = NULL \/ replace
  IN  /\ last' = [op |-> op, name |-> n, rc |-> ok]
      /\ sets' = IF ok THEN [sets EXCEPT ![Key[n]] = b] ELSE sets

Store(n, b, replace) == Answer(n, b, replace, "store")

\* The file of a new set could not be written: the call fails, and the set
\* is there all the same for as long as the process keeps it in memory.
StoreUnsaved(n, b) ==
  /\ sets[Key[n]] = NULL
  /\ last' = [op |-> "store", name |-> n, rc |-> FALSE]
  /\ sets' = [sets EXCEPT ![Key[n]] = b]

\* The set named m is stored under n too; under its own name it already is.
Restore(m, n, replace) ==
  /\ sets[Key[m]] # NULL
  /\ IF Key[m] = Key[n]
     THEN /\ last' = [op |-> "restore", name |-> n, rc |-> TRUE]
          /\ UNCHANGED sets
     ELSE Answer(n, sets[Key[m]], replace, "restore")

Get(n) == /\ last' = [op |-> "get", name |-> n, out |-> sets[Key[n]]]
          /\ UNCHANGED sets

Hits(n) ==
  /\ last' = [op |-> "hits", name |-> n,
              out |-> IF sets[Key[n]] = NULL THEN -1
                      ELSE Len(sets[Key[n]].ents)]
  /\ UNCHANGED sets

\* Deleting a set that is not there fails, except that a store holding
\* nothing at all may answer that it succeeded.
Delete(n) ==
  /\ \/ last' = [op |-> "delete", name |-> n, rc |-> sets[Key[n]] # NULL]
     \/ /\ \A k \in Keys : sets[k] = NULL
        /\ last' = [op |-> "delete", name |-> n, rc |-> TRUE]
  /\ sets' = [sets EXCEPT ![Key[n]] = NULL]

\* The set of name n gets another order.
Reorder(n) ==
  /\ Merges
  /\ sets[Key[n]] # NULL
  /\ \E b \in Reorderings(sets[Key[n]]) : sets' = [sets EXCEPT ![Key[n]] = b]

SortOperand(n) ==
  /\ last' = [op |-> "merge", name |-> n]
  /\ Reorder(n)

\* A set that a merge has sorted may get back the order it was stored with.
Free(n) == /\ last' = [op |-> "free", name |-> n]
           /\ UNCHANGED sets \/ Reorder(n)

Clear == /\ last' = [op |-> "clear"]
         /\ sets' = [k \in Keys |-> NULL]

Next == \/ Clear
        \/ \E n \in Name :
             \/ Get(n) \/ Hits(n) \/ Delete(n) \/ Free(n) \/ SortOperand(n)
             \/ \E b \in Body : StoreUnsaved(n, b)
             \/ \E r \in BOOLEAN :
                  \/ \E b \in Body : Store(n, b, r)
                  \/ \E m \in Name : Restore(m, n, r)

Spec == Init /\ [][Next]_vars
=============================================================================
