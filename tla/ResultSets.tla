----------------------------- MODULE ResultSets -----------------------------
(***************************************************************************)
(* The result set store of search/se_get_result.c driven by one process    *)
(* (the Z39.50 server, the search driver): every call its interface offers *)
(* in any order.  A process is single threaded, so a call is one step.     *)
(*                                                                         *)
(* The host programs use the interface differently, and Calls says what    *)
(* this host does:                                                         *)
(*   "replace"   stores new sets with the replace flag                     *)
(*   "restore"   stores a set it got from the store under another name     *)
(*               (a query that is nothing but a result set name)           *)
(*   "restore_replace"  does that over a name in use                       *)
(*   "nosave"    runs with disable_saving_result_sets                      *)
(*   "merge"     merges stored sets, which sorts ranked ones where they    *)
(*               are                                                       *)
(*   "free"      gives memory back with se_free_result_name                *)
(*   "unwritable"  meets a result set directory it cannot write to         *)
(***************************************************************************)
EXTENDS ResultSetOps

CONSTANTS Body,   \* the set bodies queries produce
          Calls

VARIABLES st,     \* the store, see ResultSetOps
          last    \* the latest call with its answer

vars == <<st, last>>

ASSUME CallsAssumption ==
  Calls \subseteq {"replace", "restore", "restore_replace", "nosave", "merge",
                   "free", "unwritable"}

ASSUME BodyAssumption == Body \subseteq Bodies

\* A call needs at most this many fresh addresses; the bound on Obj.
Room == Cardinality(FreeAddrs(st)) >= 2

Init == /\ st = EmptyStore
        /\ last = [op |-> "start"]

\* A query has produced a new set with body b, and it is stored under n.
Store(n, b, replace, nosave, writable) ==
  /\ Room
  /\ replace => "replace" \in Calls
  /\ nosave => "nosave" \in Calls
  /\ ~writable => "unwritable" \in Calls
  /\ LET o == Alloc(st)
         r == se_store_result_set(
                [st EXCEPT !.heap[o] = [setid |-> Unnamed, body |-> b]],
                o, n, replace, nosave, writable)
     IN  /\ st' = Collect(r.st)
         /\ last' = [op |-> "store", name |-> n, rc |-> r.rc]

\* A query has produced the stored set m itself, and it is stored under n.
Restore(m, n, replace) ==
  /\ "restore" \in Calls
  /\ replace => "restore_replace" \in Calls
  /\ Room
  /\ LET g == se_get_result_set(st, m)
         r == se_store_result_set(g.st, g.set, n, replace, FALSE, TRUE)
     IN  /\ g.set # NULL
         /\ g.st.heap[g.set] # NULL
         /\ st' = Collect(r.st)
         /\ last' = [op |-> "restore", name |-> n, rc |-> r.rc]

Get(n) ==
  /\ Room
  /\ LET g == se_get_result_set(st, n)
     IN  /\ st' = g.st
         /\ last' = [op |-> "get", name |-> n,
                     out |-> IF g.set = NULL \/ g.st.heap[g.set] = NULL THEN NULL
                             ELSE g.st.heap[g.set].body]

\* A query merges the stored set n with another one.
SortOperand(n) ==
  /\ "merge" \in Calls
  /\ Room
  /\ LET g == se_get_result_set(st, n)
     IN  /\ g.set # NULL
         /\ g.st.heap[g.set] # NULL
         /\ \E b \in Reorderings(g.st.heap[g.set].body) :
              st' = [g.st EXCEPT !.heap[g.set].body = b]
         /\ last' = [op |-> "merge", name |-> n]

Hits(n) ==
  LET h == se_get_result_hits(st, n)
  IN  /\ st' = h.st
      /\ last' = [op |-> "hits", name |-> n, out |-> h.hits]

Delete(n) ==
  LET d == se_delete_result_set(st, n)
  IN  /\ st' = d.st
      /\ last' = [op |-> "delete", name |-> n, rc |-> d.rc]

Free(n) ==
  /\ "free" \in Calls
  /\ st' = se_free_result_name(st, n)
  /\ last' = [op |-> "free", name |-> n]

Clear == /\ st' = se_delete_all_result_sets(st)
         /\ last' = [op |-> "clear"]

Next == \/ Clear
        \/ \E n \in Name :
             \/ Get(n) \/ Hits(n) \/ Delete(n) \/ Free(n) \/ SortOperand(n)
             \/ \E r \in BOOLEAN :
                  \/ \E b \in Body, nosave \in BOOLEAN, writable \in BOOLEAN :
                       Store(n, b, r, nosave, writable)
                  \/ \E m \in Name : Restore(m, n, r)

Spec == Init /\ [][Next]_vars

-----------------------------------------------------------------------------
\* Every state of the store has the shape se_get_result.c gives it.
TypeOK ==
  /\ \A k \in Keys : \/ st.tab[k] = NULL
                     \/ /\ st.tab[k].ptr \in Obj \cup {NULL}
                        /\ st.tab[k].hits \in Nat
                        /\ st.tab[k].really_stored \in BOOLEAN
                        /\ st.tab[k].disk \in Result \cup {NULL}
  /\ \A o \in Obj : st.heap[o] \in Result \cup {NULL}
  /\ st.diag \in Diagnostic
  /\ st.orphan \in BOOLEAN
  /\ st.up \in BOOLEAN
  /\ \A k \in Keys : st.tab[k] # NULL => st.up

\* No entry points to a set that has been freed: a replace or a delete of
\* one name must never free the set another name still uses.
NoDangling ==
  \A k \in Keys : st.tab[k] # NULL /\ st.tab[k].ptr # NULL
                    => st.heap[st.tab[k].ptr] # NULL

\* Two names never share one in-core set: se_store_result_set copies a set
\* that already has a name ("assume the set is modified or changed").
NoSharing ==
  \A j, k \in Keys :
    /\ j # k
    /\ st.tab[j] # NULL /\ st.tab[k] # NULL
    /\ st.tab[j].ptr # NULL
    => st.tab[j].ptr # st.tab[k].ptr

\* A set that carries a name is the one that name stands for; the early
\* return "already stored if it has a name" is right only under this.
NameIsHome ==
  \A k \in Keys : /\ st.tab[k] # NULL
                  /\ st.tab[k].ptr # NULL
                  /\ st.heap[st.tab[k].ptr] # NULL
                  => st.heap[st.tab[k].ptr].setid = k

\* The set b has the contents f of its file, which merges do not rewrite.
AsFiled(b, f) == IF "merge" \in Calls THEN SameEntries(b, f) ELSE b = f

\* The count se_get_result_hits answers is the length of the set that
\* se_get_result_set hands out for the same name.
HitsAgree ==
  \A k \in Keys : Contents(st, k) # NULL
                    => st.tab[k].hits = Len(Contents(st, k).ents)

\* The file of a set holds what the name stands for, so that the set can be
\* dropped from memory and read back ("and store it in a file"): the same
\* entries, and in the same order unless a merge has sorted the set since.
FileIsCurrent ==
  \A k \in Keys : /\ st.tab[k] # NULL /\ st.tab[k].disk # NULL
                  /\ Contents(st, k) # NULL
                  => AsFiled(Contents(st, k), st.tab[k].disk.body)

\* Every result file is unlinked together with its entry.
NoOrphanFile == ~st.orphan

-----------------------------------------------------------------------------
(* What the steps preserve, as predicates on a store.                      *)

\* Between two calls all sets have names.
WellFormed(s) == /\ s \in Store_t(Result)
                 /\ \A k \in Keys : s.tab[k] # NULL => s.up

\* The set in core of entry k, and its file, are k's own.
OwnSet(s, k) ==
  s.tab[k].ptr # NULL =>
    /\ s.heap[s.tab[k].ptr] # NULL
    /\ s.heap[s.tab[k].ptr].setid = k
    /\ s.tab[k].hits = Len(s.heap[s.tab[k].ptr].body.ents)

OwnFile(s, k) == s.tab[k].disk # NULL => s.tab[k].disk.setid = k

\* The file holds what the entry stands for.
SameAsFile(s, k) ==
  s.tab[k].disk # NULL =>
    /\ s.tab[k].hits = Len(s.tab[k].disk.body.ents)
    /\ s.tab[k].ptr # NULL => AsFiled(s.heap[s.tab[k].ptr].body, s.tab[k].disk.body)

\* What each kind of host keeps true of an entry: a set is dropped from memory
\* by "free" only, a file gets stale by "replace" only, and only a set read
\* back after "free" has a file that its entry does not unlink.
EntryOK(s, k) ==
  s.tab[k] # NULL =>
    /\ OwnSet(s, k)
    /\ OwnFile(s, k)
    /\ "replace" \notin Calls => SameAsFile(s, k)
    /\ "free" \notin Calls =>
         /\ s.tab[k].ptr # NULL
         /\ s.tab[k].disk # NULL => s.tab[k].really_stored
    /\ "nosave" \notin Calls /\ "unwritable" \notin Calls => s.tab[k].disk # NULL

Hosted(s) ==
  /\ \A k \in Keys : EntryOK(s, k)
  /\ "free" \notin Calls /\ EmptyName \notin Name => ~s.orphan

IInv == /\ WellFormed(st)
        /\ "restore_replace" \notin Calls => Hosted(st)

-----------------------------------------------------------------------------
\* The store implements the map of named sets.
Abstract == INSTANCE NamedSets
              WITH sets <- [k \in Keys |-> Contents(st, k)], last <- last,
                   Merges <- "merge" \in Calls

ImplementsNamedSets == Abstract!Spec
=============================================================================
