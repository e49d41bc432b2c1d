---------------------------- MODULE StoreProofs ----------------------------
(***************************************************************************)
(* What the operators of ResultSetOps do to a store, field by field: the   *)
(* lemmas that the proofs about ResultSets and about ZSession share.       *)
(***************************************************************************)
EXTENDS ResultSetOps, FiniteSetTheorems, TLAPS

\* A store in the middle of a call.
AnyStore == Store_t(weighted_result)

-----------------------------------------------------------------------------
(* What the assumptions say. *)

\* The assumptions on the constants.
LEMMA Constants ==
  /\ \A n \in Name : Key[n] \in Keys
  /\ Unnamed \notin Keys
  /\ NULL \notin Obj
  /\ NULL \notin Bodies
  /\ NULL \notin weighted_result
  /\ NULL \notin result_set_data
  /\ \A b \in Bodies : Len(b.ents) \in Nat
BY StoreAssumption, SetAssumption DEF Keys, Bodies

\* A named set is a set.
LEMMA ResultIsSet == Result \subseteq weighted_result
BY DEF Result, weighted_result

\* The fields of an entry of the table.
LEMMA EntryFields ==
  ASSUME NEW e \in result_set_data
  PROVE  /\ e # NULL
         /\ e.ptr \in Obj \cup {NULL}
         /\ e.hits \in Nat
         /\ e.really_stored \in BOOLEAN
         /\ e.disk \in Result \cup {NULL}
BY Constants DEF result_set_data

\* The fields of a store.
LEMMA StoreFields ==
  ASSUME NEW S, NEW s \in Store_t(S)
  PROVE  /\ s.tab \in [Keys -> result_set_data \cup {NULL}]
         /\ s.heap \in [Obj -> S \cup {NULL}]
         /\ s.diag \in Diagnostic
         /\ s.up \in BOOLEAN
         /\ s.orphan \in BOOLEAN
BY DEF Store_t

-----------------------------------------------------------------------------
(* malloc. *)

\* Under Room, two addresses are free.
LEMMA TwoFree ==
  ASSUME NEW s, Cardinality(FreeAddrs(s)) >= 2
  PROVE  \E a, b \in FreeAddrs(s) : a # b
<1>1. FreeAddrs(s) \subseteq Obj /\ IsFiniteSet(Obj)
  BY SetAssumption DEF FreeAddrs
<1>2. IsFiniteSet(FreeAddrs(s))
  BY <1>1, FS_Subset
<1>3. PICK a : a \in FreeAddrs(s)
  BY <1>2, FS_EmptySet
<1>4. IsFiniteSet(FreeAddrs(s) \ {a}) /\ Cardinality(FreeAddrs(s) \ {a}) = Cardinality(FreeAddrs(s)) - 1
  BY <1>2, <1>3, FS_RemoveElement
<1>5. PICK b : b \in FreeAddrs(s) \ {a}
  BY <1>2, <1>4, FS_EmptySet, FS_CardinalityType
<1> QED BY <1>3, <1>5

\* A fresh address holds nothing, and no entry points to it.
LEMMA Fresh ==
  ASSUME NEW s, FreeAddrs(s) # {}
  PROVE  /\ Alloc(s) \in Obj
         /\ s.heap[Alloc(s)] = NULL
         /\ Alloc(s) \notin Pointers(s)
         /\ \A k \in Keys : s.tab[k] # NULL => s.tab[k].ptr # Alloc(s)
<1>1. Alloc(s) \in FreeAddrs(s)
  BY DEF Alloc
<1> QED BY <1>1 DEF FreeAddrs, Pointers

-----------------------------------------------------------------------------
(* The operators of ResultSetOps, field by field. *)

\* Reading a file gives the entry a new set, and changes nothing else.
LEMMA ReadBackFields ==
  ASSUME NEW s \in AnyStore, NEW k \in Keys, NEW o \in Obj,
         s.tab[k] # NULL, s.tab[k].disk # NULL
  PROVE  LET f == s.tab[k].disk
             e == [ptr |-> o, hits |-> Len(f.body.ents), really_stored |-> FALSE,
                   disk |-> f]
             r == ReadBack(s, k, o)
         IN  /\ r \in AnyStore
             /\ r.tab = [s.tab EXCEPT ![k] = e]
             /\ r.heap = [s.heap EXCEPT ![o] = f]
             /\ r.diag = s.diag /\ r.up = s.up /\ r.orphan = s.orphan
<1> DEFINE f == s.tab[k].disk
           e == [ptr |-> o, hits |-> Len(f.body.ents), really_stored |-> FALSE,
                 disk |-> f]
           t == [s.tab EXCEPT ![k] = e]
           h == [s.heap EXCEPT ![o] = f]
<1>1. f \in Result
  BY StoreFields, EntryFields DEF AnyStore
<1>2. e \in result_set_data
  BY <1>1, Constants DEF result_set_data, Result
<1>3. t \in [Keys -> result_set_data \cup {NULL}]
  BY <1>2, StoreFields DEF AnyStore
<1>4. h \in [Obj -> weighted_result \cup {NULL}]
  BY <1>1, ResultIsSet, StoreFields DEF AnyStore
<1>5. ReadBack(s, k, o) = [s EXCEPT !.heap = h, !.tab = t]
  BY DEF ReadBack, AnyStore, Store_t
<1> HIDE DEF e, t, h
<1> QED BY <1>3, <1>4, <1>5 DEF AnyStore, Store_t, t, e, h

\* se_free_result drops the set of an entry, and nothing else.
LEMMA FreeFields ==
  ASSUME NEW s \in AnyStore, NEW k \in Keys, s.tab[k] # NULL
  PROVE  LET p == s.tab[k].ptr
             r == se_free_result(s, k)
         IN  /\ r \in AnyStore
             /\ r.tab = [s.tab EXCEPT ![k] = [s.tab[k] EXCEPT !.ptr = NULL]]
             /\ r.heap = IF p = NULL THEN s.heap ELSE [s.heap EXCEPT ![p] = NULL]
             /\ r.diag = s.diag /\ r.up = s.up /\ r.orphan = s.orphan
<1> DEFINE p == s.tab[k].ptr
           e == [s.tab[k] EXCEPT !.ptr = NULL]
           t == [s.tab EXCEPT ![k] = e]
           h == [s.heap EXCEPT ![p] = NULL]
<1>1. s.tab[k] \in result_set_data /\ p \in Obj \cup {NULL}
  BY StoreFields, EntryFields DEF AnyStore
<1>2. e \in result_set_data
  BY <1>1 DEF result_set_data
<1>3. t \in [Keys -> result_set_data \cup {NULL}]
  BY <1>2, StoreFields DEF AnyStore
<1>4. h \in [Obj -> weighted_result \cup {NULL}]
  BY StoreFields DEF AnyStore
<1>5. CASE p = NULL
  <2>1. se_free_result(s, k) = s
    BY <1>5 DEF se_free_result
  <2>2. e = s.tab[k]
    BY <1>1, <1>5 DEF result_set_data
  <2>3. t = s.tab
    BY <2>2, StoreFields DEF AnyStore
  <2> HIDE DEF t
  <2>4. s.tab = [s.tab EXCEPT ![k] = [s.tab[k] EXCEPT !.ptr = NULL]]
    BY <2>3 DEF t
  <2> QED BY <2>1, <2>4, <1>5
<1>6. CASE p # NULL
  <2>1. se_free_result(s, k) = [s EXCEPT !.heap = h, !.tab = t]
    BY <1>1, <1>6 DEF se_free_result, AnyStore, Store_t
  <2> HIDE DEF e, t, h
  <2> QED BY <1>3, <1>4, <1>6, <2>1 DEF AnyStore, Store_t, e, t, h
<1> QED BY <1>5, <1>6

\* r is s with entry k made for the set at o, on file if file says so.
StoredEntry(o, f, file) ==
  [ptr |-> o, hits |-> Len(f.body.ents), really_stored |-> file,
   disk |-> IF file THEN f ELSE NULL]

NewEntryIs(s, o, k, file, r) ==
  LET f == [setid |-> k, body |-> s.heap[o].body]
  IN  /\ r \in AnyStore
      /\ f \in Result
      /\ StoredEntry(o, f, file) \in result_set_data
      /\ r.tab = [s.tab EXCEPT ![k] = StoredEntry(o, f, file)]
      /\ r.heap = [s.heap EXCEPT ![o] = f]
      /\ r.up = s.up
      /\ r.orphan <=> s.orphan \/ (s.tab[k] # NULL /\ s.tab[k].disk # NULL)

\* The entry NewEntry makes.
LEMMA NewEntryFields ==
  ASSUME NEW s \in AnyStore, NEW o \in Obj, NEW k \in Keys, s.heap[o] # NULL,
         NEW ns \in BOOLEAN, NEW w \in BOOLEAN
  PROVE  NewEntryIs(s, o, k, ~ns /\ w, NewEntry(s, o, k, ns, w))
<1> DEFINE file == ~ns /\ w
           f == [setid |-> k, body |-> s.heap[o].body]
           e == [ptr |-> o, hits |-> Len(s.heap[o].body.ents),
                 really_stored |-> file, disk |-> IF file THEN f ELSE NULL]
           t == [s.tab EXCEPT ![k] = e]
           h == [s.heap EXCEPT ![o] = f]
           lost == s.orphan \/ (s.tab[k] # NULL /\ s.tab[k].disk # NULL)
           named == [s EXCEPT !.heap[o].setid = k]
<1>1. s.heap[o] \in weighted_result
  BY StoreFields DEF AnyStore
<1>2. f \in Result /\ Len(s.heap[o].body.ents) \in Nat
  BY <1>1, Constants DEF Result, weighted_result
<1>3. e \in result_set_data
  <2>1. file \in BOOLEAN
    OBVIOUS
  <2>2. (IF file THEN f ELSE NULL) \in Result \cup {NULL}
    BY <1>2
  <2> HIDE DEF file, f
  <2> QED BY <1>2, <2>1, <2>2 DEF result_set_data
<1>4. t \in [Keys -> result_set_data \cup {NULL}]
  BY <1>3, StoreFields DEF AnyStore
<1>5. h \in [Obj -> weighted_result \cup {NULL}]
  BY <1>2, ResultIsSet, StoreFields DEF AnyStore
<1>6. [s.heap[o] EXCEPT !.setid = k] = f
  BY <1>1 DEF weighted_result
<1>7. named = [s EXCEPT !.heap = h]
  BY <1>6
<1>8. named.heap[o] = f /\ named.tab = s.tab /\ named.orphan = s.orphan
  BY <1>7, StoreFields DEF AnyStore, Store_t
<1>9. lost \in BOOLEAN
  OBVIOUS
<1>10. NewEntry(s, o, k, ns, w) = [named EXCEPT !.tab = t, !.orphan = lost]
  BY <1>8 DEF NewEntry
<1>11. NewEntry(s, o, k, ns, w) = [s EXCEPT !.heap = h, !.tab = t, !.orphan = lost]
  <2> HIDE DEF h, t, lost, named
  <2> QED BY <1>7, <1>10 DEF AnyStore, Store_t
<1> HIDE DEF e, t, h, lost
<1>12. /\ NewEntry(s, o, k, ns, w) \in AnyStore
       /\ NewEntry(s, o, k, ns, w).tab = t
       /\ NewEntry(s, o, k, ns, w).heap = h
       /\ NewEntry(s, o, k, ns, w).diag = s.diag
       /\ NewEntry(s, o, k, ns, w).up = s.up
       /\ NewEntry(s, o, k, ns, w).orphan = lost
  BY <1>4, <1>5, <1>9, <1>11 DEF AnyStore, Store_t
<1>13. e = StoredEntry(o, f, ~ns /\ w)
  BY DEF e, StoredEntry
<1> QED BY <1>2, <1>3, <1>12, <1>13 DEF t, h, lost, NewEntryIs

\* r is s with entry k for the set at o, its old set freed.
ReplacedEntry(e, o, f) == [e EXCEPT !.ptr = o, !.hits = Len(f.body.ents)]

ReplaceEntryIs(s, o, k, r) ==
  LET f == [setid |-> k, body |-> s.heap[o].body]
  IN  /\ r \in AnyStore
      /\ f \in Result
      /\ r.tab = [s.tab EXCEPT ![k] = ReplacedEntry(s.tab[k], o, f)]
      /\ \A x \in Obj : r.heap[x] = IF x = s.tab[k].ptr THEN NULL
                                    ELSE IF x = o THEN f ELSE s.heap[x]
      /\ r.up = s.up /\ r.orphan = s.orphan

\* The entry the replace branch leaves.
LEMMA ReplaceFields ==
  ASSUME NEW s \in AnyStore, NEW o \in Obj, NEW k \in Keys,
         s.tab[k] # NULL, s.heap[o] # NULL
  PROVE  ReplaceEntryIs(s, o, k, ReplaceEntry(s, o, k))
<1> DEFINE p == s.tab[k].ptr
           f == [setid |-> k, body |-> s.heap[o].body]
           n == Len(s.heap[o].body.ents)
           e == [s.tab[k] EXCEPT !.ptr = o, !.hits = n]
           t == [s.tab EXCEPT ![k] = e]
           freed == se_free_result(s, k)
           g == IF freed.heap[o] = NULL THEN NULL ELSE [freed.heap[o] EXCEPT !.setid = k]
           h == [freed.heap EXCEPT ![o] = g]
           r == ReplaceEntry(s, o, k)
<1>1. s.tab[k] \in result_set_data /\ s.heap[o] \in weighted_result
  BY StoreFields DEF AnyStore
<1>2. f \in Result /\ n \in Nat
  BY <1>1, Constants DEF Result, weighted_result
<1>3. e \in result_set_data
  <2> HIDE DEF n
  <2> QED BY <1>1, <1>2 DEF result_set_data
<1>4. t \in [Keys -> result_set_data \cup {NULL}]
  BY <1>3, StoreFields DEF AnyStore
<1>5. /\ freed \in AnyStore
      /\ freed.tab = [s.tab EXCEPT ![k] = [s.tab[k] EXCEPT !.ptr = NULL]]
      /\ freed.heap = IF p = NULL THEN s.heap ELSE [s.heap EXCEPT ![p] = NULL]
      /\ freed.diag = s.diag /\ freed.up = s.up /\ freed.orphan = s.orphan
  BY FreeFields
<1>6. [s.heap[o] EXCEPT !.setid = k] = f
  BY <1>1 DEF weighted_result
<1> HIDE DEF f, freed
<1>7. freed.heap[o] = IF o = p THEN NULL ELSE s.heap[o]
  BY <1>5, StoreFields, Constants DEF AnyStore
<1>8. g = IF o = p THEN NULL ELSE f
  BY <1>6, <1>7
<1> HIDE DEF g
<1>9. g \in weighted_result \cup {NULL}
  BY <1>2, <1>8, ResultIsSet
<1>10. h \in [Obj -> weighted_result \cup {NULL}]
  BY <1>5, <1>9, StoreFields DEF AnyStore
<1>11. freed.tab[k] = [s.tab[k] EXCEPT !.ptr = NULL]
  BY <1>5, StoreFields DEF AnyStore
<1>12. [[freed.tab[k] EXCEPT !.ptr = o] EXCEPT !.hits = n] = e
  <2> HIDE DEF n
  <2> QED BY <1>1, <1>11 DEF result_set_data
<1>13. [freed.tab EXCEPT ![k] = e] = t
  <2> HIDE DEF e
  <2> QED BY <1>5, StoreFields DEF AnyStore
<1>14. r = [freed EXCEPT !.heap = h, !.tab = t]
  <2> DEFINE t1 == [freed.tab EXCEPT ![k] = [freed.tab[k] EXCEPT !.ptr = o]]
             r1 == [freed EXCEPT !.tab = t1]
             t2 == [r1.tab EXCEPT ![k] = [r1.tab[k] EXCEPT !.hits = n]]
  <2>1. r = [[r1 EXCEPT !.tab = t2] EXCEPT !.heap = h]
    BY DEF ReplaceEntry, freed, g
  <2>2. r1.tab = t1 /\ t1[k] = [freed.tab[k] EXCEPT !.ptr = o]
    BY <1>5, StoreFields DEF AnyStore, Store_t
  <2>3. t2 = [t1 EXCEPT ![k] = e]
    BY <1>12, <2>2
  <2>4. t2 = t
    <3> HIDE DEF e
    <3> QED BY <1>13, <2>3, <1>5, StoreFields DEF AnyStore
  <2>5. [r1 EXCEPT !.tab = t2] = [freed EXCEPT !.tab = t]
    <3> HIDE DEF t1, t2, t
    <3> QED BY <2>4, <1>5 DEF AnyStore, Store_t
  <2> HIDE DEF t, h, r1, t2, r
  <2> QED BY <2>1, <2>5, <1>5 DEF AnyStore, Store_t
<1> HIDE DEF t, h, r
<1>15. /\ r \in AnyStore
       /\ r.tab = t /\ r.heap = h
       /\ r.diag = s.diag /\ r.up = s.up /\ r.orphan = s.orphan
  BY <1>4, <1>5, <1>10, <1>14 DEF AnyStore, Store_t
<1>16. ASSUME NEW x \in Obj
       PROVE  r.heap[x] = IF x = p THEN NULL ELSE IF x = o THEN f ELSE s.heap[x]
  BY <1>5, <1>8, <1>15, StoreFields, Constants DEF AnyStore, h
<1>17. e = ReplacedEntry(s.tab[k], o, f)
  BY DEF ReplacedEntry, f
<1> QED BY <1>2, <1>15, <1>16, <1>17 DEF t, f, r, ReplaceEntryIs

\* A diagnostic changes nothing else.
LEMMA DiagFields ==
  ASSUME NEW s \in AnyStore, NEW c \in Diagnostic
  PROVE  LET r == diagnostic_set(s, c)
         IN  /\ r \in AnyStore
             /\ r.tab = s.tab /\ r.heap = s.heap /\ r.diag = c
             /\ r.up = s.up /\ r.orphan = s.orphan
BY DEF diagnostic_set, AnyStore, Store_t

\* Initialising the table changes nothing else.
LEMMA UpFields ==
  ASSUME NEW s \in AnyStore
  PROVE  LET r == [s EXCEPT !.up = TRUE]
         IN  /\ r \in AnyStore
             /\ r.tab = s.tab /\ r.heap = s.heap /\ r.diag = s.diag
             /\ r.up = TRUE /\ r.orphan = s.orphan
BY DEF AnyStore, Store_t

\* A look-up changes neither the table nor a set.
LEMMA CheckedFields ==
  ASSUME NEW s \in AnyStore, NEW n \in Name
  PROVE  LET r == Checked(s, n)
         IN  /\ r \in AnyStore
             /\ r.tab = s.tab /\ r.heap = s.heap
             /\ r.up = TRUE /\ r.orphan = s.orphan
<1> DEFINE up == [s EXCEPT !.up = TRUE]
<1>1. /\ up \in AnyStore
      /\ up.tab = s.tab /\ up.heap = s.heap /\ up.up = TRUE /\ up.orphan = s.orphan
  BY UpFields
<1>2. Checked(s, n) = IF n # EmptyName /\ s.tab[Key[n]] = NULL
                      THEN diagnostic_set(up, 30) ELSE up
  BY DEF Checked
<1> HIDE DEF up
<1> QED BY <1>1, <1>2, DiagFields DEF Diagnostic

\* se_dup_result_set writes to a fresh address only.
LEMMA DupFields ==
  ASSUME NEW s \in AnyStore, NEW o \in Obj, FreeAddrs(s) # {}
  PROVE  LET r == se_dup_result_set(s, o)
         IN  /\ r \in AnyStore
             /\ r.heap = [s.heap EXCEPT ![Alloc(s)] = s.heap[o]]
             /\ r.tab = s.tab /\ r.diag = s.diag /\ r.up = s.up /\ r.orphan = s.orphan
<1> DEFINE h == [s.heap EXCEPT ![Alloc(s)] = s.heap[o]]
<1>1. h \in [Obj -> weighted_result \cup {NULL}]
  BY StoreFields, Fresh DEF AnyStore
<1>2. se_dup_result_set(s, o) = [s EXCEPT !.heap = h]
  BY DEF se_dup_result_set
<1> HIDE DEF h
<1>3. /\ se_dup_result_set(s, o) \in AnyStore
      /\ se_dup_result_set(s, o).heap = h
      /\ se_dup_result_set(s, o).tab = s.tab
      /\ se_dup_result_set(s, o).diag = s.diag
      /\ se_dup_result_set(s, o).up = s.up
      /\ se_dup_result_set(s, o).orphan = s.orphan
  BY <1>1, <1>2 DEF AnyStore, Store_t
<1> QED BY <1>3 DEF h

\* Removing an entry drops its set, and nothing else.
LEMMA RemoveFields ==
  ASSUME NEW s \in AnyStore, NEW k \in Keys, s.tab[k] # NULL
  PROVE  LET r == RemoveEntry(s, k)
         IN  /\ r \in AnyStore
             /\ r.tab = [s.tab EXCEPT ![k] = NULL]
             /\ \A x \in Obj : r.heap[x] = IF x = s.tab[k].ptr THEN NULL ELSE s.heap[x]
             /\ r.diag = s.diag /\ r.up = s.up
             /\ r.orphan <=> \/ s.orphan
                             \/ s.tab[k].disk # NULL /\ ~s.tab[k].really_stored
<1> DEFINE freed == se_free_result(s, k)
           t == [s.tab EXCEPT ![k] = NULL]
           lost == s.orphan \/ (s.tab[k].disk # NULL /\ ~s.tab[k].really_stored)
           r == RemoveEntry(s, k)
<1>1. /\ freed \in AnyStore
      /\ freed.tab = [s.tab EXCEPT ![k] = [s.tab[k] EXCEPT !.ptr = NULL]]
      /\ freed.heap = IF s.tab[k].ptr = NULL THEN s.heap
                      ELSE [s.heap EXCEPT ![s.tab[k].ptr] = NULL]
      /\ freed.diag = s.diag /\ freed.up = s.up /\ freed.orphan = s.orphan
  BY FreeFields
<1>2. t \in [Keys -> result_set_data \cup {NULL}]
  BY StoreFields DEF AnyStore
<1>3. [freed.tab EXCEPT ![k] = NULL] = t
  BY <1>1, StoreFields DEF AnyStore
<1>4. r = [freed EXCEPT !.tab = t, !.orphan = lost]
  BY <1>1, <1>3 DEF RemoveEntry
<1>5. lost \in BOOLEAN
  OBVIOUS
<1>6. ASSUME NEW x \in Obj
      PROVE  freed.heap[x] = IF x = s.tab[k].ptr THEN NULL ELSE s.heap[x]
  BY <1>1, StoreFields, Constants DEF AnyStore
<1> HIDE DEF freed, t, lost, r
<1>7. /\ r \in AnyStore
      /\ r.tab = t /\ r.heap = freed.heap /\ r.diag = freed.diag /\ r.up = freed.up
      /\ r.orphan = lost
  BY <1>1, <1>2, <1>4, <1>5 DEF AnyStore, Store_t
<1> QED BY <1>1, <1>6, <1>7 DEF t, lost, r

\* se_delete_all_result_sets drops every entry and its set.
LEMMA DeleteAllFields ==
  ASSUME NEW s \in AnyStore
  PROVE  LET r == se_delete_all_result_sets(s)
         IN  /\ r \in AnyStore
             /\ r.tab = [k \in Keys |-> NULL]
             /\ \A x \in Obj : r.heap[x] = IF x \in Pointers(s) THEN NULL ELSE s.heap[x]
             /\ r.orphan <=> \/ s.orphan
                             \/ \E k \in Keys : /\ s.tab[k] # NULL
                                                /\ s.tab[k].disk # NULL
                                                /\ ~s.tab[k].really_stored
<1> DEFINE t == [k \in Keys |-> NULL]
           h == [o \in Obj |-> IF o \in Pointers(s) THEN NULL ELSE s.heap[o]]
           lost == \/ s.orphan
                   \/ \E k \in Keys : /\ s.tab[k] # NULL
                                      /\ s.tab[k].disk # NULL
                                      /\ ~s.tab[k].really_stored
           r == se_delete_all_result_sets(s)
<1>1. r = [s EXCEPT !.tab = t, !.up = FALSE, !.heap = h, !.orphan = lost]
  BY DEF se_delete_all_result_sets, AnyStore, Store_t
<1>2. t \in [Keys -> result_set_data \cup {NULL}]
  OBVIOUS
<1>3. h \in [Obj -> weighted_result \cup {NULL}]
  BY StoreFields DEF AnyStore
<1>4. lost \in BOOLEAN
  OBVIOUS
<1>5. \A x \in Obj : h[x] = IF x \in Pointers(s) THEN NULL ELSE s.heap[x]
  OBVIOUS
<1> HIDE DEF t, h, lost, r
<1>6. r \in AnyStore /\ r.tab = t /\ r.heap = h /\ r.orphan = lost
  BY <1>1, <1>2, <1>3, <1>4 DEF AnyStore, Store_t
<1> QED BY <1>5, <1>6 DEF t, lost, r

\* Collect drops sets, and changes no entry.
LEMMA CollectFields ==
  ASSUME NEW s \in AnyStore
  PROVE  LET r == Collect(s)
         IN  /\ r \in AnyStore
             /\ \A x \in Obj : r.heap[x] = IF x \in Pointers(s) THEN s.heap[x] ELSE NULL
             /\ r.tab = s.tab /\ r.diag = s.diag /\ r.up = s.up /\ r.orphan = s.orphan
<1> DEFINE h == [o \in Obj |-> IF o \in Pointers(s) THEN s.heap[o] ELSE NULL]
           r == Collect(s)
<1>1. r = [s EXCEPT !.heap = h]
  BY DEF Collect
<1>2. h \in [Obj -> weighted_result \cup {NULL}]
  BY StoreFields DEF AnyStore
<1>3. \A x \in Obj : h[x] = IF x \in Pointers(s) THEN s.heap[x] ELSE NULL
  OBVIOUS
<1> HIDE DEF h, r
<1>4. /\ r \in AnyStore
      /\ r.heap = h
      /\ r.tab = s.tab /\ r.diag = s.diag /\ r.up = s.up /\ r.orphan = s.orphan
  BY <1>1, <1>2 DEF AnyStore, Store_t
<1> QED BY <1>3, <1>4 DEF r

-----------------------------------------------------------------------------
(* What a call at one entry leaves as it was. *)

\* Entry j, and the set it points to, are in r as in s.
SameAt(s, r, j) ==
  /\ r.tab[j] = s.tab[j]
  /\ s.tab[j] # NULL /\ s.tab[j].ptr # NULL
       => r.heap[s.tab[j].ptr] = s.heap[s.tab[j].ptr]

SameBut(s, r, k) == \A j \in Keys \ {k} : SameAt(s, r, j)
=============================================================================
