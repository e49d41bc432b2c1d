-------------------------- MODULE ResultSetsProofs --------------------------
(***************************************************************************)
(* Proofs of the properties of ResultSets, for any names, bodies and       *)
(* addresses and any sequence of calls.                                    *)
(***************************************************************************)
EXTENDS ResultSets, StoreProofs

\* A store between two calls is one that a call may meet.
LEMMA WellFormedIsStore == \A s : WellFormed(s) => s \in AnyStore
<1> SUFFICES ASSUME NEW s, WellFormed(s) PROVE s \in AnyStore
  OBVIOUS
<1>1. s \in Store_t(Result)
  BY DEF WellFormed
<1>2. Result \cup {NULL} \subseteq weighted_result \cup {NULL}
  BY ResultIsSet
<1>3. [Obj -> Result \cup {NULL}] \subseteq [Obj -> weighted_result \cup {NULL}]
  BY <1>2
<1> QED BY <1>1, <1>3 DEF Store_t, AnyStore

-----------------------------------------------------------------------------
(* Sets that differ in their order at most. *)

\* A set has its own entries.
LEMMA FiledItself == \A b : SameEntries(b, b) /\ AsFiled(b, b)
  BY DEF SameEntries, AsFiled

\* What a merge leaves of a set agrees with its file as the set did.
LEMMA StillFiled ==
  ASSUME NEW b, NEW c, NEW f, "merge" \in Calls, SameEntries(b, c), AsFiled(b, f)
  PROVE  AsFiled(c, f)
  BY DEF SameEntries, AsFiled

\* A sorted set is a set with the same entries, and the other way round.
LEMMA SortedIs ==
  ASSUME NEW b \in Bodies, NEW c
  PROVE  c \in Reorderings(b) <=> c \in Bodies /\ SameEntries(b, c)
<1>1. /\ b.ents \in Seq(weighted_entry)
      /\ DOMAIN b.ents = 1..Len(b.ents)
      /\ Entries(b) \subseteq weighted_entry
  BY DEF Bodies, Entries
<1>2. ASSUME c \in Reorderings(b) PROVE c \in Bodies /\ SameEntries(b, c)
  <2>1. PICK e \in [DOMAIN b.ents -> Entries(b)] :
          c = [b EXCEPT !.ents = e] /\ SameEntries(b, c)
    BY <1>2 DEF Reorderings
  <2>2. e \in [1..Len(b.ents) -> weighted_entry] /\ Len(b.ents) \in Nat
    BY <1>1
  <2>3. e \in Seq(weighted_entry)
    BY <2>2
  <2> QED BY <2>1, <2>3 DEF Bodies
<1>3. ASSUME c \in Bodies, SameEntries(b, c) PROVE c \in Reorderings(b)
  <2> DEFINE e == c.ents
  <2>1. e \in Seq(weighted_entry) /\ Len(e) = Len(b.ents) /\ Entries(c) = Entries(b)
    BY <1>3 DEF Bodies, SameEntries
  <2>2. DOMAIN e = DOMAIN b.ents /\ e = [i \in DOMAIN e |-> e[i]]
    BY <1>1, <2>1
  <2>3. e \in [DOMAIN b.ents -> Entries(b)]
    BY <2>1, <2>2 DEF Entries
  <2>4. c = [b EXCEPT !.ents = e]
    BY <1>3 DEF Bodies, SameEntries
  <2> HIDE DEF e
  <2> QED BY <1>3, <2>3, <2>4 DEF Reorderings
<1> QED BY <1>2, <1>3

-----------------------------------------------------------------------------
(* Stores that calls leave. *)

\* A store all of whose sets have names is well formed.
LEMMA NamedWellFormed ==
  ASSUME NEW r \in AnyStore,
         \A x \in Obj : r.heap[x] # NULL => r.heap[x] \in Result,
         \A k \in Keys : r.tab[k] # NULL => r.up
  PROVE  WellFormed(r)
<1>1. r.heap \in [Obj -> Result \cup {NULL}]
  BY StoreFields DEF AnyStore
<1> QED BY <1>1 DEF WellFormed, AnyStore, Store_t

\* What is the same at an entry keeps its invariant and its contents.
LEMMA SameOK ==
  ASSUME NEW s, NEW r, NEW j, SameAt(s, r, j)
  PROVE  /\ EntryOK(s, j) => EntryOK(r, j)
         /\ Contents(r, j) = Contents(s, j)
<1>1. EntryOK(s, j) => EntryOK(r, j)
  BY DEF SameAt, EntryOK, OwnSet, OwnFile, SameAsFile
<1>2. Contents(r, j) = Contents(s, j)
  BY DEF SameAt, Contents
<1> QED BY <1>1, <1>2

\* A call at entry k has only that entry to answer for.
LEMMA OthersOK ==
  ASSUME NEW s, NEW r, NEW k \in Keys, SameBut(s, r, k),
         \A j \in Keys : EntryOK(s, j), EntryOK(r, k)
  PROVE  \A j \in Keys : EntryOK(r, j)
BY SameOK DEF SameBut

\* A call at entry k changes no other contents.
LEMMA OthersContents ==
  ASSUME NEW s, NEW r, NEW k \in Keys, SameBut(s, r, k)
  PROVE  \A j \in Keys \ {k} : Contents(r, j) = Contents(s, j)
BY SameOK DEF SameBut

\* In a hosted store no two entries have one set.
LEMMA Unshared ==
  ASSUME NEW s, \A j \in Keys : EntryOK(s, j),
         NEW j \in Keys, NEW k \in Keys, j # k,
         s.tab[j] # NULL, s.tab[k] # NULL, s.tab[j].ptr # NULL
  PROVE  s.tab[j].ptr # s.tab[k].ptr
BY DEF EntryOK, OwnSet

-----------------------------------------------------------------------------
(* se_get_result_set. *)

\* What it leaves, and that a set it answers is the one the entry points to.
GetOK(s, g, k) ==
  /\ WellFormed(g.st)
  /\ SameBut(s, g.st, k)
  /\ g.set # NULL => /\ g.set \in Obj
                     /\ s.tab[k] # NULL /\ g.st.tab[k] # NULL
                     /\ g.st.tab[k].ptr = g.set

\* se_get_result_set leaves the store as it was, or reads a file back.
LEMMA GetFacts ==
  ASSUME NEW s, WellFormed(s), FreeAddrs(s) # {}, NEW n \in Name
  PROVE  LET g == se_get_result_set(s, n)
             k == Key[n]
             e == s.tab[k]
         IN  /\ GetOK(s, g, k)
             /\ \/ /\ g.st.tab = s.tab /\ g.st.heap = s.heap /\ g.st.orphan = s.orphan
                   /\ g.set = NULL => e = NULL \/ (e.ptr = NULL /\ e.disk = NULL)
                \/ /\ e # NULL /\ e.ptr = NULL /\ e.disk # NULL
                   /\ g.st = ReadBack(s, k, Alloc(s)) /\ g.set = Alloc(s)
<1> DEFINE k == Key[n]
           e == s.tab[k]
           g == se_get_result_set(s, n)
<1>1. /\ s \in AnyStore /\ k \in Keys
      /\ \A x \in Obj : s.heap[x] # NULL => s.heap[x] \in Result
      /\ \A j \in Keys : s.tab[j] # NULL => s.up
  BY WellFormedIsStore, Constants, StoreFields DEF WellFormed
<1>2. CASE e = NULL
  <2> DEFINE u == [s EXCEPT !.up = TRUE]
             d == diagnostic_set(u, 30)
  <2>1. g = [st |-> d, set |-> NULL]
    BY <1>2 DEF se_get_result_set
  <2>2. /\ u \in AnyStore /\ u.tab = s.tab /\ u.heap = s.heap
        /\ u.up = TRUE /\ u.orphan = s.orphan
    BY <1>1, UpFields
  <2> HIDE DEF u
  <2>3. /\ d \in AnyStore /\ d.tab = s.tab /\ d.heap = s.heap
        /\ d.up = TRUE /\ d.orphan = s.orphan
    BY <2>2, DiagFields DEF Diagnostic
  <2> HIDE DEF d
  <2>4. WellFormed(d)
    BY <1>1, <2>3, NamedWellFormed
  <2> HIDE DEF e, k
  <2> QED BY <1>2, <2>1, <2>3, <2>4 DEF e, k, GetOK, SameBut, SameAt
<1>3. CASE e # NULL /\ e.ptr # NULL
  <2>1. g = [st |-> s, set |-> e.ptr]
    BY <1>3 DEF se_get_result_set
  <2>2. e.ptr \in Obj
    BY <1>1, <1>3, StoreFields, EntryFields DEF AnyStore
  <2> QED BY <1>3, <2>1, <2>2 DEF GetOK, SameBut, SameAt
<1>4. CASE e # NULL /\ e.ptr = NULL /\ e.disk = NULL
  <2> DEFINE d == diagnostic_set(s, 27)
  <2>1. g = [st |-> d, set |-> NULL]
    BY <1>4 DEF se_get_result_set
  <2>2. /\ d \in AnyStore /\ d.tab = s.tab /\ d.heap = s.heap
        /\ d.up = s.up /\ d.orphan = s.orphan
    BY <1>1, DiagFields DEF Diagnostic
  <2> HIDE DEF d
  <2>3. WellFormed(d)
    BY <1>1, <2>2, NamedWellFormed
  <2> QED BY <1>4, <2>1, <2>2, <2>3 DEF GetOK, SameBut, SameAt
<1>5. CASE e # NULL /\ e.ptr = NULL /\ e.disk # NULL
  <2> DEFINE o == Alloc(s)
             r == ReadBack(s, k, o)
             new == [ptr |-> o, hits |-> Len(e.disk.body.ents), really_stored |-> FALSE,
                     disk |-> e.disk]
  <2>1. g = [st |-> r, set |-> o]
    BY <1>5 DEF se_get_result_set
  <2>2. /\ o \in Obj /\ \A j \in Keys : s.tab[j] # NULL => s.tab[j].ptr # o
    BY Fresh
  <2> HIDE DEF o, k
  <2>3. /\ r \in AnyStore
        /\ r.tab = [s.tab EXCEPT ![k] = new]
        /\ r.heap = [s.heap EXCEPT ![o] = e.disk]
        /\ r.up = s.up
    BY <1>1, <1>5, <2>2, ReadBackFields
  <2>4. e.disk \in Result /\ new # NULL /\ new.ptr = o
    <3>1. e.disk \in Result
      BY <1>1, <1>5, StoreFields, EntryFields DEF AnyStore
    <3>2. new \in result_set_data
      BY <2>2, <3>1, Constants DEF result_set_data, Result
    <3> QED BY <3>1, <3>2, Constants
  <2> HIDE DEF r, new
  <2>5. WellFormed(r)
    <3>1. ASSUME NEW x \in Obj, r.heap[x] # NULL PROVE r.heap[x] \in Result
      BY <1>1, <2>2, <2>3, <2>4, <3>1, StoreFields DEF AnyStore
    <3>2. ASSUME NEW j \in Keys, r.tab[j] # NULL PROVE r.up
      BY <1>1, <1>5, <2>3, <3>2, StoreFields DEF AnyStore
    <3> QED BY <2>3, <3>1, <3>2, NamedWellFormed
  <2>6. SameBut(s, r, k)
    BY <1>1, <2>2, <2>3, StoreFields DEF SameBut, SameAt, AnyStore
  <2>7. r.tab[k] = new
    BY <1>1, <2>3, StoreFields DEF AnyStore
  <2>8. GetOK(s, g, k)
    BY <1>5, <2>1, <2>2, <2>4, <2>5, <2>6, <2>7 DEF GetOK
  <2> QED BY <1>5, <2>1, <2>8 DEF r, o, k
<1> QED BY <1>2, <1>3, <1>4, <1>5

\* The invariant of the hosts is kept, no name stands for anything else, and
\* the answer is what the name stands for.
LEMMA GetHosted ==
  ASSUME NEW s, WellFormed(s), Hosted(s), FreeAddrs(s) # {}, NEW n \in Name
  PROVE  LET g == se_get_result_set(s, n)
             k == Key[n]
         IN  /\ Hosted(g.st)
             /\ \A j \in Keys : Contents(g.st, j) = Contents(s, j)
             /\ g.set = NULL => Contents(s, k) = NULL
             /\ g.set # NULL => /\ g.st.heap[g.set] # NULL
                                /\ g.st.heap[g.set].setid = k
                                /\ g.st.heap[g.set].body = Contents(s, k)
<1> DEFINE k == Key[n]
           e == s.tab[k]
           g == se_get_result_set(s, n)
<1>1. /\ s \in AnyStore /\ k \in Keys
      /\ \A j \in Keys : EntryOK(s, j)
      /\ "free" \notin Calls /\ EmptyName \notin Name => ~s.orphan
  BY WellFormedIsStore, Constants DEF Hosted
<1>2. GetOK(s, g, k)
  BY GetFacts
<1>3. CASE /\ g.st.tab = s.tab /\ g.st.heap = s.heap /\ g.st.orphan = s.orphan
           /\ g.set = NULL => e = NULL \/ (e.ptr = NULL /\ e.disk = NULL)
  <2> HIDE DEF g, k
  <2>1. Hosted(g.st)
    <3>1. ASSUME NEW j \in Keys PROVE EntryOK(g.st, j)
      BY <1>1, <1>3 DEF EntryOK, OwnSet, OwnFile, SameAsFile
    <3> QED BY <1>1, <1>3, <3>1 DEF Hosted
  <2>2. \A j \in Keys : Contents(g.st, j) = Contents(s, j)
    BY <1>3 DEF Contents
  <2>3. g.set = NULL => Contents(s, k) = NULL
    BY <1>3 DEF Contents
  <2>4. ASSUME g.set # NULL
        PROVE  /\ g.st.heap[g.set] # NULL
               /\ g.st.heap[g.set].setid = k
               /\ g.st.heap[g.set].body = Contents(s, k)
    BY <1>1, <1>2, <1>3, <2>4, Constants DEF GetOK, EntryOK, OwnSet, Contents
  <2> QED BY <2>1, <2>2, <2>3, <2>4 DEF g, k
<1>4. CASE /\ e # NULL /\ e.ptr = NULL /\ e.disk # NULL
           /\ g.st = ReadBack(s, k, Alloc(s)) /\ g.set = Alloc(s)
  <2> DEFINE o == Alloc(s)
             r == ReadBack(s, k, o)
             new == [ptr |-> o, hits |-> Len(e.disk.body.ents), really_stored |-> FALSE,
                     disk |-> e.disk]
  <2>1. o \in Obj
    BY Fresh
  <2>0. s.tab[k] # NULL /\ s.tab[k].disk # NULL
    BY <1>4
  <2> HIDE DEF o, k
  <2>2. /\ r.tab = [s.tab EXCEPT ![k] = new]
        /\ r.heap = [s.heap EXCEPT ![o] = e.disk]
        /\ r.orphan = s.orphan
    BY <1>1, <2>0, <2>1, ReadBackFields
  <2>3. /\ e.disk \in Result /\ e.disk # NULL
        /\ new # NULL /\ new.ptr = o /\ o # NULL /\ new.disk = e.disk
        /\ new.hits = Len(e.disk.body.ents)
    <3>1. e.disk \in Result /\ o # NULL
      BY <1>1, <1>4, <2>1, StoreFields, EntryFields, Constants DEF AnyStore
    <3>2. new \in result_set_data
      BY <2>1, <3>1, Constants DEF result_set_data, Result
    <3> QED BY <1>4, <3>1, <3>2, Constants
  <2>4. r.tab[k] = new /\ r.heap[o] = e.disk
    BY <1>1, <2>1, <2>2, StoreFields DEF AnyStore
  <2>5. SameBut(s, r, k)
    BY <1>2, <1>4 DEF GetOK, o
  <2> HIDE DEF r, new
  <2>6. EntryOK(s, k) /\ "free" \in Calls
    BY <1>1, <1>4 DEF EntryOK
  <2>7. EntryOK(r, k)
    BY <1>4, <2>3, <2>4, <2>6, FiledItself DEF EntryOK, OwnSet, OwnFile, SameAsFile
  <2>8. Hosted(r)
    BY <1>1, <2>2, <2>5, <2>6, <2>7, OthersOK DEF Hosted
  <2>9. Contents(s, k) = e.disk.body /\ Contents(r, k) = e.disk.body
    BY <1>4, <2>3, <2>4 DEF Contents
  <2>10. \A j \in Keys : Contents(r, j) = Contents(s, j)
    BY <1>1, <2>5, <2>9, OthersContents
  <2>11. e.disk.setid = k
    BY <1>4, <2>6 DEF EntryOK, OwnFile
  <2>12. g.st = r /\ g.set = o
    BY <1>4 DEF r, o
  <2> HIDE DEF g
  <2> QED BY <2>3, <2>4, <2>8, <2>9, <2>10, <2>11, <2>12 DEF g, k
<1> QED BY <1>3, <1>4, GetFacts

\* It takes one address at most.
LEMMA GetLeavesRoom ==
  ASSUME NEW s, WellFormed(s), Cardinality(FreeAddrs(s)) >= 2, NEW n \in Name
  PROVE  FreeAddrs(s) # {} /\ FreeAddrs(se_get_result_set(s, n).st) # {}
<1> DEFINE k == Key[n]
           e == s.tab[k]
           g == se_get_result_set(s, n)
<1>1. PICK a \in FreeAddrs(s), b \in FreeAddrs(s) : a # b
  BY TwoFree
<1>2. s \in AnyStore /\ k \in Keys
  BY WellFormedIsStore, Constants
<1>3. CASE g.st.tab = s.tab /\ g.st.heap = s.heap
  <2>1. Pointers(g.st) = Pointers(s)
    BY <1>3 DEF Pointers
  <2>2. FreeAddrs(g.st) = FreeAddrs(s)
    BY <1>3, <2>1 DEF FreeAddrs
  <2> QED BY <1>1, <2>2
<1>4. CASE /\ e # NULL /\ e.ptr = NULL /\ e.disk # NULL
           /\ g.st = ReadBack(s, k, Alloc(s))
  <2> DEFINE o == Alloc(s)
             r == ReadBack(s, k, o)
             new == [ptr |-> o, hits |-> Len(e.disk.body.ents), really_stored |-> FALSE,
                     disk |-> e.disk]
  <2>1. o \in Obj
    BY <1>1, Fresh
  <2>0. s.tab[k] # NULL /\ s.tab[k].disk # NULL
    BY <1>4
  <2> HIDE DEF o, k
  <2>2. /\ r \in AnyStore
        /\ r.tab = [s.tab EXCEPT ![k] = new]
        /\ r.heap = [s.heap EXCEPT ![o] = e.disk]
        /\ r.diag = s.diag /\ r.up = s.up /\ r.orphan = s.orphan
    BY <1>2, <2>0, <2>1, ReadBackFields
  <2>3. new.ptr = o
    OBVIOUS
  <2> HIDE DEF r, new
  <2>4. ASSUME NEW x \in FreeAddrs(s), x # o PROVE x \in FreeAddrs(r)
    <3>1. x \in Obj /\ s.heap[x] = NULL /\ \A j \in Keys : s.tab[j] # NULL => s.tab[j].ptr # x
      BY DEF FreeAddrs, Pointers
    <3>2. r.heap[x] = NULL
      BY <2>2, <2>4, <3>1, <1>2, StoreFields DEF AnyStore
    <3>3. ASSUME NEW j \in Keys, r.tab[j] # NULL PROVE r.tab[j].ptr # x
      BY <2>2, <2>3, <2>4, <3>1, <3>3, <1>2, StoreFields DEF AnyStore
    <3> QED BY <3>1, <3>2, <3>3 DEF FreeAddrs, Pointers
  <2>5. g.st = r
    BY <1>4 DEF r, o
  <2> QED BY <1>1, <2>4, <2>5
<1> QED BY <1>1, <1>3, <1>4, GetFacts

-----------------------------------------------------------------------------
(* se_store_result_set. *)

\* Collect drops what no entry points to, and nothing else.
LEMMA CollectFacts ==
  ASSUME NEW q \in AnyStore,
         \A x \in Obj : x \in Pointers(q) /\ q.heap[x] # NULL => q.heap[x] \in Result,
         \A k \in Keys : q.tab[k] # NULL => q.up
  PROVE  LET r == Collect(q)
         IN  /\ WellFormed(r)
             /\ r.tab = q.tab /\ r.orphan = q.orphan
             /\ \A j \in Keys : SameAt(q, r, j)
<1> DEFINE r == Collect(q)
<1>1. /\ r \in AnyStore
      /\ \A x \in Obj : r.heap[x] = IF x \in Pointers(q) THEN q.heap[x] ELSE NULL
      /\ r.tab = q.tab /\ r.up = q.up /\ r.orphan = q.orphan
  BY CollectFields
<1> HIDE DEF r
<1>2. WellFormed(r)
  BY <1>1, NamedWellFormed
<1>3. ASSUME NEW j \in Keys PROVE SameAt(q, r, j)
  <2> SUFFICES ASSUME q.tab[j] # NULL, q.tab[j].ptr # NULL
               PROVE  r.heap[q.tab[j].ptr] = q.heap[q.tab[j].ptr]
    BY <1>1 DEF SameAt
  <2>1. q.tab[j].ptr \in Obj
    BY StoreFields, EntryFields DEF AnyStore
  <2>2. q.tab[j].ptr \in Pointers(q)
    BY DEF Pointers
  <2> QED BY <1>1, <2>1, <2>2
<1> QED BY <1>1, <1>2, <1>3 DEF r

\* A set that no entry points to becomes the set of entry k.
LEMMA NewFacts ==
  ASSUME NEW s \in AnyStore, NEW o \in Obj, NEW k \in Keys, NEW file, NEW n,
         NewEntryIs(s, o, k, file, n), s.up,
         \A x \in Obj \ {o} : s.heap[x] # NULL => s.heap[x] \in Result,
         \A j \in Keys : s.tab[j] # NULL => s.tab[j].ptr # o,
         NEW q \in AnyStore, q.tab = n.tab, q.heap = n.heap, q.up = n.up
  PROVE  LET f == [setid |-> k, body |-> s.heap[o].body]
             r == Collect(q)
         IN  /\ WellFormed(r)
             /\ SameBut(s, r, k)
             /\ r.tab[k] = StoredEntry(o, f, file)
             /\ r.heap[o] = f
             /\ r.orphan = q.orphan
<1> DEFINE f == [setid |-> k, body |-> s.heap[o].body]
           e == StoredEntry(o, f, file)
           r == Collect(q)
<1>1. /\ f \in Result
      /\ e \in result_set_data
      /\ q.tab = [s.tab EXCEPT ![k] = e]
      /\ q.heap = [s.heap EXCEPT ![o] = f]
      /\ q.up = s.up
  BY DEF NewEntryIs
<1>2. e.ptr = o /\ e # NULL /\ o # NULL
  BY <1>1, Constants DEF StoredEntry
<1> HIDE DEF e, f
<1>3. q.tab[k] = e /\ q.heap[o] = f
  BY <1>1, StoreFields DEF AnyStore
<1>4. \A x \in Obj : q.heap[x] # NULL => q.heap[x] \in Result
  BY <1>1, StoreFields DEF AnyStore
<1>5. \A j \in Keys : q.tab[j] # NULL => q.up
  BY <1>1
<1>6. /\ WellFormed(r)
      /\ r.tab = q.tab /\ r.orphan = q.orphan
      /\ \A j \in Keys : SameAt(q, r, j)
  BY <1>4, <1>5, CollectFacts
<1> HIDE DEF r
<1>7. r.heap[o] = f
  BY <1>2, <1>3, <1>6 DEF SameAt
<1>8. ASSUME NEW j \in Keys \ {k} PROVE SameAt(s, r, j)
  <2>1. SameAt(q, r, j) /\ q.tab[j] = s.tab[j]
    BY <1>1, <1>6, StoreFields DEF AnyStore
  <2>2. ASSUME s.tab[j] # NULL, s.tab[j].ptr # NULL
        PROVE  q.heap[s.tab[j].ptr] = s.heap[s.tab[j].ptr]
    <3>1. s.tab[j].ptr \in Obj /\ s.tab[j].ptr # o
      BY <2>2, StoreFields, EntryFields DEF AnyStore
    <3> QED BY <1>1, <3>1, StoreFields DEF AnyStore
  <2> QED BY <2>1, <2>2 DEF SameAt
<1> QED BY <1>1, <1>3, <1>6, <1>7, <1>8 DEF e, f, r, SameBut

\* The ways in which a call may leave store s: every entry as it was, ...
Kept(s, r) ==
  /\ WellFormed(r)
  /\ \A j \in Keys : SameAt(s, r, j)
  /\ r.orphan = s.orphan

\* ... a new entry k with body b, ...
Entered(s, r, k, b, file) ==
  \E o \in Obj :
    LET f == [setid |-> k, body |-> b]
    IN  /\ WellFormed(r)
        /\ SameBut(s, r, k)
        /\ r.tab[k] = StoredEntry(o, f, file)
        /\ r.heap[o] = f
        /\ r.orphan <=> s.orphan \/ (s.tab[k] # NULL /\ s.tab[k].disk # NULL)

\* ... or entry k with another set, and the old one freed.
ReplacedBy(s, r, k, o, f) ==
  /\ WellFormed(r)
  /\ r.tab = [s.tab EXCEPT ![k] = ReplacedEntry(s.tab[k], o, f)]
  /\ \A j \in Keys : s.tab[j] # NULL => s.tab[j].ptr # o
  /\ \A j \in Keys : r.tab[j] # NULL /\ r.tab[j].ptr # NULL =>
       r.heap[r.tab[j].ptr] = IF r.tab[j].ptr = s.tab[k].ptr THEN NULL
                              ELSE IF r.tab[j].ptr = o THEN f
                              ELSE s.heap[r.tab[j].ptr]
  /\ r.orphan = s.orphan

Replaced(s, r, k, b) ==
  \E o \in Obj : ReplacedBy(s, r, k, o, [setid |-> k, body |-> b])

\* A call that keeps every entry keeps the invariant and the contents.
LEMMA KeptOK ==
  ASSUME NEW s, NEW r, Kept(s, r)
  PROVE  /\ Hosted(s) => Hosted(r)
         /\ \A j \in Keys : Contents(r, j) = Contents(s, j)
BY SameOK DEF Kept, Hosted

\* A new entry has its own set, and a file unless saving is off or fails.
LEMMA EnteredOK ==
  ASSUME NEW s, NEW r, NEW k \in Keys, NEW b \in Bodies, NEW file \in BOOLEAN,
         Entered(s, r, k, b, file), Hosted(s),
         file \/ "nosave" \in Calls \/ "unwritable" \in Calls,
         s.tab[k] = NULL \/ EmptyName \in Name
  PROVE  /\ Hosted(r)
         /\ Contents(r, k) = b
         /\ \A j \in Keys \ {k} : Contents(r, j) = Contents(s, j)
<1> DEFINE f == [setid |-> k, body |-> b]
<1>1. PICK o \in Obj :
        /\ SameBut(s, r, k)
        /\ r.tab[k] = StoredEntry(o, f, file)
        /\ r.heap[o] = f
        /\ r.orphan <=> s.orphan \/ (s.tab[k] # NULL /\ s.tab[k].disk # NULL)
  BY DEF Entered
<1>2. /\ f \in Result /\ f # NULL /\ o # NULL
      /\ f.setid = k /\ f.body = b
  <2>1. f \in Result
    BY DEF Result
  <2> QED BY <2>1, ResultIsSet, Constants
<1> HIDE DEF f
<1>3. /\ r.tab[k] # NULL /\ r.tab[k].ptr = o
      /\ r.tab[k].hits = Len(b.ents) /\ r.tab[k].really_stored = file
      /\ r.tab[k].disk = IF file THEN f ELSE NULL
  <2>1. StoredEntry(o, f, file) \in result_set_data
    BY <1>2, Constants DEF StoredEntry, result_set_data
  <2>2. StoredEntry(o, f, file) # NULL
    BY <2>1, Constants
  <2> QED BY <1>1, <1>2, <2>2 DEF StoredEntry
<1>4. EntryOK(r, k)
  BY <1>1, <1>2, <1>3, FiledItself DEF EntryOK, OwnSet, OwnFile, SameAsFile
<1>5. \A j \in Keys : EntryOK(r, j)
  BY <1>1, <1>4, OthersOK DEF Hosted
<1>6. Hosted(r)
  BY <1>1, <1>5 DEF Hosted
<1>7. Contents(r, k) = b
  BY <1>1, <1>2, <1>3 DEF Contents
<1> QED BY <1>1, <1>6, <1>7, OthersContents

\* A replaced entry has its own set, and no other entry loses one.
LEMMA ReplacedOK ==
  ASSUME NEW s, NEW r, NEW k \in Keys, NEW b \in Bodies,
         WellFormed(s), Replaced(s, r, k, b), Hosted(s), s.tab[k] # NULL,
         "replace" \in Calls
  PROVE  /\ Hosted(r)
         /\ Contents(r, k) = b
         /\ \A j \in Keys \ {k} : Contents(r, j) = Contents(s, j)
<1> DEFINE f == [setid |-> k, body |-> b]
<1>0. PICK o \in Obj : ReplacedBy(s, r, k, o, f)
  BY DEF Replaced
<1> HIDE DEF f
<1>1. /\ r.tab = [s.tab EXCEPT ![k] = ReplacedEntry(s.tab[k], o, f)]
      /\ \A j \in Keys : s.tab[j] # NULL => s.tab[j].ptr # o
      /\ \A j \in Keys : r.tab[j] # NULL /\ r.tab[j].ptr # NULL =>
           r.heap[r.tab[j].ptr] = IF r.tab[j].ptr = s.tab[k].ptr THEN NULL
                                  ELSE IF r.tab[j].ptr = o THEN f
                                  ELSE s.heap[r.tab[j].ptr]
      /\ r.orphan = s.orphan
  BY <1>0 DEF ReplacedBy
<1> DEFINE e == ReplacedEntry(s.tab[k], o, f)
<1>2. /\ s \in AnyStore /\ s.tab \in [Keys -> result_set_data \cup {NULL}]
      /\ s.tab[k] \in result_set_data
      /\ \A j \in Keys : EntryOK(s, j)
  BY WellFormedIsStore, StoreFields DEF AnyStore, Hosted
<1>3. /\ f # NULL /\ o # NULL /\ f.setid = k /\ f.body = b /\ Len(b.ents) \in Nat
  <2>1. f \in Result /\ f.setid = k /\ f.body = b
    BY DEF Result, f
  <2> QED BY <2>1, ResultIsSet, Constants
<1>4. /\ r.tab[k] # NULL /\ r.tab[k].ptr = o
      /\ r.tab[k].hits = Len(b.ents)
      /\ r.tab[k].really_stored = s.tab[k].really_stored
      /\ r.tab[k].disk = s.tab[k].disk
  <2>1. r.tab[k] = e
    BY <1>1, <1>2
  <2>2. e \in result_set_data
    BY <1>2, <1>3 DEF result_set_data, ReplacedEntry
  <2>3. e # NULL
    BY <2>2, Constants
  <2>4. /\ e.ptr = o /\ e.hits = Len(b.ents)
        /\ e.really_stored = s.tab[k].really_stored
        /\ e.disk = s.tab[k].disk
    BY <1>2, <1>3 DEF result_set_data, ReplacedEntry
  <2> QED BY <2>1, <2>3, <2>4
<1>5. r.heap[o] = f
  BY <1>1, <1>3, <1>4
<1>6. EntryOK(r, k)
  BY <1>2, <1>3, <1>4, <1>5 DEF EntryOK, OwnSet, OwnFile, SameAsFile
<1>7. ASSUME NEW j \in Keys \ {k} PROVE SameAt(s, r, j)
  <2>1. r.tab[j] = s.tab[j]
    BY <1>1, <1>2
  <2>2. ASSUME s.tab[j] # NULL, s.tab[j].ptr # NULL
        PROVE  s.tab[j].ptr # o /\ s.tab[j].ptr # s.tab[k].ptr
    BY <1>1, <1>2, <2>2, Unshared
  <2> QED BY <1>1, <2>1, <2>2 DEF SameAt
<1>8. SameBut(s, r, k)
  BY <1>7 DEF SameBut
<1>9. \A j \in Keys : EntryOK(r, j)
  BY <1>2, <1>6, <1>8, OthersOK
<1>10. Hosted(r)
  BY <1>1, <1>9 DEF Hosted
<1>11. Contents(r, k) = b
  BY <1>3, <1>4, <1>5 DEF Contents
<1> QED BY <1>8, <1>10, <1>11, OthersContents

\* The store while a new set, without a name, lies at o.
LEMMA WithNewSet ==
  ASSUME NEW s, WellFormed(s), FreeAddrs(s) # {}, NEW b \in Bodies
  PROVE  LET o == Alloc(s)
             x == [setid |-> Unnamed, body |-> b]
             s1 == [s EXCEPT !.heap[o] = x]
         IN  /\ s1 \in AnyStore
             /\ s1.tab = s.tab /\ s1.heap = [s.heap EXCEPT ![o] = x]
             /\ s1.heap[o] = x /\ x # NULL /\ x.setid = Unnamed /\ x.body = b
             /\ s1.up = s.up /\ s1.orphan = s.orphan
<1> DEFINE o == Alloc(s)
           x == [setid |-> Unnamed, body |-> b]
           h == [s.heap EXCEPT ![o] = x]
           s1 == [s EXCEPT !.heap[o] = x]
<1>1. s \in AnyStore /\ o \in Obj
  BY WellFormedIsStore, Fresh
<1>2. x \in weighted_result /\ x # NULL /\ x.setid = Unnamed /\ x.body = b
  <2>1. x \in weighted_result
    BY DEF weighted_result
  <2> QED BY <2>1, Constants
<1> HIDE DEF x, o
<1>3. h \in [Obj -> weighted_result \cup {NULL}] /\ h[o] = x
  BY <1>1, <1>2, StoreFields DEF AnyStore
<1>4. s1 = [s EXCEPT !.heap = h]
  OBVIOUS
<1> HIDE DEF h, s1
<1>5. /\ s1 \in AnyStore
      /\ s1.tab = s.tab /\ s1.heap = h /\ s1.up = s.up /\ s1.orphan = s.orphan
  BY <1>1, <1>3, <1>4 DEF AnyStore, Store_t
<1> QED BY <1>2, <1>3, <1>5 DEF h, x, o, s1

\* A new set is entered, replaces the one that has the name, or is refused.
StoredNew(s, r, rc, n, b, replace, ns, w) ==
  \/ /\ n = EmptyName \/ s.tab[Key[n]] = NULL
     /\ Entered(s, r, Key[n], b, ~ns /\ w)
     /\ rc = IF ns \/ w THEN TRUE ELSE FALSE
  \/ /\ s.tab[Key[n]] # NULL /\ n # EmptyName /\ replace
     /\ Replaced(s, r, Key[n], b)
     /\ rc = TRUE
  \/ /\ s.tab[Key[n]] # NULL /\ n # EmptyName /\ ~replace
     /\ Kept(s, r)
     /\ rc = FALSE

\* se_store_result_set does that with a set just produced.
LEMMA StoreNewSet ==
  ASSUME NEW s, WellFormed(s), FreeAddrs(s) # {}, NEW n \in Name, NEW b \in Bodies,
         NEW replace \in BOOLEAN, NEW ns \in BOOLEAN, NEW w \in BOOLEAN
  PROVE  LET o == Alloc(s)
             k == Key[n]
             c == se_store_result_set(
                    [s EXCEPT !.heap[o] = [setid |-> Unnamed, body |-> b]],
                    o, n, replace, ns, w)
         IN  StoredNew(s, Collect(c.st), c.rc, n, b, replace, ns, w)
<1> DEFINE o == Alloc(s)
           k == Key[n]
           x == [setid |-> Unnamed, body |-> b]
           s1 == [s EXCEPT !.heap[o] = x]
           c == se_store_result_set(s1, o, n, replace, ns, w)
           r == Collect(c.st)
<1>1. /\ s \in AnyStore /\ k \in Keys /\ k # Unnamed
      /\ o \in Obj /\ o # NULL
      /\ s.tab \in [Keys -> result_set_data \cup {NULL}]
      /\ s.heap \in [Obj -> weighted_result \cup {NULL}]
      /\ \A y \in Obj : s.heap[y] # NULL => s.heap[y] \in Result
      /\ \A j \in Keys : s.tab[j] # NULL => s.up /\ s.tab[j].ptr # o
  BY WellFormedIsStore, Constants, StoreFields, Fresh DEF WellFormed, AnyStore
<1>2. /\ s1 \in AnyStore
      /\ s1.tab = s.tab /\ s1.heap = [s.heap EXCEPT ![o] = x]
      /\ s1.heap[o] = x /\ x # NULL /\ x.setid = Unnamed /\ x.body = b
      /\ s1.up = s.up /\ s1.orphan = s.orphan
  BY WithNewSet
<1> HIDE DEF o, k, x, s1
<1>3. ~NeedsCopy(s1, o)
  BY <1>2 DEF NeedsCopy
<1>4. CASE n = EmptyName \/ s.tab[k] = NULL
  <2> DEFINE chk == Checked(s1, n)
             put == NewEntry(chk, o, k, ns, w)
  <2>1. c = IF ns \/ w THEN [st |-> put, rc |-> TRUE]
            ELSE [st |-> diagnostic_set(put, 2), rc |-> FALSE]
    BY <1>1, <1>2, <1>3, <1>4 DEF se_store_result_set, se_check_result_set, k
  <2>2. /\ chk \in AnyStore /\ chk.tab = s.tab /\ chk.heap = s1.heap
        /\ chk.up = TRUE /\ chk.orphan = s.orphan
    BY <1>2, CheckedFields
  <2> HIDE DEF chk
  <2>3. NewEntryIs(chk, o, k, ~ns /\ w, put)
    BY <1>1, <1>2, <2>2, NewEntryFields
  <2> HIDE DEF put
  <2>4. /\ put \in AnyStore
        /\ put.orphan <=> s.orphan \/ (s.tab[k] # NULL /\ s.tab[k].disk # NULL)
    BY <2>2, <2>3 DEF NewEntryIs
  <2>5. /\ c.st \in AnyStore
        /\ c.st.tab = put.tab /\ c.st.heap = put.heap /\ c.st.up = put.up
        /\ c.st.orphan = put.orphan
        /\ c.rc = IF ns \/ w THEN TRUE ELSE FALSE
    <3>1. CASE ns \/ w
      <4>1. c = [st |-> put, rc |-> TRUE]
        BY <2>1, <3>1
      <4> HIDE DEF c
      <4> QED BY <2>4, <3>1, <4>1
    <3>2. CASE ~(ns \/ w)
      <4>1. c = [st |-> diagnostic_set(put, 2), rc |-> FALSE]
        BY <2>1, <3>2
      <4> HIDE DEF c
      <4> QED BY <2>4, <3>2, <4>1, DiagFields DEF Diagnostic
    <3> QED BY <3>1, <3>2
  <2>6. \A y \in Obj \ {o} : chk.heap[y] # NULL => chk.heap[y] \in Result
    BY <1>1, <1>2, <2>2
  <2> HIDE DEF c
  <2>7. LET f == [setid |-> k, body |-> chk.heap[o].body]
        IN  /\ WellFormed(r)
            /\ SameBut(chk, r, k)
            /\ r.tab[k] = StoredEntry(o, f, ~ns /\ w)
            /\ r.heap[o] = f
            /\ r.orphan = c.st.orphan
    BY <1>1, <2>2, <2>3, <2>5, <2>6, NewFacts
  <2> HIDE DEF r
  <2>8. SameBut(s, r, k)
    BY <1>1, <1>2, <2>2, <2>7, StoreFields, EntryFields DEF SameBut, SameAt
  <2>9. chk.heap[o].body = b
    BY <1>2, <2>2
  <2>10. Entered(s, r, k, b, ~ns /\ w)
    BY <1>1, <2>4, <2>5, <2>7, <2>8, <2>9 DEF Entered
  <2> QED BY <1>4, <2>5, <2>10 DEF c, r, k, o, s1, x, StoredNew
<1>5. CASE n # EmptyName /\ s.tab[k] # NULL /\ replace
  <2> DEFINE q == ReplaceEntry(s1, o, k)
             f == [setid |-> k, body |-> s1.heap[o].body]
  <2>1. c = [st |-> q, rc |-> TRUE]
    BY <1>1, <1>2, <1>3, <1>5
       DEF se_store_result_set, se_check_result_set, MayReplace, k
  <2>2. s1.tab[k] # NULL /\ s1.heap[o] # NULL
    BY <1>2, <1>5
  <2>3. ReplaceEntryIs(s1, o, k, q)
    BY <1>1, <1>2, <2>2, ReplaceFields
  <2> HIDE DEF q, c
  <2>4. /\ q \in AnyStore
        /\ f \in Result
        /\ q.tab = [s.tab EXCEPT ![k] = ReplacedEntry(s.tab[k], o, f)]
        /\ \A y \in Obj : q.heap[y] = IF y = s.tab[k].ptr THEN NULL
                                      ELSE IF y = o THEN f ELSE s1.heap[y]
        /\ q.up = s.up /\ q.orphan = s.orphan
    BY <1>2, <2>3 DEF ReplaceEntryIs
  <2>5. f = [setid |-> k, body |-> b]
    BY <1>2
  <2> HIDE DEF f
  <2>6. /\ \A y \in Obj : q.heap[y] # NULL => q.heap[y] \in Result
        /\ \A j \in Keys : q.tab[j] # NULL => q.up
    <3>1. \A y \in Obj : q.heap[y] # NULL => q.heap[y] \in Result
      BY <1>1, <1>2, <2>4
    <3>2. q.up
      BY <1>1, <1>5, <2>4
    <3> QED BY <3>1, <3>2
  <2>7. /\ WellFormed(r)
        /\ r.tab = q.tab /\ r.orphan = q.orphan
        /\ \A j \in Keys : SameAt(q, r, j)
    BY <2>1, <2>4, <2>6, CollectFacts
  <2> HIDE DEF r
  <2>8. ASSUME NEW j \in Keys, r.tab[j] # NULL, r.tab[j].ptr # NULL
        PROVE  r.heap[r.tab[j].ptr] = IF r.tab[j].ptr = s.tab[k].ptr THEN NULL
                                      ELSE IF r.tab[j].ptr = o THEN f
                                      ELSE s.heap[r.tab[j].ptr]
    <3>1. r.tab[j] \in result_set_data
      BY <2>4, <2>7, <2>8, StoreFields DEF AnyStore
    <3>2. r.tab[j].ptr \in Obj
      BY <2>8, <3>1, EntryFields
    <3>3. r.heap[r.tab[j].ptr] = q.heap[r.tab[j].ptr]
      BY <2>7, <2>8 DEF SameAt
    <3> QED BY <1>1, <1>2, <2>4, <3>2, <3>3
  <2>9. r.tab = [s.tab EXCEPT ![k] = ReplacedEntry(s.tab[k], o, f)] /\ r.orphan = s.orphan
    BY <2>4, <2>7
  <2>10. ReplacedBy(s, r, k, o, f)
    BY <1>1, <2>7, <2>8, <2>9 DEF ReplacedBy
  <2>12. Replaced(s, r, k, b)
    BY <1>1, <2>5, <2>10 DEF Replaced
  <2>11. c.rc = TRUE
    BY <2>1
  <2> QED BY <1>5, <2>11, <2>12 DEF c, r, k, o, s1, x, StoredNew
<1>6. CASE n # EmptyName /\ s.tab[k] # NULL /\ ~replace
  <2> DEFINE q == diagnostic_set(s1, 21)
  <2>1. c = [st |-> q, rc |-> FALSE]
    BY <1>1, <1>2, <1>3, <1>6
       DEF se_store_result_set, se_check_result_set, MayReplace, k
  <2>2. /\ q \in AnyStore /\ q.tab = s.tab /\ q.heap = s1.heap
        /\ q.up = s.up /\ q.orphan = s.orphan
    BY <1>2, DiagFields DEF Diagnostic
  <2> HIDE DEF q, c
  <2>3. o \notin Pointers(q)
    BY <1>1, <2>2 DEF Pointers
  <2>4. \A y \in Obj : y \in Pointers(q) /\ q.heap[y] # NULL => q.heap[y] \in Result
    BY <1>1, <1>2, <2>2, <2>3
  <2>5. /\ WellFormed(r)
        /\ r.tab = q.tab /\ r.orphan = q.orphan
        /\ \A j \in Keys : SameAt(q, r, j)
    BY <1>1, <2>1, <2>2, <2>4, CollectFacts
  <2> HIDE DEF r
  <2>6. ASSUME NEW j \in Keys PROVE SameAt(s, r, j)
    <3>1. s.tab[j] # NULL /\ s.tab[j].ptr # NULL => s.tab[j].ptr \in Obj /\ s.tab[j].ptr # o
      BY <1>1, EntryFields
    <3> QED BY <1>1, <1>2, <2>2, <2>5, <3>1 DEF SameAt
  <2>7. Kept(s, r)
    BY <2>2, <2>5, <2>6 DEF Kept
  <2>8. c.rc = FALSE
    BY <2>1
  <2> QED BY <1>6, <2>7, <2>8 DEF c, r, k, o, s1, x, StoredNew
<1> QED BY <1>4, <1>5, <1>6 DEF k

\* A stored set at o stays where it is if it has the name already, is copied
\* to a new entry, replaces another set, or is refused.
StoredAgain(s, r, rc, n, o, replace) ==
  \/ /\ n # EmptyName /\ s.heap[o].setid = Key[n]
     /\ Kept(s, r)
     /\ rc = TRUE
  \/ /\ n = EmptyName \/ (s.heap[o].setid # Key[n] /\ s.tab[Key[n]] = NULL)
     /\ Entered(s, r, Key[n], s.heap[o].body, TRUE)
     /\ rc = TRUE
  \/ /\ replace
     /\ WellFormed(r)
  \/ /\ s.heap[o].setid # Key[n] /\ s.tab[Key[n]] # NULL
     /\ n # EmptyName /\ ~replace
     /\ Kept(s, r)
     /\ rc = FALSE

\* se_store_result_set does that with a set of the table.
LEMMA StoreAgain ==
  ASSUME NEW s, WellFormed(s), FreeAddrs(s) # {}, NEW n \in Name,
         NEW o \in Obj, s.heap[o] # NULL,
         \E j \in Keys : s.tab[j] # NULL /\ s.tab[j].ptr = o,
         NEW replace \in BOOLEAN
  PROVE  LET c == se_store_result_set(s, o, n, replace, FALSE, TRUE)
         IN  StoredAgain(s, Collect(c.st), c.rc, n, o, replace)
<1> DEFINE k == Key[n]
           id == s.heap[o].setid
           c == se_store_result_set(s, o, n, replace, FALSE, TRUE)
           r == Collect(c.st)
           a == Alloc(s)
<1>1. /\ s \in AnyStore /\ k \in Keys
      /\ a \in Obj /\ a # NULL
      /\ s.tab \in [Keys -> result_set_data \cup {NULL}]
      /\ s.heap \in [Obj -> weighted_result \cup {NULL}]
      /\ \A y \in Obj : s.heap[y] # NULL => s.heap[y] \in Result
      /\ \A j \in Keys : s.tab[j] # NULL => s.up /\ s.tab[j].ptr # a
  BY WellFormedIsStore, Constants, StoreFields, Fresh DEF WellFormed, AnyStore
<1>2. s.heap[o] \in Result /\ id \in Keys /\ s.heap[o].body \in Bodies
  BY <1>1 DEF Result
<1>3. NeedsCopy(s, o)
  BY <1>2, Constants DEF NeedsCopy
<1>4. ASSUME NEW q \in AnyStore, q.tab = s.tab, q.heap = s.heap, q.up = s.up,
             q.orphan = s.orphan
      PROVE  Kept(s, Collect(q))
  <2>1. LET p == Collect(q)
        IN  /\ WellFormed(p)
            /\ p.tab = q.tab /\ p.orphan = q.orphan
            /\ \A j \in Keys : SameAt(q, p, j)
    BY <1>1, <1>4, CollectFacts
  <2> QED BY <1>4, <2>1 DEF Kept, SameAt
<1> HIDE DEF k, id, a
<1>5. CASE n # EmptyName /\ id = k
  <2>1. c = [st |-> s, rc |-> TRUE]
    BY <1>5 DEF se_store_result_set, k, id
  <2> HIDE DEF c
  <2>2. Kept(s, r) /\ c.rc = TRUE
    BY <1>1, <1>4, <2>1
  <2> QED BY <1>5, <2>2 DEF c, r, k, id, StoredAgain
<1>6. CASE n = EmptyName \/ (id # k /\ s.tab[k] = NULL)
  <2> DEFINE chk == Checked(s, n)
             base == se_dup_result_set(chk, o)
             put == NewEntry(base, a, k, FALSE, TRUE)
             file == ~FALSE /\ TRUE
  <2>1. c = [st |-> put, rc |-> TRUE]
    BY <1>1, <1>3, <1>6 DEF se_store_result_set, se_check_result_set, k, id, a
  <2>2. /\ chk \in AnyStore /\ chk.tab = s.tab /\ chk.heap = s.heap
        /\ chk.up = TRUE /\ chk.orphan = s.orphan
    BY <1>1, CheckedFields
  <2> HIDE DEF chk
  <2>3. FreeAddrs(chk) = FreeAddrs(s)
    BY <2>2 DEF FreeAddrs, Pointers
  <2>4. Alloc(chk) = a
    BY <2>3 DEF Alloc, a
  <2>5. /\ base \in AnyStore /\ base.tab = s.tab
        /\ base.heap = [s.heap EXCEPT ![a] = s.heap[o]]
        /\ base.up = TRUE /\ base.orphan = s.orphan
    BY <2>2, <2>3, <2>4, DupFields
  <2> HIDE DEF base
  <2>6. /\ base.heap[a] = s.heap[o]
        /\ \A y \in Obj : base.heap[y] # NULL => base.heap[y] \in Result
    BY <1>1, <1>2, <2>5
  <2>7. file = TRUE
    OBVIOUS
  <2>8. NewEntryIs(base, a, k, file, put)
    BY <1>1, <1>2, <2>5, <2>6, NewEntryFields
  <2> HIDE DEF put, file
  <2>9. /\ put \in AnyStore
        /\ put.orphan <=> s.orphan \/ (s.tab[k] # NULL /\ s.tab[k].disk # NULL)
    BY <2>5, <2>8 DEF NewEntryIs
  <2>10. LET f == [setid |-> k, body |-> base.heap[a].body]
             p == Collect(put)
         IN  /\ WellFormed(p)
             /\ SameBut(base, p, k)
             /\ p.tab[k] = StoredEntry(a, f, file)
             /\ p.heap[a] = f
             /\ p.orphan = put.orphan
    <3>1. /\ base.up
          /\ \A y \in Obj \ {a} : base.heap[y] # NULL => base.heap[y] \in Result
          /\ \A j \in Keys : base.tab[j] # NULL => base.tab[j].ptr # a
          /\ base \in AnyStore /\ a \in Obj /\ k \in Keys /\ put \in AnyStore
      BY <1>1, <2>5, <2>6, <2>9
    <3> QED BY <2>8, <3>1, NewFacts
  <2> HIDE DEF c
  <2>11. r = Collect(put) /\ c.rc = TRUE
    BY <2>1
  <2> HIDE DEF r
  <2>12. SameBut(s, r, k)
    <3> SUFFICES ASSUME NEW j \in Keys \ {k} PROVE SameAt(s, r, j)
      BY DEF SameBut
    <3>1. SameAt(base, r, j)
      BY <2>10, <2>11 DEF SameBut
    <3>2. s.tab[j] # NULL /\ s.tab[j].ptr # NULL => s.tab[j].ptr \in Obj /\ s.tab[j].ptr # a
      BY <1>1, EntryFields
    <3> QED BY <1>1, <2>5, <3>1, <3>2 DEF SameAt
  <2>13. Entered(s, r, k, s.heap[o].body, TRUE)
    BY <1>1, <2>6, <2>7, <2>9, <2>10, <2>11, <2>12 DEF Entered
  <2> QED BY <1>6, <2>11, <2>13 DEF c, r, k, id, StoredAgain
<1>7. CASE n # EmptyName /\ id # k /\ s.tab[k] # NULL /\ replace
  <2> DEFINE q == ReplaceEntry(s, o, k)
  <2>1. c = [st |-> q, rc |-> TRUE]
    BY <1>7 DEF se_store_result_set, se_check_result_set, MayReplace, k, id
  <2>2. ReplaceEntryIs(s, o, k, q)
    BY <1>1, <1>7, ReplaceFields
  <2> HIDE DEF q, c
  <2>3. /\ q \in AnyStore
        /\ \A y \in Obj : q.heap[y] # NULL => q.heap[y] \in Result
        /\ q.up = s.up
    BY <1>1, <2>2 DEF ReplaceEntryIs
  <2>4. s.up
    BY <1>1, <1>7
  <2>5. WellFormed(r)
    BY <2>1, <2>3, <2>4, CollectFacts
  <2> QED BY <1>7, <2>5 DEF c, r, StoredAgain
<1>8. CASE n # EmptyName /\ id # k /\ s.tab[k] # NULL /\ ~replace
  <2> DEFINE q == diagnostic_set(s, 21)
  <2>1. c = [st |-> q, rc |-> FALSE]
    BY <1>8 DEF se_store_result_set, se_check_result_set, MayReplace, k, id
  <2>2. /\ q \in AnyStore /\ q.tab = s.tab /\ q.heap = s.heap
        /\ q.up = s.up /\ q.orphan = s.orphan
    BY <1>1, DiagFields DEF Diagnostic
  <2> HIDE DEF q, c
  <2>3. Kept(s, r) /\ c.rc = FALSE
    BY <1>4, <2>1, <2>2
  <2> QED BY <1>8, <2>3 DEF c, r, k, id, StoredAgain
<1> QED BY <1>5, <1>6, <1>7, <1>8

-----------------------------------------------------------------------------
(* The other calls. *)

\* se_get_result_hits changes no entry, and answers the count of one.
LEMMA HitsFacts ==
  ASSUME NEW s, WellFormed(s), NEW n \in Name
  PROVE  LET h == se_get_result_hits(s, n)
         IN  /\ Kept(s, h.st)
             /\ h.hits = IF s.tab[Key[n]] = NULL THEN -1 ELSE s.tab[Key[n]].hits
<1> DEFINE k == Key[n]
           u == [s EXCEPT !.up = TRUE]
           d == diagnostic_set(u, 30)
           h == se_get_result_hits(s, n)
<1>1. /\ s \in AnyStore /\ k \in Keys
      /\ \A y \in Obj : s.heap[y] # NULL => s.heap[y] \in Result
  BY WellFormedIsStore, Constants, StoreFields DEF WellFormed
<1>2. h = IF s.tab[k] = NULL THEN [st |-> d, hits |-> -1] ELSE [st |-> s, hits |-> s.tab[k].hits]
  BY DEF se_get_result_hits
<1>3. /\ u \in AnyStore /\ u.tab = s.tab /\ u.heap = s.heap
      /\ u.up = TRUE /\ u.orphan = s.orphan
  BY <1>1, UpFields
<1> HIDE DEF u
<1>4. /\ d \in AnyStore /\ d.tab = s.tab /\ d.heap = s.heap
      /\ d.up = TRUE /\ d.orphan = s.orphan
  BY <1>3, DiagFields DEF Diagnostic
<1> HIDE DEF d
<1>5. Kept(s, d)
  BY <1>1, <1>4, NamedWellFormed DEF Kept, SameAt
<1>6. Kept(s, s)
  BY DEF Kept, SameAt
<1> HIDE DEF h
<1> QED BY <1>2, <1>5, <1>6 DEF h

\* An entry is gone, with its set; its file is unlinked if it was stored.
Removed(s, r, k) ==
  /\ WellFormed(r)
  /\ r.tab = [s.tab EXCEPT ![k] = NULL]
  /\ \A x \in Obj : r.heap[x] = IF x = s.tab[k].ptr THEN NULL ELSE s.heap[x]
  /\ r.orphan <=> s.orphan \/ (s.tab[k].disk # NULL /\ ~s.tab[k].really_stored)

\* An entry that is removed takes no other one along.
LEMMA RemovedOK ==
  ASSUME NEW s, NEW r, NEW k \in Keys, WellFormed(s), Hosted(s), s.tab[k] # NULL,
         Removed(s, r, k)
  PROVE  /\ Hosted(r)
         /\ Contents(r, k) = NULL
         /\ \A j \in Keys \ {k} : Contents(r, j) = Contents(s, j)
<1>1. /\ s.tab \in [Keys -> result_set_data \cup {NULL}]
      /\ \A j \in Keys : EntryOK(s, j)
  BY StoreFields DEF WellFormed, Hosted
<1>2. SameBut(s, r, k)
  <2> SUFFICES ASSUME NEW j \in Keys \ {k} PROVE SameAt(s, r, j)
    BY DEF SameBut
  <2>1. r.tab[j] = s.tab[j]
    BY <1>1 DEF Removed
  <2>2. ASSUME s.tab[j] # NULL, s.tab[j].ptr # NULL
        PROVE  r.heap[s.tab[j].ptr] = s.heap[s.tab[j].ptr]
    <3>1. s.tab[j].ptr # s.tab[k].ptr
      BY <1>1, <2>2, Unshared
    <3>2. s.tab[j].ptr \in Obj
      BY <1>1, <2>2, EntryFields
    <3> QED BY <3>1, <3>2 DEF Removed
  <2> QED BY <2>1, <2>2 DEF SameAt
<1>3. r.tab[k] = NULL
  BY <1>1 DEF Removed
<1>4. EntryOK(r, k) /\ Contents(r, k) = NULL
  BY <1>3 DEF EntryOK, Contents
<1>5. \A j \in Keys : EntryOK(r, j)
  BY <1>1, <1>2, <1>4, OthersOK
<1>6. "free" \notin Calls /\ EmptyName \notin Name => ~r.orphan
  BY <1>1 DEF Removed, Hosted, EntryOK
<1> QED BY <1>2, <1>4, <1>5, <1>6, OthersContents DEF Hosted

\* se_delete_result_set removes the entry, or fails, or finds no table.
LEMMA DeleteFacts ==
  ASSUME NEW s, WellFormed(s), NEW n \in Name
  PROVE  LET d == se_delete_result_set(s, n)
             k == Key[n]
         IN  \/ /\ \A j \in Keys : s.tab[j] = NULL
                /\ Kept(s, d.st)
                /\ d.rc = TRUE
             \/ /\ n = EmptyName \/ s.tab[k] = NULL
                /\ Kept(s, d.st)
                /\ d.rc = FALSE
             \/ /\ s.tab[k] # NULL /\ n # EmptyName
                /\ Removed(s, d.st, k)
                /\ d.rc = TRUE
<1> DEFINE k == Key[n]
           d == se_delete_result_set(s, n)
<1>1. /\ s \in AnyStore /\ k \in Keys
      /\ s.tab \in [Keys -> result_set_data \cup {NULL}]
      /\ \A y \in Obj : s.heap[y] # NULL => s.heap[y] \in Result
      /\ \A j \in Keys : s.tab[j] # NULL => s.up
  BY WellFormedIsStore, Constants, StoreFields DEF WellFormed
<1> HIDE DEF k
<1>2. CASE ~s.up
  <2>1. d = [st |-> s, rc |-> TRUE]
    BY <1>2 DEF se_delete_result_set
  <2>2. Kept(s, s)
    BY DEF Kept, SameAt
  <2>3. \A j \in Keys : s.tab[j] = NULL
    BY <1>1, <1>2
  <2> HIDE DEF d
  <2> QED BY <2>1, <2>2, <2>3 DEF d
<1>3. CASE s.up /\ (n = EmptyName \/ s.tab[k] = NULL)
  <2> DEFINE q == diagnostic_set(s, 30)
  <2>1. d = [st |-> q, rc |-> FALSE]
    BY <1>3 DEF se_delete_result_set, se_check_result_set, k
  <2>2. /\ q \in AnyStore /\ q.tab = s.tab /\ q.heap = s.heap
        /\ q.up = s.up /\ q.orphan = s.orphan
    BY <1>1, DiagFields DEF Diagnostic
  <2> HIDE DEF q
  <2>3. Kept(s, q)
    BY <1>1, <2>2, NamedWellFormed DEF Kept, SameAt
  <2> HIDE DEF d
  <2> QED BY <1>3, <2>1, <2>3 DEF d, k
<1>4. CASE s.up /\ n # EmptyName /\ s.tab[k] # NULL
  <2> DEFINE q == RemoveEntry(s, k)
  <2>1. d = [st |-> q, rc |-> TRUE]
    BY <1>4 DEF se_delete_result_set, se_check_result_set, k
  <2>2. /\ q \in AnyStore
        /\ q.tab = [s.tab EXCEPT ![k] = NULL]
        /\ \A x \in Obj : q.heap[x] = IF x = s.tab[k].ptr THEN NULL ELSE s.heap[x]
        /\ q.diag = s.diag /\ q.up = s.up
        /\ q.orphan <=> \/ s.orphan
                        \/ s.tab[k].disk # NULL /\ ~s.tab[k].really_stored
    BY <1>1, <1>4, RemoveFields
  <2> HIDE DEF q
  <2>3. WellFormed(q)
    BY <1>1, <1>4, <2>2, NamedWellFormed
  <2>4. Removed(s, q, k)
    BY <2>2, <2>3 DEF Removed
  <2> HIDE DEF d
  <2> QED BY <1>4, <2>1, <2>4 DEF d, k
<1> QED BY <1>2, <1>3, <1>4

\* The set of an entry is gone from memory.
Dropped(s, r, k) ==
  /\ WellFormed(r)
  /\ r.tab = [s.tab EXCEPT ![k] = [s.tab[k] EXCEPT !.ptr = NULL]]
  /\ \A x \in Obj : r.heap[x] = IF x = s.tab[k].ptr THEN NULL ELSE s.heap[x]
  /\ r.orphan = s.orphan

\* Memory given back is that of one entry, whose file stays.
LEMMA DroppedOK ==
  ASSUME NEW s, NEW r, NEW k \in Keys, WellFormed(s), Hosted(s), s.tab[k] # NULL,
         Dropped(s, r, k), "free" \in Calls
  PROVE  /\ Hosted(r)
         /\ "replace" \notin Calls /\ s.tab[k].disk # NULL
              => AsFiled(Contents(s, k), Contents(r, k))
         /\ \A j \in Keys \ {k} : Contents(r, j) = Contents(s, j)
<1>1. /\ s.tab \in [Keys -> result_set_data \cup {NULL}]
      /\ s.tab[k] \in result_set_data
      /\ \A j \in Keys : EntryOK(s, j)
  BY StoreFields DEF WellFormed, Hosted
<1>2. SameBut(s, r, k)
  <2> SUFFICES ASSUME NEW j \in Keys \ {k} PROVE SameAt(s, r, j)
    BY DEF SameBut
  <2>1. r.tab[j] = s.tab[j]
    BY <1>1 DEF Dropped
  <2>2. ASSUME s.tab[j] # NULL, s.tab[j].ptr # NULL
        PROVE  r.heap[s.tab[j].ptr] = s.heap[s.tab[j].ptr]
    <3>1. s.tab[j].ptr # s.tab[k].ptr
      BY <1>1, <2>2, Unshared
    <3>2. s.tab[j].ptr \in Obj
      BY <1>1, <2>2, EntryFields
    <3> QED BY <3>1, <3>2 DEF Dropped
  <2> QED BY <2>1, <2>2 DEF SameAt
<1>3. /\ r.tab[k] # NULL /\ r.tab[k].ptr = NULL
      /\ r.tab[k].disk = s.tab[k].disk /\ r.tab[k].hits = s.tab[k].hits
      /\ r.tab[k].really_stored = s.tab[k].really_stored
  <2> DEFINE e == [s.tab[k] EXCEPT !.ptr = NULL]
  <2>1. r.tab[k] = e
    BY <1>1 DEF Dropped
  <2>2. e \in result_set_data /\ e.ptr = NULL /\ e.disk = s.tab[k].disk
        /\ e.hits = s.tab[k].hits /\ e.really_stored = s.tab[k].really_stored
    BY <1>1 DEF result_set_data
  <2> QED BY <2>1, <2>2, Constants
<1>4. EntryOK(r, k)
  BY <1>1, <1>3 DEF EntryOK, OwnSet, OwnFile, SameAsFile
<1>5. \A j \in Keys : EntryOK(r, j)
  BY <1>1, <1>2, <1>4, OthersOK
<1>6. Hosted(r)
  BY <1>5 DEF Hosted
<1>7. ASSUME "replace" \notin Calls, s.tab[k].disk # NULL
      PROVE  AsFiled(Contents(s, k), Contents(r, k))
  BY <1>1, <1>3, <1>7, FiledItself DEF Contents, EntryOK, OwnSet, SameAsFile
<1> QED BY <1>2, <1>6, <1>7, OthersContents

\* se_free_result_name drops the set of the entry, if there is one.
LEMMA FreeFacts ==
  ASSUME NEW s, WellFormed(s), NEW n \in Name
  PROVE  LET r == se_free_result_name(s, n)
             k == Key[n]
         IN  \/ Kept(s, r)
             \/ s.tab[k] # NULL /\ Dropped(s, r, k)
<1> DEFINE k == Key[n]
           r == se_free_result_name(s, n)
<1>1. /\ s \in AnyStore /\ k \in Keys
      /\ s.tab \in [Keys -> result_set_data \cup {NULL}]
      /\ \A y \in Obj : s.heap[y] # NULL => s.heap[y] \in Result
      /\ \A j \in Keys : s.tab[j] # NULL => s.up
  BY WellFormedIsStore, Constants, StoreFields DEF WellFormed
<1> HIDE DEF k
<1>2. CASE ~s.up
  <2>1. r = s
    BY <1>2 DEF se_free_result_name
  <2> HIDE DEF r
  <2>2. Kept(s, r)
    BY <2>1 DEF Kept, SameAt
  <2> QED BY <2>2 DEF r
<1>3. CASE s.up /\ (n = EmptyName \/ s.tab[k] = NULL)
  <2>1. r = Checked(s, n)
    BY <1>3 DEF se_free_result_name, se_check_result_set, k
  <2> HIDE DEF r
  <2>2. /\ r \in AnyStore /\ r.tab = s.tab /\ r.heap = s.heap
        /\ r.up = TRUE /\ r.orphan = s.orphan
    BY <1>1, <2>1, CheckedFields
  <2>3. Kept(s, r)
    BY <1>1, <2>2, NamedWellFormed DEF Kept, SameAt
  <2> QED BY <2>3 DEF r
<1>4. CASE s.up /\ n # EmptyName /\ s.tab[k] # NULL
  <2>1. r = se_free_result(s, k)
    BY <1>4 DEF se_free_result_name, se_check_result_set, k
  <2> HIDE DEF r
  <2>2. /\ r \in AnyStore
        /\ r.tab = [s.tab EXCEPT ![k] = [s.tab[k] EXCEPT !.ptr = NULL]]
        /\ r.heap = IF s.tab[k].ptr = NULL THEN s.heap
                    ELSE [s.heap EXCEPT ![s.tab[k].ptr] = NULL]
        /\ r.diag = s.diag /\ r.up = s.up /\ r.orphan = s.orphan
    BY <1>1, <1>4, <2>1, FreeFields
  <2>3. \A x \in Obj : r.heap[x] = IF x = s.tab[k].ptr THEN NULL ELSE s.heap[x]
    BY <1>1, <2>2, StoreFields, Constants DEF AnyStore
  <2>4. WellFormed(r)
    BY <1>1, <1>4, <2>2, <2>3, NamedWellFormed
  <2>5. Dropped(s, r, k)
    BY <2>2, <2>3, <2>4 DEF Dropped
  <2> QED BY <1>4, <2>5 DEF r, k
<1> QED BY <1>2, <1>3, <1>4

-----------------------------------------------------------------------------
(* Merges. *)

\* The set b at address o has been sorted into c.
SortedTo(s, r, o, c) ==
  /\ WellFormed(r)
  /\ r.tab = s.tab /\ r.orphan = s.orphan
  /\ r.heap = [s.heap EXCEPT ![o] = [setid |-> s.heap[o].setid, body |-> c]]
  /\ s.heap[o].body \in Bodies /\ c \in Bodies
  /\ SameEntries(s.heap[o].body, c)

\* A set is sorted where it is.
LEMMA SortFacts ==
  ASSUME NEW s, WellFormed(s), NEW o \in Obj, s.heap[o] # NULL,
         NEW c \in Reorderings(s.heap[o].body)
  PROVE  SortedTo(s, [s EXCEPT !.heap[o].body = c], o, c)
<1> DEFINE r == [s EXCEPT !.heap[o].body = c]
           f == [setid |-> s.heap[o].setid, body |-> c]
<1>1. /\ s.heap \in [Obj -> Result \cup {NULL}]
      /\ s.heap[o] \in Result
  BY StoreFields DEF WellFormed
<1>2. s.heap[o].body \in Bodies /\ s.heap[o].setid \in Keys
  BY <1>1 DEF Result
<1>3. c \in Bodies /\ SameEntries(s.heap[o].body, c)
  BY <1>2, SortedIs
<1>4. f \in Result /\ [s.heap[o] EXCEPT !.body = c] = f
  BY <1>1, <1>2, <1>3 DEF Result
<1>5. r = [s EXCEPT !.heap = [s.heap EXCEPT ![o] = f]]
  BY <1>1, <1>4 DEF WellFormed, Store_t
<1> HIDE DEF f
<1>6. [s.heap EXCEPT ![o] = f] \in [Obj -> Result \cup {NULL}]
  BY <1>1, <1>4
<1>7. /\ r \in Store_t(Result)
      /\ r.tab = s.tab /\ r.orphan = s.orphan /\ r.up = s.up
      /\ r.heap = [s.heap EXCEPT ![o] = f]
  BY <1>5, <1>6 DEF WellFormed, Store_t
<1>8. WellFormed(r)
  BY <1>7 DEF WellFormed
<1> QED BY <1>2, <1>3, <1>7, <1>8 DEF SortedTo, f

\* A sorted set has as many entries as its file, and the same ones.
LEMMA SortedOK ==
  ASSUME NEW s, NEW r, NEW k \in Keys, NEW c, WellFormed(s), Hosted(s), "merge" \in Calls,
         s.tab[k] # NULL, s.tab[k].ptr \in Obj, SortedTo(s, r, s.tab[k].ptr, c)
  PROVE  /\ Hosted(r)
         /\ Contents(r, k) = c
         /\ \A j \in Keys \ {k} : Contents(r, j) = Contents(s, j)
<1> DEFINE o == s.tab[k].ptr
           b == s.heap[o].body
           f == [setid |-> s.heap[o].setid, body |-> c]
<1>1. /\ s.tab \in [Keys -> result_set_data \cup {NULL}]
      /\ s.heap \in [Obj -> Result \cup {NULL}]
      /\ r.heap \in [Obj -> Result \cup {NULL}]
      /\ o # NULL
      /\ \A j \in Keys : EntryOK(s, j)
  BY StoreFields, Constants DEF WellFormed, Hosted, SortedTo
<1>2. s.heap[o] \in Result /\ s.heap[o].setid = k /\ s.tab[k].hits = Len(b.ents)
  BY <1>1 DEF EntryOK, OwnSet
<1>3. /\ f \in Result /\ f # NULL /\ f.setid = k /\ f.body = c
      /\ Len(c.ents) = Len(b.ents) /\ SameEntries(b, c)
  <2>1. f \in Result /\ f.setid = k /\ f.body = c
    BY <1>2 DEF SortedTo, Result
  <2>2. SameEntries(b, c)
    BY DEF SortedTo
  <2> QED BY <2>1, <2>2, ResultIsSet, Constants DEF SameEntries
<1> HIDE DEF f
<1>4. r.heap[o] = f /\ r.tab = s.tab /\ r.orphan = s.orphan
  BY <1>1 DEF SortedTo, f
<1>5. SameBut(s, r, k)
  <2> SUFFICES ASSUME NEW j \in Keys \ {k}, s.tab[j] # NULL, s.tab[j].ptr # NULL
               PROVE  r.heap[s.tab[j].ptr] = s.heap[s.tab[j].ptr]
    BY <1>4 DEF SameBut, SameAt
  <2>1. s.tab[j].ptr # o
    BY <1>1, Unshared
  <2>2. s.tab[j].ptr \in Obj
    BY <1>1, EntryFields
  <2> QED BY <1>1, <2>1, <2>2 DEF SortedTo
<1>6. ASSUME "replace" \notin Calls, s.tab[k].disk # NULL
      PROVE  AsFiled(c, s.tab[k].disk.body)
  <2>1. AsFiled(b, s.tab[k].disk.body)
    BY <1>1, <1>6 DEF EntryOK, SameAsFile
  <2> HIDE DEF b
  <2> QED BY <1>3, <2>1, StillFiled
<1> HIDE DEF b
<1>7. EntryOK(r, k)
  BY <1>1, <1>2, <1>3, <1>4, <1>6 DEF EntryOK, OwnSet, OwnFile, SameAsFile
<1>8. Hosted(r)
  BY <1>1, <1>4, <1>5, <1>7, OthersOK DEF Hosted
<1>9. Contents(r, k) = c
  BY <1>1, <1>3, <1>4 DEF Contents
<1> QED BY <1>5, <1>8, <1>9, OthersContents

\* se_delete_all_result_sets leaves an empty store.
LEMMA ClearFacts ==
  ASSUME NEW s, WellFormed(s)
  PROVE  LET r == se_delete_all_result_sets(s)
         IN  /\ WellFormed(r)
             /\ Hosted(s) => Hosted(r)
             /\ \A j \in Keys : Contents(r, j) = NULL
<1> DEFINE r == se_delete_all_result_sets(s)
<1>1. /\ s \in AnyStore
      /\ \A y \in Obj : s.heap[y] # NULL => s.heap[y] \in Result
  BY WellFormedIsStore, StoreFields DEF WellFormed
<1>2. /\ r \in AnyStore
      /\ r.tab = [k \in Keys |-> NULL]
      /\ \A x \in Obj : r.heap[x] = IF x \in Pointers(s) THEN NULL ELSE s.heap[x]
      /\ r.orphan <=> \/ s.orphan
                      \/ \E k \in Keys : /\ s.tab[k] # NULL
                                         /\ s.tab[k].disk # NULL
                                         /\ ~s.tab[k].really_stored
  BY <1>1, DeleteAllFields
<1> HIDE DEF r
<1>3. WellFormed(r)
  BY <1>1, <1>2, NamedWellFormed
<1>4. \A j \in Keys : EntryOK(r, j) /\ Contents(r, j) = NULL
  BY <1>2 DEF EntryOK, Contents
<1>5. ASSUME Hosted(s) PROVE Hosted(r)
  <2>1. "free" \notin Calls /\ EmptyName \notin Name => ~r.orphan
    BY <1>2, <1>5 DEF Hosted, EntryOK
  <2> QED BY <1>4, <2>1 DEF Hosted
<1> QED BY <1>3, <1>4, <1>5 DEF r

-----------------------------------------------------------------------------
(* The inductive invariant. *)

\* A process starts with no table and no set.
LEMMA InitOK == Init => IInv
<1> SUFFICES ASSUME Init PROVE IInv
  OBVIOUS
<1>1. /\ st \in Store_t(Result)
      /\ \A k \in Keys : st.tab[k] = NULL
      /\ st.orphan = FALSE
  BY DEF Init, EmptyStore, Store_t, Diagnostic
<1>2. WellFormed(st)
  BY <1>1 DEF WellFormed
<1>3. Hosted(st)
  BY <1>1 DEF Hosted, EntryOK
<1> QED
  BY <1>2, <1>3 DEF IInv

\* A call that needs memory has an address for it.
LEMMA RoomFacts == Room => FreeAddrs(st) # {}
  BY TwoFree DEF Room

\* A query's set is stored, or refused, and the answer says so.
StoreResult(n, b, replace, ns, w) ==
  /\ StoredNew(st, st', last'.rc, n, b, replace, ns, w)
  /\ last' = [op |-> "store", name |-> n, rc |-> last'.rc]

\* The action Store does what se_store_result_set does with a new set.
LEMMA StoreFacts ==
  ASSUME IInv, NEW n \in Name, NEW b \in Body, NEW replace \in BOOLEAN,
         NEW ns \in BOOLEAN, NEW w \in BOOLEAN, Store(n, b, replace, ns, w)
  PROVE  StoreResult(n, b, replace, ns, w)
<1> DEFINE o == Alloc(st)
           c == se_store_result_set(
                  [st EXCEPT !.heap[o] = [setid |-> Unnamed, body |-> b]],
                  o, n, replace, ns, w)
<1>1. WellFormed(st) /\ FreeAddrs(st) # {}
  BY RoomFacts DEF IInv, Store
<1>2. /\ st' = Collect(c.st)
      /\ last' = [op |-> "store", name |-> n, rc |-> c.rc]
  BY DEF Store
<1>3. StoredNew(st, Collect(c.st), c.rc, n, b, replace, ns, w)
  <2>1. b \in Bodies
    BY BodyAssumption
  <2> QED
    BY <1>1, <2>1, StoreNewSet
<1> HIDE DEF c
<1> QED
  BY <1>2, <1>3 DEF StoreResult

\* Storing a new set keeps the invariant.
LEMMA StoreStep ==
  ASSUME IInv, NEW n \in Name, NEW b \in Body, NEW replace \in BOOLEAN,
         NEW ns \in BOOLEAN, NEW w \in BOOLEAN, Store(n, b, replace, ns, w)
  PROVE  IInv'
<1> DEFINE k == Key[n]
<1>1. /\ WellFormed(st)
      /\ k \in Keys
      /\ replace => "replace" \in Calls
      /\ ns => "nosave" \in Calls
      /\ ~w => "unwritable" \in Calls
  BY Constants DEF IInv, Store
<1>2. \/ /\ n = EmptyName \/ st.tab[k] = NULL
         /\ Entered(st, st', k, b, ~ns /\ w)
      \/ /\ st.tab[k] # NULL /\ n # EmptyName /\ replace
         /\ Replaced(st, st', k, b)
      \/ Kept(st, st')
  BY StoreFacts DEF StoreResult, StoredNew
<1> HIDE DEF k
<1>3. WellFormed(st')
  BY <1>2 DEF Entered, Replaced, ReplacedBy, Kept
<1>4. ASSUME "restore_replace" \notin Calls PROVE Hosted(st')
  <2>1. Hosted(st)
    BY <1>4 DEF IInv
  <2>2. CASE Kept(st, st')
    BY <2>1, <2>2, KeptOK
  <2>3. CASE /\ n = EmptyName \/ st.tab[k] = NULL
             /\ Entered(st, st', k, b, ~ns /\ w)
    <3> DEFINE file == ~ns /\ w
    <3>1. /\ file \in BOOLEAN
          /\ file \/ "nosave" \in Calls \/ "unwritable" \in Calls
          /\ Entered(st, st', k, b, file)
          /\ st.tab[k] = NULL \/ EmptyName \in Name
      BY <1>1, <2>3
    <3> HIDE DEF file
    <3> QED
      BY BodyAssumption, <1>1, <2>1, <3>1, EnteredOK
  <2>4. CASE /\ st.tab[k] # NULL /\ n # EmptyName /\ replace
             /\ Replaced(st, st', k, b)
    BY BodyAssumption, <1>1, <2>1, <2>4, ReplacedOK
  <2> QED
    BY <1>2, <2>2, <2>3, <2>4
<1> QED
  BY <1>3, <1>4 DEF IInv, WellFormed, Hosted, EntryOK, OwnSet, OwnFile, SameAsFile

\* The set a caller got is stored under another name, or refused.
RestoreResult(m, n, replace) ==
  LET g == se_get_result_set(st, m)
  IN  /\ WellFormed(g.st)
      /\ g.set \in Obj
      /\ StoredAgain(g.st, st', last'.rc, n, g.set, replace)
      /\ last' = [op |-> "restore", name |-> n, rc |-> last'.rc]

\* The action Restore does what it does with a set of the table.
LEMMA RestoreFacts ==
  ASSUME IInv, NEW m \in Name, NEW n \in Name, NEW replace \in BOOLEAN,
         Restore(m, n, replace)
  PROVE  RestoreResult(m, n, replace)
<1> DEFINE g == se_get_result_set(st, m)
           c == se_store_result_set(g.st, g.set, n, replace, FALSE, TRUE)
<1>1. /\ WellFormed(st) /\ Cardinality(FreeAddrs(st)) >= 2
      /\ Key[m] \in Keys
      /\ g.set # NULL /\ g.st.heap[g.set] # NULL
      /\ st' = Collect(c.st)
      /\ last' = [op |-> "restore", name |-> n, rc |-> c.rc]
  BY Constants DEF IInv, Restore, Room
<1>2. FreeAddrs(st) # {} /\ FreeAddrs(g.st) # {}
  BY <1>1, GetLeavesRoom
<1>3. GetOK(st, g, Key[m])
  BY <1>1, <1>2, GetFacts
<1> HIDE DEF g
<1>4. /\ WellFormed(g.st) /\ g.set \in Obj
      /\ \E j \in Keys : g.st.tab[j] # NULL /\ g.st.tab[j].ptr = g.set
  BY <1>1, <1>3 DEF GetOK
<1>5. StoredAgain(g.st, Collect(c.st), c.rc, n, g.set, replace)
  BY <1>1, <1>2, <1>4, StoreAgain
<1> HIDE DEF c
<1>6. last'.rc = c.rc
  BY <1>1
<1> QED
  BY <1>1, <1>4, <1>5, <1>6 DEF RestoreResult, g

\* Storing a set again keeps the invariant.
LEMMA RestoreStep ==
  ASSUME IInv, NEW m \in Name, NEW n \in Name, NEW replace \in BOOLEAN,
         Restore(m, n, replace)
  PROVE  IInv'
<1> DEFINE g == se_get_result_set(st, m)
           k == Key[n]
<1>1. /\ WellFormed(st) /\ FreeAddrs(st) # {}
      /\ k \in Keys
      /\ replace => "restore_replace" \in Calls
      /\ g.set # NULL
      /\ WellFormed(g.st)
      /\ g.set \in Obj
      /\ StoredAgain(g.st, st', last'.rc, n, g.set, replace)
  BY RestoreFacts, RoomFacts, Constants DEF IInv, Restore, RestoreResult
<1>2. WellFormed(st')
  BY <1>1 DEF StoredAgain, Entered, Kept
<1>3. ASSUME "restore_replace" \notin Calls PROVE Hosted(st')
  <2>1. Hosted(st)
    BY <1>3 DEF IInv
  <2>2. Hosted(g.st) /\ g.st.heap[g.set] # NULL
    BY <1>1, <2>1, GetHosted
  <2> HIDE DEF g, k
  <2>3. CASE Kept(g.st, st')
    BY <2>2, <2>3, KeptOK
  <2>4. CASE /\ n = EmptyName \/ g.st.tab[k] = NULL
             /\ Entered(g.st, st', k, g.st.heap[g.set].body, TRUE)
    <3> DEFINE s == g.st
               b == s.heap[g.set].body
               file == TRUE
    <3>1. /\ file \in BOOLEAN
          /\ file \/ "nosave" \in Calls \/ "unwritable" \in Calls
          /\ Entered(s, st', k, b, file)
          /\ s.tab[k] = NULL \/ EmptyName \in Name
          /\ Hosted(s)
      BY <2>2, <2>4
    <3>2. s.heap[g.set] \in Result
      <4>1. s.heap \in [Obj -> Result \cup {NULL}]
        BY <1>1, StoreFields DEF WellFormed
      <4> QED
        BY <1>1, <2>2, <4>1
    <3>3. b \in Bodies
      BY <3>2 DEF Result
    <3>4. k \in Keys
      BY <1>1
    <3> HIDE DEF file, b, s
    <3> QED
      BY <3>1, <3>3, <3>4, EnteredOK
  <2> QED
    BY <1>1, <1>3, <2>3, <2>4 DEF StoredAgain, k
<1> QED
  BY <1>2, <1>3 DEF IInv, WellFormed, Hosted, EntryOK, OwnSet, OwnFile, SameAsFile

\* Getting a set keeps the invariant.
LEMMA GetStep ==
  ASSUME IInv, NEW n \in Name, Get(n)
  PROVE  IInv'
<1> DEFINE g == se_get_result_set(st, n)
<1>1. /\ WellFormed(st) /\ FreeAddrs(st) # {}
      /\ st' = g.st
  BY RoomFacts DEF IInv, Get
<1>2. WellFormed(g.st)
  BY <1>1, GetFacts DEF GetOK
<1>3. "restore_replace" \notin Calls => Hosted(g.st)
  BY <1>1, GetHosted DEF IInv
<1> HIDE DEF g
<1> QED
  BY <1>1, <1>2, <1>3 DEF IInv, WellFormed, Hosted, EntryOK, OwnSet, OwnFile, SameAsFile

\* Asking for a count keeps the invariant.
LEMMA HitsStep ==
  ASSUME IInv, NEW n \in Name, Hits(n)
  PROVE  IInv'
<1>1. WellFormed(st) /\ st' = se_get_result_hits(st, n).st
  BY DEF IInv, Hits
<1>2. Kept(st, st')
  BY <1>1, HitsFacts
<1>3. WellFormed(st') /\ (Hosted(st) => Hosted(st'))
  BY <1>2, KeptOK DEF Kept
<1> QED
  BY <1>3 DEF IInv, WellFormed, Hosted, EntryOK, OwnSet, OwnFile, SameAsFile

\* Deleting a set keeps the invariant.
LEMMA DeleteStep ==
  ASSUME IInv, NEW n \in Name, Delete(n)
  PROVE  IInv'
<1>1. WellFormed(st) /\ Key[n] \in Keys /\ st' = se_delete_result_set(st, n).st
  BY Constants DEF IInv, Delete
<1>2. Kept(st, st') \/ (st.tab[Key[n]] # NULL /\ Removed(st, st', Key[n]))
  BY <1>1, DeleteFacts
<1>3. WellFormed(st') /\ (Hosted(st) => Hosted(st'))
  BY <1>1, <1>2, KeptOK, RemovedOK DEF Kept, Removed
<1> QED
  BY <1>3 DEF IInv, WellFormed, Hosted, EntryOK, OwnSet, OwnFile, SameAsFile

\* Giving memory back keeps the invariant.
LEMMA FreeStep ==
  ASSUME IInv, NEW n \in Name, Free(n)
  PROVE  IInv'
<1>1. /\ WellFormed(st) /\ Key[n] \in Keys /\ "free" \in Calls
      /\ st' = se_free_result_name(st, n)
  BY Constants DEF IInv, Free
<1>2. Kept(st, st') \/ (st.tab[Key[n]] # NULL /\ Dropped(st, st', Key[n]))
  BY <1>1, FreeFacts
<1>3. WellFormed(st') /\ (Hosted(st) => Hosted(st'))
  BY <1>1, <1>2, KeptOK, DroppedOK DEF Kept, Dropped
<1> QED
  BY <1>3 DEF IInv, WellFormed, Hosted, EntryOK, OwnSet, OwnFile, SameAsFile

\* A merge keeps the invariant.
LEMMA SortStep ==
  ASSUME IInv, NEW n \in Name, SortOperand(n)
  PROVE  IInv'
<1> DEFINE g == se_get_result_set(st, n)
           k == Key[n]
<1>1. /\ WellFormed(st) /\ k \in Keys /\ FreeAddrs(st) # {} /\ "merge" \in Calls
      /\ g.set # NULL
      /\ g.st.heap[g.set] # NULL
  BY RoomFacts, Constants DEF IInv, SortOperand
<1>2. PICK b \in Reorderings(g.st.heap[g.set].body) : st' = [g.st EXCEPT !.heap[g.set].body = b]
  BY DEF SortOperand
<1>3. /\ WellFormed(g.st) /\ (Hosted(st) => Hosted(g.st))
      /\ g.set \in Obj /\ g.st.tab[k] # NULL /\ g.st.tab[k].ptr = g.set
  BY <1>1, GetFacts, GetHosted DEF GetOK
<1> DEFINE s == g.st
           o == g.set
<1>4. SortedTo(s, st', s.tab[k].ptr, b) /\ s.tab[k].ptr \in Obj
  <2> HIDE DEF g
  <2>1. SortedTo(s, [s EXCEPT !.heap[o].body = b], o, b)
    BY <1>1, <1>3, SortFacts
  <2> QED BY <1>2, <1>3, <2>1
<1> HIDE DEF g, k, s
<1>5. WellFormed(st') /\ (Hosted(g.st) => Hosted(st'))
  BY <1>1, <1>3, <1>4, SortedOK DEF SortedTo, s
<1> QED
  BY <1>3, <1>5 DEF IInv, WellFormed, Hosted, EntryOK, OwnSet, OwnFile, SameAsFile

\* Deleting every set keeps the invariant.
LEMMA ClearStep ==
  ASSUME IInv, Clear
  PROVE  IInv'
<1>1. WellFormed(st) /\ st' = se_delete_all_result_sets(st)
  BY DEF IInv, Clear
<1>2. WellFormed(st') /\ (Hosted(st) => Hosted(st'))
  BY <1>1, ClearFacts
<1> QED
  BY <1>2 DEF IInv, WellFormed, Hosted, EntryOK, OwnSet, OwnFile, SameAsFile

\* Every call keeps the invariant.
LEMMA NextOK == IInv /\ [Next]_vars => IInv'
<1> SUFFICES ASSUME IInv, [Next]_vars PROVE IInv'
  OBVIOUS
<1>1. CASE Clear
  BY <1>1, ClearStep
<1>2. ASSUME NEW n \in Name, Get(n) \/ Hits(n) \/ Delete(n) \/ Free(n) \/ SortOperand(n)
      PROVE  IInv'
  BY <1>2, GetStep, HitsStep, DeleteStep, FreeStep, SortStep
<1>3. ASSUME NEW n \in Name, NEW r \in BOOLEAN, NEW b \in Body,
             NEW nosave \in BOOLEAN, NEW writable \in BOOLEAN,
             Store(n, b, r, nosave, writable)
      PROVE  IInv'
  BY <1>3, StoreStep
<1>4. ASSUME NEW n \in Name, NEW r \in BOOLEAN, NEW m \in Name, Restore(m, n, r)
      PROVE  IInv'
  BY <1>4, RestoreStep
<1>5. CASE UNCHANGED vars
  BY <1>5 DEF vars, IInv, WellFormed, Hosted, EntryOK, OwnSet, OwnFile, SameAsFile
<1> QED
  BY <1>1, <1>2, <1>3, <1>4, <1>5 DEF Next

\* IInv holds in every state a host program can reach.
THEOREM Invariance == Spec => []IInv
  BY InitOK, NextOK, PTL DEF Spec

\* The store has the shape se_get_result.c gives it, whatever a host calls.
THEOREM TypeCorrect == Spec => []TypeOK
<1>1. IInv => TypeOK
  <2> SUFFICES ASSUME WellFormed(st) PROVE TypeOK
    BY DEF IInv
  <2>1. /\ st.tab \in [Keys -> result_set_data \cup {NULL}]
        /\ st.heap \in [Obj -> Result \cup {NULL}]
        /\ st.diag \in Diagnostic
        /\ st.up \in BOOLEAN /\ st.orphan \in BOOLEAN
        /\ \A k \in Keys : st.tab[k] # NULL => st.up
    BY StoreFields DEF WellFormed
  <2>2. \A k \in Keys : st.tab[k] # NULL => st.tab[k] \in result_set_data
    BY <2>1
  <2>3. \A k \in Keys : st.tab[k] # NULL => /\ st.tab[k].ptr \in Obj \cup {NULL}
                                            /\ st.tab[k].hits \in Nat
                                            /\ st.tab[k].really_stored \in BOOLEAN
                                            /\ st.tab[k].disk \in Result \cup {NULL}
    BY <2>2, EntryFields
  <2> QED
    BY <2>1, <2>3 DEF TypeOK
<1> QED
  BY <1>1, Invariance, PTL

\* No entry of se_get_result.c points to a set that was freed, unless a host
\* stores a set over another name in use.
THEOREM NeverDangling ==
  ASSUME "restore_replace" \notin Calls
  PROVE  Spec => []NoDangling
<1>1. IInv => NoDangling
  BY DEF IInv, Hosted, EntryOK, OwnSet, NoDangling
<1> QED
  BY <1>1, Invariance, PTL

\* Nor do two entries share one set in core.
THEOREM NeverShared ==
  ASSUME "restore_replace" \notin Calls
  PROVE  Spec => []NoSharing
<1>1. IInv => NoSharing
  BY Unshared DEF IInv, Hosted, NoSharing
<1> QED
  BY <1>1, Invariance, PTL

\* A set that carries a name is the set of that name: the early return of
\* se_store_result_set ("already stored if it has a name") is right.
THEOREM NamedSetIsHome ==
  ASSUME "restore_replace" \notin Calls
  PROVE  Spec => []NameIsHome
<1>1. IInv => NameIsHome
  BY DEF IInv, Hosted, EntryOK, OwnSet, NameIsHome
<1> QED
  BY <1>1, Invariance, PTL

\* The count of se_get_result_hits is that of the set se_get_result_set hands
\* out, for a host that does not both replace sets and free them.
THEOREM HitsAlwaysAgree ==
  ASSUME "restore_replace" \notin Calls,
         "replace" \notin Calls \/ "free" \notin Calls
  PROVE  Spec => []HitsAgree
<1>1. IInv => HitsAgree
  BY DEF IInv, Hosted, EntryOK, OwnSet, SameAsFile, Contents, HitsAgree
<1> QED
  BY <1>1, Invariance, PTL

\* Without the replace flag the file of a set holds what its name stands for,
\* but for the order of a ranked set that a merge has sorted.
THEOREM FileAlwaysCurrent ==
  ASSUME "restore_replace" \notin Calls, "replace" \notin Calls
  PROVE  Spec => []FileIsCurrent
<1>1. IInv => FileIsCurrent
  BY FiledItself DEF IInv, Hosted, EntryOK, OwnSet, SameAsFile, Contents, FileIsCurrent
<1> QED
  BY <1>1, Invariance, PTL

\* A host that never frees a set by name, nor stores one under the empty
\* name, has every file unlinked together with its entry.
THEOREM NeverOrphaned ==
  ASSUME "restore_replace" \notin Calls, "free" \notin Calls, EmptyName \notin Name
  PROVE  Spec => []NoOrphanFile
<1>1. IInv => NoOrphanFile
  BY DEF IInv, Hosted, NoOrphanFile
<1> QED
  BY <1>1, Invariance, PTL

-----------------------------------------------------------------------------
(* The store implements the map of named sets. *)

\* What a host must not do: store a set over another name, use the empty
\* name, and give back memory of a set whose file is missing or stale.
PlainHost ==
  /\ "restore_replace" \notin Calls
  /\ EmptyName \notin Name
  /\ \/ "free" \notin Calls
     \/ Calls \cap {"replace", "nosave", "unwritable"} = {}

\* The map that a store stands for.
MapOf(s) == [k \in Keys |-> Contents(s, k)]

\* A name has an entry exactly if it stands for a set, and the entry has the
\* count of that set.
LEMMA Present ==
  ASSUME PlainHost, NEW s, WellFormed(s), Hosted(s), NEW k \in Keys
  PROVE  /\ Contents(s, k) = NULL <=> s.tab[k] = NULL
         /\ Contents(s, k) # NULL => /\ Contents(s, k) \in Bodies
                                     /\ s.tab[k].hits = Len(Contents(s, k).ents)
<1>1. /\ s.tab \in [Keys -> result_set_data \cup {NULL}]
      /\ s.heap \in [Obj -> Result \cup {NULL}]
      /\ EntryOK(s, k)
  BY StoreFields DEF WellFormed, Hosted
<1>2. CASE s.tab[k] = NULL
  BY <1>2 DEF Contents
<1>3. CASE s.tab[k] # NULL
  <2>1. /\ s.tab[k].ptr \in Obj \cup {NULL}
        /\ s.tab[k].disk \in Result \cup {NULL}
    BY <1>1, <1>3, EntryFields
  <2>2. CASE s.tab[k].ptr # NULL
    <3>1. s.heap[s.tab[k].ptr] \in Result /\ s.heap[s.tab[k].ptr] # NULL
      BY <1>1, <1>3, <2>1, <2>2 DEF EntryOK, OwnSet
    <3>2. s.heap[s.tab[k].ptr].body \in Bodies
      BY <3>1 DEF Result
    <3> QED
      BY <1>1, <1>3, <2>2, <3>1, <3>2, Constants DEF Contents, EntryOK, OwnSet
  <2>3. CASE s.tab[k].ptr = NULL
    <3>1. s.tab[k].disk \in Result /\ s.tab[k].disk # NULL
      BY <1>1, <1>3, <2>1, <2>3 DEF PlainHost, EntryOK
    <3>2. s.tab[k].disk.body \in Bodies
      BY <3>1 DEF Result
    <3>3. s.tab[k].hits = Len(s.tab[k].disk.body.ents)
      BY <1>1, <1>3, <2>3, <3>1 DEF PlainHost, EntryOK, SameAsFile
    <3> QED
      BY <1>3, <2>3, <3>1, <3>2, <3>3, Constants DEF Contents
  <2> QED
    BY <2>2, <2>3
<1> QED
  BY <1>2, <1>3

\* A call that changes no contents leaves the map as it was.
LEMMA MapSame ==
  ASSUME NEW s, NEW r, \A j \in Keys : Contents(r, j) = Contents(s, j)
  PROVE  MapOf(r) = MapOf(s)
  BY DEF MapOf

\* A call that changes the contents of one name changes the map there.
LEMMA MapPut ==
  ASSUME NEW s, NEW r, NEW k \in Keys, NEW v, Contents(r, k) = v,
         \A j \in Keys \ {k} : Contents(r, j) = Contents(s, j)
  PROVE  MapOf(r) = [MapOf(s) EXCEPT ![k] = v]
  BY DEF MapOf

\* Reorderings means the same of a set of the map.
LEMMA SortedSame == \A b : Abstract!Reorderings(b) = Reorderings(b)
  BY DEF Reorderings, SameEntries, Entries, Abstract!Reorderings, Abstract!SameEntries,
         Abstract!Entries

\* The empty store is the empty map.
LEMMA InitMaps == Init => Abstract!Init
<1> SUFFICES ASSUME Init PROVE Abstract!Init
  OBVIOUS
<1>1. \A k \in Keys : Contents(st, k) = NULL
  BY DEF Init, EmptyStore, Contents
<1> QED
  BY <1>1 DEF Abstract!Init, Init

\* The set handed out, and its count, are those of the map.
LEMMA GetMaps ==
  ASSUME PlainHost, IInv, NEW n \in Name, Get(n)
  PROVE  Abstract!Get(n)
<1> DEFINE g == se_get_result_set(st, n)
           k == Key[n]
<1>1. /\ WellFormed(st) /\ Hosted(st) /\ FreeAddrs(st) # {} /\ k \in Keys
      /\ st' = g.st
      /\ last' = [op |-> "get", name |-> n,
                  out |-> IF g.set = NULL \/ g.st.heap[g.set] = NULL THEN NULL
                          ELSE g.st.heap[g.set].body]
  BY RoomFacts, Constants DEF IInv, Get, PlainHost
<1>2. /\ \A j \in Keys : Contents(g.st, j) = Contents(st, j)
      /\ g.set = NULL => Contents(st, k) = NULL
      /\ g.set # NULL => /\ g.st.heap[g.set] # NULL
                         /\ g.st.heap[g.set].body = Contents(st, k)
  BY <1>1, GetHosted
<1> HIDE DEF g
<1>3. last' = [op |-> "get", name |-> n, out |-> Contents(st, k)]
  BY <1>1, <1>2
<1>4. MapOf(st') = MapOf(st) /\ MapOf(st)[k] = Contents(st, k)
  BY <1>1, <1>2, MapSame DEF MapOf
<1> QED
  BY <1>3, <1>4 DEF Abstract!Get, MapOf

\* The count is that of the set in the map.
LEMMA HitsMaps ==
  ASSUME PlainHost, IInv, NEW n \in Name, Hits(n)
  PROVE  Abstract!Hits(n)
<1> DEFINE h == se_get_result_hits(st, n)
           k == Key[n]
<1>1. /\ WellFormed(st) /\ Hosted(st) /\ k \in Keys
      /\ st' = h.st
      /\ last' = [op |-> "hits", name |-> n, out |-> h.hits]
  BY Constants DEF IInv, Hits, PlainHost
<1>2. /\ Kept(st, h.st)
      /\ h.hits = IF st.tab[k] = NULL THEN -1 ELSE st.tab[k].hits
  BY <1>1, HitsFacts
<1> HIDE DEF h
<1>3. h.hits = IF Contents(st, k) = NULL THEN -1 ELSE Len(Contents(st, k).ents)
  BY <1>1, <1>2, Present
<1>4. MapOf(st') = MapOf(st) /\ MapOf(st)[k] = Contents(st, k)
  BY <1>1, <1>2, KeptOK, MapSame DEF MapOf
<1> QED
  BY <1>1, <1>3, <1>4 DEF Abstract!Hits, MapOf

\* A deletion takes the name out of the map; it fails exactly if the name was
\* not in it, except that it succeeds before the first look-up.
LEMMA DeleteMaps ==
  ASSUME PlainHost, IInv, NEW n \in Name, Delete(n)
  PROVE  Abstract!Delete(n)
<1> DEFINE d == se_delete_result_set(st, n)
           k == Key[n]
<1>1. /\ WellFormed(st) /\ Hosted(st) /\ k \in Keys /\ n # EmptyName
      /\ st' = d.st
      /\ last' = [op |-> "delete", name |-> n, rc |-> d.rc]
  BY Constants DEF IInv, Delete, PlainHost
<1>2. \/ /\ \A j \in Keys : st.tab[j] = NULL
         /\ Kept(st, st')
         /\ d.rc = TRUE
      \/ /\ st.tab[k] = NULL
         /\ Kept(st, st')
         /\ d.rc = FALSE
      \/ /\ st.tab[k] # NULL
         /\ Removed(st, st', k)
         /\ d.rc = TRUE
  BY <1>1, DeleteFacts
<1> HIDE DEF d, k
<1>3. /\ \A j \in Keys : MapOf(st)[j] = Contents(st, j)
      /\ \A j \in Keys : MapOf(st)[j] = NULL <=> st.tab[j] = NULL
  BY <1>1, Present DEF MapOf
<1>4. MapOf(st') = [MapOf(st) EXCEPT ![k] = NULL]
  <2>1. CASE st.tab[k] = NULL /\ Kept(st, st')
    <3>1. Contents(st, k) = NULL
      BY <1>1, <1>3, <2>1
    <3>2. \A j \in Keys : Contents(st', j) = Contents(st, j)
      BY <2>1, KeptOK
    <3> QED
      BY <1>1, <3>1, <3>2, MapPut
  <2>2. CASE st.tab[k] # NULL /\ Removed(st, st', k)
    <3>1. /\ Contents(st', k) = NULL
          /\ \A j \in Keys \ {k} : Contents(st', j) = Contents(st, j)
      BY <1>1, <2>2, RemovedOK
    <3> QED
      BY <1>1, <3>1, MapPut
  <2> QED
    BY <1>1, <1>2, <2>1, <2>2
<1>5. \/ last' = [op |-> "delete", name |-> n, rc |-> MapOf(st)[k] # NULL]
      \/ /\ \A j \in Keys : MapOf(st)[j] = NULL
         /\ last' = [op |-> "delete", name |-> n, rc |-> TRUE]
  BY <1>1, <1>2, <1>3
<1> QED
  BY <1>4, <1>5 DEF Abstract!Delete, MapOf, k

\* Memory given back does not change what a name stands for.
LEMMA FreeMaps ==
  ASSUME PlainHost, IInv, NEW n \in Name, Free(n)
  PROVE  Abstract!Free(n)
<1> DEFINE k == Key[n]
<1>1. /\ WellFormed(st) /\ Hosted(st) /\ k \in Keys
      /\ "free" \in Calls
      /\ Calls \cap {"replace", "nosave", "unwritable"} = {}
      /\ st' = se_free_result_name(st, n)
      /\ last' = [op |-> "free", name |-> n]
  BY Constants DEF IInv, Free, PlainHost
<1>2. Kept(st, st') \/ (st.tab[k] # NULL /\ Dropped(st, st', k))
  BY <1>1, FreeFacts
<1> HIDE DEF k
<1>3. CASE Kept(st, st')
  BY <1>1, <1>3, KeptOK, MapSame DEF Abstract!Free, MapOf
<1>4. CASE st.tab[k] # NULL /\ Dropped(st, st', k)
  <2> DEFINE b == Contents(st, k)
             c == Contents(st', k)
  <2>1. st.tab[k].disk # NULL
    BY <1>1, <1>4 DEF Hosted, EntryOK
  <2>2. /\ WellFormed(st') /\ Hosted(st')
        /\ AsFiled(b, c)
        /\ \A j \in Keys \ {k} : Contents(st', j) = Contents(st, j)
    BY <1>1, <1>4, <2>1, DroppedOK DEF Dropped
  <2>3. b # NULL /\ b \in Bodies
    BY <1>1, <1>4, Present
  <2>4. c = b \/ ("merge" \in Calls /\ c \in Reorderings(b))
    <3>1. st'.tab[k] # NULL
      <4>1. /\ st.tab \in [Keys -> result_set_data \cup {NULL}]
            /\ st.tab[k] \in result_set_data
        BY <1>1, <1>4, StoreFields DEF WellFormed
      <4>2. [st.tab[k] EXCEPT !.ptr = NULL] \in result_set_data
        BY <4>1 DEF result_set_data
      <4> QED BY <1>1, <1>4, <4>1, <4>2, Constants DEF Dropped
    <3>2. c \in Bodies
      BY <1>1, <2>2, <3>1, Present
    <3> HIDE DEF b, c
    <3>3. CASE "merge" \in Calls
      BY <2>2, <2>3, <3>2, <3>3, SortedIs DEF AsFiled
    <3>4. CASE "merge" \notin Calls
      BY <2>2, <3>4 DEF AsFiled
    <3> QED BY <3>3, <3>4
  <2>5. MapOf(st') = [MapOf(st) EXCEPT ![k] = c] /\ MapOf(st)[k] = b
    BY <1>1, <2>2, MapPut DEF MapOf
  <2>6. CASE c = b
    <3>1. MapOf(st') = MapOf(st)
      BY <2>5, <2>6 DEF MapOf
    <3> QED BY <1>1, <3>1 DEF Abstract!Free, MapOf
  <2>7. CASE "merge" \in Calls /\ c \in Reorderings(b)
    BY <1>1, <2>3, <2>5, <2>7, SortedSame DEF Abstract!Free, Abstract!Reorder, MapOf, k
  <2> QED
    BY <2>4, <2>6, <2>7
<1> QED
  BY <1>2, <1>3, <1>4

\* A merge sorts the set of one name, and no other.
LEMMA SortMaps ==
  ASSUME PlainHost, IInv, NEW n \in Name, SortOperand(n)
  PROVE  Abstract!SortOperand(n)
<1> DEFINE g == se_get_result_set(st, n)
           k == Key[n]
<1>1. /\ WellFormed(st) /\ Hosted(st) /\ k \in Keys /\ FreeAddrs(st) # {}
      /\ "merge" \in Calls
      /\ g.set # NULL
      /\ last' = [op |-> "merge", name |-> n]
  BY RoomFacts, Constants DEF IInv, SortOperand, PlainHost
<1>2. PICK c \in Reorderings(g.st.heap[g.set].body) : st' = [g.st EXCEPT !.heap[g.set].body = c]
  BY DEF SortOperand
<1>3. /\ WellFormed(g.st) /\ Hosted(g.st)
      /\ g.set \in Obj /\ g.st.tab[k] # NULL /\ g.st.tab[k].ptr = g.set
      /\ st.tab[k] # NULL
      /\ \A j \in Keys : Contents(g.st, j) = Contents(st, j)
      /\ g.st.heap[g.set] # NULL
      /\ g.st.heap[g.set].body = Contents(st, k)
  BY <1>1, GetFacts, GetHosted DEF GetOK
<1>4. Contents(st, k) # NULL
  BY <1>1, <1>3, Present
<1> DEFINE s == g.st
           o == g.set
<1>5. SortedTo(s, st', s.tab[k].ptr, c) /\ s.tab[k].ptr \in Obj
  <2> HIDE DEF g
  <2>1. SortedTo(s, [s EXCEPT !.heap[o].body = c], o, c)
    BY <1>1, <1>3, SortFacts
  <2> QED BY <1>2, <1>3, <2>1
<1> HIDE DEF g, k, s
<1>6. /\ Contents(st', k) = c
      /\ \A j \in Keys \ {k} : Contents(st', j) = Contents(st, j)
  BY <1>1, <1>3, <1>5, SortedOK DEF s
<1>7. MapOf(st') = [MapOf(st) EXCEPT ![k] = c] /\ MapOf(st)[k] = Contents(st, k)
  BY <1>1, <1>6, MapPut DEF MapOf
<1> QED
  BY <1>1, <1>2, <1>3, <1>4, <1>7, SortedSame DEF Abstract!SortOperand, Abstract!Reorder, MapOf, k

\* Deleting every set empties the map.
LEMMA ClearMaps ==
  ASSUME IInv, Clear
  PROVE  Abstract!Clear
<1>1. /\ WellFormed(st) /\ st' = se_delete_all_result_sets(st)
      /\ last' = [op |-> "clear"]
  BY DEF IInv, Clear
<1>2. \A j \in Keys : Contents(st', j) = NULL
  BY <1>1, ClearFacts
<1> QED
  BY <1>1, <1>2 DEF Abstract!Clear

\* A new set enters the map under its name, or replaces the one that has the
\* name if asked to, or is refused.
LEMMA StoreMaps ==
  ASSUME PlainHost, IInv, NEW n \in Name, NEW b \in Body, NEW replace \in BOOLEAN,
         NEW ns \in BOOLEAN, NEW w \in BOOLEAN, Store(n, b, replace, ns, w)
  PROVE  Abstract!StoreUnsaved(n, b) \/ Abstract!Store(n, b, replace)
<1> DEFINE k == Key[n]
           rc == last'.rc
<1>1. WellFormed(st) /\ Hosted(st) /\ k \in Keys /\ n # EmptyName
  BY Constants DEF IInv, PlainHost
<1>2. /\ replace => "replace" \in Calls
      /\ ns => "nosave" \in Calls
      /\ ~w => "unwritable" \in Calls
  BY DEF Store
<1>3. /\ last' = [op |-> "store", name |-> n, rc |-> rc]
      /\ \/ /\ st.tab[k] = NULL
            /\ Entered(st, st', k, b, ~ns /\ w)
            /\ rc = TRUE \/ rc = FALSE
         \/ /\ st.tab[k] # NULL /\ replace
            /\ Replaced(st, st', k, b)
            /\ rc = TRUE
         \/ /\ st.tab[k] # NULL /\ ~replace
            /\ Kept(st, st')
            /\ rc = FALSE
  BY <1>1, StoreFacts DEF StoreResult, StoredNew
<1> HIDE DEF k, rc
<1>4. MapOf(st)[k] = NULL <=> st.tab[k] = NULL
  BY <1>1, Present DEF MapOf
<1>5. CASE /\ st.tab[k] = NULL
           /\ Entered(st, st', k, b, ~ns /\ w)
           /\ rc = TRUE \/ rc = FALSE
  <2> DEFINE file == ~ns /\ w
  <2>1. /\ file \in BOOLEAN
        /\ file \/ "nosave" \in Calls \/ "unwritable" \in Calls
        /\ Entered(st, st', k, b, file)
    BY <1>2, <1>5
  <2> HIDE DEF file
  <2>2. st.tab[k] = NULL
    BY <1>5
  <2>3. /\ Hosted(st')
        /\ Contents(st', k) = b
        /\ \A j \in Keys \ {k} : Contents(st', j) = Contents(st, j)
    BY BodyAssumption, <1>1, <2>1, <2>2, EnteredOK
  <2>4. MapOf(st') = [MapOf(st) EXCEPT ![k] = b]
    BY <1>1, <2>3, MapPut
  <2>5. MapOf(st)[k] = NULL
    BY <1>4, <2>2
  <2>6. CASE rc = TRUE
    BY <1>3, <2>4, <2>5, <2>6 DEF Abstract!Store, Abstract!Answer, MapOf, k
  <2>7. CASE rc = FALSE
    BY <1>3, <2>4, <2>5, <2>7 DEF Abstract!StoreUnsaved, MapOf, k
  <2> QED
    BY <1>5, <2>6, <2>7
<1>6. CASE /\ st.tab[k] # NULL /\ replace
           /\ Replaced(st, st', k, b)
           /\ rc = TRUE
  <2>1. "replace" \in Calls /\ st.tab[k] # NULL /\ Replaced(st, st', k, b)
    BY <1>2, <1>6
  <2>2. /\ Hosted(st')
        /\ Contents(st', k) = b
        /\ \A j \in Keys \ {k} : Contents(st', j) = Contents(st, j)
    BY BodyAssumption, <1>1, <2>1, ReplacedOK
  <2>3. MapOf(st') = [MapOf(st) EXCEPT ![k] = b]
    BY <1>1, <2>2, MapPut
  <2> QED
    BY <1>3, <1>6, <2>3 DEF Abstract!Store, Abstract!Answer, MapOf, k
<1>7. CASE /\ st.tab[k] # NULL /\ ~replace
           /\ Kept(st, st')
           /\ rc = FALSE
  <2>1. MapOf(st') = MapOf(st)
    BY <1>7, KeptOK, MapSame
  <2> QED
    BY <1>3, <1>4, <1>7, <2>1 DEF Abstract!Store, Abstract!Answer, MapOf, k
<1> QED
  BY <1>3, <1>5, <1>6, <1>7

\* A set that is stored again is in the map under both names, as it was.
LEMMA RestoreMaps ==
  ASSUME PlainHost, IInv, NEW m \in Name, NEW n \in Name, NEW replace \in BOOLEAN,
         Restore(m, n, replace)
  PROVE  Abstract!Restore(m, n, replace)
<1> DEFINE g == se_get_result_set(st, m)
           s == g.st
           i == Key[m]
           k == Key[n]
           b == Contents(st, i)
           rc == last'.rc
<1>1. /\ WellFormed(st) /\ Hosted(st) /\ FreeAddrs(st) # {}
      /\ i \in Keys /\ k \in Keys /\ n # EmptyName
      /\ ~replace
      /\ g.set # NULL
  BY RoomFacts, Constants DEF IInv, Restore, PlainHost
<1>2. /\ Hosted(s)
      /\ \A j \in Keys : Contents(s, j) = Contents(st, j)
      /\ s.heap[g.set].setid = i
      /\ s.heap[g.set].body = b
  BY <1>1, GetHosted
<1>3. /\ WellFormed(s)
      /\ last' = [op |-> "restore", name |-> n, rc |-> rc]
      /\ \/ i = k /\ Kept(s, st') /\ rc = TRUE
         \/ i # k /\ s.tab[k] = NULL /\ Entered(s, st', k, b, TRUE) /\ rc = TRUE
         \/ i # k /\ s.tab[k] # NULL /\ Kept(s, st') /\ rc = FALSE
  BY <1>1, <1>2, RestoreFacts DEF RestoreResult, StoredAgain
<1>4. s.tab[i] # NULL
  BY <1>1, GetFacts DEF GetOK
<1> HIDE DEF g, s, i, k, b, rc
<1>5. b # NULL /\ b \in Bodies
  <2>1. Contents(s, i) # NULL /\ Contents(s, i) \in Bodies
    BY <1>1, <1>2, <1>3, <1>4, Present
  <2> QED
    BY <1>1, <1>2, <2>1 DEF b
<1>6. /\ MapOf(st)[i] = b
      /\ MapOf(st)[k] = NULL <=> s.tab[k] = NULL
  <2>1. Contents(s, k) = NULL <=> s.tab[k] = NULL
    BY <1>1, <1>2, <1>3, Present
  <2> QED
    BY <1>1, <1>2, <2>1 DEF MapOf, b
<1>7. ASSUME Kept(s, st') PROVE MapOf(st') = MapOf(st)
  <2>1. \A j \in Keys : Contents(st', j) = Contents(st, j)
    BY <1>2, <1>7, KeptOK
  <2> QED
    BY <2>1, MapSame
<1>8. CASE i = k /\ Kept(s, st') /\ rc = TRUE
  BY <1>3, <1>5, <1>6, <1>7, <1>8 DEF Abstract!Restore, MapOf, i, k
<1>9. CASE i # k /\ s.tab[k] # NULL /\ Kept(s, st') /\ rc = FALSE
  BY <1>1, <1>3, <1>5, <1>6, <1>7, <1>9
  DEF Abstract!Restore, Abstract!Answer, MapOf, i, k
<1>10. CASE i # k /\ s.tab[k] = NULL /\ Entered(s, st', k, b, TRUE) /\ rc = TRUE
  <2> DEFINE file == TRUE
  <2>1. /\ file \in BOOLEAN
        /\ file \/ "nosave" \in Calls \/ "unwritable" \in Calls
        /\ Entered(s, st', k, b, file)
        /\ s.tab[k] = NULL /\ k \in Keys /\ b \in Bodies /\ Hosted(s)
    BY <1>1, <1>2, <1>5, <1>10
  <2> HIDE DEF file
  <2>2. /\ Hosted(st')
        /\ Contents(st', k) = b
        /\ \A j \in Keys \ {k} : Contents(st', j) = Contents(s, j)
    <3>1. PICK c \in Bodies : c = b
      BY <2>1
    <3>2. PICK saved \in BOOLEAN : saved = file
      BY <2>1
    <3>3. Entered(s, st', k, c, saved)
      BY <2>1, <3>1, <3>2
    <3>4. /\ Hosted(st')
          /\ Contents(st', k) = c
          /\ \A j \in Keys \ {k} : Contents(st', j) = Contents(s, j)
      BY <2>1, <3>2, <3>3, EnteredOK
    <3> QED BY <3>1, <3>4
  <2>3. MapOf(st') = [MapOf(st) EXCEPT ![k] = b]
    BY <1>1, <1>2, <2>2, MapPut
  <2> QED
    BY <1>1, <1>3, <1>5, <1>6, <1>10, <2>3
    DEF Abstract!Restore, Abstract!Answer, MapOf, i, k
<1> QED
  BY <1>3, <1>8, <1>9, <1>10

\* Every call of a plain host is a call on the map, or leaves it alone.
LEMMA NextMaps ==
  ASSUME PlainHost
  PROVE  IInv /\ [Next]_vars => [Abstract!Next]_(Abstract!vars)
<1> SUFFICES ASSUME IInv, [Next]_vars PROVE [Abstract!Next]_(Abstract!vars)
  OBVIOUS
<1>1. CASE Clear
  BY <1>1, ClearMaps DEF Abstract!Next
<1>2. ASSUME NEW n \in Name, Get(n) PROVE Abstract!Next
  BY <1>2, GetMaps DEF Abstract!Next
<1>3. ASSUME NEW n \in Name, Hits(n) PROVE Abstract!Next
  BY <1>3, HitsMaps DEF Abstract!Next
<1>4. ASSUME NEW n \in Name, Delete(n) PROVE Abstract!Next
  BY <1>4, DeleteMaps DEF Abstract!Next
<1>5. ASSUME NEW n \in Name, Free(n) PROVE Abstract!Next
  BY <1>5, FreeMaps DEF Abstract!Next
<1>6. ASSUME NEW n \in Name, NEW r \in BOOLEAN, NEW b \in Body,
             NEW nosave \in BOOLEAN, NEW writable \in BOOLEAN,
             Store(n, b, r, nosave, writable)
      PROVE  Abstract!Next
  BY <1>6, StoreMaps DEF Abstract!Next
<1>7. ASSUME NEW n \in Name, NEW r \in BOOLEAN, NEW m \in Name, Restore(m, n, r)
      PROVE  Abstract!Next
  BY <1>7, RestoreMaps DEF Abstract!Next
<1>8. ASSUME NEW n \in Name, SortOperand(n) PROVE Abstract!Next
  BY <1>8, SortMaps DEF Abstract!Next
<1>9. CASE UNCHANGED vars
  BY <1>9 DEF vars, Abstract!vars, Contents
<1> QED
  BY <1>1, <1>2, <1>3, <1>4, <1>5, <1>6, <1>7, <1>8, <1>9 DEF Next

\* The store of se_get_result.c, as a plain host uses it, is a map from names
\* to result sets: copies, memory given back and files read back do not show.
THEOREM Refinement ==
  ASSUME PlainHost
  PROVE  Spec => ImplementsNamedSets
  BY Invariance, InitMaps, NextMaps, PTL DEF Spec, ImplementsNamedSets, Abstract!Spec
=============================================================================
