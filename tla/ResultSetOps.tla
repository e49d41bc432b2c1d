---------------------------- MODULE ResultSetOps ----------------------------
(***************************************************************************)
(* The result set store of search/se_get_result.c as operators on one      *)
(* value st, the process-wide state the file keeps:                        *)
(*                                                                         *)
(*   st.tab   result_set_hash_tab: table key -> result_set_data or NULL    *)
(*   st.heap  the weighted_result structures: address -> set, NULL = freed *)
(*   st.diag  the diagnostic that diagnostic/diagnostic.c holds (0: none)  *)
(*   st.up    result_set_hash_tab # NULL: the table has been initialised   *)
(*   st.orphan  some result file has lost the entry that would unlink it   *)
(*                                                                         *)
(* num_hits is the length of the entries of a body (SetBodies).            *)
(* A heap object that no entry points to can never be reached again: its   *)
(* address is taken back (Collect), so that memory leaks are not tracked.  *)
(* A dangling pointer keeps its address from being handed out again.       *)
(***************************************************************************)
EXTENDS SetBodies, FiniteSets

CONSTANTS
  Name,       \* result set names as callers spell them
  Key,        \* Name -> table key: the name in upper case plus the user id
  EmptyName,  \* the spelling "", which most calls read as "default"
  Obj,        \* heap addresses
  weighted_entry,  \* the entries of a set
  NULL

Keys == {Key[n] : n \in Name}

\* setid[0] = '\0': a set that was never stored
Unnamed == "unnamed"

ASSUME StoreAssumption ==
  /\ Key \in [Name -> Keys]
  /\ Unnamed \notin Keys
  /\ NULL \notin Obj

\* What a set holds; a named set, in core or on file; a set that may have no
\* name yet; an entry of the table.
Bodies == [ents : Seq(weighted_entry), type : {"Boolean", "ranked"}]

Result == [setid : Keys, body : Bodies]

weighted_result == [setid : Keys \cup {Unnamed}, body : Bodies]

result_set_data == [ptr : Obj \cup {NULL}, hits : Nat, really_stored : BOOLEAN,
                    disk : Result \cup {NULL}]

\* A null pointer is no structure, and memory is finite.
ASSUME SetAssumption ==
  /\ IsFiniteSet(Obj)
  /\ NULL \notin Bodies \cup weighted_result \cup result_set_data

\* The diagnostics of the modelled calls.
Diagnostic == {0, 2, 13, 14, 21, 22, 27, 30, 106, 109, 114}

\* A store whose sets in core are in Sets.
Store_t(Sets) ==
  [tab : [Keys -> result_set_data \cup {NULL}], heap : [Obj -> Sets \cup {NULL}],
   diag : Diagnostic, up : BOOLEAN, orphan : BOOLEAN]

EmptyStore == [tab    |-> [k \in Keys |-> NULL],
               heap   |-> [o \in Obj |-> NULL],
               diag   |-> 0,
               up     |-> FALSE,
               orphan |-> FALSE]

diagnostic_set(st, code) == [st EXCEPT !.diag = code]
diagnostic_clear(st) == [st EXCEPT !.diag = 0]

Pointers(st) == {st.tab[k].ptr : k \in {j \in Keys : st.tab[j] # NULL}}

\* addresses malloc may return
FreeAddrs(st) == {o \in Obj : st.heap[o] = NULL /\ o \notin Pointers(st)}

Alloc(st) == CHOOSE o \in FreeAddrs(st) : TRUE

\* A set no entry points to is garbage once the call is over.
Collect(st) ==
  [st EXCEPT !.heap = [o \in Obj |-> IF o \in Pointers(st) THEN @[o] ELSE NULL]]

\* The hash entry of a name, NULL if there is none.  The empty name is
\* never looked up (and then no diagnostic is set).  Checked(st, n) is the
\* state after the look-up, which initialises the table if need be.
se_check_result_set(st, n) ==
  IF n = EmptyName THEN NULL ELSE st.tab[Key[n]]

Checked(st, n) ==
  LET up == [st EXCEPT !.up = TRUE]
  IN  IF n # EmptyName /\ st.tab[Key[n]] = NULL THEN diagnostic_set(up, 30) ELSE up

-----------------------------------------------------------------------------
\* Mutated form of ReadBack: the count is one too high.
ReadBackOneMore(st, k, o) ==
  LET f == st.tab[k].disk
  IN  [st EXCEPT !.heap[o] = f,
                 !.tab[k]  = [ptr |-> o, hits |-> Len(f.body.ents) + 1,
                              really_stored |-> FALSE, disk |-> f]]

\* A set is read from its file.  What the file holds replaces the whole
\* entry, the really_stored flag included.
ReadBack(st, k, o) ==
  LET f == st.tab[k].disk
  IN  [st EXCEPT !.heap[o] = f,
                 !.tab[k]  = [ptr |-> o, hits |-> Len(f.body.ents),
                              really_stored |-> FALSE, disk |-> f]]

\* Mutated form of se_get_result_set: files are never read.
GetFromCoreOnly(st, n) ==
  LET e == st.tab[Key[n]]
  IN  CASE e = NULL -> [st |-> diagnostic_set([st EXCEPT !.up = TRUE], 30), set |-> NULL]
        [] e # NULL /\ e.ptr # NULL -> [st |-> st, set |-> e.ptr]
        [] OTHER -> [st |-> diagnostic_set(st, 27), set |-> NULL]

\* se_get_result_set: the set in core, or read back from its file.
se_get_result_set(st, n) ==
  LET k == Key[n]
      e == st.tab[k]
  IN  CASE e = NULL       -> [st |-> diagnostic_set([st EXCEPT !.up = TRUE], 30),
                              set |-> NULL]
        [] e # NULL /\ e.ptr # NULL -> [st |-> st, set |-> e.ptr]
        [] e # NULL /\ e.ptr = NULL /\ e.disk = NULL
                          -> [st |-> diagnostic_set(st, 27), set |-> NULL]
        [] OTHER          -> [st |-> ReadBack(st, k, Alloc(st)), set |-> Alloc(st)]

\* se_get_result_hits: the count kept in the entry, -1 if there is none.
se_get_result_hits(st, n) ==
  LET e == st.tab[Key[n]]
  IN  IF e = NULL THEN [st |-> diagnostic_set([st EXCEPT !.up = TRUE], 30), hits |-> -1]
                  ELSE [st |-> st, hits |-> e.hits]

-----------------------------------------------------------------------------
\* Mutated form of se_free_result: the pointer is not reset.
FreeKeepsPointer(st, k) ==
  LET p == st.tab[k].ptr
  IN  IF p = NULL THEN st ELSE [st EXCEPT !.heap[p] = NULL]

\* se_free_result: the set an entry points to, if any, is freed.
se_free_result(st, k) ==
  LET p == st.tab[k].ptr
  IN  IF p = NULL THEN st
      ELSE [st EXCEPT !.heap[p] = NULL, !.tab[k].ptr = NULL]

\* se_free_result_name: give the memory back, the entry and its file stay.
se_free_result_name(st, n) ==
  IF ~st.up THEN st
  ELSE IF se_check_result_set(st, n) = NULL THEN Checked(st, n)
  ELSE se_free_result(st, Key[n])

\* Mutated form of NewEntry: the set does not get the name.
NewEntryUnnamed(st, o, k, nosave, writable) ==
  LET file == ~nosave /\ writable
  IN  [st EXCEPT
         !.tab[k] = [ptr |-> o, hits |-> Len(st.heap[o].body.ents),
                     really_stored |-> file,
                     disk |-> IF file THEN st.heap[o] ELSE NULL],
         !.orphan = @ \/ (st.tab[k] # NULL /\ st.tab[k].disk # NULL)]

\* Mutated form of NewEntry: really_stored is not set.
NewEntryNotStored(st, o, k, nosave, writable) ==
  LET named == [st EXCEPT !.heap[o].setid = k]
      file  == ~nosave /\ writable
  IN  [named EXCEPT
         !.tab[k] = [ptr |-> o, hits |-> Len(st.heap[o].body.ents),
                     really_stored |-> FALSE,
                     disk |-> IF file THEN named.heap[o] ELSE NULL],
         !.orphan = @ \/ (st.tab[k] # NULL /\ st.tab[k].disk # NULL)]

\* A new entry for set o under key k; writable says whether fopen succeeds.
NewEntry(st, o, k, nosave, writable) ==
  LET named == [st EXCEPT !.heap[o].setid = k]
      file  == ~nosave /\ writable
  IN  [named EXCEPT
         !.tab[k] = [ptr |-> o, hits |-> Len(st.heap[o].body.ents),
                     really_stored |-> file,
                     disk |-> IF file THEN named.heap[o] ELSE NULL],
         !.orphan = @ \/ (st.tab[k] # NULL /\ st.tab[k].disk # NULL)]

\* Mutated form of ReplaceEntry: the count of the old set stays.
ReplaceKeepsHits(st, o, k) ==
  LET freed == se_free_result(st, k)
  IN  [freed EXCEPT
         !.tab[k].ptr = o,
         !.heap[o] = IF @ = NULL THEN NULL ELSE [@ EXCEPT !.setid = k]]

\* Mutated form of ReplaceEntry: the new set does not get the name.
ReplaceUnnamed(st, o, k) ==
  LET freed == se_free_result(st, k)
  IN  [freed EXCEPT !.tab[k].ptr  = o, !.tab[k].hits = Len(st.heap[o].body.ents)]

\* Mutated form of ReplaceEntry: the file is forgotten.
ReplaceForgetsFile(st, o, k) ==
  LET freed == se_free_result(st, k)
  IN  [freed EXCEPT
         !.tab[k].ptr  = o,
         !.tab[k].hits = Len(st.heap[o].body.ents),
         !.tab[k].really_stored = FALSE,
         !.heap[o] = IF @ = NULL THEN NULL ELSE [@ EXCEPT !.setid = k]]

\* The replace branch: the old set is freed, the entry takes the new set as
\* it is (no copy), and the file is left alone: the test
\* "flags & DONT_SAVE_RESULT_SETS != DONT_SAVE_RESULT_SETS" is always 0.
ReplaceEntry(st, o, k) ==
  LET freed == se_free_result(st, k)
  IN  [freed EXCEPT
         !.tab[k].ptr  = o,
         !.tab[k].hits = Len(st.heap[o].body.ents),
         !.heap[o] = IF @ = NULL THEN NULL ELSE [@ EXCEPT !.setid = k]]

\* se_dup_result_set: a copy of set o at a fresh address.
se_dup_result_set(st, o) == [st EXCEPT !.heap[Alloc(st)] = st.heap[o]]

\* Mutated form of NeedsCopy: a set is never copied.
NeverCopied(st, o) == FALSE

\* A set that already has a name is copied before it gets another one.
NeedsCopy(st, o) == st.heap[o].setid # Unnamed

\* Mutated form of MayReplace: the flag is not looked at.
AlwaysReplace(replace) == TRUE

\* A set in use is replaced on request only.
MayReplace(replace) == replace

\* se_store_result_set: rc is TRUE for SUCCEED.
se_store_result_set(st, o, n, replace, nosave, writable) ==
  LET k    == Key[n]
      id   == st.heap[o].setid
      dup  == NeedsCopy(st, o)
      chk  == Checked(st, n)
      new  == IF dup THEN Alloc(st) ELSE o
      base == IF dup THEN se_dup_result_set(chk, o) ELSE chk
      put  == NewEntry(base, new, k, nosave, writable)
  IN  CASE n # EmptyName /\ id = k -> [st |-> st, rc |-> TRUE]
        [] ~(n # EmptyName /\ id = k) /\ se_check_result_set(st, n) = NULL
             -> IF nosave \/ writable THEN [st |-> put, rc |-> TRUE]
                ELSE [st |-> diagnostic_set(put, 2), rc |-> FALSE]
        [] OTHER
             -> IF MayReplace(replace) THEN [st |-> ReplaceEntry(st, o, k), rc |-> TRUE]
                ELSE [st |-> diagnostic_set(st, 21), rc |-> FALSE]

-----------------------------------------------------------------------------
\* Removing an entry: unlink its file if it was really stored, free the set.
RemoveEntry(st, k) ==
  [se_free_result(st, k) EXCEPT
     !.tab[k] = NULL,
     !.orphan = @ \/ (st.tab[k].disk # NULL /\ ~st.tab[k].really_stored)]

\* Before the first look-up every deletion succeeds.
se_delete_result_set(st, n) ==
  IF ~st.up THEN [st |-> st, rc |-> TRUE]
  ELSE IF se_check_result_set(st, n) = NULL
  THEN [st |-> diagnostic_set(st, 30), rc |-> FALSE]
  ELSE [st |-> RemoveEntry(st, Key[n]), rc |-> TRUE]

se_delete_all_result_sets(st) ==
  [st EXCEPT
     !.tab  = [k \in Keys |-> NULL],
     !.up   = FALSE,
     !.heap = [o \in Obj |-> IF o \in Pointers(st) THEN NULL ELSE @[o]],
     !.orphan = @ \/ \E k \in Keys : /\ st.tab[k] # NULL
                                     /\ st.tab[k].disk # NULL
                                     /\ ~st.tab[k].really_stored]

-----------------------------------------------------------------------------
\* The contents a caller gets for key k: the set in core, else its file.
Contents(st, k) ==
  LET e == st.tab[k]
  IN  IF e = NULL THEN NULL
      ELSE IF e.ptr # NULL
           THEN IF st.heap[e.ptr] = NULL THEN NULL ELSE st.heap[e.ptr].body
           ELSE IF e.disk = NULL THEN NULL ELSE e.disk.body
=============================================================================
