------------------------------ MODULE IndexOps ------------------------------
(***************************************************************************)
(* One database of the indexing programs: the associator of fileio/ (which *)
(* document a record number stands for, and whether it is marked deleted), *)
(* the index files with their postings, and the component file.            *)
(*                                                                         *)
(* A database d is a record:                                               *)
(*   assoc    sequence of [doc, deleted]; fil_seek's MaxRecs is its length *)
(*   ix       index -> term -> posting, or NULL: the term is not in it     *)
(*   g        index -> GlobalData (recptr is the next term id)             *)
(*   maxcomp  max_component_id                                             *)
(*   compdoc  record -> <<first, last>> component id, or NULL ("DOC" keys) *)
(*   comp     component id -> its record, or NULL                          *)
(*                                                                         *)
(* "pk" is the index that may be declared the primary key, "kw" another    *)
(* index over whole records, "ck" an index over components.  Indexes are   *)
(* plain ones: neither bitmapped, paged nor with proximity data.  An entry *)
(* list holds exactly num_entries entries: the room that in_kwdel leaves   *)
(* behind the last one is never read.                                      *)
(***************************************************************************)
EXTENDS Integers, Sequences

CONSTANTS Doc,    \* the texts of records
          Term,   \* the terms and keys that indexing extracts
          Words,  \* Words[doc][x][t]: how often t occurs in doc for index x
          Parts,  \* Parts[doc]: the components of doc, each a map Term -> Nat
          Bad,    \* the documents that do not parse
          Recno,  \* the record numbers and component ids in use: a bound
          NULL

ASSUME RecnoAssumption == Recno \subseteq Nat \ {0}

ASSUME WordsAssumption ==
  /\ Words \in [Doc -> [{"pk", "kw"} -> [Term -> Nat]]]
  /\ \A c \in Doc : Parts[c] \in Seq([Term -> Nat])
  /\ Bad \subseteq Doc

RecIndex == {"pk", "kw"}

Index == RecIndex \cup {"ck"}

\* An entry list, and a database.
Posting == [termid : Nat, tot_freq : Int,
            entries : Seq([rec : Recno, freq : Nat \ {0}])]

Database ==
  [assoc : Seq([doc : Doc, deleted : BOOLEAN]),
   ix : [Index -> [Term -> Posting \cup {NULL}]],
   g : [Index -> [recptr : Nat, tot_occur : Int, tot_numrecs : Int]],
   maxcomp : Nat,
   compdoc : [Recno -> (Nat \X Nat) \cup {NULL}],
   comp : [Recno -> Recno \cup {NULL}]]

NewDatabase ==
  [assoc |-> <<>>,
   ix |-> [x \in Index |-> [t \in Term |-> NULL]],
   g |-> [x \in Index |-> [recptr |-> 1, tot_occur |-> 0, tot_numrecs |-> 0]],
   maxcomp |-> 0,
   compdoc |-> [r \in Recno |-> NULL],
   comp |-> [r \in Recno |-> NULL]]

-----------------------------------------------------------------------------
(* The record store.                                                       *)

fil_add(d, doc) ==
  [d EXCEPT !.assoc = Append(@, [doc |-> doc, deleted |-> FALSE])]

\* Marks the record; without its history record it is left as it is.
fil_del(d, r, hist) ==
  IF hist THEN [d EXCEPT !.assoc[r].deleted = TRUE] ELSE d

\* What reading record r comes to.  Beyond the last record fil_seek leaves
\* assocrec unset and GetRawSGML looks at its sign all the same.
GetSGML(d, r) ==
  IF r \notin DOMAIN d.assoc THEN {"deleted", "error"}
  ELSE IF d.assoc[r].deleted THEN {"deleted"}
  ELSE IF d.assoc[r].doc \in Bad THEN {"parse_error"}
  ELSE {"doc"}

\* What in_extract finds in record r for a record index, or in its k-th
\* component for the component index.
in_extract(d, x, r, k) ==
  IF x = "ck" THEN Parts[d.assoc[r].doc][k] ELSE Words[d.assoc[r].doc][x]

-----------------------------------------------------------------------------
(* Postings.                                                               *)

Entry(id, n) == [rec |-> id, freq |-> n]

NewInfo(d, x, id, n) ==
  [termid |-> d.g[x].recptr, tot_freq |-> n, entries |-> <<Entry(id, n)>>]

\* Mutated form of Extended: the total is not kept.
ExtendedNoTotal(p, id, n) == [p EXCEPT !.entries = Append(@, Entry(id, n))]

Extended(p, id, n) ==
  [p EXCEPT !.tot_freq = @ + n, !.entries = Append(@, Entry(id, n))]

\* Mutated form of Counted: term ids are handed out again.
CountedSameId(d, x, n, new) == [d EXCEPT !.g[x].tot_occur = @ + n]

\* GlobalData after n occurrences of a term, which is new or not.
Counted(d, x, n, new) ==
  [d EXCEPT !.g[x].tot_occur = @ + n,
            !.g[x].recptr = IF new THEN @ + 1 ELSE @]

PutPosting(d, x, t, p) == [d EXCEPT !.ix[x][t] = p]

\* One round of the term loop of in_kwadd and of in_components.
AddPosting(d, x, t, id, n) ==
  LET p == d.ix[x][t]
  IN  PutPosting(Counted(d, x, n, p = NULL), x, t,
                 IF p = NULL THEN NewInfo(d, x, id, n) ELSE Extended(p, id, n))

\* The records of a posting list.
Recs(p) == IF p = NULL THEN {} ELSE {p.entries[i].rec : i \in DOMAIN p.entries}
Matches(p, id) == {i \in DOMAIN p.entries : p.entries[i].rec = id}

FirstMatch(p, id) ==
  CHOOSE i \in Matches(p, id) : \A j \in Matches(p, id) : i <= j

\* Mutated form of Migrated: the loop stops one entry early.
MigratedShort(entries, i) ==
  [j \in 1..Len(entries) - 1 |-> IF j < i \/ j = Len(entries) - 1
                                 THEN entries[j] ELSE entries[j + 1]]

\* The entries after the i-th move down by one.
Migrated(entries, i) ==
  [j \in 1..Len(entries) - 1 |-> IF j < i THEN entries[j] ELSE entries[j + 1]]

\* The list has several entries and one of them is id's: only then are the
\* counts of the term and of the index taken back.
Reduces(p, id) ==
  /\ p # NULL
  /\ Len(p.entries) # 1
  /\ Matches(p, id) # {}

\* The list without the first entry of id.
Reduced(p, id, n) ==
  [p EXCEPT !.tot_freq = @ - n, !.entries = Migrated(@, FirstMatch(p, id))]

\* Mutated form of DelPosting: a term is kept when its last entry goes.
DelPostingKeeps(d, x, t, id, n) ==
  LET p == d.ix[x][t]
  IN  IF p # NULL /\ Recs(p) = {id}
      THEN PutPosting(d, x, t, [p EXCEPT !.tot_freq = @ - n, !.entries = <<>>])
      ELSE d

\* One round of the term loop of in_kwdel and of in_comp_del.  A term with
\* a single entry goes from the index whatever record the entry is about.
DelPosting(d, x, t, id, n) ==
  LET p == d.ix[x][t]
  IN  IF p # NULL /\ Len(p.entries) = 1 THEN PutPosting(d, x, t, NULL)
      ELSE IF Reduces(p, id)
      THEN PutPosting([d EXCEPT !.g[x].tot_occur = @ - n], x, t, Reduced(p, id, n))
      ELSE d
=============================================================================
