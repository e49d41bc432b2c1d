--------------------------- MODULE IndexingProofs ---------------------------
(***************************************************************************)
(* Proofs of the properties of Indexing, for any files, documents, terms   *)
(* and operators.                                                          *)
(***************************************************************************)
EXTENDS Indexing, WellFoundedInduction, TLAPS

-----------------------------------------------------------------------------
(* What the assumptions say. *)

\* An associator record, an entry and the GlobalData of an index.
Rec == [doc : Doc, deleted : BOOLEAN]
Ent == [rec : Recno, freq : Nat \ {0}]
Global == [recptr : Nat, tot_occur : Int, tot_numrecs : Int]

\* The assumptions on the constants.
LEMMA Constants ==
  /\ Recno \subseteq Nat \ {0}
  /\ \A c \in Doc, x \in RecIndex, t \in Term : Words[c][x][t] \in Nat
  /\ \A c \in Doc : Parts[c] \in Seq([Term -> Nat])
  /\ NFiles \in Nat \ {0}
  /\ MaxRecs \in Nat
  /\ 1..MaxRecs \subseteq Recno
  /\ NULL \notin Program_t /\ NULL \notin Posting /\ NULL \notin NewInfo_t
  /\ NULL \notin -2..1
  /\ "pk" \in Index /\ "kw" \in Index /\ "ck" \in Index /\ "ck" \notin RecIndex
  /\ "pk" \in RecIndex /\ "kw" \in RecIndex
  BY RecnoAssumption, WordsAssumption, IndexingAssumption, ProgramAssumption
  DEF RecIndex, Index

\* The fields of a database.
LEMMA DatabaseFields ==
  ASSUME NEW d \in Database
  PROVE  /\ d.assoc \in Seq(Rec)
         /\ d.ix \in [Index -> [Term -> Posting \cup {NULL}]]
         /\ d.g \in [Index -> Global]
         /\ d.maxcomp \in Nat
         /\ d.compdoc \in [Recno -> (Nat \X Nat) \cup {NULL}]
         /\ d.comp \in [Recno -> Recno \cup {NULL}]
         /\ \A x \in Index, t \in Term :
              d.ix[x][t] # NULL => d.ix[x][t] \in Posting
         /\ \A x \in Index : d.g[x].recptr \in Nat
  BY DEF Database, Rec, Global

\* The fields of a posting.
LEMMA PostingFields ==
  ASSUME NEW p \in Posting
  PROVE  /\ p.termid \in Nat
         /\ p.tot_freq \in Int
         /\ p.entries \in Seq(Ent)
  BY DEF Posting, Ent

-----------------------------------------------------------------------------
(* The operators of IndexOps, field by field. *)

\* A posting is put into the index at one term, and nothing else changes.
Put(d, r, x, t, p) ==
  /\ r \in Database
  /\ r.assoc = d.assoc
  /\ r.maxcomp = d.maxcomp /\ r.compdoc = d.compdoc
  /\ \A y \in Index, u \in Term :
       r.ix[y][u] = IF y = x /\ u = t THEN p ELSE d.ix[y][u]

\* PutPosting puts the posting, and keeps the counts.
LEMMA PutFields ==
  ASSUME NEW d \in Database, NEW x \in Index, NEW t \in Term,
         NEW p \in Posting \cup {NULL}
  PROVE  /\ Put(d, PutPosting(d, x, t, p), x, t, p)
         /\ PutPosting(d, x, t, p).g = d.g
<1> DEFINE row == [d.ix[x] EXCEPT ![t] = p]
           ix == [d.ix EXCEPT ![x] = row]
           r == PutPosting(d, x, t, p)
<1>1. d.ix \in [Index -> [Term -> Posting \cup {NULL}]]
  BY DatabaseFields
<1>2. r = [d EXCEPT !.ix = ix]
  BY DEF PutPosting
<1>3. row \in [Term -> Posting \cup {NULL}]
  BY <1>1
<1>4. /\ ix \in [Index -> [Term -> Posting \cup {NULL}]]
      /\ \A y \in Index, u \in Term :
           ix[y][u] = IF y = x /\ u = t THEN p ELSE d.ix[y][u]
  BY <1>1, <1>3
<1> HIDE DEF ix, row, r
<1> QED
  BY <1>2, <1>4 DEF Put, Database, r

\* The counts of an index change, and nothing else; a new term id is handed
\* out, or none.
CountedIs(d, r, x, new) ==
  /\ r \in Database
  /\ r.assoc = d.assoc /\ r.ix = d.ix
  /\ r.maxcomp = d.maxcomp /\ r.compdoc = d.compdoc
  /\ \A y \in Index :
       r.g[y].recptr = IF y = x /\ new THEN d.g[y].recptr + 1 ELSE d.g[y].recptr

\* Counted changes the counts of one index.
LEMMA CountedFields ==
  ASSUME NEW d \in Database, NEW x \in Index, NEW n \in Nat, NEW new \in BOOLEAN
  PROVE  CountedIs(d, Counted(d, x, n, new), x, new)
<1> DEFINE g1 == [d.g EXCEPT ![x].tot_occur = @ + n]
           g2 == [g1 EXCEPT ![x].recptr = IF new THEN @ + 1 ELSE @]
           d1 == [d EXCEPT !.g = g1]
           r == Counted(d, x, n, new)
<1>1. d.g \in [Index -> Global] /\ d.g[x] \in Global
  BY DatabaseFields
<1>2. /\ g1 \in [Index -> Global]
      /\ \A y \in Index : g1[y].recptr = d.g[y].recptr
  BY <1>1 DEF Global
<1>3. r = [d1 EXCEPT !.g[x].recptr = IF new THEN @ + 1 ELSE @]
  BY DEF Counted
<1>4. d1 \in Database /\ d1.g = g1
  BY <1>2 DEF Database, Global
<1> HIDE DEF g1
<1>5. r = [d1 EXCEPT !.g = g2]
  BY <1>3, <1>4 DEF Database
<1>6. /\ g2 \in [Index -> Global]
      /\ \A y \in Index : g2[y].recptr = IF y = x /\ new THEN d.g[y].recptr + 1
                                         ELSE d.g[y].recptr
  BY <1>2 DEF Global
<1> HIDE DEF g2, r
<1> QED
  BY <1>4, <1>5, <1>6 DEF CountedIs, Database, Global, r

\* The occurrences of a term are taken back, and nothing else changes.
LEMMA UncountedFields ==
  ASSUME NEW d \in Database, NEW x \in Index, NEW n \in Nat
  PROVE  CountedIs(d, [d EXCEPT !.g[x].tot_occur = @ - n], x, FALSE)
<1> DEFINE gx == [d.g[x] EXCEPT !.tot_occur = @ - n]
           g == [d.g EXCEPT ![x] = gx]
           r == [d EXCEPT !.g[x].tot_occur = @ - n]
<1>1. d.g \in [Index -> Global] /\ d.g[x] \in Global
  BY DatabaseFields
<1>2. gx \in Global /\ gx.recptr = d.g[x].recptr
  BY <1>1 DEF Global
<1>3. r = [d EXCEPT !.g = g]
  OBVIOUS
<1>4. /\ g \in [Index -> Global]
      /\ \A y \in Index : g[y].recptr = d.g[y].recptr
  BY <1>1, <1>2
<1> HIDE DEF g, gx, r
<1>5. CountedIs(d, r, x, FALSE)
  BY <1>3, <1>4 DEF CountedIs, Database, Global
<1> QED
  BY <1>5 DEF r

\* A new list has one entry and the next term id.
LEMMA NewInfoFields ==
  ASSUME NEW d \in Database, NEW x \in Index, NEW id \in Recno, NEW n \in Nat \ {0}
  PROVE  /\ NewInfo(d, x, id, n) \in Posting
         /\ NewInfo(d, x, id, n).termid = d.g[x].recptr
         /\ NewInfo(d, x, id, n).entries = <<Entry(id, n)>>
<1>1. d.g[x].recptr \in Nat
  BY DatabaseFields
<1>2. Entry(id, n) \in Ent
  BY DEF Entry, Ent
<1>3. <<Entry(id, n)>> \in Seq(Ent)
  BY <1>2
<1> QED
  BY <1>1, <1>3 DEF NewInfo, Posting, Ent

\* An extended list has one entry more and its term id.
LEMMA ExtendedFields ==
  ASSUME NEW p \in Posting, NEW id \in Recno, NEW n \in Nat \ {0}
  PROVE  /\ Extended(p, id, n) \in Posting
         /\ Extended(p, id, n).termid = p.termid
         /\ Extended(p, id, n).entries = Append(p.entries, Entry(id, n))
<1> DEFINE total == p.tot_freq + n
           list == Append(p.entries, Entry(id, n))
<1>1. Entry(id, n) \in Ent
  BY DEF Entry, Ent
<1>2. p.entries \in Seq(Ent) /\ list \in Seq(Ent)
  BY <1>1, PostingFields
<1>3. total \in Int
  BY PostingFields
<1>4. Extended(p, id, n) = [p EXCEPT !.tot_freq = total, !.entries = list]
  BY DEF Extended, Posting
<1> HIDE DEF total, list
<1>5. /\ Extended(p, id, n) \in Posting
      /\ Extended(p, id, n).termid = p.termid
      /\ Extended(p, id, n).entries = list
  BY <1>2, <1>3, <1>4 DEF Posting, Ent
<1> QED
  BY <1>5 DEF list

\* The rest of a list is part of the list.
LEMMA MigratedFields ==
  ASSUME NEW es \in Seq(Ent), NEW i \in 1..Len(es), Len(es) # 1
  PROVE  /\ Migrated(es, i) \in Seq(Ent)
         /\ Migrated(es, i) # <<>>
         /\ \A j \in DOMAIN Migrated(es, i) :
              \E k \in DOMAIN es : Migrated(es, i)[j] = es[k]
<1> DEFINE m == Migrated(es, i)
           n == Len(es) - 1
<1>1. n \in Nat \ {0} /\ Len(es) = n + 1 /\ DOMAIN es = 1..n + 1
  OBVIOUS
<1>2. \A k \in 1..n + 1 : es[k] \in Ent
  BY <1>1
<1>3. m = [j \in 1..n |-> IF j < i THEN es[j] ELSE es[j + 1]]
  BY DEF Migrated
<1>4. \A j \in 1..n : j \in 1..n + 1 /\ j + 1 \in 1..n + 1
  BY <1>1
<1> HIDE DEF n, m
<1>5. /\ DOMAIN m = 1..n
      /\ \A j \in 1..n : m[j] \in Ent /\ \E k \in DOMAIN es : m[j] = es[k]
  BY <1>1, <1>2, <1>3, <1>4
<1>6. m \in [1..n -> Ent]
  BY <1>3, <1>5
<1>7. m \in Seq(Ent) /\ m # <<>>
  BY <1>1, <1>5, <1>6
<1> QED
  BY <1>5, <1>7 DEF m

\* Of some numbers one is the smallest.
LEMMA Smallest ==
  ASSUME NEW S, S \subseteq Nat, S # {}
  PROVE  \E k \in S : \A j \in S : k <= j
<1> DEFINE R == OpToRel(<, Nat)
<1>1. IsWellFoundedOn(R, Nat)
  BY NatLessThanWellFounded
<1> HIDE DEF R
<1>2. PICK k \in S : \A j \in S : ~(<<j, k>> \in R)
  BY <1>1, WFMin
<1>3. \A j, k2 \in Nat : <<j, k2>> \in R <=> j < k2
  BY DEF R, OpToRel
<1>4. ASSUME NEW j \in S PROVE k <= j
  <2>1. j \in Nat /\ k \in Nat
    OBVIOUS
  <2>2. ~(<<j, k>> \in R)
    BY <1>2
  <2>3. ~(j < k)
    BY <1>3, <2>1, <2>2
  <2> QED
    BY <2>1, <2>3
<1> QED
  BY <1>4

\* A list that loses one of several entries keeps its term id.
LEMMA ShrunkFields ==
  ASSUME NEW p \in Posting, NEW id, NEW n \in Nat, Reduces(p, id), p.entries # <<>>
  PROVE  LET q == Reduced(p, id, n)
         IN  /\ q \in Posting
             /\ q.termid = p.termid
             /\ q.entries # <<>>
             /\ \A j \in DOMAIN q.entries :
                  \E k \in DOMAIN p.entries : q.entries[j] = p.entries[k]
<1> DEFINE total == p.tot_freq - n
           i == FirstMatch(p, id)
           list == Migrated(p.entries, i)
           q == Reduced(p, id, n)
<1>1. p.entries \in Seq(Ent) /\ Len(p.entries) # 1 /\ Matches(p, id) # {}
  BY PostingFields DEF Reduces
<1>2. i \in 1..Len(p.entries)
  <2>1. Matches(p, id) \subseteq 1..Len(p.entries)
    BY <1>1 DEF Matches
  <2>2. \E k \in Matches(p, id) : \A j \in Matches(p, id) : k <= j
    BY <1>1, <2>1, Smallest
  <2> QED
    BY <2>1, <2>2 DEF FirstMatch
<1>3. /\ list \in Seq(Ent) /\ list # <<>>
      /\ \A j \in DOMAIN list : \E k \in DOMAIN p.entries : list[j] = p.entries[k]
  BY <1>1, <1>2, MigratedFields
<1>4. total \in Int
  BY PostingFields
<1>5. q = [p EXCEPT !.tot_freq = total, !.entries = list]
  BY DEF Reduced, Posting
<1> HIDE DEF total, list, q
<1>6. q \in Posting /\ q.termid = p.termid /\ q.entries = list
  BY <1>3, <1>4, <1>5 DEF Posting, Ent
<1> QED
  BY <1>3, <1>6 DEF q

-----------------------------------------------------------------------------
(* How a write changes a database. *)

\* The associator may get longer, and the record a number stands for stays.
Grown(a, b) == /\ DOMAIN a \subseteq DOMAIN b
               /\ \A r \in DOMAIN a : b[r].doc = a[r].doc

\* What an entry says of a record stays true.
LEMMA TruthKept ==
  ASSUME NEW a, NEW b, Grown(a, b), NEW x, NEW t
  PROVE  /\ \A e : TrueEntry(a, x, t, e) => TrueEntry(b, x, t, e)
         /\ \A p : TruePosting(a, x, t, p) => TruePosting(b, x, t, p)
<1>1. \A e : TrueEntry(a, x, t, e) => TrueEntry(b, x, t, e)
  BY DEF TrueEntry, Grown
<1> QED
  BY <1>1 DEF TruePosting

\* Loops and lines stay right while the associator grows and no component is
\* added.
LEMMA AheadKept ==
  ASSUME NEW d, NEW r, Grown(d.assoc, r.assoc), r.maxcomp = d.maxcomp
  PROVE  /\ \A l : LoopOK(d, l) => LoopOK(r, l)
         /\ \A w : WorkOK(d, w) => WorkOK(r, w)
         /\ \A l : LineOK(d, l) => LineOK(r, l)
<1>1. ASSUME NEW l, LoopOK(d, l) PROVE LoopOK(r, l)
  <2>1. l.rec \in DOMAIN d.assoc /\ r.assoc[l.rec].doc = d.assoc[l.rec].doc
    BY <1>1 DEF LoopOK, Grown
  <2>2. /\ Parted(r.assoc, l.rec) = Parted(d.assoc, l.rec)
        /\ in_extract(r, l.x, l.rec, l.part) = in_extract(d, l.x, l.rec, l.part)
    BY <2>1 DEF Parted, in_extract
  <2>3. l.rec \in DOMAIN r.assoc
    BY <2>1 DEF Grown
  <2> QED
    BY <1>1, <2>2, <2>3 DEF LoopOK
<1>2. \A w : WorkOK(d, w) => WorkOK(r, w)
  BY <1>1 DEF WorkOK
<1>3. \A l : LineOK(d, l) => LineOK(r, l)
  BY TruthKept DEF LineOK
<1> QED
  BY <1>1, <1>2, <1>3

\* Term ids are handed out upwards.
Handed(d, r) == \A y \in Index : r.g[y].recptr >= d.g[y].recptr

\* A posting that is put may have a term id that no other term has.
OwnId(d, r, x, t, p) ==
  /\ p.termid < r.g[x].recptr
  /\ \A u \in Term \ {t} : d.ix[x][u] # NULL => d.ix[x][u].termid # p.termid

\* A list that is true and has a term id of its own may be put.
LEMMA PutOK ==
  ASSUME NEW d, DatabaseOK(d), NEW x \in Index, NEW t \in Term,
         NEW p \in Posting \cup {NULL}, NEW r, Put(d, r, x, t, p), Handed(d, r),
         p # NULL => TruePosting(d.assoc, x, t, p) /\ OwnId(d, r, x, t, p)
  PROVE  DatabaseOK(r)
<1>1. /\ d \in Database /\ r \in Database
      /\ r.assoc = d.assoc /\ r.compdoc = d.compdoc
      /\ \A y \in Index, u \in Term :
           r.ix[y][u] = IF y = x /\ u = t THEN p ELSE d.ix[y][u]
  BY DEF Put, DatabaseOK
<1>2. Len(r.assoc) <= MaxRecs /\ Ranges(r)
  BY <1>1 DEF DatabaseOK, Ranges
<1>3. Lists(r)
  BY <1>1 DEF DatabaseOK, Lists
<1>4. Termids(r)
  <2> SUFFICES ASSUME NEW y \in Index, NEW u \in Term, r.ix[y][u] # NULL
               PROVE  /\ r.ix[y][u].termid < r.g[y].recptr
                      /\ \A v \in Term \ {u} :
                           r.ix[y][v] # NULL => r.ix[y][v].termid # r.ix[y][u].termid
    BY DEF Termids
  <2>1. /\ d.ix[y][u] # NULL => d.ix[y][u] \in Posting /\ d.ix[y][u].termid \in Nat
        /\ d.g[y].recptr \in Nat /\ r.g[y].recptr \in Nat
        /\ r.g[y].recptr >= d.g[y].recptr
    BY <1>1, DatabaseFields, PostingFields DEF Handed
  <2>2. \A v \in Term : d.ix[y][v] # NULL =>
          /\ d.ix[y][v].termid < d.g[y].recptr
          /\ \A z \in Term \ {v} :
               d.ix[y][z] # NULL => d.ix[y][z].termid # d.ix[y][v].termid
    BY DEF DatabaseOK, Termids
  <2>3. CASE y = x /\ u = t
    BY <1>1, <2>3 DEF OwnId
  <2>4. CASE ~(y = x /\ u = t)
    <3>1. r.ix[y][u] = d.ix[y][u] /\ d.ix[y][u] # NULL
      BY <1>1, <2>4
    <3>2. d.ix[y][u].termid < r.g[y].recptr
      BY <2>1, <2>2, <3>1
    <3>3. ASSUME NEW v \in Term \ {u}, r.ix[y][v] # NULL
          PROVE  r.ix[y][v].termid # d.ix[y][u].termid
      <4>1. CASE y = x /\ v = t
        BY <1>1, <2>4, <3>1, <3>3, <4>1 DEF OwnId
      <4>2. CASE ~(y = x /\ v = t)
        BY <1>1, <2>2, <3>1, <3>3, <4>2
      <4> QED
        BY <4>1, <4>2
    <3> QED
      BY <3>1, <3>2, <3>3
  <2> QED
    BY <2>3, <2>4
<1> QED
  BY <1>1, <1>2, <1>3, <1>4 DEF DatabaseOK

\* newinfo stays right when a posting with another term id is put.
LEMMA PutKeepsNewInfo ==
  ASSUME NEW d \in Database, NEW x \in Index, NEW t \in Term,
         NEW p, NEW r, Put(d, r, x, t, p), Handed(d, r),
         NEW c \in NewInfo_t \cup {NULL}, NewInfoOK(d, c),
         p # NULL /\ c # NULL => (c.x = x /\ c.t # t => p.termid # c.p.termid)
  PROVE  NewInfoOK(r, c)
<1> SUFFICES ASSUME c # NULL
             PROVE  /\ TruePosting(r.assoc, c.x, c.t, c.p)
                    /\ c.p.termid < r.g[c.x].recptr
                    /\ \A u \in Term \ {c.t} :
                         r.ix[c.x][u] # NULL => r.ix[c.x][u].termid # c.p.termid
  BY DEF NewInfoOK
<1>1. c.x \in Index /\ c.t \in Term /\ c.p \in Posting /\ c.p.termid \in Nat
  BY PostingFields DEF NewInfo_t
<1>2. /\ TruePosting(d.assoc, c.x, c.t, c.p)
      /\ c.p.termid < d.g[c.x].recptr
      /\ \A u \in Term \ {c.t} :
           d.ix[c.x][u] # NULL => d.ix[c.x][u].termid # c.p.termid
  BY DEF NewInfoOK
<1>3. /\ r.assoc = d.assoc
      /\ \A u \in Term : r.ix[c.x][u] = IF c.x = x /\ u = t THEN p ELSE d.ix[c.x][u]
      /\ r \in Database
  BY <1>1 DEF Put
<1>4. c.p.termid < r.g[c.x].recptr
  <2>1. d.g[c.x].recptr \in Nat /\ r.g[c.x].recptr \in Nat
    BY <1>1, <1>3, DatabaseFields
  <2>2. r.g[c.x].recptr >= d.g[c.x].recptr
    BY <1>1 DEF Handed
  <2> QED
    BY <1>1, <1>2, <2>1, <2>2
<1>5. ASSUME NEW u \in Term \ {c.t}, r.ix[c.x][u] # NULL
      PROVE  r.ix[c.x][u].termid # c.p.termid
  BY <1>2, <1>3, <1>5
<1> QED
  BY <1>2, <1>3, <1>4, <1>5

\* The lists of a database and newinfo are right, and nothing a loop ahead
\* depends on has changed.
Written(d, r, c) ==
  /\ DatabaseOK(r)
  /\ Grown(d.assoc, r.assoc)
  /\ r.maxcomp = d.maxcomp
  /\ NewInfoOK(r, c)

\* The two kinds of list that are written: a new one, and one that got longer.
LEMMA NewTrue ==
  ASSUME NEW d \in Database, NEW x \in Index, NEW t, NEW id \in Recno,
         NEW n \in Nat \ {0}, TrueEntry(d.assoc, x, t, Entry(id, n))
  PROVE  TruePosting(d.assoc, x, t, NewInfo(d, x, id, n))
<1> DEFINE q == NewInfo(d, x, id, n)
           e == Entry(id, n)
<1>1. q.entries = <<e>>
  BY NewInfoFields
<1> HIDE DEF q, e
<1>2. q.entries # <<>> /\ \A i \in DOMAIN q.entries : q.entries[i] = e
  BY <1>1
<1> QED
  BY <1>2 DEF TruePosting, q, e

\* A true list stays true with a true entry more.
LEMMA ExtendedTrue ==
  ASSUME NEW a, NEW p \in Posting, NEW x, NEW t, NEW id \in Recno,
         NEW n \in Nat \ {0}, TrueEntry(a, x, t, Entry(id, n)), TruePosting(a, x, t, p)
  PROVE  TruePosting(a, x, t, Extended(p, id, n))
<1> DEFINE q == Extended(p, id, n)
           e == Entry(id, n)
<1>1. q.entries = Append(p.entries, e)
  BY ExtendedFields
<1>2. p.entries \in Seq(Ent)
  BY PostingFields
<1> HIDE DEF q, e
<1>3. /\ q.entries # <<>>
      /\ \A i \in DOMAIN q.entries :
           q.entries[i] = e \/ (i \in DOMAIN p.entries /\ q.entries[i] = p.entries[i])
  BY <1>1, <1>2
<1> QED
  BY <1>3 DEF TruePosting, q, e

\* An entry is added to the list of a term, which is new or not.
LEMMA AddOK ==
  ASSUME NEW d, DatabaseOK(d), NEW x \in Index, NEW t \in Term, NEW id \in Recno,
         NEW n \in Nat \ {0}, TrueEntry(d.assoc, x, t, Entry(id, n)),
         NEW c \in NewInfo_t \cup {NULL}, NewInfoOK(d, c)
  PROVE  Written(d, AddPosting(d, x, t, id, n), c)
<1> DEFINE p == d.ix[x][t]
           new == p = NULL
           q == IF new THEN NewInfo(d, x, id, n) ELSE Extended(p, id, n)
           k == Counted(d, x, n, new)
           r == PutPosting(k, x, t, q)
<1>1. AddPosting(d, x, t, id, n) = r
  BY DEF AddPosting
<1>2. d \in Database /\ (p # NULL => p \in Posting /\ p.termid \in Nat)
  BY DatabaseFields, PostingFields DEF DatabaseOK
<1>3. /\ \A u \in Term : d.ix[x][u] # NULL =>
           d.ix[x][u].termid \in Nat /\ d.ix[x][u].termid < d.g[x].recptr
      /\ d.g[x].recptr \in Nat
  BY <1>2, DatabaseFields, PostingFields DEF DatabaseOK, Termids
<1>4. p # NULL => \A u \in Term \ {t} :
        d.ix[x][u] # NULL => d.ix[x][u].termid # p.termid
  BY DEF DatabaseOK, Termids
<1>5. p # NULL => TruePosting(d.assoc, x, t, p)
  BY DEF DatabaseOK, Lists
<1>6. /\ new => q = NewInfo(d, x, id, n)
      /\ ~new => q = Extended(p, id, n)
      /\ new \in BOOLEAN /\ (new <=> p = NULL)
  OBVIOUS
<1>7. CountedIs(d, k, x, new)
  BY <1>2, <1>6, CountedFields
<1> HIDE DEF new, p, q, k
<1>8. /\ q \in Posting
      /\ q.termid = IF new THEN d.g[x].recptr ELSE p.termid
      /\ TruePosting(d.assoc, x, t, q)
  <2>1. CASE new
    BY <1>2, <1>6, <2>1, NewInfoFields, NewTrue
  <2>2. CASE ~new
    BY <1>2, <1>5, <1>6, <2>2, ExtendedFields, ExtendedTrue
  <2> QED
    BY <2>1, <2>2
<1>9. Put(k, r, x, t, q) /\ r.g = k.g
  BY <1>7, <1>8, PutFields DEF CountedIs
<1> HIDE DEF r
<1>10. Put(d, r, x, t, q)
  BY <1>7, <1>9 DEF Put, CountedIs
<1>11. /\ \A y \in Index : r.g[y].recptr = IF y = x /\ new THEN d.g[y].recptr + 1
                                           ELSE d.g[y].recptr
       /\ \A y \in Index : d.g[y].recptr \in Nat
  BY <1>2, <1>7, <1>9, DatabaseFields DEF CountedIs
<1>12. Handed(d, r)
  BY <1>11 DEF Handed
<1>13. OwnId(d, r, x, t, q)
  <2>1. CASE new
    BY <1>3, <1>8, <1>11, <2>1 DEF OwnId
  <2>2. CASE ~new
    BY <1>3, <1>4, <1>6, <1>8, <1>11, <2>2 DEF OwnId, p
  <2> QED
    BY <2>1, <2>2
<1>14. DatabaseOK(r)
  BY <1>8, <1>10, <1>12, <1>13, PutOK
<1>15. ASSUME c # NULL, c.x = x, c.t # t PROVE q.termid # c.p.termid
  <2>1. c.p.termid \in Nat /\ c.p.termid < d.g[x].recptr
    BY <1>15, PostingFields DEF NewInfoOK, NewInfo_t
  <2>2. p # NULL => p.termid # c.p.termid
    BY <1>15 DEF NewInfoOK, p
  <2> QED
    BY <1>3, <1>6, <1>8, <2>1, <2>2
<1>16. NewInfoOK(r, c)
  BY <1>2, <1>10, <1>12, <1>15, PutKeepsNewInfo
<1>17. Grown(d.assoc, r.assoc) /\ r.maxcomp = d.maxcomp
  BY <1>10 DEF Put, Grown
<1> QED
  BY <1>1, <1>14, <1>16, <1>17 DEF Written

\* An entry is taken out of the list of a term, or the term out of the index.
LEMMA DelOK ==
  ASSUME NEW d, DatabaseOK(d), NEW x \in Index, NEW t \in Term, NEW id,
         NEW n \in Nat,
         NEW c \in NewInfo_t \cup {NULL}, NewInfoOK(d, c)
  PROVE  Written(d, DelPosting(d, x, t, id, n), c)
<1> DEFINE p == d.ix[x][t]
           q == Reduced(p, id, n)
           k == [d EXCEPT !.g[x].tot_occur = @ - n]
           r == DelPosting(d, x, t, id, n)
<1>1. d \in Database /\ (p # NULL => p \in Posting)
  BY DatabaseFields DEF DatabaseOK
<1>2. CASE p # NULL /\ Len(p.entries) = 1
  <2>1. r = PutPosting(d, x, t, NULL)
    BY <1>2 DEF DelPosting
  <2>2. Put(d, r, x, t, NULL) /\ r.g = d.g
    BY <1>1, <2>1, PutFields
  <2> HIDE DEF r, p
  <2>3. Handed(d, r)
    BY <1>1, <2>2, DatabaseFields DEF Handed
  <2>4. DatabaseOK(r) /\ NewInfoOK(r, c)
    BY <1>1, <2>2, <2>3, PutOK, PutKeepsNewInfo
  <2>5. Grown(d.assoc, r.assoc) /\ r.maxcomp = d.maxcomp
    BY <2>2 DEF Put, Grown
  <2> QED
    BY <2>4, <2>5 DEF Written, r
<1>3. CASE ~(p # NULL /\ Len(p.entries) = 1) /\ Reduces(p, id)
  <2>1. r = PutPosting(k, x, t, q)
    BY <1>3 DEF DelPosting
  <2>2. p # NULL /\ p \in Posting
    BY <1>1, <1>3 DEF Reduces
  <2>3. TruePosting(d.assoc, x, t, p)
    BY <2>2 DEF DatabaseOK, Lists
  <2>4. /\ q \in Posting
        /\ q.termid = p.termid
        /\ q.entries # <<>>
        /\ \A j \in DOMAIN q.entries :
             \E i \in DOMAIN p.entries : q.entries[j] = p.entries[i]
    BY <1>3, <2>2, <2>3, ShrunkFields DEF TruePosting
  <2>5. CountedIs(d, k, x, FALSE)
    BY <1>1, UncountedFields
  <2> HIDE DEF q, k
  <2>6. Put(k, r, x, t, q) /\ r.g = k.g
    BY <2>1, <2>4, <2>5, PutFields DEF CountedIs
  <2>7. /\ p.termid < d.g[x].recptr
        /\ \A u \in Term \ {t} : d.ix[x][u] # NULL => d.ix[x][u].termid # p.termid
    BY <2>2 DEF DatabaseOK, Termids
  <2>8. c # NULL => (c.x = x /\ c.t # t => p.termid # c.p.termid)
    BY <2>2 DEF NewInfoOK
  <2> HIDE DEF r, p
  <2>9. Put(d, r, x, t, q)
    BY <2>5, <2>6 DEF Put, CountedIs
  <2>10. \A y \in Index : r.g[y].recptr = d.g[y].recptr /\ d.g[y].recptr \in Nat
    BY <1>1, <2>5, <2>6, DatabaseFields DEF CountedIs
  <2>11. Handed(d, r)
    BY <2>10 DEF Handed
  <2>12. TruePosting(d.assoc, x, t, q)
    BY <2>3, <2>4 DEF TruePosting
  <2>13. OwnId(d, r, x, t, q)
    BY <2>4, <2>7, <2>10 DEF OwnId
  <2>14. DatabaseOK(r)
    BY <2>4, <2>9, <2>11, <2>12, <2>13, PutOK
  <2>15. NewInfoOK(r, c)
    BY <1>1, <2>4, <2>8, <2>9, <2>11, PutKeepsNewInfo
  <2>16. Grown(d.assoc, r.assoc) /\ r.maxcomp = d.maxcomp
    BY <2>9 DEF Put, Grown
  <2> QED
    BY <2>14, <2>15, <2>16 DEF Written, r
<1>4. CASE ~(p # NULL /\ Len(p.entries) = 1) /\ ~Reduces(p, id)
  <2>1. r = d
    BY <1>4 DEF DelPosting
  <2> QED
    BY <2>1 DEF Written, Grown, r
<1> QED
  BY <1>2, <1>3, <1>4

\* A write that leaves the lists alone.
LEMMA FrameOK ==
  ASSUME NEW d, DatabaseOK(d), NEW r \in Database, Grown(d.assoc, r.assoc),
         Len(r.assoc) <= MaxRecs, r.ix = d.ix, Handed(d, r), Ranges(r)
  PROVE  /\ DatabaseOK(r)
         /\ \A c \in NewInfo_t \cup {NULL} : NewInfoOK(d, c) => NewInfoOK(r, c)
<1>1. /\ d \in Database
      /\ \A y \in Index : d.g[y].recptr \in Nat /\ r.g[y].recptr \in Nat
      /\ \A y \in Index : r.g[y].recptr >= d.g[y].recptr
  BY DatabaseFields DEF DatabaseOK, Handed
<1>2. Lists(r)
  BY TruthKept DEF DatabaseOK, Lists
<1>3. Termids(r)
  <2>1. \A y \in Index, u \in Term : d.ix[y][u] # NULL => d.ix[y][u].termid \in Nat
    BY <1>1, DatabaseFields, PostingFields
  <2> QED
    BY <1>1, <2>1 DEF DatabaseOK, Termids
<1>4. ASSUME NEW c \in NewInfo_t \cup {NULL}, NewInfoOK(d, c), c # NULL
      PROVE  NewInfoOK(r, c)
  <2>1. c.x \in Index /\ c.p.termid \in Nat
    BY <1>4, PostingFields DEF NewInfo_t
  <2> QED
    BY <1>1, <1>4, <2>1, TruthKept DEF NewInfoOK
<1>5. \A c \in NewInfo_t \cup {NULL} : NewInfoOK(d, c) => NewInfoOK(r, c)
  BY <1>4 DEF NewInfoOK
<1> QED
  BY <1>2, <1>3, <1>5 DEF DatabaseOK

\* Ranges of components stay right while the associator grows.
LEMMA RangesKept ==
  ASSUME NEW d, Ranges(d), NEW r, Grown(d.assoc, r.assoc), r.compdoc = d.compdoc
  PROVE  Ranges(r)
  BY DEF Ranges, Grown, Parted

\* A record is added to the store.
LEMMA FilAddOK ==
  ASSUME NEW d, DatabaseOK(d), NEW c \in Doc, Len(d.assoc) < MaxRecs
  PROVE  DatabaseOK(fil_add(d, c))
<1> DEFINE e == [doc |-> c, deleted |-> FALSE]
           a == Append(d.assoc, e)
           r == fil_add(d, c)
<1>1. d \in Database /\ d.assoc \in Seq(Rec) /\ e \in Rec
  BY DatabaseFields DEF DatabaseOK, Rec
<1> HIDE DEF e
<1>2. /\ a \in Seq(Rec) /\ Len(a) <= MaxRecs
      /\ Grown(d.assoc, a)
  BY <1>1, Constants DEF Grown
<1>3. r = [d EXCEPT !.assoc = a]
  BY DEF fil_add, e
<1> HIDE DEF a, r
<1>4. /\ r \in Database /\ r.assoc = a /\ r.ix = d.ix /\ r.g = d.g
      /\ r.compdoc = d.compdoc
  BY <1>1, <1>2, <1>3 DEF Database, Rec
<1>5. Ranges(r)
  BY <1>2, <1>4, RangesKept DEF DatabaseOK
<1>6. Handed(d, r)
  BY <1>1, <1>4, DatabaseFields DEF Handed
<1> QED
  BY <1>2, <1>4, <1>5, <1>6, FrameOK DEF r

\* A record is marked deleted, or left as it is.
LEMMA FilDelOK ==
  ASSUME NEW d, DatabaseOK(d), NEW i \in DOMAIN d.assoc, NEW hist \in BOOLEAN,
         NEW c \in NewInfo_t \cup {NULL}, NewInfoOK(d, c)
  PROVE  Written(d, fil_del(d, i, hist), c)
<1> DEFINE e == [d.assoc[i] EXCEPT !.deleted = TRUE]
           a == [d.assoc EXCEPT ![i] = e]
           r == fil_del(d, i, hist)
<1>1. d \in Database /\ d.assoc \in Seq(Rec) /\ d.assoc[i] \in Rec
  BY DatabaseFields DEF DatabaseOK
<1>2. CASE hist
  <2>1. r = [d EXCEPT !.assoc = a]
    BY <1>2 DEF fil_del
  <2>2. e \in Rec /\ e.doc = d.assoc[i].doc
    BY <1>1 DEF Rec
  <2> HIDE DEF e
  <2>3. /\ a \in Seq(Rec) /\ Len(a) = Len(d.assoc) /\ DOMAIN a = DOMAIN d.assoc
        /\ \A j \in DOMAIN a : a[j] = IF j = i THEN e ELSE d.assoc[j]
    BY <1>1, <2>2
  <2>4. Grown(d.assoc, a)
    BY <2>2, <2>3 DEF Grown
  <2> HIDE DEF a, r
  <2>5. /\ r \in Database /\ r.assoc = a /\ r.ix = d.ix /\ r.g = d.g
        /\ r.compdoc = d.compdoc /\ r.maxcomp = d.maxcomp
    BY <1>1, <2>1, <2>3 DEF Database, Rec
  <2>6. Ranges(r)
    BY <2>4, <2>5, RangesKept DEF DatabaseOK
  <2>7. Handed(d, r)
    BY <1>1, <2>5, DatabaseFields DEF Handed
  <2>8. Len(r.assoc) <= MaxRecs
    BY <2>3, <2>5 DEF DatabaseOK
  <2> QED
    BY <2>4, <2>5, <2>6, <2>7, <2>8, FrameOK DEF Written, r
<1>3. CASE ~hist
  BY <1>3 DEF fil_del, Written, Grown
<1> QED
  BY <1>2, <1>3

\* The count of records and the component file at the end of an index.
LEMMA DoneOK ==
  ASSUME NEW d, DatabaseOK(d), NEW x \in Index, NEW n \in Int,
         NEW cs \in [Recno -> Recno \cup {NULL}],
         NEW c \in NewInfo_t \cup {NULL}, NewInfoOK(d, c)
  PROVE  Written(d, [d EXCEPT !.g[x].tot_numrecs = n, !.comp = cs], c)
<1> DEFINE gx == [d.g[x] EXCEPT !.tot_numrecs = n]
           g == [d.g EXCEPT ![x] = gx]
           r == [d EXCEPT !.g[x].tot_numrecs = n, !.comp = cs]
<1>1. d \in Database /\ d.g \in [Index -> Global] /\ d.g[x] \in Global
  BY DatabaseFields DEF DatabaseOK
<1>2. gx \in Global /\ gx.recptr = d.g[x].recptr
  BY <1>1 DEF Global
<1>3. r = [d EXCEPT !.g = g, !.comp = cs]
  OBVIOUS
<1>4. /\ g \in [Index -> Global]
      /\ \A y \in Index : g[y].recptr = d.g[y].recptr
  BY <1>1, <1>2
<1> HIDE DEF g, gx, r
<1>5. /\ r \in Database /\ r.assoc = d.assoc /\ r.ix = d.ix /\ r.g = g
      /\ r.compdoc = d.compdoc /\ r.maxcomp = d.maxcomp
  BY <1>1, <1>3, <1>4 DEF Database, Global
<1>6. Grown(d.assoc, r.assoc) /\ Len(r.assoc) <= MaxRecs
  BY <1>5 DEF Grown, DatabaseOK
<1>7. Ranges(r)
  BY <1>5, <1>6, RangesKept DEF DatabaseOK
<1>8. Handed(d, r)
  BY <1>1, <1>4, <1>5, DatabaseFields DEF Handed
<1> QED
  BY <1>5, <1>6, <1>7, <1>8, FrameOK DEF Written, r

\* The next component id.
LEMMA MaxcompOK ==
  ASSUME NEW d, DatabaseOK(d), NEW n \in Nat,
         NEW c \in NewInfo_t \cup {NULL}, NewInfoOK(d, c)
  PROVE  LET r == [d EXCEPT !.maxcomp = n]
         IN  /\ DatabaseOK(r) /\ NewInfoOK(r, c)
             /\ r.maxcomp = n /\ r.assoc = d.assoc
<1> DEFINE r == [d EXCEPT !.maxcomp = n]
<1>1. d \in Database
  BY DEF DatabaseOK
<1>2. /\ r \in Database /\ r.assoc = d.assoc /\ r.ix = d.ix /\ r.g = d.g
      /\ r.compdoc = d.compdoc /\ r.maxcomp = n
  BY <1>1 DEF Database
<1> HIDE DEF r
<1>3. Grown(d.assoc, r.assoc) /\ Len(r.assoc) <= MaxRecs
  BY <1>2 DEF Grown, DatabaseOK
<1>4. Ranges(r)
  BY <1>2, <1>3, RangesKept DEF DatabaseOK
<1>5. Handed(d, r)
  BY <1>1, <1>2, DatabaseFields DEF Handed
<1> QED
  BY <1>2, <1>3, <1>4, <1>5, FrameOK DEF r

\* The range of component ids of a record is written, or taken out.
LEMMA CompdocOK ==
  ASSUME NEW d, DatabaseOK(d), NEW i \in DOMAIN d.assoc,
         NEW range \in (Nat \X Nat) \cup {NULL},
         range # NULL => range[2] - range[1] < Parted(d.assoc, i),
         NEW c \in NewInfo_t \cup {NULL}, NewInfoOK(d, c)
  PROVE  Written(d, [d EXCEPT !.compdoc[i] = range], c)
<1> DEFINE ranges == [d.compdoc EXCEPT ![i] = range]
           r == [d EXCEPT !.compdoc[i] = range]
<1>1. d \in Database /\ d.compdoc \in [Recno -> (Nat \X Nat) \cup {NULL}]
  BY DatabaseFields DEF DatabaseOK
<1>2. /\ ranges \in [Recno -> (Nat \X Nat) \cup {NULL}]
      /\ \A j \in Recno : ranges[j] = IF j = i THEN range ELSE d.compdoc[j]
  BY <1>1
<1>3. r = [d EXCEPT !.compdoc = ranges]
  OBVIOUS
<1> HIDE DEF ranges, r
<1>4. /\ r \in Database /\ r.assoc = d.assoc /\ r.ix = d.ix /\ r.g = d.g
      /\ r.compdoc = ranges /\ r.maxcomp = d.maxcomp
  BY <1>1, <1>2, <1>3 DEF Database
<1>5. Grown(d.assoc, r.assoc) /\ Len(r.assoc) <= MaxRecs
  BY <1>4 DEF Grown, DatabaseOK
<1>6. Ranges(r)
  BY <1>2, <1>4 DEF DatabaseOK, Ranges
<1>7. Handed(d, r)
  BY <1>1, <1>4, DatabaseFields DEF Handed
<1> QED
  BY <1>4, <1>5, <1>6, <1>7, FrameOK DEF Written, r

-----------------------------------------------------------------------------
(* The loops ahead of a program. *)

\* Loops that are right, in a list that is typed.
Ahead(d, w) == w \in Seq(LoopType) /\ WorkOK(d, w)

\* The first loop ahead is right; a component loop is the last one.
LEMMA HeadOK ==
  ASSUME NEW d, NEW w, Ahead(d, w), w # <<>>
  PROVE  /\ Head(w) \in LoopType /\ LoopOK(d, Head(w))
         /\ Head(w).kind = "components" => Len(Tail(w)) = 0
         /\ Len(w) >= 1 /\ w[1] = Head(w) /\ 1 \in DOMAIN w
<1>1. /\ w \in Seq(LoopType) /\ Len(w) >= 1 /\ w[1] = Head(w)
      /\ 1 \in DOMAIN w /\ w[1] \in LoopType
  BY DEF Ahead
<1>2. /\ LoopOK(d, w[1])
      /\ w[1].kind = "components" => Len(w) = 1
  BY <1>1 DEF Ahead, WorkOK
<1>3. Len(w) = 1 => Len(Tail(w)) = 0
  BY <1>1
<1> QED
  BY <1>1, <1>2, <1>3

\* The loops after the first one are right.
LEMMA TailOK ==
  ASSUME NEW d, NEW w, Ahead(d, w), w # <<>>
  PROVE  Ahead(d, Tail(w))
<1>1. w \in Seq(LoopType) /\ Len(w) \in Nat \ {0}
  BY DEF Ahead
<1>2. /\ Tail(w) \in Seq(LoopType)
      /\ Len(Tail(w)) = Len(w) - 1
      /\ \A i \in DOMAIN Tail(w) : i + 1 \in DOMAIN w /\ Tail(w)[i] = w[i + 1]
      /\ \A i \in DOMAIN Tail(w) : i \in Nat
  BY <1>1
<1>3. WorkOK(d, Tail(w))
  BY <1>1, <1>2 DEF Ahead, WorkOK
<1> QED
  BY <1>2, <1>3 DEF Ahead

\* The first loop goes on with less to do.
LEMMA EditOK ==
  ASSUME NEW d, NEW w, Ahead(d, w), w # <<>>, NEW l \in LoopType, LoopOK(d, l),
         l.kind = Head(w).kind
  PROVE  Ahead(d, [w EXCEPT ![1] = l])
<1> DEFINE v == [w EXCEPT ![1] = l]
<1>1. w \in Seq(LoopType) /\ w[1] = Head(w) /\ 1 \in DOMAIN w
  BY DEF Ahead
<1>2. /\ v \in Seq(LoopType) /\ Len(v) = Len(w) /\ DOMAIN v = DOMAIN w
      /\ \A i \in DOMAIN w : v[i] = IF i = 1 THEN l ELSE w[i]
  BY <1>1
<1> HIDE DEF v
<1>3. WorkOK(d, v)
  BY <1>1, <1>2 DEF Ahead, WorkOK
<1> QED
  BY <1>2, <1>3 DEF Ahead, v

\* No loop ahead at all.
LEMMA NothingAhead == \A d : Ahead(d, <<>>)
  BY DEF Ahead, WorkOK

\* The records of the associator have record numbers.
LEMMA Numbered ==
  ASSUME NEW d, DatabaseOK(d), NEW i \in DOMAIN d.assoc
  PROVE  /\ i \in Recno /\ i \in Nat
         /\ d.assoc[i].doc \in Doc
         /\ Parts[d.assoc[i].doc] \in Seq([Term -> Nat])
         /\ Parted(d.assoc, i) \in Nat
<1>1. d.assoc \in Seq(Rec) /\ Len(d.assoc) <= MaxRecs
  BY DatabaseFields DEF DatabaseOK
<1>2. i \in 1..Len(d.assoc) /\ d.assoc[i] \in Rec
  BY <1>1
<1>3. i \in 1..MaxRecs
  BY <1>1, <1>2, Constants
<1>4. d.assoc[i].doc \in Doc
  BY <1>2 DEF Rec
<1>5. i \in Recno /\ i \in Nat
  BY <1>3, Constants
<1>6. Parts[d.assoc[i].doc] \in Seq([Term -> Nat])
  BY <1>4, Constants
<1> QED
  BY <1>4, <1>5, <1>6 DEF Parted

\* What a record, or a component, contains.
LEMMA Extracted ==
  ASSUME NEW d, DatabaseOK(d), NEW i \in DOMAIN d.assoc, NEW x \in Index, NEW k,
         x = "ck" => k \in 1..Parted(d.assoc, i)
  PROVE  /\ \A t \in Term : in_extract(d, x, i, k)[t] \in Nat
         /\ x # "ck" => \A t \in Term :
              in_extract(d, x, i, k)[t] = Words[d.assoc[i].doc][x][t]
<1>1. /\ d.assoc[i].doc \in Doc
      /\ Parts[d.assoc[i].doc] \in Seq([Term -> Nat])
  BY Numbered
<1>2. CASE x = "ck"
  <2>1. Parts[d.assoc[i].doc][k] \in [Term -> Nat]
    BY <1>1, <1>2 DEF Parted
  <2> QED
    BY <1>2, <2>1 DEF in_extract
<1>3. CASE x # "ck"
  BY <1>1, <1>3, Constants DEF in_extract, Index
<1> QED
  BY <1>2, <1>3

\* A loop over the terms of a record.
LEMMA RecLoopOK ==
  ASSUME NEW d, DatabaseOK(d), NEW i \in DOMAIN d.assoc, NEW x \in RecIndex,
         NEW kind \in {"add", "del"}
  PROVE  LET l == RecLoop(d, kind, x, i)
         IN  l \in LoopType /\ LoopOK(d, l) /\ l.kind = kind
<1> DEFINE l == RecLoop(d, kind, x, i)
           ts == Occurring(in_extract(d, x, i, 0))
<1>1. /\ i \in Recno /\ i \in Nat
      /\ x \in Index /\ x # "ck"
      /\ ts \subseteq Term
  BY Numbered, Constants DEF Index, RecIndex, Occurring
<1>2. l = [kind |-> kind, x |-> x, rec |-> i, id |-> i, part |-> 0, terms |-> ts,
           last |-> 0, touched |-> FALSE]
  BY DEF RecLoop, Loop
<1> HIDE DEF l
<1>3. /\ l.kind = kind /\ l.x = x /\ l.rec = i /\ l.id = i /\ l.part = 0
      /\ l.terms = Occurring(in_extract(d, x, i, 0))
  BY <1>2
<1> HIDE DEF ts
<1>4. l \in LoopType
  BY <1>1, <1>2 DEF LoopType
<1>5. LoopOK(d, l)
  BY <1>1, <1>3 DEF LoopOK
<1> QED
  BY <1>3, <1>4, <1>5 DEF l

\* The other things to do.
LEMMA TaskOK ==
  ASSUME NEW d, DatabaseOK(d), NEW i \in DOMAIN d.assoc, NEW id \in Nat, NEW k \in Nat,
         NEW kind \in {"fil_del", "comp_del", "components"},
         kind = "components" => k = 1 /\ id = d.maxcomp + 1
  PROVE  LET l == Task(kind, i, id, k)
         IN  l \in LoopType /\ LoopOK(d, l) /\ l.kind = kind
<1> DEFINE l == Task(kind, i, id, k)
<1>1. i \in Recno /\ "ck" \in Index /\ Parted(d.assoc, i) \in Nat /\ d.maxcomp \in Nat
  BY Numbered, DatabaseFields DEF Index, DatabaseOK
<1>2. l = [kind |-> kind, x |-> "ck", rec |-> i, id |-> id, part |-> k, terms |-> {},
           last |-> 0, touched |-> FALSE]
  BY DEF Task, Loop
<1> HIDE DEF l
<1>3. l.kind = kind /\ l.rec = i /\ l.id = id /\ l.part = k
  BY <1>2
<1>4. l \in LoopType
  BY <1>1, <1>2 DEF LoopType
<1>5. LoopOK(d, l)
  BY <1>1, <1>3 DEF LoopOK
<1> QED
  BY <1>3, <1>4, <1>5 DEF l

\* None of the loops hands out component ids.
NoComponents(w) == \A i \in DOMAIN w : w[i].kind # "components"

\* Loops go before others.
LEMMA ConcatOK ==
  ASSUME NEW d, NEW v, Ahead(d, v), NEW w, Ahead(d, w),
         NoComponents(v) \/ Len(w) = 0
  PROVE  /\ Ahead(d, v \o w)
         /\ NoComponents(v) /\ NoComponents(w) => NoComponents(v \o w)
<1> DEFINE u == v \o w
<1>1. /\ v \in Seq(LoopType) /\ w \in Seq(LoopType)
      /\ Len(v) \in Nat /\ Len(w) \in Nat
  BY DEF Ahead
<1>2. /\ u \in Seq(LoopType) /\ Len(u) = Len(v) + Len(w)
      /\ \A i \in DOMAIN u : i \in Nat /\ i <= Len(u)
      /\ \A i \in DOMAIN u : \/ i \in DOMAIN v /\ u[i] = v[i]
                             \/ i - Len(v) \in DOMAIN w /\ u[i] = w[i - Len(v)]
  BY <1>1
<1> HIDE DEF u
<1>3. ASSUME NEW i \in DOMAIN u
      PROVE  LoopOK(d, u[i]) /\ (u[i].kind = "components" => i = Len(u))
  <2>1. CASE i \in DOMAIN v /\ u[i] = v[i]
    <3>1. /\ LoopOK(d, v[i])
          /\ v[i].kind = "components" => i = Len(v)
      BY <2>1 DEF Ahead, WorkOK
    <3>2. v[i].kind = "components" => Len(w) = 0
      BY <2>1 DEF NoComponents
    <3> QED
      BY <1>1, <1>2, <2>1, <3>1, <3>2
  <2>2. CASE i - Len(v) \in DOMAIN w /\ u[i] = w[i - Len(v)]
    <3>1. /\ LoopOK(d, u[i])
          /\ u[i].kind = "components" => i - Len(v) = Len(w)
      BY <2>2 DEF Ahead, WorkOK
    <3> QED
      BY <1>1, <1>2, <1>3, <3>1
  <2> QED
    BY <1>2, <1>3, <2>1, <2>2
<1>4. Ahead(d, u)
  BY <1>2, <1>3 DEF Ahead, WorkOK
<1>5. NoComponents(v) /\ NoComponents(w) => NoComponents(u)
  BY <1>2 DEF NoComponents
<1> QED
  BY <1>4, <1>5 DEF u

\* Lists of one, two and three loops.
LEMMA OneOK ==
  ASSUME NEW d, NEW a \in LoopType, LoopOK(d, a)
  PROVE  Ahead(d, <<a>>) /\ (a.kind # "components" => NoComponents(<<a>>))
  BY DEF Ahead, WorkOK, NoComponents

\* Two loops; only the second may hand out component ids.
LEMMA TwoOK ==
  ASSUME NEW d, NEW a \in LoopType, LoopOK(d, a), a.kind # "components",
         NEW b \in LoopType, LoopOK(d, b)
  PROVE  Ahead(d, <<a, b>>) /\ (b.kind # "components" => NoComponents(<<a, b>>))
<1> DEFINE w == <<a, b>>
<1>1. /\ w \in Seq(LoopType) /\ Len(w) = 2
      /\ \A i \in DOMAIN w : i = 1 \/ i = 2
      /\ w[1] = a /\ w[2] = b
  OBVIOUS
<1> HIDE DEF w
<1>2. Ahead(d, w) /\ (b.kind # "components" => NoComponents(w))
  BY <1>1 DEF Ahead, WorkOK, NoComponents
<1> QED
  BY <1>2 DEF w

\* Three loops; only the third may.
LEMMA ThreeOK ==
  ASSUME NEW d, NEW a \in LoopType, LoopOK(d, a), a.kind # "components",
         NEW b \in LoopType, LoopOK(d, b), b.kind # "components",
         NEW e \in LoopType, LoopOK(d, e)
  PROVE  Ahead(d, <<a, b, e>>)
<1> DEFINE w == <<a, b, e>>
<1>1. /\ w \in Seq(LoopType) /\ Len(w) = 3
      /\ \A i \in DOMAIN w : i = 1 \/ i = 2 \/ i = 3
      /\ w[1] = a /\ w[2] = b /\ w[3] = e
  OBVIOUS
<1> HIDE DEF w
<1>2. Ahead(d, w)
  BY <1>1 DEF Ahead, WorkOK
<1> QED
  BY <1>2 DEF w

\* The loops of in_kwadd.
LEMMA KwaddOK ==
  ASSUME NEW d, DatabaseOK(d), NEW i \in DOMAIN d.assoc
  PROVE  Ahead(d, in_kwadd(d, i)) /\ in_kwadd(d, i) # <<>>
<1> DEFINE a == RecLoop(d, "add", "pk", i)
           b == RecLoop(d, "add", "kw", i)
           e == Task("components", i, d.maxcomp + 1, 1)
<1>1. /\ a \in LoopType /\ LoopOK(d, a) /\ a.kind = "add"
      /\ b \in LoopType /\ LoopOK(d, b) /\ b.kind = "add"
  BY RecLoopOK DEF RecIndex
<1>2. d.maxcomp + 1 \in Nat
  BY DatabaseFields DEF DatabaseOK
<1>3. e \in LoopType /\ LoopOK(d, e)
  BY <1>2, TaskOK
<1>4. in_kwadd(d, i) = <<a, b, e>>
  BY DEF in_kwadd
<1> HIDE DEF a, b, e
<1>5. Ahead(d, <<a, b, e>>)
  BY <1>1, <1>3, ThreeOK
<1> QED
  BY <1>4, <1>5

\* The loops of in_kwdel.
LEMMA KwdelOK ==
  ASSUME NEW d, DatabaseOK(d), NEW i \in DOMAIN d.assoc
  PROVE  Ahead(d, in_kwdel(d, i)) /\ NoComponents(in_kwdel(d, i))
<1> DEFINE a == RecLoop(d, "del", "pk", i)
           b == RecLoop(d, "del", "kw", i)
<1>1. /\ a \in LoopType /\ LoopOK(d, a) /\ a.kind = "del"
      /\ b \in LoopType /\ LoopOK(d, b) /\ b.kind = "del"
  BY RecLoopOK DEF RecIndex
<1>2. in_kwdel(d, i) = <<a, b>> \/ in_kwdel(d, i) = <<>>
  BY DEF in_kwdel
<1> HIDE DEF a, b
<1>3. Ahead(d, <<a, b>>) /\ NoComponents(<<a, b>>)
  BY <1>1, TwoOK
<1>4. Ahead(d, <<>>) /\ NoComponents(<<>>)
  BY NothingAhead DEF NoComponents
<1> QED
  BY <1>2, <1>3, <1>4

\* What replaces a record.
LEMMA ReplaceOK ==
  ASSUME NEW d, DatabaseOK(d), NEW i \in DOMAIN d.assoc
  PROVE  Ahead(d, Replace(d, i)) /\ NoComponents(Replace(d, i))
<1> DEFINE e == Task("fil_del", i, i, 0)
           v == in_kwdel(d, i)
<1>1. i \in Nat
  BY Numbered
<1>2. e \in LoopType /\ LoopOK(d, e) /\ e.kind = "fil_del"
  BY <1>1, TaskOK
<1>3. Ahead(d, v) /\ NoComponents(v)
  BY KwdelOK
<1>4. Replace(d, i) = v \o <<e>>
  BY DEF Replace
<1> HIDE DEF e, v
<1>5. Ahead(d, <<e>>) /\ NoComponents(<<e>>)
  BY <1>2, OneOK
<1> QED
  BY <1>3, <1>4, <1>5, ConcatOK

\* The loops of delete_recs.
LEMMA DeleteLoopsOK ==
  ASSUME NEW d, DatabaseOK(d), NEW i \in DOMAIN d.assoc
  PROVE  Ahead(d, in_kwdel(d, i) \o <<Task("comp_del", i, i, 0),
                                      Task("fil_del", i, i, 0)>>)
<1> DEFINE a == Task("comp_del", i, i, 0)
           b == Task("fil_del", i, i, 0)
           v == in_kwdel(d, i)
<1>1. i \in Nat
  BY Numbered
<1>2. /\ a \in LoopType /\ LoopOK(d, a) /\ a.kind = "comp_del"
      /\ b \in LoopType /\ LoopOK(d, b) /\ b.kind = "fil_del"
  BY <1>1, TaskOK
<1>3. Ahead(d, v) /\ NoComponents(v)
  BY KwdelOK
<1> HIDE DEF a, b, v
<1>4. Ahead(d, <<a, b>>)
  BY <1>2, TwoOK
<1>5. Ahead(d, v \o <<a, b>>)
  BY <1>3, <1>4, ConcatOK
<1> QED
  BY <1>5 DEF a, b, v

-----------------------------------------------------------------------------
(* The inductive invariant. *)

\* A program that runs has a file, whose database is right.
LEMMA Running ==
  ASSUME IInv, cmd # NULL
  PROVE  /\ cmd \in Program_t /\ cmd.file \in File /\ cmd.batch \in BOOLEAN
         /\ cmd.i \in Nat /\ cmd.prog \in {"load", "delete"}
         /\ DatabaseOK(D) /\ D \in Database
         /\ Ahead(D, work)
         /\ \A l \in lines : l \in Line /\ LineOK(D, l)
         /\ cur \in NewInfo_t \cup {NULL} /\ NewInfoOK(D, cur)
<1>1. cmd \in Program_t
  BY DEF IInv
<1>2. /\ cmd.file \in File /\ cmd.batch \in BOOLEAN /\ cmd.i \in Nat
      /\ cmd.prog \in {"load", "delete"}
  BY <1>1 DEF Program_t, Load_t, Delete_t
<1>3. DatabaseOK(D)
  BY <1>2 DEF IInv, D
<1> QED
  BY <1>1, <1>2, <1>3 DEF IInv, ProgramOK, Ahead, DatabaseOK

\* A step of a program that leaves the program running.
LEMMA Goes ==
  ASSUME IInv, cmd # NULL, primary' = primary, ended' = ended,
         cmd' \in Program_t, cmd'.file = cmd.file, cmd'.batch = cmd.batch,
         cmd.batch \/ UNCHANGED <<lines, cur>>,
         NEW r, SetD(r), DatabaseOK(r), Ahead(r, work'),
         \A l \in lines' : l \in Line /\ LineOK(r, l),
         cur' \in NewInfo_t \cup {NULL}, NewInfoOK(r, cur'), hash_tab' \subseteq Recno
  PROVE  IInv'
<1>1. cmd.file \in File /\ db \in [File -> Database]
  BY Running DEF IInv
<1>2. r \in Database
  BY DEF DatabaseOK
<1>3. /\ db' \in [File -> Database] /\ db'[cmd.file] = r
      /\ \A f \in File : db'[f] = IF f = cmd.file THEN r ELSE db[f]
  BY <1>1, <1>2 DEF SetD
<1>4. \A f \in File : DatabaseOK(db'[f])
  BY <1>3 DEF IInv
<1>5. D' = r
  BY <1>3 DEF D
<1>6. ProgramOK'
  BY <1>5 DEF ProgramOK, Ahead
<1>7. cmd' # NULL
  BY Constants
<1>8. Direct' => lines' = {} /\ cur' = NULL
  BY DEF IInv, Direct
<1> QED
  BY <1>3, <1>4, <1>6, <1>7, <1>8 DEF IInv, Ahead, Idle

\* A step that writes to the database and goes on with the loops ahead.
LEMMA Moves ==
  ASSUME IInv, cmd # NULL, UNCHANGED <<primary, cmd, ended>>, UNCHANGED batch,
         NEW r, SetD(r), Written(D, r, cur), Ahead(D, work')
  PROVE  IInv'
<1>1. /\ cmd \in Program_t
      /\ \A l \in lines : l \in Line /\ LineOK(D, l)
      /\ cur \in NewInfo_t \cup {NULL}
  BY Running
<1>2. /\ DatabaseOK(r) /\ NewInfoOK(r, cur)
      /\ Grown(D.assoc, r.assoc) /\ r.maxcomp = D.maxcomp
  BY DEF Written
<1>3. Ahead(r, work') /\ \A l \in lines : LineOK(r, l)
  BY <1>1, <1>2, AheadKept DEF Ahead
<1>4. hash_tab \subseteq Recno
  BY DEF IInv
<1> QED
  BY <1>1, <1>2, <1>3, <1>4, Goes DEF batch

\* The database is left alone.
LEMMA Untouched ==
  ASSUME IInv, cmd # NULL
  PROVE  /\ UNCHANGED db => SetD(D)
         /\ Written(D, D, cur)
<1>1. UNCHANGED db => SetD(D)
  BY Running DEF IInv, SetD, D
<1> QED
  BY <1>1, Running DEF Written, Grown

\* The loop a program is at.
LEMMA AtLoop ==
  ASSUME IInv, NEW kind, At(kind)
  PROVE  /\ cmd # NULL /\ work # <<>>
         /\ h \in LoopType /\ LoopOK(D, h) /\ h.kind = kind
         /\ h.rec \in DOMAIN D.assoc
         /\ Ahead(D, work) /\ Ahead(D, Tail(work))
         /\ kind = "components" => Len(Tail(work)) = 0
         /\ work \in Seq(LoopType) /\ 1 \in DOMAIN work /\ work[1] = h
<1>1. cmd # NULL /\ work # <<>> /\ h.kind = kind
  BY DEF At
<1>2. Ahead(D, work)
  BY <1>1, Running
<1>3. /\ h \in LoopType /\ LoopOK(D, h)
      /\ h.kind = "components" => Len(Tail(work)) = 0
      /\ work[1] = h /\ 1 \in DOMAIN work
  BY <1>1, <1>2, HeadOK DEF h
<1>4. Ahead(D, Tail(work))
  BY <1>1, <1>2, TailOK
<1> QED
  BY <1>1, <1>2, <1>3, <1>4 DEF LoopOK, Ahead

\* A round of a term loop: the loop goes on with one term less.
LEMMA Round ==
  ASSUME IInv, NEW kind \in {"add", "del"}, At(kind), NEW t \in h.terms,
         NEW b \in BOOLEAN,
         work' = [work EXCEPT ![1].terms = @ \ {t}, ![1].touched = b]
  PROVE  /\ Ahead(D, work')
         /\ h.x \in Index /\ t \in Term
         /\ in_extract(D, h.x, h.rec, h.part)[t] \in Nat \ {0}
<1> DEFINE l == [h EXCEPT !.terms = @ \ {t}, !.touched = b]
<1>1. /\ cmd # NULL /\ work # <<>> /\ h \in LoopType /\ LoopOK(D, h) /\ h.kind = kind
      /\ h.rec \in DOMAIN D.assoc /\ Ahead(D, work)
      /\ work \in Seq(LoopType) /\ 1 \in DOMAIN work /\ work[1] = h
  BY AtLoop
<1>2. h.x \in Index /\ h.terms \subseteq Term /\ t \in Term
  BY <1>1 DEF LoopType
<1>3. /\ h.x = "ck" => h.part \in 1..Parted(D.assoc, h.rec)
      /\ h.terms \subseteq Occurring(in_extract(D, h.x, h.rec, h.part))
  BY <1>1 DEF LoopOK
<1>4. in_extract(D, h.x, h.rec, h.part)[t] > 0
  BY <1>3 DEF Occurring
<1>5. in_extract(D, h.x, h.rec, h.part)[t] \in Nat
  BY <1>1, <1>2, <1>3, Extracted, Running
<1>6. work' = [work EXCEPT ![1] = l]
  BY <1>1 DEF LoopType
<1>7. /\ l \in LoopType /\ l.kind = h.kind /\ l.x = h.x /\ l.rec = h.rec
      /\ l.id = h.id /\ l.part = h.part /\ l.last = h.last
      /\ l.terms \subseteq h.terms
  BY <1>1 DEF LoopType
<1> HIDE DEF l
<1>8. LoopOK(D, l)
  BY <1>1, <1>7 DEF LoopOK
<1>9. Ahead(D, [work EXCEPT ![1] = l])
  BY <1>1, <1>7, <1>8, EditOK DEF h
<1>10. Ahead(D, work')
  BY <1>6, <1>9, Zenon
<1>11. in_extract(D, h.x, h.rec, h.part)[t] \in Nat \ {0}
  BY <1>4, <1>5
<1> QED
  BY <1>2, <1>10, <1>11

\* The term loop of in_kwadd and in_components.
LEMMA AddTermStep ==
  ASSUME IInv, NEW t \in Term, AddTerm(t)
  PROVE  IInv'
<1> DEFINE n == in_extract(D, h.x, h.rec, h.part)[t]
           line == [x |-> h.x, t |-> t, id |-> h.id, n |-> n]
<1>1. /\ At("add") /\ t \in h.terms
      /\ UNCHANGED <<primary, cmd, ended>>
      /\ UNCHANGED <<cur, hash_tab>>
      /\ work' = [work EXCEPT ![1].terms = @ \ {t}, ![1].touched = ~cmd.batch]
      /\ IF cmd.batch THEN lines' = lines \cup {line} /\ UNCHANGED db
         ELSE SetD(AddPosting(D, h.x, t, h.id, n)) /\ UNCHANGED lines
  BY DEF AddTerm, Rest
<1>2. cmd # NULL /\ h \in LoopType /\ LoopOK(D, h) /\ h.kind = "add"
      /\ h.rec \in DOMAIN D.assoc
  BY <1>1, AtLoop
<1>3. /\ cmd \in Program_t
      /\ cmd.batch \in BOOLEAN /\ DatabaseOK(D)
      /\ \A l \in lines : l \in Line /\ LineOK(D, l)
      /\ cur \in NewInfo_t \cup {NULL} /\ NewInfoOK(D, cur)
      /\ hash_tab \subseteq Recno
  BY <1>2, Running DEF IInv
<1>4. Ahead(D, work') /\ h.x \in Index /\ n \in Nat \ {0}
  BY <1>1, <1>3, Round
<1>5. h.id \in Recno /\ (h.x # "ck" => h.id = h.rec)
  BY <1>2, <1>3, Numbered DEF LoopOK
<1>6. TrueEntry(D.assoc, h.x, t, Entry(h.id, n))
  <2> SUFFICES ASSUME h.x \in RecIndex
               PROVE  h.id \in DOMAIN D.assoc /\ n = Words[D.assoc[h.id].doc][h.x][t]
    BY DEF TrueEntry, Entry
  <2>1. h.x # "ck"
    BY Constants
  <2> QED
    BY <1>2, <1>3, <1>4, <1>5, <2>1, Extracted
<1> HIDE DEF n
<1>7. CASE cmd.batch
  <2>1. line \in Line /\ LineOK(D, line)
    BY <1>4, <1>5, <1>6 DEF Line, LineOK
  <2>2. \A l \in lines' : l \in Line /\ LineOK(D, l)
    BY <1>1, <1>3, <1>7, <2>1
  <2>3. SetD(D)
    BY <1>1, <1>2, <1>7, Untouched
  <2> QED
    BY <1>1, <1>2, <1>3, <1>4, <1>7, <2>2, <2>3, Goes
<1>8. CASE ~cmd.batch
  <2>1. Written(D, AddPosting(D, h.x, t, h.id, n), cur)
    BY <1>3, <1>4, <1>5, <1>6, AddOK
  <2> QED
    BY <1>1, <1>2, <1>4, <1>8, <2>1, Moves DEF batch
<1> QED
  BY <1>7, <1>8

\* The term loop of in_kwdel and in_comp_del.
LEMMA DelTermStep ==
  ASSUME IInv, NEW t \in Term, DelTerm(t)
  PROVE  IInv'
<1> DEFINE n == in_extract(D, h.x, h.rec, h.part)[t]
           b == h.touched \/ Reduces(D.ix[h.x][t], h.rec)
<1>1. /\ At("del") /\ t \in h.terms
      /\ UNCHANGED <<primary, cmd, ended>> /\ UNCHANGED batch
      /\ SetD(DelPosting(D, h.x, t, h.rec, n))
  BY DEF DelTerm, Rest
<1>2. cmd # NULL /\ work \in Seq(LoopType) /\ 1 \in DOMAIN work /\ work[1] = h
  BY <1>1, AtLoop
<1>3. work' = [work EXCEPT ![1].terms = @ \ {t}, ![1].touched = b]
  BY <1>2 DEF DelTerm, LoopType
<1>4. b \in BOOLEAN
  OBVIOUS
<1> HIDE DEF b
<1>5. Ahead(D, work') /\ h.x \in Index /\ n \in Nat \ {0}
  BY <1>1, <1>3, <1>4, Round
<1>6. DatabaseOK(D) /\ cur \in NewInfo_t \cup {NULL} /\ NewInfoOK(D, cur)
  BY <1>2, Running
<1> HIDE DEF n
<1>7. Written(D, DelPosting(D, h.x, t, h.rec, n), cur)
  BY <1>5, <1>6, DelOK
<1> QED
  BY <1>1, <1>2, <1>5, <1>7, Moves

\* A value of the right type goes into a function.
LEMMA ExceptOK ==
  ASSUME NEW S, NEW T, NEW f \in [S -> T], NEW i, NEW v \in T
  PROVE  [f EXCEPT ![i] = v] \in [S -> T]
  OBVIOUS

\* The end of an index in in_kwadd and in_components.
LEMMA AddDoneStep ==
  ASSUME IInv, AddDone
  PROVE  IInv'
<1> DEFINE n == IF h.touched THEN D.g[h.x].tot_numrecs + 1 ELSE D.g[h.x].tot_numrecs
           cs == IF h.x = "ck" THEN [D.comp EXCEPT ![h.id] = h.rec] ELSE D.comp
<1>1. /\ At("add") /\ work' = Tail(work)
      /\ UNCHANGED <<primary, cmd, ended>> /\ UNCHANGED batch
      /\ SetD([D EXCEPT !.g[h.x].tot_numrecs = n, !.comp = cs])
  BY DEF AddDone, Rest
<1>2. cmd # NULL /\ h \in LoopType /\ h.rec \in DOMAIN D.assoc /\ Ahead(D, Tail(work))
  BY <1>1, AtLoop
<1>3. DatabaseOK(D) /\ cur \in NewInfo_t \cup {NULL} /\ NewInfoOK(D, cur)
  BY <1>2, Running
<1>4. h.x \in Index /\ h.rec \in Recno
  BY <1>2 DEF LoopType
<1>5. D.g[h.x] \in Global /\ D.comp \in [Recno -> Recno \cup {NULL}]
  BY <1>3, <1>4, DatabaseFields DEF DatabaseOK
<1>6. n \in Int /\ cs \in [Recno -> Recno \cup {NULL}]
  <2>1. D.g[h.x].tot_numrecs \in Int
    BY <1>5 DEF Global
  <2>2. n \in Int
    BY <2>1
  <2>3. cs \in [Recno -> Recno \cup {NULL}]
    BY <1>4, <1>5, ExceptOK
  <2> QED
    BY <2>2, <2>3
<1> HIDE DEF n, cs
<1>7. Written(D, [D EXCEPT !.g[h.x].tot_numrecs = n, !.comp = cs], cur)
  BY <1>3, <1>4, <1>6, DoneOK
<1> QED
  BY <1>1, <1>2, <1>7, Moves

\* The end of an index in in_kwdel and in_comp_del.
LEMMA DelDoneStep ==
  ASSUME IInv, DelDone
  PROVE  IInv'
<1> DEFINE n == IF h.touched THEN D.g[h.x].tot_numrecs - 1 ELSE D.g[h.x].tot_numrecs
           cs == IF h.x = "ck" THEN [D.comp EXCEPT ![h.id] = NULL] ELSE D.comp
<1>1. /\ At("del") /\ work' = Tail(work)
      /\ UNCHANGED <<primary, cmd, ended>> /\ UNCHANGED batch
      /\ SetD([D EXCEPT !.g[h.x].tot_numrecs = n, !.comp = cs])
  BY DEF DelDone, Rest
<1>2. cmd # NULL /\ h \in LoopType /\ Ahead(D, Tail(work))
  BY <1>1, AtLoop
<1>3. DatabaseOK(D) /\ cur \in NewInfo_t \cup {NULL} /\ NewInfoOK(D, cur)
  BY <1>2, Running
<1>4. h.x \in Index
  BY <1>2 DEF LoopType
<1>5. D.g[h.x] \in Global /\ D.comp \in [Recno -> Recno \cup {NULL}]
  BY <1>3, <1>4, DatabaseFields DEF DatabaseOK
<1>6. n \in Int /\ cs \in [Recno -> Recno \cup {NULL}]
  <2>1. D.g[h.x].tot_numrecs \in Int
    BY <1>5 DEF Global
  <2>2. n \in Int
    BY <2>1
  <2>3. cs \in [Recno -> Recno \cup {NULL}]
    BY <1>4, <1>5, ExceptOK
  <2> QED
    BY <2>2, <2>3
<1> HIDE DEF n, cs
<1>7. Written(D, [D EXCEPT !.g[h.x].tot_numrecs = n, !.comp = cs], cur)
  BY <1>3, <1>4, <1>6, DoneOK
<1> QED
  BY <1>1, <1>2, <1>7, Moves

\* fil_del, with and without its history record.
LEMMA FilDelStep ==
  ASSUME IInv, NEW hist \in BOOLEAN, FilDel(hist)
  PROVE  IInv'
<1>1. /\ At("fil_del") /\ work' = Tail(work)
      /\ UNCHANGED <<primary, cmd, ended>> /\ UNCHANGED batch
      /\ SetD(fil_del(D, h.rec, hist))
  BY DEF FilDel
<1>2. cmd # NULL /\ h.rec \in DOMAIN D.assoc /\ Ahead(D, Tail(work))
  BY <1>1, AtLoop
<1>3. DatabaseOK(D) /\ cur \in NewInfo_t \cup {NULL} /\ NewInfoOK(D, cur)
  BY <1>2, Running
<1>4. Written(D, fil_del(D, h.rec, hist), cur)
  BY <1>2, <1>3, FilDelOK
<1> QED
  BY <1>1, <1>2, <1>4, Moves

\* A component gets the next id, and its terms are ahead.
LEMMA NextComponentStep ==
  ASSUME IInv, NextComponent
  PROVE  IInv'
<1> DEFINE words == Parts[D.assoc[h.rec].doc]
           new == D.maxcomp + 1
           ts == Occurring(words[h.part])
           a == Loop("add", "ck", h.rec, new, h.part, ts)
           b == [h EXCEPT !.part = @ + 1]
           r == [D EXCEPT !.maxcomp = new]
<1>1. /\ At("components") /\ h.part <= Len(words) /\ new \in Recno
      /\ UNCHANGED <<primary, cmd, ended>> /\ UNCHANGED batch
      /\ SetD(r)
      /\ work' = <<a, b>> \o Tail(work)
  BY DEF NextComponent, Rest
<1>2. /\ cmd # NULL /\ h \in LoopType /\ LoopOK(D, h) /\ h.kind = "components"
      /\ h.rec \in DOMAIN D.assoc
      /\ Ahead(D, Tail(work)) /\ Len(Tail(work)) = 0
  BY <1>1, AtLoop
<1>3. /\ cmd \in Program_t
      /\ DatabaseOK(D) /\ cur \in NewInfo_t \cup {NULL} /\ NewInfoOK(D, cur)
      /\ \A l \in lines : l \in Line /\ LineOK(D, l)
      /\ hash_tab \subseteq Recno
  BY <1>2, Running DEF IInv
<1>4. new \in Nat /\ h.part \in Nat /\ h.id \in Nat /\ h.rec \in Recno /\ D.maxcomp \in Nat
  BY <1>1, <1>2, <1>3, Constants, DatabaseFields DEF LoopType, DatabaseOK
<1>5. Parted(D.assoc, h.rec) = Len(words) /\ Len(words) \in Nat
  BY <1>2, <1>3, Numbered DEF Parted
<1>6. /\ h.part \in 1..Len(words)
      /\ D.maxcomp = h.id + h.part - 2
  BY <1>1, <1>2, <1>4, <1>5 DEF LoopOK
<1>7. /\ DatabaseOK(r) /\ NewInfoOK(r, cur)
      /\ r.maxcomp = new /\ r.assoc = D.assoc
  BY <1>3, <1>4, MaxcompOK
<1>8. in_extract(r, "ck", h.rec, h.part) = words[h.part]
  BY <1>7 DEF in_extract
<1>9. ts \subseteq Term
  BY DEF Occurring
<1>10. ts = Occurring(in_extract(r, "ck", h.rec, h.part))
  BY <1>8
<1>11. a = [kind |-> "add", x |-> "ck", rec |-> h.rec, id |-> new, part |-> h.part,
            terms |-> ts, last |-> 0, touched |-> FALSE]
  BY DEF Loop
<1>12. /\ b \in LoopType /\ b.kind = "components" /\ b.rec = h.rec /\ b.id = h.id
       /\ b.part = h.part + 1
  BY <1>2, <1>4 DEF LoopType
<1>13. new = D.maxcomp + 1
  OBVIOUS
<1> HIDE DEF a, b, r, ts, words, new
<1>14. /\ a \in LoopType /\ a.kind = "add" /\ a.x = "ck" /\ a.rec = h.rec /\ a.id = new
       /\ a.part = h.part /\ a.terms = ts
  BY <1>4, <1>9, <1>11, Constants DEF LoopType
<1>15. Parted(r.assoc, h.rec) = Len(words)
  BY <1>5, <1>7
<1>16. LoopOK(r, a)
  BY <1>1, <1>2, <1>6, <1>7, <1>10, <1>14, <1>15 DEF LoopOK
<1>17. LoopOK(r, b)
  BY <1>2, <1>4, <1>5, <1>6, <1>7, <1>12, <1>13, <1>15 DEF LoopOK
<1>18. Ahead(r, <<a, b>>)
  BY <1>12, <1>14, <1>16, <1>17, TwoOK
<1>19. Ahead(r, Tail(work))
  <2> DEFINE v == Tail(work)
  <2>1. v \in Seq(LoopType) /\ Len(v) = 0
    BY <1>2 DEF Ahead
  <2> HIDE DEF v
  <2>2. DOMAIN v = {}
    BY <2>1
  <2>3. Ahead(r, v)
    BY <2>1, <2>2 DEF Ahead, WorkOK
  <2> QED
    BY <2>3 DEF v
<1>20. Ahead(r, work')
  BY <1>1, <1>2, <1>18, <1>19, ConcatOK
<1>21. \A l \in lines : LineOK(r, l)
  BY <1>3, <1>7 DEF LineOK
<1> QED
  BY <1>1, <1>2, <1>3, <1>7, <1>20, <1>21, Goes DEF batch

\* The range of ids of a record is as long as the record has components.
LEMMA ComponentsDoneStep ==
  ASSUME IInv, ComponentsDone
  PROVE  IInv'
<1> DEFINE range == <<h.id, D.maxcomp>>
           r == IF h.part > 1 THEN [D EXCEPT !.compdoc[h.rec] = range] ELSE D
<1>1. /\ At("components") /\ h.part > Len(Parts[D.assoc[h.rec].doc])
      /\ work' = Tail(work)
      /\ UNCHANGED <<primary, cmd, ended>> /\ UNCHANGED batch
      /\ SetD(r)
  BY DEF ComponentsDone, Rest
<1>2. /\ cmd # NULL /\ h \in LoopType /\ LoopOK(D, h) /\ h.kind = "components"
      /\ h.rec \in DOMAIN D.assoc /\ Ahead(D, Tail(work))
  BY <1>1, AtLoop
<1>3. DatabaseOK(D) /\ cur \in NewInfo_t \cup {NULL} /\ NewInfoOK(D, cur)
  BY <1>2, Running
<1>4. /\ h.part \in Nat /\ h.id \in Nat /\ D.maxcomp \in Nat
      /\ Parted(D.assoc, h.rec) \in Nat
  BY <1>2, <1>3, DatabaseFields, Numbered DEF LoopType, DatabaseOK
<1>5. D.maxcomp - h.id < Parted(D.assoc, h.rec)
  <2>1. /\ h.part \in 1..Parted(D.assoc, h.rec) + 1
        /\ D.maxcomp = h.id + h.part - 2
    BY <1>2 DEF LoopOK
  <2> QED
    BY <1>4, <2>1
<1>6. /\ range \in (Nat \X Nat) \cup {NULL}
      /\ range[2] - range[1] < Parted(D.assoc, h.rec)
  BY <1>4, <1>5
<1> HIDE DEF range
<1>7. Written(D, [D EXCEPT !.compdoc[h.rec] = range], cur)
  BY <1>2, <1>3, <1>6, CompdocOK
<1>8. Written(D, r, cur)
  BY <1>2, <1>7, Untouched
<1> HIDE DEF r
<1> QED
  BY <1>1, <1>2, <1>8, Moves

\* The range of component ids bounds the loop of in_comp_del.
LEMMA CompDelStep ==
  ASSUME IInv, CompDel
  PROVE  IInv'
<1> DEFINE range == D.compdoc[h.rec]
           l == [Task("del_components", h.rec, range[1], 1) EXCEPT !.last = range[2]]
           r == [D EXCEPT !.compdoc[h.rec] = NULL]
<1>1. /\ At("comp_del")
      /\ UNCHANGED <<primary, cmd, ended>> /\ UNCHANGED batch
      /\ \/ work' = Tail(work) /\ UNCHANGED db
         \/ range # NULL /\ SetD(r) /\ work' = <<l>> \o Tail(work)
  BY DEF CompDel, Rest
<1>2. /\ cmd # NULL /\ h.rec \in DOMAIN D.assoc /\ Ahead(D, Tail(work))
  BY <1>1, AtLoop
<1>3. DatabaseOK(D) /\ cur \in NewInfo_t \cup {NULL} /\ NewInfoOK(D, cur)
  BY <1>2, Running
<1>4. CASE work' = Tail(work) /\ UNCHANGED db
  BY <1>1, <1>2, <1>4, Untouched, Moves
<1>5. CASE range # NULL /\ SetD(r) /\ work' = <<l>> \o Tail(work)
  <2>1. h.rec \in Recno /\ Parted(D.assoc, h.rec) \in Nat
    BY <1>2, <1>3, Numbered
  <2>2. range \in Nat \X Nat
    BY <1>3, <1>5, <2>1, DatabaseFields DEF DatabaseOK
  <2>3. range[1] \in Nat /\ range[2] \in Nat
    BY <2>2
  <2>4. range[2] - range[1] < Parted(D.assoc, h.rec)
    BY <1>3, <1>5, <2>1 DEF DatabaseOK, Ranges
  <2>5. l = [kind |-> "del_components", x |-> "ck", rec |-> h.rec, id |-> range[1],
             part |-> 1, terms |-> {}, last |-> range[2], touched |-> FALSE]
    <3> DEFINE v == Task("del_components", h.rec, range[1], 1)
               last == range[2]
    <3>1. v = [kind |-> "del_components", x |-> "ck", rec |-> h.rec, id |-> range[1],
               part |-> 1, terms |-> {}, last |-> 0, touched |-> FALSE]
      BY DEF Task, Loop
    <3>2. l = [v EXCEPT !.last = last]
      OBVIOUS
    <3> HIDE DEF v, l, last, range
    <3>3. l = [kind |-> "del_components", x |-> "ck", rec |-> h.rec, id |-> range[1],
               part |-> 1, terms |-> {}, last |-> last, touched |-> FALSE]
      BY <3>1, <3>2
    <3> QED
      BY <3>3 DEF last
  <2> HIDE DEF range, l
  <2>6. /\ l \in LoopType /\ l.kind = "del_components" /\ l.rec = h.rec
        /\ l.id = range[1] /\ l.part = 1 /\ l.last = range[2]
    BY <2>1, <2>3, <2>5, Constants DEF LoopType
  <2>7. LoopOK(D, l)
    BY <1>2, <2>1, <2>3, <2>4, <2>6 DEF LoopOK
  <2>8. Ahead(D, <<l>>) /\ NoComponents(<<l>>)
    BY <2>6, <2>7, OneOK
  <2>9. Ahead(D, work')
    BY <1>1, <1>2, <1>5, <2>8, ConcatOK
  <2>10. Written(D, r, cur)
    BY <1>2, <1>3, CompdocOK
  <2> HIDE DEF r
  <2> QED
    BY <1>1, <1>2, <1>5, <2>9, <2>10, Moves
<1> QED
  BY <1>1, <1>4, <1>5

\* in_comp_del stays within the components of the record.
LEMMA DelComponentStep ==
  ASSUME IInv, DelComponent
  PROVE  IInv'
<1> DEFINE ts == Occurring(in_extract(D, "ck", h.rec, h.part))
           a == Loop("del", "ck", h.rec, h.id, h.part, ts)
           b == [h EXCEPT !.id = @ + 1, !.part = @ + 1]
<1>1. /\ At("del_components")
      /\ UNCHANGED <<primary, cmd, ended>> /\ UNCHANGED batch /\ UNCHANGED db
      /\ work' = IF h.id > h.last THEN Tail(work) ELSE <<a, b>> \o Tail(work)
  BY DEF DelComponent, Rest
<1>2. /\ cmd # NULL /\ h \in LoopType /\ LoopOK(D, h) /\ h.kind = "del_components"
      /\ h.rec \in DOMAIN D.assoc /\ Ahead(D, Tail(work))
  BY <1>1, AtLoop
<1>3. SetD(D) /\ Written(D, D, cur)
  BY <1>1, <1>2, Untouched
<1>4. CASE h.id > h.last
  BY <1>1, <1>2, <1>3, <1>4, Moves
<1>5. CASE ~(h.id > h.last)
  <2>1. /\ h.id \in Nat /\ h.last \in Nat /\ h.part \in Nat /\ h.rec \in Recno
        /\ Parted(D.assoc, h.rec) \in Nat
    BY <1>2, Running, Numbered DEF LoopType
  <2>2. h.part >= 1 /\ h.last - h.id + h.part <= Parted(D.assoc, h.rec)
    BY <1>2 DEF LoopOK
  <2>3. h.part \in 1..Parted(D.assoc, h.rec)
    BY <1>5, <2>1, <2>2
  <2>4. ts \subseteq Term
    BY DEF Occurring
  <2>5. a = [kind |-> "del", x |-> "ck", rec |-> h.rec, id |-> h.id, part |-> h.part,
             terms |-> ts, last |-> 0, touched |-> FALSE]
    BY DEF Loop
  <2>6. /\ b \in LoopType /\ b.kind = "del_components" /\ b.rec = h.rec
        /\ b.id = h.id + 1 /\ b.part = h.part + 1 /\ b.last = h.last
    <3> DEFINE i == h.id + 1
               k == h.part + 1
    <3>1. i \in Nat /\ k \in Nat
      BY <2>1
    <3>2. b = [h EXCEPT !.id = i, !.part = k]
      BY <1>2 DEF LoopType
    <3> HIDE DEF b, i, k
    <3>3. /\ b \in LoopType /\ b.kind = "del_components" /\ b.rec = h.rec
          /\ b.id = i /\ b.part = k /\ b.last = h.last
      BY <1>2, <3>1, <3>2 DEF LoopType
    <3> QED
      BY <3>3 DEF i, k
  <2>7. ts = Occurring(in_extract(D, "ck", h.rec, h.part))
    OBVIOUS
  <2> HIDE DEF a, b, ts
  <2>8. /\ a \in LoopType /\ a.kind = "del" /\ a.x = "ck" /\ a.rec = h.rec
        /\ a.part = h.part /\ a.terms = ts
    BY <2>1, <2>4, <2>5, Constants DEF LoopType
  <2>9. LoopOK(D, a)
    BY <1>2, <2>3, <2>7, <2>8 DEF LoopOK
  <2>10. LoopOK(D, b)
    BY <1>2, <2>1, <2>2, <2>6 DEF LoopOK
  <2>11. Ahead(D, <<a, b>>) /\ NoComponents(<<a, b>>)
    BY <2>6, <2>8, <2>9, <2>10, TwoOK
  <2>12. work' = <<a, b>> \o Tail(work)
    BY <1>1, <1>5
  <2>13. Ahead(D, work')
    BY <1>2, <2>11, <2>12, ConcatOK
  <2> QED
    BY <1>1, <1>2, <1>3, <2>13, Moves
<1> QED
  BY <1>4, <1>5

\* The loops together.
LEMMA StepOK ==
  ASSUME IInv, Step
  PROVE  IInv'
  BY AddTermStep, DelTermStep, AddDoneStep, DelDoneStep, FilDelStep,
     NextComponentStep, ComponentsDoneStep, CompDelStep, DelComponentStep DEF Step

-----------------------------------------------------------------------------
(* The load and its records.                                               *)

\* A load that is between loops.
LEMMA AtRecord ==
  ASSUME IInv, Loading
  PROVE  cmd # NULL /\ cmd \in Load_t /\ work = <<>>
<1>1. cmd # NULL /\ cmd.prog = "load" /\ work = <<>> /\ cmd \in Program_t
  BY Running DEF Loading
<1> QED
  BY <1>1 DEF Program_t, Load_t, Delete_t

\* A step of a load that leaves the files and the batch alone.
LEMMA LoadGoes ==
  ASSUME IInv, cmd # NULL, UNCHANGED <<primary, db, ended>>, UNCHANGED batch,
         cmd' \in Load_t, cmd'.file = cmd.file, cmd'.batch = cmd.batch,
         Ahead(D, work')
  PROVE  IInv'
<1>1. /\ DatabaseOK(D)
      /\ \A l \in lines : l \in Line /\ LineOK(D, l)
      /\ cur \in NewInfo_t \cup {NULL} /\ NewInfoOK(D, cur)
      /\ hash_tab \subseteq Recno
  BY Running DEF IInv
<1>2. SetD(D)
  BY Untouched
<1>3. cmd' \in Program_t
  BY DEF Program_t
<1> QED
  BY <1>1, <1>2, <1>3, Goes DEF batch

\* in_kwadd returns.
LEMMA ReturnedOK ==
  ASSUME NEW c \in Load_t, NEW rc \in -2..1 \cup {NULL}
  PROVE  /\ [c EXCEPT !.rc = rc] \in Load_t
         /\ [c EXCEPT !.rc = rc].file = c.file
         /\ [c EXCEPT !.rc = rc].batch = c.batch
  BY DEF Load_t

\* The record that in_kwadd replaces is in the associator.
LEMMA OldRecord ==
  ASSUME NEW d, DatabaseOK(d), NEW t \in Term, d.ix["pk"][t] # NULL
  PROVE  d.ix["pk"][t].entries[1].rec \in DOMAIN d.assoc
<1> DEFINE p == d.ix["pk"][t]
<1>1. "pk" \in Index /\ "pk" \in RecIndex
  BY DEF Index, RecIndex
<1>2. TruePosting(d.assoc, "pk", t, p)
  BY <1>1 DEF DatabaseOK, Lists
<1>3. p \in Posting
  BY <1>1, DatabaseFields DEF DatabaseOK
<1> HIDE DEF p
<1>4. p.entries \in Seq(Ent)
  BY <1>3, PostingFields
<1>5. 1 \in DOMAIN p.entries
  BY <1>2, <1>4 DEF TruePosting
<1>6. p.entries[1].rec \in DOMAIN d.assoc
  BY <1>1, <1>2, <1>5 DEF TruePosting, TrueEntry
<1> QED
  BY <1>6 DEF p

\* What reading a record comes to.
LEMMA Reading ==
  ASSUME NEW d, NEW i, NEW got \in GetSGML(d, i)
  PROVE  /\ got \in {"doc", "parse_error", "deleted", "error"}
         /\ got = "doc" => i \in DOMAIN d.assoc
  BY DEF GetSGML

\* in_kwadd returns without loops.
LEMMA ReturnedStep ==
  ASSUME IInv, Loading, UNCHANGED <<primary, db, ended>>, UNCHANGED batch,
         NEW rc \in -2..1, Returned(rc)
  PROVE  IInv'
<1>1. cmd # NULL /\ cmd \in Load_t /\ work = <<>>
  BY AtRecord
<1>2. cmd' = [cmd EXCEPT !.rc = rc] /\ work' = <<>>
  BY <1>1 DEF Returned
<1>3. cmd' \in Load_t /\ cmd'.file = cmd.file /\ cmd'.batch = cmd.batch
  BY <1>1, <1>2, ReturnedOK
<1>4. Ahead(D, work')
  BY <1>2, NothingAhead
<1> QED
  BY <1>1, <1>3, <1>4, LoadGoes

\* in_kwadd has its loops ahead, after those that replace a record.
LEMMA IndexesStep ==
  ASSUME IInv, Loading, UNCHANGED <<primary, db, ended>>, UNCHANGED batch,
         cmd.i \in DOMAIN D.assoc, NEW old \in SUBSET DOMAIN D.assoc, Indexes(old)
  PROVE  IInv'
<1> DEFINE v == IF old = {} THEN <<>> ELSE Replace(D, CHOOSE r \in old : TRUE)
           w == in_kwadd(D, cmd.i)
<1>1. cmd # NULL /\ cmd \in Load_t
  BY AtRecord
<1>2. DatabaseOK(D)
  BY <1>1, Running
<1>3. cmd' = [cmd EXCEPT !.rc = 1, !.indexed = TRUE] /\ work' = v \o w
  BY DEF Indexes
<1>4. cmd' \in Load_t /\ cmd'.file = cmd.file /\ cmd'.batch = cmd.batch
  <2> DEFINE rc == 1
             yes == TRUE
  <2>1. rc \in -2..1 /\ yes \in BOOLEAN
    OBVIOUS
  <2>2. cmd' = [cmd EXCEPT !.rc = rc, !.indexed = yes]
    BY <1>3
  <2> HIDE DEF rc, yes, v, w
  <2> QED
    BY <1>1, <2>1, <2>2 DEF Load_t
<1>5. Ahead(D, v) /\ NoComponents(v)
  <2>1. CASE old = {}
    <3>1. v = <<>>
      BY <2>1
    <3>2. Ahead(D, <<>>) /\ NoComponents(<<>>)
      BY NothingAhead DEF NoComponents
    <3> HIDE DEF v, w
    <3> QED
      BY <3>1, <3>2
  <2>2. CASE old # {}
    <3> DEFINE r == CHOOSE q \in old : TRUE
    <3>1. r \in DOMAIN D.assoc
      BY <2>2
    <3>2. v = Replace(D, r)
      BY <2>2
    <3> HIDE DEF r, v
    <3> QED
      BY <1>2, <3>1, <3>2, ReplaceOK
  <2> QED
    BY <2>1, <2>2
<1>6. Ahead(D, w)
  BY <1>2, KwaddOK
<1> HIDE DEF v, w
<1>7. Ahead(D, work')
  BY <1>3, <1>5, <1>6, ConcatOK
<1> QED
  BY <1>1, <1>4, <1>7, LoadGoes

\* in_kwadd up to its loops.
LEMMA KwAddStep ==
  ASSUME IInv, KwAdd
  PROVE  IInv'
<1> DEFINE found == IF cmd.batch \/ primary = "none" THEN {}
                    ELSE PrimaryEntry(D, cmd.i)
           old == {p.entries[1].rec : p \in {q \in found : Len(q.entries) = 1}}
<1>1. Loading /\ UNCHANGED <<primary, db, ended>> /\ UNCHANGED batch
  BY DEF KwAdd
<1>2. PICK got \in GetSGML(D, cmd.i) :
        IF got # "doc"
        THEN Returned(CASE got = "parse_error" -> -2
                        [] got = "deleted" -> 1
                        [] got = "error" -> -1)
        ELSE IF primary = "ignore" /\ found # {} THEN Returned(1)
        ELSE IF \E r \in old : r > cmd.i THEN Returned(0) ELSE Indexes(old)
  BY DEF KwAdd
<1>3. cmd # NULL /\ DatabaseOK(D)
  BY <1>1, AtRecord, Running
<1>4. \A p \in found : \E t \in Term : p = D.ix["pk"][t] /\ p # NULL
  BY DEF PrimaryEntry, Occurring
<1>5. old \in SUBSET DOMAIN D.assoc
  BY <1>3, <1>4, OldRecord
<1> HIDE DEF old, found
<1>6. CASE got # "doc"
  <2> DEFINE rc == CASE got = "parse_error" -> -2
                     [] got = "deleted" -> 1
                     [] got = "error" -> -1
  <2>1. Returned(rc)
    BY <1>2, <1>6
  <2>2. rc \in -2..1
    BY <1>6, Reading
  <2> HIDE DEF rc
  <2> QED
    BY <1>1, <2>1, <2>2, ReturnedStep
<1>7. CASE got = "doc"
  <2>1. cmd.i \in DOMAIN D.assoc
    BY <1>7, Reading
  <2>2. Returned(1) \/ Returned(0) \/ Indexes(old)
    BY <1>2, <1>7
  <2>3. 0 \in -2..1 /\ 1 \in -2..1
    OBVIOUS
  <2>4. CASE Indexes(old)
    BY <1>1, <1>5, <2>1, <2>4, IndexesStep
  <2>5. CASE Returned(0)
    BY <1>1, <2>3, <2>5, ReturnedStep
  <2>6. CASE Returned(1)
    BY <1>1, <2>3, <2>6, ReturnedStep
  <2> QED
    BY <2>2, <2>4, <2>5, <2>6
<1> QED
  BY <1>6, <1>7

\* main goes on with the next record.
LEMMA NextRecordStep ==
  ASSUME IInv, NextRecord
  PROVE  IInv'
<1> DEFINE i == cmd.i + 1
           read == IF cmd.indexed /\ cmd.batch THEN cmd.read \cup {cmd.i} ELSE cmd.read
           last == cmd.i
<1>1. /\ Loading /\ UNCHANGED <<primary, db, ended>> /\ UNCHANGED batch
      /\ work' = work
      /\ cmd' = [cmd EXCEPT !.last_rec_proc = cmd.i, !.i = @ + 1, !.rc = NULL,
                            !.indexed = FALSE,
                            !.read = IF cmd.indexed /\ cmd.batch
                                     THEN @ \cup {cmd.i} ELSE @]
  BY DEF NextRecord
<1>2. cmd # NULL /\ cmd \in Load_t /\ work = <<>>
  BY <1>1, AtRecord
<1>3. cmd.i \in Nat /\ cmd.read \in SUBSET Nat
  BY <1>2 DEF Load_t
<1>4. i \in Nat /\ last \in Int /\ read \in SUBSET Nat
  BY <1>3
<1>5. cmd' = [cmd EXCEPT !.last_rec_proc = last, !.i = i, !.rc = NULL,
                         !.indexed = FALSE, !.read = read]
  BY <1>1, <1>2 DEF Load_t
<1> HIDE DEF i, last, read
<1>6. cmd' \in Load_t /\ cmd'.file = cmd.file /\ cmd'.batch = cmd.batch
  BY <1>2, <1>4, <1>5 DEF Load_t
<1>7. Ahead(D, work')
  BY <1>1, <1>2, NothingAhead
<1> QED
  BY <1>1, <1>2, <1>6, <1>7, LoadGoes

\* A program ends, and its loops with it.
LEMMA Ends ==
  ASSUME IInv, primary' = primary, db' = db, cmd' = NULL, work' = <<>>,
         \/ ended' = "error" /\ UNCHANGED batch
         \/ /\ ended' \in {"done", "interrupted"}
            /\ lines' = {} /\ cur' = NULL /\ hash_tab' \subseteq Recno
  PROVE  IInv'
<1>1. /\ primary \in Primaries
      /\ db \in [File -> Database]
      /\ lines \subseteq Line
      /\ cur \in NewInfo_t \cup {NULL}
      /\ hash_tab \subseteq Recno
      /\ \A f \in File : DatabaseOK(db[f])
  BY DEF IInv
<1>2. <<>> \in Seq(LoopType)
  OBVIOUS
<1> QED
  BY <1>1, <1>2 DEF IInv, Idle, Direct, batch

\* main exits in the middle of a file.
LEMMA LoadExitsStep ==
  ASSUME IInv, LoadExits
  PROVE  IInv'
  BY Ends, AtRecord DEF LoadExits

\* delete_recs ends; it never had a batch file.
LEMMA DeleteDoneStep ==
  ASSUME IInv, DeleteDone
  PROVE  IInv'
<1>1. /\ cmd # NULL /\ cmd.prog = "delete" /\ work = <<>>
      /\ cmd' = NULL /\ ended' = "done"
      /\ primary' = primary /\ db' = db /\ work' = work
      /\ UNCHANGED batch
  BY DEF DeleteDone
<1>2. cmd \in Program_t
  BY <1>1, Running
<1>3. Direct
  BY <1>1, <1>2 DEF Direct, Program_t, Load_t, Delete_t
<1>4. lines = {} /\ cur = NULL /\ hash_tab \subseteq Recno
  BY <1>3 DEF IInv
<1> QED
  BY <1>1, <1>4, Ends DEF batch

\* scram: nothing in memory survives, and the files are right.
LEMMA InterruptStep ==
  ASSUME IInv, Interrupt
  PROVE  IInv'
<1>1. /\ primary' = primary /\ db' = db /\ cmd' = NULL /\ work' = <<>>
      /\ ended' = "interrupted" /\ lines' = {} /\ cur' = NULL /\ hash_tab' = {}
  BY DEF Interrupt
<1> QED
  BY <1>1, Ends

\* A program starts, or goes on with another file, with nothing batched.
LEMMA Starts ==
  ASSUME IInv, primary' = primary, db' = db, ended' = ended,
         lines' = {}, cur' = NULL, hash_tab' \subseteq Recno,
         cmd' \in Program_t, Ahead(db[cmd'.file], work')
  PROVE  IInv'
<1>1. /\ primary \in Primaries
      /\ db \in [File -> Database]
      /\ ended \in {"done", "interrupted", "error"}
      /\ \A f \in File : DatabaseOK(db[f])
  BY DEF IInv
<1>2. D' = db[cmd'.file]
  BY DEF D
<1>3. ProgramOK'
  BY <1>2 DEF ProgramOK, Ahead, NewInfoOK
<1>4. cmd' # NULL
  BY Constants
<1> QED
  BY <1>1, <1>3, <1>4 DEF IInv, Ahead

\* The next file of a load, or its end.
LEMMA FileDoneStep ==
  ASSUME IInv, FileDone
  PROVE  IInv'
<1> DEFINE f == cmd.file + 1
           max == Len(db[f].assoc) + cmd.extra
           start == cmd.start
<1>1. /\ Loading /\ lines = {} /\ cur = NULL /\ hash_tab' = {}
      /\ primary' = primary /\ db' = db /\ work' = work
      /\ lines' = lines /\ cur' = cur
  BY DEF FileDone
<1>2. cmd # NULL /\ cmd \in Load_t /\ work = <<>>
  BY <1>1, AtRecord
<1>3. CASE cmd.file < NFiles
  <2>1. /\ ended' = ended
        /\ cmd' = [cmd EXCEPT !.file = f, !.i = start, !.read = {}, !.max = max]
    BY <1>2, <1>3 DEF FileDone, Load_t
  <2>2. /\ f \in File /\ cmd.extra \in Nat /\ start \in Nat
    BY <1>2, <1>3, Constants DEF Load_t, File
  <2>3. db[f] \in Database
    BY <2>2 DEF IInv
  <2>4. Len(db[f].assoc) \in Nat
    BY <2>3, DatabaseFields
  <2>5. max \in Nat
    BY <2>2, <2>4
  <2> HIDE DEF f, max, start
  <2>6. cmd' \in Load_t
    BY <1>2, <2>1, <2>2, <2>5 DEF Load_t
  <2>7. Ahead(db[cmd'.file], work')
    BY <1>1, <1>2, NothingAhead
  <2>8. cmd' \in Program_t
    BY <2>6 DEF Program_t
  <2> QED
    BY <1>1, <2>1, <2>7, <2>8, Starts
<1>4. CASE ~(cmd.file < NFiles)
  <2>1. cmd' = NULL /\ ended' = "done"
    BY <1>4 DEF FileDone
  <2> QED
    BY <1>1, <1>2, <2>1, Ends
<1> QED
  BY <1>3, <1>4

\* index_cheshire starts.
LEMMA LoadStep ==
  ASSUME IInv, NEW s \in 1..MaxRecs + 1, NEW e \in 0..1, NEW b \in BOOLEAN,
         Load(s, e, b)
  PROVE  IInv'
<1> DEFINE max == Len(db[1].assoc) + e
           last == s - 1
<1>1. /\ Idle
      /\ primary' = primary /\ db' = db /\ work' = work /\ ended' = ended
      /\ UNCHANGED batch
      /\ cmd' = [prog |-> "load", file |-> 1, start |-> s, i |-> s, max |-> max,
                 extra |-> e, batch |-> b, rc |-> NULL, indexed |-> FALSE,
                 read |-> {}, last_rec_proc |-> last]
  BY DEF Load
<1>2. lines = {} /\ cur = NULL /\ hash_tab \subseteq Recno /\ work = <<>>
  BY <1>1 DEF IInv, Idle
<1>3. 1 \in File /\ s \in Nat /\ e \in Nat /\ last \in Int
  BY Constants DEF File
<1>4. db[1] \in Database
  BY <1>3 DEF IInv
<1>5. Len(db[1].assoc) \in Nat
  BY <1>4, DatabaseFields
<1>6. max \in Nat
  BY <1>3, <1>5
<1> HIDE DEF max, last
<1>7. cmd' \in Load_t
  BY <1>1, <1>3, <1>6 DEF Load_t
<1>8. Ahead(db[cmd'.file], work')
  BY <1>1, <1>2, NothingAhead
<1>9. cmd' \in Program_t
  BY <1>7 DEF Program_t
<1> QED
  BY <1>1, <1>2, <1>8, <1>9, Starts DEF batch

\* delete_recs starts.
LEMMA DeleteStep ==
  ASSUME IInv, NEW f \in File, NEW i \in Recno, Delete(f, i)
  PROVE  IInv'
<1> DEFINE w == in_kwdel(db[f], i) \o <<Task("comp_del", i, i, 0),
                                        Task("fil_del", i, i, 0)>>
<1>1. /\ Idle /\ i \in DOMAIN db[f].assoc
      /\ primary' = primary /\ db' = db /\ ended' = ended
      /\ UNCHANGED batch
      /\ cmd' = [prog |-> "delete", file |-> f, i |-> i, batch |-> FALSE]
      /\ work' = w
  BY DEF Delete
<1>2. lines = {} /\ cur = NULL /\ hash_tab \subseteq Recno /\ DatabaseOK(db[f])
  BY <1>1 DEF IInv
<1>3. i \in Nat
  BY Constants
<1>4. cmd' \in Delete_t /\ cmd'.file = f
  BY <1>1, <1>3 DEF Delete_t
<1>5. Ahead(db[f], w)
  BY <1>1, <1>2, DeleteLoopsOK
<1> HIDE DEF w
<1>6. Ahead(db[cmd'.file], work')
  BY <1>1, <1>4, <1>5
<1>7. cmd' \in Program_t
  BY <1>4 DEF Program_t
<1> QED
  BY <1>1, <1>2, <1>6, <1>7, Starts DEF batch

\* A record is added between programs.
LEMMA AddRecordStep ==
  ASSUME IInv, NEW f \in File, NEW c \in Doc, AddRecord(f, c)
  PROVE  IInv'
<1> DEFINE d == fil_add(db[f], c)
<1>1. /\ Idle /\ Len(db[f].assoc) < MaxRecs
      /\ db' = [db EXCEPT ![f] = d]
      /\ UNCHANGED <<primary, cmd, work, ended>> /\ UNCHANGED batch
  BY DEF AddRecord
<1>2. DatabaseOK(db[f]) /\ db \in [File -> Database]
  BY DEF IInv
<1>3. DatabaseOK(d)
  BY <1>1, <1>2, FilAddOK
<1> HIDE DEF d
<1>4. /\ db' \in [File -> Database]
      /\ \A g \in File : db'[g] = IF g = f THEN d ELSE db[g]
  BY <1>1, <1>2, <1>3 DEF DatabaseOK
<1>5. \A g \in File : DatabaseOK(db'[g])
  BY <1>3, <1>4 DEF IInv
<1> QED
  BY <1>1, <1>4, <1>5 DEF IInv, Idle, Direct, batch

-----------------------------------------------------------------------------
(* in_batch_load.                                                          *)

\* The occurrences of a term are counted.
LEMMA CountedOK ==
  ASSUME NEW d, DatabaseOK(d), NEW x \in Index, NEW n \in Nat, NEW new \in BOOLEAN
  PROVE  LET r == Counted(d, x, n, new)
         IN  /\ DatabaseOK(r) /\ CountedIs(d, r, x, new)
             /\ Grown(d.assoc, r.assoc) /\ r.maxcomp = d.maxcomp
             /\ \A c \in NewInfo_t \cup {NULL} : NewInfoOK(d, c) => NewInfoOK(r, c)
<1> DEFINE r == Counted(d, x, n, new)
<1>1. d \in Database
  BY DEF DatabaseOK
<1>2. CountedIs(d, r, x, new)
  BY <1>1, CountedFields
<1> HIDE DEF r
<1>3. /\ r \in Database /\ r.assoc = d.assoc /\ r.ix = d.ix
      /\ r.maxcomp = d.maxcomp /\ r.compdoc = d.compdoc
      /\ \A y \in Index :
           r.g[y].recptr = IF y = x /\ new THEN d.g[y].recptr + 1 ELSE d.g[y].recptr
  BY <1>2 DEF CountedIs
<1>4. Grown(d.assoc, r.assoc) /\ Len(r.assoc) <= MaxRecs
  BY <1>3 DEF Grown, DatabaseOK
<1>5. Ranges(r)
  BY <1>3, <1>4, RangesKept DEF DatabaseOK
<1>6. \A y \in Index : d.g[y].recptr \in Nat
  BY <1>1, DatabaseFields
<1>7. Handed(d, r)
  BY <1>3, <1>6 DEF Handed
<1> QED
  BY <1>2, <1>3, <1>4, <1>5, <1>7, FrameOK DEF r

\* A step of in_batch_load: a line less, and everything else right.
LEMMA BatchGoes ==
  ASSUME IInv, cmd # NULL, cmd.batch, UNCHANGED <<primary, cmd, ended>>,
         lines' \subseteq lines, hash_tab' \subseteq Recno,
         NEW r, SetD(r), DatabaseOK(r), Grown(D.assoc, r.assoc),
         r.maxcomp = D.maxcomp, Ahead(r, work'),
         cur' \in NewInfo_t \cup {NULL}, NewInfoOK(r, cur')
  PROVE  IInv'
<1>1. cmd \in Program_t /\ \A l \in lines : l \in Line /\ LineOK(D, l)
  BY Running
<1>2. \A l \in lines' : l \in Line /\ LineOK(r, l)
  BY <1>1, AheadKept
<1> QED
  BY <1>1, <1>2, Goes

\* A batch load between two lines.
LEMMA AtLine ==
  ASSUME IInv, InBatch
  PROVE  /\ cmd # NULL /\ cmd.batch /\ work = <<>> /\ DatabaseOK(D)
         /\ \A l \in lines : /\ l.x \in Index /\ l.t \in Term /\ l.id \in Recno
                              /\ l.n \in Nat \ {0}
                              /\ TrueEntry(D.assoc, l.x, l.t, Entry(l.id, l.n))
         /\ cur \in NewInfo_t \cup {NULL} /\ NewInfoOK(D, cur)
         /\ hash_tab \subseteq Recno
         /\ SetD(D) \/ db' # db
<1>1. cmd # NULL /\ cmd.batch /\ work = <<>>
  BY AtRecord DEF InBatch
<1>2. /\ DatabaseOK(D) /\ cur \in NewInfo_t \cup {NULL} /\ NewInfoOK(D, cur)
      /\ \A l \in lines : l \in Line /\ LineOK(D, l)
  BY <1>1, Running
<1>3. SetD(D) \/ db' # db
  BY <1>1, Untouched
<1>4. hash_tab \subseteq Recno
  BY DEF IInv
<1> QED
  BY <1>1, <1>2, <1>3, <1>4 DEF Line, LineOK

\* newinfo is a posting with a term id of its own.
LEMMA NewInfoIs ==
  ASSUME NEW d, NEW c \in NewInfo_t, NewInfoOK(d, c), c # NULL
  PROVE  /\ c.x \in Index /\ c.t \in Term /\ c.p \in Posting
         /\ c.p.termid \in Nat /\ c.p.entries \in Seq(Ent)
         /\ TruePosting(d.assoc, c.x, c.t, c.p)
         /\ OwnId(d, d, c.x, c.t, c.p)
<1>1. c.x \in Index /\ c.t \in Term /\ c.p \in Posting
  BY DEF NewInfo_t
<1> QED
  BY <1>1, PostingFields DEF NewInfoOK, OwnId

\* newinfo goes into the index.
LEMMA FlushedOK ==
  ASSUME IInv, InBatch
  PROVE  /\ DatabaseOK(Flushed) /\ Grown(D.assoc, Flushed.assoc)
         /\ Flushed.assoc = D.assoc /\ Flushed.maxcomp = D.maxcomp
<1>1. DatabaseOK(D) /\ cur \in NewInfo_t \cup {NULL} /\ NewInfoOK(D, cur)
  BY AtLine
<1>2. CASE cur = NULL
  BY <1>1, <1>2 DEF Flushed, Grown
<1>3. CASE cur # NULL
  <2> DEFINE r == PutPosting(D, cur.x, cur.t, cur.p)
  <2>1. /\ cur.x \in Index /\ cur.t \in Term /\ cur.p \in Posting
        /\ TruePosting(D.assoc, cur.x, cur.t, cur.p)
        /\ OwnId(D, D, cur.x, cur.t, cur.p)
    BY <1>1, <1>3, NewInfoIs
  <2>2. D \in Database
    BY <1>1 DEF DatabaseOK
  <2>3. Put(D, r, cur.x, cur.t, cur.p) /\ r.g = D.g
    BY <2>1, <2>2, PutFields
  <2>4. Flushed = r
    BY <1>3 DEF Flushed
  <2> HIDE DEF r
  <2>5. Handed(D, r)
    BY <2>2, <2>3, DatabaseFields DEF Handed
  <2>6. OwnId(D, r, cur.x, cur.t, cur.p)
    BY <2>1, <2>3 DEF OwnId
  <2>7. DatabaseOK(r)
    BY <1>1, <2>1, <2>3, <2>5, <2>6, PutOK
  <2>8. r.assoc = D.assoc /\ r.maxcomp = D.maxcomp
    BY <2>3 DEF Put
  <2> QED
    BY <2>4, <2>7, <2>8 DEF Grown
<1> QED
  BY <1>2, <1>3

\* The last key of an index.
LEMMA BatchFlushStep ==
  ASSUME IInv, InBatch, BatchFlush
  PROVE  IInv'
<1>1. /\ SetD(Flushed) /\ cur' = NULL
      /\ UNCHANGED <<primary, cmd, ended>>
      /\ lines' = lines /\ hash_tab' = hash_tab /\ work' = work
  BY DEF BatchFlush, Rest
<1>2. cmd # NULL /\ cmd.batch /\ work = <<>> /\ hash_tab \subseteq Recno
  BY AtLine
<1>3. /\ DatabaseOK(Flushed) /\ Grown(D.assoc, Flushed.assoc)
      /\ Flushed.maxcomp = D.maxcomp
  BY FlushedOK
<1>4. Ahead(Flushed, work') /\ NewInfoOK(Flushed, cur')
  BY <1>1, <1>2, NothingAhead DEF NewInfoOK
<1>5. lines' \subseteq lines /\ hash_tab' \subseteq Recno /\ cur' \in NewInfo_t \cup {NULL}
  BY <1>1, <1>2
<1> QED
  BY <1>1, <1>2, <1>3, <1>4, <1>5, BatchGoes

\* The line of a record that was superseded.
LEMMA BatchSkipStep ==
  ASSUME IInv, InBatch, NEW l \in lines, BatchSkip(l)
  PROVE  IInv'
<1>1. /\ db' = db /\ cur' = cur /\ UNCHANGED <<primary, cmd, ended>>
      /\ lines' \subseteq lines /\ hash_tab' = hash_tab /\ work' = work
  BY DEF BatchSkip, Rest
<1>2. /\ cmd # NULL /\ cmd.batch /\ work = <<>> /\ hash_tab \subseteq Recno
      /\ DatabaseOK(D) /\ SetD(D)
      /\ cur \in NewInfo_t \cup {NULL} /\ NewInfoOK(D, cur)
  BY <1>1, AtLine
<1>3. Ahead(D, work') /\ Grown(D.assoc, D.assoc)
  BY <1>1, <1>2, NothingAhead DEF Grown
<1> QED
  BY <1>1, <1>2, <1>3, BatchGoes

\* The list of the key gets an entry.
LEMMA SameKeyExtends ==
  ASSUME IInv, InBatch, NEW l \in lines, cur # NULL, l.x = cur.x, l.t = cur.t,
         UNCHANGED <<primary, cmd, ended>>, lines' = lines \ {l},
         work' = work, hash_tab' = hash_tab,
         cur' = [cur EXCEPT !.p = Extended(@, l.id, l.n)],
         SetD(Counted(D, l.x, l.n, FALSE))
  PROVE  IInv'
<1> DEFINE no == FALSE
           n == l.n
           r == Counted(D, l.x, n, no)
           q == Extended(cur.p, l.id, n)
<1>1. /\ cmd # NULL /\ cmd.batch /\ work = <<>> /\ hash_tab \subseteq Recno
      /\ DatabaseOK(D) /\ NewInfoOK(D, cur)
      /\ l.x \in Index /\ l.t \in Term /\ l.id \in Recno /\ n \in Nat \ {0}
      /\ TrueEntry(D.assoc, l.x, l.t, Entry(l.id, n))
  BY AtLine
<1>2. cur \in NewInfo_t
  BY AtLine
<1>3. /\ cur.p \in Posting /\ TruePosting(D.assoc, cur.x, cur.t, cur.p)
      /\ OwnId(D, D, cur.x, cur.t, cur.p)
  BY <1>1, <1>2, NewInfoIs
<1>4. SetD(r) /\ no \in BOOLEAN /\ n \in Nat
  BY <1>1
<1>5. cur' = [cur EXCEPT !.p = q]
  BY <1>2 DEF NewInfo_t
<1>6. /\ q \in Posting /\ q.termid = cur.p.termid
      /\ TruePosting(D.assoc, cur.x, cur.t, q)
  BY <1>1, <1>3, ExtendedFields, ExtendedTrue
<1> HIDE DEF no, n, q
<1>7. /\ DatabaseOK(r) /\ Grown(D.assoc, r.assoc) /\ r.maxcomp = D.maxcomp
      /\ \A c \in NewInfo_t \cup {NULL} : NewInfoOK(D, c) => NewInfoOK(r, c)
  BY <1>1, <1>4, CountedOK
<1> HIDE DEF r
<1>8. /\ cur' \in NewInfo_t /\ cur'.x = cur.x /\ cur'.t = cur.t /\ cur'.p = q
  BY <1>2, <1>5, <1>6 DEF NewInfo_t
<1>9. NewInfoOK(D, cur')
  BY <1>3, <1>6, <1>8 DEF NewInfoOK, OwnId
<1>10. NewInfoOK(r, cur') /\ cur' \in NewInfo_t \cup {NULL}
  BY <1>7, <1>8, <1>9
<1>11. Ahead(r, work') /\ lines' \subseteq lines /\ hash_tab' \subseteq Recno
  BY <1>1, NothingAhead
<1> QED
  BY <1>1, <1>4, <1>7, <1>10, <1>11, BatchGoes

\* The first entry of a list is exchanged.
LEMMA Exchanged ==
  ASSUME NEW a, NEW x, NEW t, NEW c \in NewInfo_t, TruePosting(a, x, t, c.p),
         NEW e \in Ent, TrueEntry(a, x, t, e)
  PROVE  LET b == [c EXCEPT !.p.entries[1] = e]
         IN  /\ b \in NewInfo_t /\ b.x = c.x /\ b.t = c.t
             /\ b.p.termid = c.p.termid
             /\ TruePosting(a, x, t, b.p)
<1> DEFINE list == [c.p.entries EXCEPT ![1] = e]
           q == [c.p EXCEPT !.entries = list]
           b == [c EXCEPT !.p.entries[1] = e]
<1>1. c.p \in Posting
  BY DEF NewInfo_t
<1>2. c.p.entries \in Seq(Ent) /\ c.p.entries # <<>>
  BY <1>1, PostingFields DEF TruePosting
<1>3. /\ list \in Seq(Ent) /\ list # <<>> /\ DOMAIN list = DOMAIN c.p.entries
      /\ \A i \in DOMAIN list : list[i] = e \/ list[i] = c.p.entries[i]
  BY <1>2
<1>4. b = [c EXCEPT !.p = q]
  BY <1>1 DEF NewInfo_t, Posting
<1> HIDE DEF list, b
<1>5. q \in Posting /\ q.entries = list /\ q.termid = c.p.termid
  BY <1>1, <1>3 DEF Posting, Ent
<1> HIDE DEF q
<1>6. b \in NewInfo_t /\ b.x = c.x /\ b.t = c.t /\ b.p = q
  BY <1>4, <1>5 DEF NewInfo_t
<1>7. TruePosting(a, x, t, q)
  BY <1>3, <1>5 DEF TruePosting
<1> QED
  BY <1>5, <1>6, <1>7 DEF b

\* The record of the key is replaced by the line's.
LEMMA SameKeyReplaces ==
  ASSUME IInv, InBatch, NEW l \in lines, cur # NULL, l.x = cur.x, l.t = cur.t,
         l.x = "pk",
         UNCHANGED <<primary, cmd, ended>>, lines' = lines \ {l}, db' = db,
         cur' = [cur EXCEPT !.p.entries[1] = Entry(l.id, l.n)],
         hash_tab' = hash_tab \cup {cur.p.entries[1].rec},
         work' = Replace(D, cur.p.entries[1].rec)
  PROVE  IInv'
<1> DEFINE e == Entry(l.id, l.n)
           old == cur.p.entries[1].rec
<1>1. /\ cmd # NULL /\ cmd.batch /\ hash_tab \subseteq Recno
      /\ DatabaseOK(D) /\ NewInfoOK(D, cur) /\ SetD(D)
      /\ l.id \in Recno /\ l.n \in Nat \ {0}
      /\ TrueEntry(D.assoc, l.x, l.t, e)
  BY AtLine
<1>2. cur \in NewInfo_t
  BY AtLine
<1>3. /\ cur.p.entries \in Seq(Ent) /\ TruePosting(D.assoc, cur.x, cur.t, cur.p)
      /\ OwnId(D, D, cur.x, cur.t, cur.p)
  BY <1>1, <1>2, NewInfoIs
<1>4. e \in Ent
  BY <1>1 DEF Entry, Ent
<1>5. old \in DOMAIN D.assoc
  <2>1. 1 \in DOMAIN cur.p.entries
    BY <1>3 DEF TruePosting
  <2> QED
    BY <1>3, <2>1 DEF TruePosting, TrueEntry, RecIndex
<1>6. old \in Recno
  BY <1>1, <1>5, Numbered
<1>7. cur' = [cur EXCEPT !.p.entries[1] = e] /\ work' = Replace(D, old)
      /\ hash_tab' = hash_tab \cup {old}
  OBVIOUS
<1> HIDE DEF e, old
<1>8. /\ cur' \in NewInfo_t /\ cur'.x = cur.x /\ cur'.t = cur.t
      /\ cur'.p.termid = cur.p.termid
      /\ TruePosting(D.assoc, cur.x, cur.t, cur'.p)
  <2> DEFINE b == [cur EXCEPT !.p.entries[1] = e]
  <2>1. TrueEntry(D.assoc, cur.x, cur.t, e)
    BY <1>1
  <2>2. /\ b \in NewInfo_t /\ b.x = cur.x /\ b.t = cur.t
        /\ b.p.termid = cur.p.termid
        /\ TruePosting(D.assoc, cur.x, cur.t, b.p)
    BY <1>2, <1>3, <1>4, <2>1, Exchanged
  <2>3. cur' = b
    BY <1>7
  <2> HIDE DEF b
  <2> QED
    BY <2>2, <2>3
<1>9. NewInfoOK(D, cur')
  BY <1>3, <1>8 DEF NewInfoOK, OwnId
<1>10. Ahead(D, work')
  BY <1>1, <1>5, <1>7, ReplaceOK
<1>11. /\ lines' \subseteq lines /\ hash_tab' \subseteq Recno
       /\ Grown(D.assoc, D.assoc) /\ cur' \in NewInfo_t \cup {NULL}
  BY <1>1, <1>6, <1>7, <1>8 DEF Grown
<1> QED
  BY <1>1, <1>9, <1>10, <1>11, BatchGoes

\* Another line of the key: extends, replaces, or is ignored.
LEMMA BatchSameStep ==
  ASSUME IInv, InBatch, NEW l \in lines, BatchSame(l)
  PROVE  IInv'
<1>1. /\ IsNextLine(l) /\ SameKey(l)
      /\ lines' = lines \ {l} /\ UNCHANGED <<primary, cmd, ended>>
  BY DEF BatchSame, Rest
<1>2. cur # NULL /\ l.t = cur.t /\ l.x = cur.x
  BY <1>1 DEF SameKey, IsNextLine
<1>3. CASE ~IsPrimary(l.x)
  <2>1. /\ cur' = [cur EXCEPT !.p = Extended(@, l.id, l.n)]
        /\ SetD(Counted(D, l.x, l.n, FALSE))
        /\ work' = work /\ hash_tab' = hash_tab
    BY <1>3 DEF BatchSame
  <2> QED
    BY <1>1, <1>2, <2>1, SameKeyExtends
<1>4. CASE IsPrimary(l.x) /\ primary = "replace"
  <2>1. /\ cur' = [cur EXCEPT !.p.entries[1] = Entry(l.id, l.n)]
        /\ hash_tab' = hash_tab \cup {cur.p.entries[1].rec}
        /\ work' = Replace(D, cur.p.entries[1].rec)
        /\ db' = db
    BY <1>4 DEF BatchSame
  <2>2. l.x = "pk"
    BY <1>4 DEF IsPrimary
  <2> QED
    BY <1>1, <1>2, <2>1, <2>2, SameKeyReplaces
<1>5. CASE IsPrimary(l.x) /\ primary # "replace"
  <2>1. /\ hash_tab' = hash_tab \cup {l.id}
        /\ cur' = cur /\ work' = work /\ db' = db
    BY <1>5 DEF BatchSame
  <2>2. /\ cmd # NULL /\ cmd.batch /\ work = <<>> /\ hash_tab \subseteq Recno
        /\ DatabaseOK(D) /\ SetD(D) /\ l.id \in Recno
        /\ cur \in NewInfo_t \cup {NULL} /\ NewInfoOK(D, cur)
    BY <2>1, AtLine
  <2>3. /\ Ahead(D, work') /\ Grown(D.assoc, D.assoc)
        /\ hash_tab' \subseteq Recno /\ lines' \subseteq lines
    BY <1>1, <2>1, <2>2, NothingAhead DEF Grown
  <2> QED
    BY <1>1, <2>1, <2>2, <2>3, BatchGoes
<1> QED
  BY <1>3, <1>4, <1>5

\* newinfo for another key: a new list, or the one the index has.
LEMMA BatchNewKeyStep ==
  ASSUME IInv, InBatch, NEW l \in lines, BatchNewKey(l)
  PROVE  IInv'
<1> DEFINE d == Flushed
           p == d.ix[l.x][l.t]
           new == p = NULL \/ IsPrimary(l.x)
           q == IF new THEN NewInfo(d, l.x, l.id, l.n) ELSE Extended(p, l.id, l.n)
           r == Counted(d, l.x, l.n, new)
           replaces == /\ IsPrimary(l.x) /\ primary = "replace"
                       /\ p # NULL /\ Len(p.entries) = 1
<1>1. /\ lines' = lines \ {l} /\ UNCHANGED <<primary, cmd, ended>>
      /\ hash_tab' = hash_tab
      /\ SetD(r)
      /\ cur' = [x |-> l.x, t |-> l.t, p |-> q]
      /\ work' = IF replaces THEN Replace(d, p.entries[1].rec) ELSE <<>>
  BY DEF BatchNewKey, Rest
<1>2. /\ cmd # NULL /\ cmd.batch /\ hash_tab \subseteq Recno
      /\ l.x \in Index /\ l.t \in Term /\ l.id \in Recno /\ l.n \in Nat \ {0}
      /\ TrueEntry(D.assoc, l.x, l.t, Entry(l.id, l.n))
  BY AtLine
<1>3. /\ DatabaseOK(d) /\ Grown(D.assoc, d.assoc)
      /\ d.assoc = D.assoc /\ d.maxcomp = D.maxcomp
  BY FlushedOK
<1>4. new \in BOOLEAN /\ (p = NULL => new) /\ (replaces => l.x = "pk" /\ p # NULL)
  BY DEF IsPrimary
<1> HIDE DEF d
<1>5. replaces => p.entries[1].rec \in DOMAIN d.assoc
  BY <1>2, <1>3, <1>4, OldRecord
<1>6. d \in Database
  BY <1>3 DEF DatabaseOK
<1>7. /\ \A u \in Term : d.ix[l.x][u] # NULL =>
           d.ix[l.x][u].termid \in Nat /\ d.ix[l.x][u].termid < d.g[l.x].recptr
      /\ d.g[l.x].recptr \in Nat
  BY <1>2, <1>3, <1>6, DatabaseFields, PostingFields DEF DatabaseOK, Termids
<1>8. p # NULL => /\ TruePosting(d.assoc, l.x, l.t, p) /\ p \in Posting
                  /\ \A u \in Term \ {l.t} :
                       d.ix[l.x][u] # NULL => d.ix[l.x][u].termid # p.termid
                  /\ p.termid \in Nat /\ p.termid < d.g[l.x].recptr
  BY <1>2, <1>3, <1>6, <1>7, DatabaseFields DEF DatabaseOK, Lists, Termids
<1>9. /\ new => q = NewInfo(d, l.x, l.id, l.n)
      /\ ~new => q = Extended(p, l.id, l.n)
  OBVIOUS
<1>10. l.n \in Nat
  BY <1>2
<1> HIDE DEF new, p, q, replaces
<1>11. /\ DatabaseOK(r) /\ CountedIs(d, r, l.x, new)
       /\ Grown(d.assoc, r.assoc) /\ r.maxcomp = d.maxcomp
  BY <1>2, <1>3, <1>4, <1>10, CountedOK
<1> HIDE DEF r
<1>12. /\ r.assoc = d.assoc /\ r.ix = d.ix
       /\ r.g[l.x].recptr = IF new THEN d.g[l.x].recptr + 1 ELSE d.g[l.x].recptr
  BY <1>2, <1>11 DEF CountedIs
<1>13. TrueEntry(d.assoc, l.x, l.t, Entry(l.id, l.n))
  BY <1>2, <1>3
<1>14. /\ q \in Posting
       /\ q.termid = IF new THEN d.g[l.x].recptr ELSE p.termid
       /\ TruePosting(d.assoc, l.x, l.t, q)
  <2>1. CASE new
    <3> DEFINE i == NewInfo(d, l.x, l.id, l.n)
    <3>1. i \in Posting /\ i.termid = d.g[l.x].recptr
      BY <1>2, <1>6, NewInfoFields
    <3>2. TruePosting(d.assoc, l.x, l.t, i)
      BY <1>2, <1>6, <1>13, NewTrue
    <3>3. q = i
      BY <1>9, <2>1
    <3> HIDE DEF i
    <3> QED
      BY <2>1, <3>1, <3>2, <3>3
  <2>2. CASE ~new
    BY <1>2, <1>4, <1>8, <1>9, <1>13, <2>2, ExtendedFields, ExtendedTrue
  <2> QED
    BY <2>1, <2>2
<1>15. /\ cur' \in NewInfo_t /\ cur'.x = l.x /\ cur'.t = l.t /\ cur'.p = q
  BY <1>1, <1>2, <1>14 DEF NewInfo_t
<1>16. OwnId(r, r, l.x, l.t, q)
  <2>1. CASE new
    BY <1>7, <1>12, <1>14, <2>1 DEF OwnId
  <2>2. CASE ~new
    BY <1>4, <1>8, <1>12, <1>14, <2>2 DEF OwnId
  <2> QED
    BY <2>1, <2>2
<1>17. NewInfoOK(r, cur')
  BY <1>12, <1>14, <1>15, <1>16 DEF NewInfoOK, OwnId
<1>18. Ahead(d, work')
  <2>1. CASE replaces
    BY <1>1, <1>3, <1>5, <2>1, ReplaceOK
  <2>2. CASE ~replaces
    BY <1>1, <2>2, NothingAhead
  <2> QED
    BY <2>1, <2>2
<1>19. Ahead(r, work')
  BY <1>11, <1>18, AheadKept DEF Ahead
<1>20. /\ lines' \subseteq lines /\ hash_tab' \subseteq Recno
       /\ cur' \in NewInfo_t \cup {NULL}
       /\ Grown(D.assoc, r.assoc) /\ r.maxcomp = D.maxcomp
  BY <1>1, <1>2, <1>3, <1>11, <1>12, <1>15
<1> QED
  BY <1>1, <1>2, <1>11, <1>17, <1>19, <1>20, BatchGoes

\* The steps of in_batch_load together.
LEMMA BatchStepOK ==
  ASSUME IInv, BatchStep
  PROVE  IInv'
  BY BatchFlushStep, BatchSkipStep, BatchSameStep, BatchNewKeyStep DEF BatchStep

-----------------------------------------------------------------------------
(* The theorems.                                                           *)

\* An empty database.
LEMMA NewDatabaseOK == DatabaseOK(NewDatabase)
<1> DEFINE d == NewDatabase
           rows == [x \in Index |-> [t \in Term |-> NULL]]
           globals == [x \in Index |-> [recptr |-> 1, tot_occur |-> 0, tot_numrecs |-> 0]]
           none == [r \in Recno |-> NULL]
<1>1. d = [assoc |-> <<>>, ix |-> rows, g |-> globals, maxcomp |-> 0,
           compdoc |-> none, comp |-> none]
  BY DEF NewDatabase
<1>2. rows \in [Index -> [Term -> Posting \cup {NULL}]]
  OBVIOUS
<1>3. globals \in [Index -> [recptr : Nat, tot_occur : Int, tot_numrecs : Int]]
  OBVIOUS
<1>4. /\ none \in [Recno -> (Nat \X Nat) \cup {NULL}]
      /\ none \in [Recno -> Recno \cup {NULL}]
  OBVIOUS
<1>5. /\ \A x \in Index, t \in Term : rows[x][t] = NULL
      /\ \A r \in Recno : none[r] = NULL
  OBVIOUS
<1>6. <<>> \in Seq([doc : Doc, deleted : BOOLEAN])
  OBVIOUS
<1> HIDE DEF d, rows, globals, none
<1>7. d \in Database
  BY <1>1, <1>2, <1>3, <1>4, <1>6 DEF Database
<1>8. Lists(d) /\ Termids(d) /\ Ranges(d)
  BY <1>1, <1>5 DEF Lists, Termids, Ranges
<1>9. Len(d.assoc) <= MaxRecs
  BY <1>1, Constants
<1> QED
  BY <1>7, <1>8, <1>9 DEF DatabaseOK, d

\* The files before the first program.
LEMMA InitOK ==
  ASSUME Init
  PROVE  IInv
<1>1. NewDatabase \in Database
  BY NewDatabaseOK DEF DatabaseOK
<1>2. db \in [File -> Database] /\ \A f \in File : DatabaseOK(db[f])
  BY <1>1, NewDatabaseOK DEF Init
<1>3. work \in Seq(LoopType)
  BY DEF Init
<1> QED
  BY <1>2, <1>3 DEF Init, IInv, Direct

\* Every step preserves the invariant.
LEMMA NextOK ==
  ASSUME IInv, [Next]_vars
  PROVE  IInv'
<1>1. CASE Program
  BY <1>1, StepOK, KwAddStep, NextRecordStep, LoadExitsStep, BatchStepOK,
     FileDoneStep, DeleteDoneStep DEF Program
<1>2. CASE Interrupt
  BY <1>2, InterruptStep
<1>3. CASE \E f \in File, c \in Doc : AddRecord(f, c)
  BY <1>3, AddRecordStep
<1>4. CASE \E f \in File, r \in Recno : Delete(f, r)
  BY <1>4, DeleteStep
<1>5. CASE \E s \in 1..MaxRecs + 1, e \in 0..1, b \in BOOLEAN : Load(s, e, b)
  BY <1>5, LoadStep
<1>6. CASE UNCHANGED vars
  <2>1. UNCHANGED <<primary, db, cmd, work, lines, cur, hash_tab, ended>>
    BY <1>6 DEF vars
  <2> QED
    BY <2>1 DEF IInv, ProgramOK, D, Idle, Direct
<1> QED
  BY <1>1, <1>2, <1>3, <1>4, <1>5, <1>6 DEF Next

\* Every step of index_cheshire and of delete_recs, the records that are
\* added meanwhile and the signals included, preserves what IInv says of the
\* databases, of the loops ahead and of newinfo.
THEOREM Invariance == Spec => []IInv
  BY InitOK, NextOK, PTL DEF Spec

\* Every variable has the shape its declaration gives it, and no index holds
\* an empty list, for any number of databases, records, terms and components
\* and whatever the operator does.
THEOREM TypeCorrect == Spec => []TypeOK
<1>1. IInv => TypeOK
  <2> SUFFICES ASSUME IInv PROVE TypeOK
    OBVIOUS
  <2>1. ASSUME NEW f \in File, NEW x \in Index, NEW t \in Term, db[f].ix[x][t] # NULL
        PROVE  LET p == db[f].ix[x][t]
               IN  /\ DOMAIN p = {"termid", "tot_freq", "entries"}
                   /\ p.entries # <<>>
                   /\ \A i \in DOMAIN p.entries :
                        p.entries[i] \in [rec : Recno, freq : Nat \ {0}]
    <3> DEFINE p == db[f].ix[x][t]
    <3>1. DatabaseOK(db[f]) /\ db[f] \in Database
      BY DEF IInv, DatabaseOK
    <3>2. p \in Posting
      BY <2>1, <3>1, DatabaseFields
    <3>3. p.entries # <<>>
      BY <2>1, <3>1 DEF DatabaseOK, Lists, TruePosting
    <3> HIDE DEF p
    <3>4. DOMAIN p = {"termid", "tot_freq", "entries"}
      BY <3>2 DEF Posting
    <3>5. p.entries \in Seq(Ent)
      BY <3>2, PostingFields
    <3>6. \A i \in DOMAIN p.entries : p.entries[i] \in Ent
      BY <3>5
    <3> QED
      BY <3>3, <3>4, <3>6 DEF p, Ent
  <2>2. work \in Seq(LoopType)
    BY DEF IInv
  <2>3. \A i \in DOMAIN work : work[i] \in LoopType
    BY <2>2
  <2>4. /\ primary \in Primaries /\ lines \subseteq Line /\ hash_tab \subseteq Recno
        /\ ended \in {"done", "interrupted", "error"}
    BY DEF IInv
  <2> QED
    BY <2>1, <2>3, <2>4 DEF TypeOK
<1> QED
  BY <1>1, Invariance, PTL

\* No entry that in_kwadd, in_batch_load or a replacement writes, and none
\* that in_kwdel's migration of a list leaves behind, ever says of a record
\* what its document does not: not after a signal between any two writes, a
\* second load of the same records, or a maxrec that is too large.
THEOREM EntriesTrue == Spec => []PostingsTrue
<1>1. IInv => PostingsTrue
  <2> SUFFICES ASSUME IInv, NEW f \in File, NEW x \in RecIndex, NEW t \in Term,
                      db[f].ix[x][t] # NULL, NEW i \in DOMAIN db[f].ix[x][t].entries
               PROVE  LET e == db[f].ix[x][t].entries[i]
                      IN  /\ e.rec \in DOMAIN db[f].assoc
                          /\ e.freq = Words[db[f].assoc[e.rec].doc][x][t]
                          /\ e.freq > 0
    BY DEF PostingsTrue
  <2> DEFINE p == db[f].ix[x][t]
             e == p.entries[i]
  <2>1. x \in Index /\ DatabaseOK(db[f]) /\ db[f] \in Database
    BY DEF IInv, DatabaseOK, Index
  <2>2. p \in Posting
    BY <2>1, DatabaseFields
  <2>3. TrueEntry(db[f].assoc, x, t, e)
    BY <2>1 DEF DatabaseOK, Lists, TruePosting
  <2>4. e \in Ent
    BY <2>2, PostingFields
  <2> HIDE DEF p, e
  <2>5. e.freq > 0
    BY <2>4 DEF Ent
  <2>6. /\ e.rec \in DOMAIN db[f].assoc
        /\ e.freq = Words[db[f].assoc[e.rec].doc][x][t]
    BY <2>3 DEF TrueEntry
  <2> QED
    BY <2>5, <2>6 DEF e, p
<1> QED
  BY <1>1, Invariance, PTL

\* recptr++ of GlobalData gives every term of an index a term id of its own,
\* whichever of in_kwadd and in_batch_load hands it out, also while
\* in_batch_load keeps a list in newinfo that is not in the index yet.
THEOREM TermidsAreUnique == Spec => []TermidsUnique
<1>1. IInv => TermidsUnique
  BY DEF IInv, DatabaseOK, Termids, TermidsUnique
<1> QED
  BY <1>1, Invariance, PTL
=============================================================================
