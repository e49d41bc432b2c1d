---------------------------- MODULE ExactProofs ----------------------------
(***************************************************************************)
(* Proofs that the indexes hold exactly what they should, for an operator  *)
(* who follows the manual: any documents, terms and primary key options,   *)
(* and signals between any two writes.                                     *)
(***************************************************************************)
EXTENDS IndexingProofs

-----------------------------------------------------------------------------
(* Lists and the records they should have.                                 *)

\* A list of a record index that is true, or none.
ListOK(d, x, t, p) ==
  p # NULL => p \in Posting /\ TruePosting(d.assoc, x, t, p)

\* The records of a true list contain its term.
LEMMA RecsOccur ==
  ASSUME NEW d, NEW x \in RecIndex, NEW t, NEW p, ListOK(d, x, t, p)
  PROVE  /\ \A r \in Recs(p) : r \in DOMAIN d.assoc /\ Occurs(d, r, x, t)
         /\ p # NULL => Recs(p) # {}
<1>1. CASE p = NULL
  BY <1>1 DEF Recs
<1>2. CASE p # NULL
  <2>1. p \in Posting /\ TruePosting(d.assoc, x, t, p)
    BY <1>2 DEF ListOK
  <2>2. p.entries \in Seq(Ent) /\ p.entries # <<>>
    BY <2>1, PostingFields DEF TruePosting
  <2>3. 1 \in DOMAIN p.entries
    BY <2>2
  <2>4. Recs(p) = {p.entries[i].rec : i \in DOMAIN p.entries}
    BY <1>2 DEF Recs
  <2>5. ASSUME NEW i \in DOMAIN p.entries
        PROVE  /\ p.entries[i].rec \in DOMAIN d.assoc
               /\ Words[d.assoc[p.entries[i].rec].doc][x][t] > 0
    <3>1. TrueEntry(d.assoc, x, t, p.entries[i]) /\ p.entries[i] \in Ent
      BY <2>1, <2>2 DEF TruePosting
    <3> DEFINE f == p.entries[i]
    <3>2. f.freq \in Nat \ {0} /\ f.rec \in DOMAIN d.assoc
          /\ f.freq = Words[d.assoc[f.rec].doc][x][t]
      BY <3>1 DEF TrueEntry, Ent
    <3> HIDE DEF f
    <3>3. Words[d.assoc[f.rec].doc][x][t] > 0
      BY <3>2
    <3> QED
      BY <3>2, <3>3 DEF f
  <2> QED
    BY <2>3, <2>4, <2>5 DEF Occurs
<1> QED
  BY <1>1, <1>2

\* The associator may grow, more records may be excepted, and what is to be
\* in the list may lose excepted records.
LEMMA ExactKept ==
  ASSUME NEW d, NEW e, Grown(d.assoc, e.assoc), NEW out, NEW more, out \subseteq more,
         NEW x \in RecIndex, NEW t, NEW p, ListOK(d, x, t, p),
         NEW S, NEW T, Exact(d, out, x, t, p, S),
         T \cap DOMAIN e.assoc \subseteq DOMAIN d.assoc,
         \A r \in DOMAIN d.assoc : Occurs(d, r, x, t) =>
           (r \in T => r \in S) /\ (r \in S /\ r \notin more => r \in T)
  PROVE  Exact(e, more, x, t, p, T)
<1>1. \A r \in Recs(p) : r \in DOMAIN d.assoc /\ Occurs(d, r, x, t)
  BY RecsOccur
<1>2. \A r \in DOMAIN d.assoc : Occurs(e, r, x, t) <=> Occurs(d, r, x, t)
  BY DEF Occurs, Grown
<1>3. \A r \in T \cap DOMAIN e.assoc : Occurs(e, r, x, t) => r \in Recs(p)
  BY <1>2 DEF Exact
<1>4. Recs(p) \ more \subseteq T
  BY <1>1 DEF Exact
<1> QED
  BY <1>3, <1>4 DEF Exact

\* List q is list p with one entry more.
Plus(p, e, q) ==
  q # NULL /\ q.entries = IF p = NULL THEN <<e>> ELSE Append(p.entries, e)

\* The records of a list with one entry more.
LEMMA RecsAdded ==
  ASSUME NEW p, p = NULL \/ p \in Posting, NEW e, NEW q, Plus(p, e, q)
  PROVE  /\ Recs(q) = Recs(p) \cup {e.rec}
         /\ \A i \in DOMAIN q.entries :
              \/ p # NULL /\ i \in DOMAIN p.entries /\ q.entries[i] = p.entries[i]
              \/ i = Len(q.entries) /\ q.entries[i] = e
<1>1. CASE p = NULL
  <2> DEFINE one == <<e>>
  <2>0. q # NULL
    BY DEF Plus
  <2>1. q.entries = one
    BY <1>1 DEF Plus
  <2>a. DOMAIN one = {1} /\ one[1] = e /\ Len(one) = 1
    OBVIOUS
  <2> HIDE DEF one
  <2>2. DOMAIN q.entries = {1} /\ q.entries[1] = e /\ Len(q.entries) = 1
    BY <2>1, <2>a
  <2>3. Recs(q) = {q.entries[i].rec : i \in {1}}
    BY <2>0, <2>2 DEF Recs
  <2>4. Recs(p) = {}
    BY <1>1 DEF Recs
  <2> QED
    BY <2>2, <2>3, <2>4
<1>2. CASE p # NULL
  <2>1. p.entries \in Seq(Ent) /\ q.entries = Append(p.entries, e)
    BY <1>2, PostingFields DEF Plus
  <2>0. q # NULL
    BY DEF Plus
  <2> DEFINE n == Len(p.entries)
  <2>2. /\ n \in Nat /\ DOMAIN p.entries = 1..n
        /\ DOMAIN q.entries = 1..n + 1 /\ Len(q.entries) = n + 1
        /\ \A i \in 1..n : q.entries[i] = p.entries[i]
        /\ q.entries[n + 1] = e
    BY <2>1
  <2>3. /\ Recs(p) = {p.entries[i].rec : i \in 1..n}
        /\ Recs(q) = {q.entries[i].rec : i \in 1..n + 1}
    BY <1>2, <2>0, <2>2 DEF Recs
  <2>4. \A i \in 1..n + 1 : i \in 1..n \/ i = n + 1
    BY <2>2
  <2>5. 1..n \subseteq 1..n + 1 /\ n + 1 \in 1..n + 1
    BY <2>2
  <2> HIDE DEF n
  <2>6. Recs(q) = Recs(p) \cup {e.rec}
    BY <2>2, <2>3, <2>4, <2>5
  <2> QED
    BY <1>2, <2>2, <2>4, <2>6
<1> QED
  BY <1>1, <1>2

\* A record that is to be in the list gets its entry.
LEMMA ExactAdded ==
  ASSUME NEW d, NEW out, NEW x \in RecIndex, NEW t, NEW p, ListOK(d, x, t, p),
         NEW S, NEW T, Exact(d, out, x, t, p, S),
         NEW e, e.rec \notin S, e.rec \in T,
         NEW q, Plus(p, e, q),
         \A r \in DOMAIN d.assoc : Occurs(d, r, x, t) /\ r # e.rec =>
           (r \in T <=> r \in S)
  PROVE  Exact(d, out, x, t, q, T)
<1>1. p = NULL \/ p \in Posting
  BY DEF ListOK
<1>2. /\ Recs(q) = Recs(p) \cup {e.rec}
      /\ \A i \in DOMAIN q.entries :
           \/ p # NULL /\ i \in DOMAIN p.entries /\ q.entries[i] = p.entries[i]
           \/ i = Len(q.entries) /\ q.entries[i] = e
  BY <1>1, RecsAdded
<1>3. \A r \in Recs(p) : r \in DOMAIN d.assoc /\ Occurs(d, r, x, t)
  BY RecsOccur
<1>4. \A r \in T \cap DOMAIN d.assoc : Occurs(d, r, x, t) => r \in Recs(q)
  BY <1>2 DEF Exact
<1>5. Recs(q) \ out \subseteq T
  BY <1>2, <1>3 DEF Exact
<1>6. e.rec \in Recs(p) => e.rec \in out
  BY DEF Exact
<1>7. p # NULL => \A i \in DOMAIN p.entries : p.entries[i].rec \in Recs(p)
  BY DEF Recs
<1>9. q # NULL
  BY DEF Plus
<1>8. ASSUME NEW i \in DOMAIN q.entries, NEW j \in DOMAIN q.entries,
             q.entries[i].rec = q.entries[j].rec, i # j
      PROVE  q.entries[i].rec \in out
  BY <1>2, <1>6, <1>7, <1>8 DEF Exact
<1> QED
  BY <1>4, <1>5, <1>8 DEF Exact

\* The only entry goes.
LEMMA ExactGone ==
  ASSUME NEW d, NEW out, NEW x \in RecIndex, NEW t, NEW p \in Posting, p # NULL,
         Len(p.entries) = 1,
         NEW S, NEW T, Exact(d, out, x, t, p, S), NEW id \in Recs(p),
         id \notin T,
         \A r \in DOMAIN d.assoc : Occurs(d, r, x, t) /\ r \in T => r \in S
  PROVE  Exact(d, out, x, t, NULL, T)
<1>1. p.entries \in Seq(Ent)
  BY PostingFields
<1>2. DOMAIN p.entries = {1}
  BY <1>1
<1>3. Recs(p) = {p.entries[i].rec : i \in {1}}
  BY <1>2 DEF Recs
<1>4. Recs(p) = {id}
  BY <1>3
<1>5. Recs(NULL) = {}
  BY DEF Recs
<1> QED
  BY <1>4, <1>5 DEF Exact

\* A list without one of its entries of id: no other entry is lost, and if
\* id has an entry left it had two.
LEMMA RecsShrunk ==
  ASSUME NEW p \in Posting, NEW id, NEW n \in Nat, Reduces(p, id), p.entries # <<>>
  PROVE  LET q == Reduced(p, id, n)
         IN  /\ q \in Posting /\ q # NULL
             /\ Recs(q) \subseteq Recs(p) /\ Recs(p) \ {id} \subseteq Recs(q)
             /\ id \in Recs(q) => \E i, j \in DOMAIN p.entries :
                  p.entries[i].rec = id /\ p.entries[j].rec = id /\ i # j
             /\ \A i, j \in DOMAIN q.entries : i # j => \E k, l \in DOMAIN p.entries :
                  k # l /\ q.entries[i] = p.entries[k] /\ q.entries[j] = p.entries[l]
<1> DEFINE q == Reduced(p, id, n)
           i == FirstMatch(p, id)
           es == p.entries
           m == Len(es) - 1
           list == Migrated(es, i)
           k(j) == IF j < i THEN j ELSE j + 1
<1>1. q \in Posting
  BY ShrunkFields
<1>2. q # NULL
  BY <1>1, Constants
<1>3. p # NULL
  BY Constants
<1>4. es \in Seq(Ent) /\ Len(es) # 1 /\ Matches(p, id) # {} /\ Len(es) # 0
  BY PostingFields DEF Reduces
<1>5. m \in Nat /\ m >= 1 /\ Len(es) = m + 1 /\ DOMAIN es = 1..m + 1
  <2> HIDE DEF es
  <2>1. Len(es) \in Nat /\ DOMAIN es = 1..Len(es)
    BY <1>4
  <2>2. m \in Nat /\ m >= 1 /\ Len(es) = m + 1
    BY <1>4, <2>1
  <2> HIDE DEF m
  <2> QED
    BY <2>1, <2>2
<1>6. i \in Matches(p, id)
  <2>1. Matches(p, id) \subseteq Nat
    BY <1>5 DEF Matches
  <2>2. \E a \in Matches(p, id) : \A b \in Matches(p, id) : a <= b
    BY <1>4, <2>1, Smallest
  <2> QED
    BY <2>2 DEF FirstMatch
<1>7. i \in 1..m + 1 /\ es[i].rec = id
  BY <1>5, <1>6 DEF Matches
<1>8. q.entries = list
  BY DEF Reduced, Posting
<1>9. list = [j \in 1..m |-> IF j < i THEN es[j] ELSE es[j + 1]]
  BY DEF Migrated
<1> HIDE DEF q, i, m, list, es
<1>10. DOMAIN list = 1..m
  BY <1>9
<1>11. ASSUME NEW j \in 1..m
       PROVE  k(j) \in 1..m + 1 /\ k(j) # i /\ list[j] = es[k(j)]
  <2>1. list[j] = IF j < i THEN es[j] ELSE es[j + 1]
    BY <1>9
  <2>2. k(j) \in 1..m + 1 /\ k(j) # i
    BY <1>5, <1>7
  <2> QED
    BY <2>1, <2>2
<1>12. \A j, l \in 1..m : j # l => k(j) # k(l)
  BY <1>5, <1>7
<1>13. \A l \in 1..m + 1 : l # i => \E j \in 1..m : l = k(j)
  <2> SUFFICES ASSUME NEW l \in 1..m + 1, l # i PROVE \E j \in 1..m : l = k(j)
    OBVIOUS
  <2>1. CASE l < i
    <3>1. l \in 1..m /\ l = k(l)
      BY <1>5, <1>7, <2>1
    <3> QED
      BY <3>1
  <2>2. CASE ~(l < i)
    <3>1. l - 1 \in 1..m /\ l = k(l - 1)
      BY <1>5, <1>7, <2>2
    <3> QED
      BY <3>1
  <2> QED
    BY <2>1, <2>2
<1> HIDE DEF k
<1>14. /\ Recs(p) = {es[j].rec : j \in 1..m + 1}
       /\ Recs(q) = {list[j].rec : j \in 1..m}
  BY <1>2, <1>3, <1>5, <1>8, <1>10 DEF Recs, es
<1>15. Recs(q) \subseteq Recs(p)
  BY <1>11, <1>14
<1>16. ASSUME NEW r \in Recs(p), r # id PROVE r \in Recs(q)
  <2>1. PICK l \in 1..m + 1 : r = es[l].rec
    BY <1>14
  <2>2. PICK j \in 1..m : l = k(j)
    BY <1>7, <1>13, <1>16, <2>1
  <2> QED
    BY <1>11, <1>14, <2>1, <2>2
<1>17. ASSUME id \in Recs(q)
       PROVE  \E a, b \in DOMAIN es : es[a].rec = id /\ es[b].rec = id /\ a # b
  <2>1. PICK j \in 1..m : id = list[j].rec
    BY <1>14, <1>17
  <2> QED
    BY <1>5, <1>7, <1>11, <2>1
<1>18. ASSUME NEW a \in DOMAIN q.entries, NEW b \in DOMAIN q.entries, a # b
       PROVE  \E c, e \in DOMAIN es :
                c # e /\ q.entries[a] = es[c] /\ q.entries[b] = es[e]
  <2>1. a \in 1..m /\ b \in 1..m
    BY <1>8, <1>10
  <2>2. /\ k(a) \in DOMAIN es /\ k(b) \in DOMAIN es /\ k(a) # k(b)
        /\ q.entries[a] = es[k(a)] /\ q.entries[b] = es[k(b)]
    BY <1>5, <1>8, <1>11, <1>12, <1>18, <2>1
  <2> QED
    BY <2>2
<1> QED
  BY <1>1, <1>2, <1>15, <1>16, <1>17, <1>18 DEF q, es

\* One of several entries goes.
LEMMA ExactShrunk ==
  ASSUME NEW d, NEW out, NEW x \in RecIndex, NEW t, NEW p, ListOK(d, x, t, p),
         NEW S, NEW T, Exact(d, out, x, t, p, S),
         NEW id, NEW n \in Nat, Reduces(p, id), id \notin T,
         \A r \in DOMAIN d.assoc : Occurs(d, r, x, t) /\ r # id =>
           (r \in T <=> r \in S)
  PROVE  Exact(d, out, x, t, Reduced(p, id, n), T)
<1> DEFINE q == Reduced(p, id, n)
<1>1. p # NULL /\ p \in Posting /\ p.entries # <<>>
  BY DEF Reduces, ListOK, TruePosting
<1>2. /\ q # NULL
      /\ Recs(q) \subseteq Recs(p) /\ Recs(p) \ {id} \subseteq Recs(q)
      /\ id \in Recs(q) => \E i, j \in DOMAIN p.entries :
           p.entries[i].rec = id /\ p.entries[j].rec = id /\ i # j
      /\ \A i, j \in DOMAIN q.entries : i # j => \E k, l \in DOMAIN p.entries :
           k # l /\ q.entries[i] = p.entries[k] /\ q.entries[j] = p.entries[l]
  BY <1>1, RecsShrunk
<1> HIDE DEF q
<1>3. \A r \in Recs(p) : r \in DOMAIN d.assoc /\ Occurs(d, r, x, t)
  BY RecsOccur
<1>4. \A r \in T \cap DOMAIN d.assoc : Occurs(d, r, x, t) => r \in Recs(q)
  BY <1>2 DEF Exact
<1>5. \A i, j \in DOMAIN p.entries :
        p.entries[i].rec = p.entries[j].rec => i = j \/ p.entries[i].rec \in out
  BY <1>1 DEF Exact
<1>6. id \in Recs(q) => id \in out
  BY <1>2, <1>5
<1>7. Recs(q) \ out \subseteq T
  BY <1>2, <1>3, <1>6 DEF Exact
<1>8. \A i, j \in DOMAIN q.entries :
        q.entries[i].rec = q.entries[j].rec => i = j \/ q.entries[i].rec \in out
  BY <1>2, <1>5
<1> QED
  BY <1>4, <1>7, <1>8 DEF Exact, q

-----------------------------------------------------------------------------
(* The writes of the term loops.                                           *)

\* One list of a database may change, and no document does.
LEMMA AddPostingIs ==
  ASSUME NEW d, DatabaseOK(d), NEW x \in Index, NEW t \in Term, NEW id \in Recno,
         NEW n \in Nat \ {0}
  PROVE  LET r == AddPosting(d, x, t, id, n)
         IN  /\ r.assoc = d.assoc
             /\ Plus(d.ix[x][t], Entry(id, n), r.ix[x][t])
             /\ \A y \in Index, u \in Term :
                  y # x \/ u # t => r.ix[y][u] = d.ix[y][u]
<1> DEFINE p == d.ix[x][t]
           new == p = NULL
           q == IF new THEN NewInfo(d, x, id, n) ELSE Extended(p, id, n)
           k == Counted(d, x, n, new)
           r == PutPosting(k, x, t, q)
<1>1. AddPosting(d, x, t, id, n) = r
  BY DEF AddPosting
<1>2. d \in Database /\ (p # NULL => p \in Posting)
  BY DatabaseFields DEF DatabaseOK
<1>3. /\ new => q = NewInfo(d, x, id, n)
      /\ ~new => q = Extended(p, id, n)
      /\ new \in BOOLEAN /\ (new <=> p = NULL)
  OBVIOUS
<1>4. CountedIs(d, k, x, new)
  BY <1>2, <1>3, CountedFields
<1> HIDE DEF new, p, q, k
<1>5. q \in Posting /\ q.entries = IF p = NULL THEN <<Entry(id, n)>>
                                   ELSE Append(p.entries, Entry(id, n))
  <2>1. CASE new
    <3> DEFINE i == NewInfo(d, x, id, n)
    <3>1. i \in Posting /\ i.entries = <<Entry(id, n)>>
      BY <1>2, NewInfoFields
    <3>2. q = i /\ p = NULL
      BY <1>3, <2>1
    <3> HIDE DEF i
    <3> QED
      BY <3>1, <3>2
  <2>2. CASE ~new
    <3> DEFINE i == Extended(p, id, n)
    <3>0. p # NULL /\ p \in Posting
      BY <1>2, <1>3, <2>2
    <3>1. i \in Posting /\ i.entries = Append(p.entries, Entry(id, n))
      BY <3>0, ExtendedFields
    <3>2. q = i
      BY <1>3, <2>2
    <3> HIDE DEF i
    <3> QED
      BY <3>0, <3>1, <3>2
  <2> QED
    BY <2>1, <2>2
<1>6. Put(k, r, x, t, q)
  BY <1>4, <1>5, PutFields DEF CountedIs
<1> HIDE DEF r
<1>7. q # NULL
  BY <1>5, Constants
<1>8. /\ r.assoc = d.assoc /\ r.ix[x][t] = q
      /\ \A y \in Index, u \in Term : y # x \/ u # t => r.ix[y][u] = d.ix[y][u]
  BY <1>4, <1>6 DEF Put, CountedIs
<1> QED
  BY <1>1, <1>5, <1>7, <1>8 DEF Plus, p

\* What is left of list p without id.
Minus(p, id, n) ==
  IF p # NULL /\ Len(p.entries) = 1 THEN NULL
  ELSE IF Reduces(p, id) THEN Reduced(p, id, n) ELSE p

\* DelPosting changes one list, and no document.
LEMMA DelPostingIs ==
  ASSUME NEW d, DatabaseOK(d), NEW x \in Index, NEW t \in Term, NEW id, NEW n \in Nat
  PROVE  LET r == DelPosting(d, x, t, id, n)
         IN  /\ r.assoc = d.assoc
             /\ r.ix[x][t] = Minus(d.ix[x][t], id, n)
             /\ \A y \in Index, u \in Term :
                  y # x \/ u # t => r.ix[y][u] = d.ix[y][u]
<1> DEFINE p == d.ix[x][t]
           q == Reduced(p, id, n)
           k == [d EXCEPT !.g[x].tot_occur = @ - n]
           r == DelPosting(d, x, t, id, n)
           one == p # NULL /\ Len(p.entries) = 1
<1>1. d \in Database /\ (p # NULL => p \in Posting /\ TruePosting(d.assoc, x, t, p))
  BY DatabaseFields DEF DatabaseOK, Lists
<1>2. CASE one
  <2>1. r = PutPosting(d, x, t, NULL)
    BY <1>2 DEF DelPosting
  <2>2. Put(d, r, x, t, NULL)
    BY <1>1, <2>1, PutFields
  <2> HIDE DEF r
  <2> QED
    BY <1>2, <2>2 DEF Put, Minus, r
<1>3. CASE ~one /\ Reduces(p, id)
  <2>1. r = PutPosting(k, x, t, q)
    BY <1>3 DEF DelPosting
  <2>2. q \in Posting
    BY <1>1, <1>3, ShrunkFields DEF Reduces, TruePosting
  <2>3. CountedIs(d, k, x, FALSE)
    BY <1>1, UncountedFields
  <2> HIDE DEF q, k
  <2>4. Put(k, r, x, t, q)
    BY <2>1, <2>2, <2>3, PutFields DEF CountedIs
  <2> HIDE DEF r
  <2>5. /\ r.assoc = d.assoc /\ r.ix[x][t] = q
        /\ \A y \in Index, u \in Term : y # x \/ u # t => r.ix[y][u] = d.ix[y][u]
    BY <2>3, <2>4 DEF Put, CountedIs
  <2>6. q = Minus(p, id, n)
    BY <1>3 DEF q, Minus
  <2> QED
    BY <2>5, <2>6 DEF r
<1>4. CASE ~one /\ ~Reduces(p, id)
  <2>1. r = d
    BY <1>4 DEF DelPosting
  <2> QED
    BY <1>4, <2>1 DEF Minus
<1> QED
  BY <1>2, <1>3, <1>4

-----------------------------------------------------------------------------
(* The loops ahead.                                                        *)

Loops(w) == {w[i] : i \in DOMAIN w}

\* The loops of two lists, one after the other.
LEMMA LoopsJoin ==
  ASSUME NEW v \in Seq(LoopType), NEW w \in Seq(LoopType)
  PROVE  /\ v \o w \in Seq(LoopType)
         /\ Loops(v \o w) = Loops(v) \cup Loops(w)
         /\ Ordered(v) /\ Ordered(w) /\ (\A a \in Loops(v), b \in Loops(w) : Before(a, b))
              => Ordered(v \o w)
         /\ Ordered(v \o w) => /\ Ordered(v) /\ Ordered(w)
                               /\ \A a \in Loops(v), b \in Loops(w) : Before(a, b)
<1> DEFINE u == v \o w
           n == Len(v)
<1>1. /\ u \in Seq(LoopType) /\ n \in Nat
      /\ \A i \in DOMAIN u :
           \/ i \in DOMAIN v /\ u[i] = v[i]
           \/ i - n \in DOMAIN w /\ u[i] = w[i - n] /\ i \notin DOMAIN v
      /\ \A i \in DOMAIN v : i \in DOMAIN u /\ u[i] = v[i]
      /\ \A i \in DOMAIN w : i + n \in DOMAIN u /\ u[i + n] = w[i]
      /\ \A i \in DOMAIN v : i \in 1..n
      /\ DOMAIN v \subseteq Int /\ DOMAIN w \subseteq Nat \ {0} /\ DOMAIN u \subseteq Int
      /\ \A i \in Int : i \notin DOMAIN v => ~(i \in 1..n)
  OBVIOUS
<1> HIDE DEF u, n
<1>2. Loops(u) = Loops(v) \cup Loops(w)
  BY <1>1 DEF Loops
<1>3. ASSUME Ordered(v), Ordered(w), \A a \in Loops(v), b \in Loops(w) : Before(a, b),
             NEW i \in DOMAIN u, NEW j \in DOMAIN u, i < j
      PROVE  Before(u[i], u[j])
  <2>1. CASE i \in DOMAIN v /\ j \in DOMAIN v
    BY <1>1, <1>3, <2>1 DEF Ordered
  <2>2. CASE i \in DOMAIN v /\ j \notin DOMAIN v
    BY <1>1, <1>3, <2>2 DEF Loops
  <2>3. CASE i \notin DOMAIN v /\ j \notin DOMAIN v
    <3>1. /\ i - n \in DOMAIN w /\ u[i] = w[i - n]
          /\ j - n \in DOMAIN w /\ u[j] = w[j - n]
      BY <1>1, <2>3
    <3>2. i - n < j - n
      BY <1>1, <1>3
    <3> QED
      BY <1>3, <3>1, <3>2 DEF Ordered
  <2>4. CASE i \notin DOMAIN v /\ j \in DOMAIN v
    <3>1. i - n >= 1 /\ j <= n
      BY <1>1, <2>4
    <3> QED
      BY <1>1, <1>3, <3>1
  <2> QED
    BY <2>1, <2>2, <2>3, <2>4
<1>4. ASSUME Ordered(u)
      PROVE  /\ Ordered(v) /\ Ordered(w)
             /\ \A a \in Loops(v), b \in Loops(w) : Before(a, b)
  <2>1. Ordered(v)
    BY <1>1, <1>4 DEF Ordered
  <2>2. ASSUME NEW i \in DOMAIN w, NEW j \in DOMAIN w, i < j
        PROVE  Before(w[i], w[j])
    <3>1. i + n < j + n
      BY <1>1, <2>2
    <3> QED
      BY <1>1, <1>4, <3>1 DEF Ordered
  <2>3. ASSUME NEW i \in DOMAIN v, NEW j \in DOMAIN w
        PROVE  Before(v[i], w[j])
    <3>1. i < j + n
      BY <1>1
    <3> QED
      BY <1>1, <1>4, <3>1 DEF Ordered
  <2> QED
    BY <2>1, <2>2, <2>3 DEF Ordered, Loops
<1>5. Ordered(v) /\ Ordered(w) /\ (\A a \in Loops(v), b \in Loops(w) : Before(a, b))
        => Ordered(u)
  BY <1>3 DEF Ordered
<1> QED
  BY <1>1, <1>2, <1>4, <1>5 DEF u

\* A list of one loop.
LEMMA OneLoop ==
  ASSUME NEW a \in LoopType
  PROVE  <<a>> \in Seq(LoopType) /\ Loops(<<a>>) = {a} /\ Ordered(<<a>>)
<1> DEFINE w == <<a>>
<1>1. w \in Seq(LoopType) /\ DOMAIN w = {1} /\ w[1] = a
  OBVIOUS
<1> HIDE DEF w
<1>2. Loops(w) = {a}
  BY <1>1 DEF Loops
<1>3. Ordered(w)
  BY <1>1 DEF Ordered
<1> QED
  BY <1>1, <1>2, <1>3 DEF w

\* A list of no loops.
LEMMA NoLoop == <<>> \in Seq(LoopType) /\ Loops(<<>>) = {} /\ Ordered(<<>>)
  BY DEF Loops, Ordered

\* Two loops.
LEMMA TwoLoops ==
  ASSUME NEW a \in LoopType, NEW b \in LoopType, Before(a, b)
  PROVE  /\ <<a, b>> \in Seq(LoopType) /\ Loops(<<a, b>>) = {a, b}
         /\ Ordered(<<a, b>>)
<1> DEFINE w == <<a, b>>
<1>1. w \in Seq(LoopType) /\ DOMAIN w = {1, 2} /\ w[1] = a /\ w[2] = b
  OBVIOUS
<1> HIDE DEF w
<1>2. Loops(w) = {a, b}
  BY <1>1 DEF Loops
<1>3. ASSUME NEW i \in DOMAIN w, NEW j \in DOMAIN w, i < j
      PROVE  i = 1 /\ j = 2
  BY <1>1, <1>3
<1>4. Ordered(w)
  BY <1>1, <1>3 DEF Ordered
<1> QED
  BY <1>1, <1>2, <1>4 DEF w

\* The first loop and the others.
LEMMA LoopsTail ==
  ASSUME NEW w \in Seq(LoopType), w # <<>>
  PROVE  /\ Head(w) \in LoopType /\ Tail(w) \in Seq(LoopType)
         /\ Loops(w) = {Head(w)} \cup Loops(Tail(w))
         /\ Ordered(w) => /\ Ordered(Tail(w))
                          /\ \A b \in Loops(Tail(w)) : Before(Head(w), b)
<1> DEFINE a == Head(w)
           v == Tail(w)
<1>1. a \in LoopType /\ v \in Seq(LoopType) /\ w = <<a>> \o v
  OBVIOUS
<1> HIDE DEF a, v
<1>2. <<a>> \in Seq(LoopType) /\ Loops(<<a>>) = {a}
  BY <1>1, OneLoop
<1> DEFINE u == <<a>>
<1> HIDE DEF u
<1>3. /\ Loops(u \o v) = Loops(u) \cup Loops(v)
      /\ Ordered(u \o v) => /\ Ordered(v)
                            /\ \A x \in Loops(u), y \in Loops(v) : Before(x, y)
  BY <1>1, <1>2, LoopsJoin DEF u
<1>4. w = u \o v /\ Loops(u) = {a}
  BY <1>1, <1>2 DEF u
<1> QED
  BY <1>1, <1>3, <1>4 DEF a, v

\* What is in a list of loops.
LEMMA InLoops ==
  ASSUME NEW w, NEW kind, NEW r, NEW x, NEW t
  PROVE  InWork(w, kind, r, x, t) <=>
           \E l \in Loops(w) : l.kind = kind /\ l.rec = r /\ l.x = x /\ t \in l.terms
  BY DEF InWork, Loops

\* The first loop gives way to loops that touch no record index.
LEMMA QuietLoops ==
  ASSUME NEW w \in Seq(LoopType), w # <<>>, Ordered(w),
         NEW v \in Seq(LoopType), \A a \in Loops(v) : a.x = "ck"
  PROVE  LET u == v \o Tail(w)
         IN  /\ u \in Seq(LoopType) /\ Loops(u) = Loops(v) \cup Loops(Tail(w))
             /\ Ordered(u)
             /\ \A kind \in {"add", "del"}, x \in RecIndex : \A r, t :
                  /\ InWork(u, kind, r, x, t) => InWork(w, kind, r, x, t)
                  /\ Head(w).x = "ck" \/ Head(w).terms = {} \/ Head(w).kind # kind =>
                       (InWork(u, kind, r, x, t) <=> InWork(w, kind, r, x, t))
<1> DEFINE u == v \o Tail(w)
           rest == Tail(w)
<1>1. /\ rest \in Seq(LoopType) /\ Loops(w) = {Head(w)} \cup Loops(rest)
      /\ Ordered(rest)
  BY LoopsTail
<1> HIDE DEF rest
<1>2. \A a \in Loops(v) : \A b : Before(a, b)
  BY Constants DEF Before
<1>3. Ordered(v)
  BY <1>2 DEF Ordered, Loops
<1>4. u = v \o rest
  BY DEF rest
<1> HIDE DEF u
<1>5. u \in Seq(LoopType) /\ Loops(u) = Loops(v) \cup Loops(rest) /\ Ordered(u)
  BY <1>1, <1>2, <1>3, <1>4, LoopsJoin
<1>6. ASSUME NEW kind \in {"add", "del"}, NEW r, NEW x \in RecIndex, NEW t
      PROVE  /\ InWork(u, kind, r, x, t) => InWork(w, kind, r, x, t)
             /\ Head(w).x = "ck" \/ Head(w).terms = {} \/ Head(w).kind # kind =>
                  (InWork(u, kind, r, x, t) <=> InWork(w, kind, r, x, t))
  <2>1. x # "ck"
    BY Constants
  <2> QED
    BY <1>1, <1>5, <2>1, InLoops
<1> QED
  BY <1>5, <1>6 DEF u, rest

\* A loop over the terms of a record, and another task.
LEMMA RecLoopIs ==
  ASSUME NEW d, DatabaseOK(d), NEW i \in DOMAIN d.assoc, NEW x \in RecIndex,
         NEW kind \in {"add", "del"}
  PROVE  LET l == RecLoop(d, kind, x, i)
         IN  /\ l \in LoopType /\ l.kind = kind /\ l.x = x /\ l.rec = i
             /\ l.terms = {t \in Term : Occurs(d, i, x, t)}
<1> DEFINE l == RecLoop(d, kind, x, i)
<1>1. l \in LoopType /\ l.kind = kind
  BY RecLoopOK
<1>2. x # "ck"
  BY Constants
<1>3. l.x = x /\ l.rec = i /\ l.terms = Occurring(Words[d.assoc[i].doc][x])
  BY <1>2 DEF RecLoop, Loop, in_extract
<1> HIDE DEF l
<1>4. l.terms = {t \in Term : Occurs(d, i, x, t)}
  BY <1>3 DEF Occurring, Occurs
<1> QED
  BY <1>1, <1>3, <1>4 DEF l

\* A task that is not a loop over terms.
LEMMA TaskIs ==
  ASSUME NEW d, DatabaseOK(d), NEW i \in DOMAIN d.assoc, NEW id \in Nat, NEW k \in Nat,
         NEW kind \in {"fil_del", "comp_del", "components"},
         kind = "components" => k = 1 /\ id = d.maxcomp + 1
  PROVE  LET l == Task(kind, i, id, k)
         IN  l \in LoopType /\ l.kind = kind /\ l.x = "ck" /\ l.rec = i
<1> DEFINE l == Task(kind, i, id, k)
<1>1. l \in LoopType /\ l.kind = kind
  BY TaskOK
<1>2. l.x = "ck" /\ l.rec = i
  BY DEF Task, Loop
<1> QED
  BY <1>1, <1>2

\* The loops w add the entries of record i.
Fills(w, d, i) ==
  /\ w \in Seq(LoopType) /\ Ordered(w)
  /\ \A l \in Loops(w) : /\ l.rec = i /\ l.kind \in {"add", "components"}
                         /\ l.kind # "add" => l.x = "ck"
  /\ \A x \in RecIndex, t \in Term : \A r :
       InWork(w, "add", r, x, t) <=> r = i /\ Occurs(d, i, x, t)

\* The loops of in_kwadd add what the record contains.
LEMMA KwaddFills ==
  ASSUME NEW d, DatabaseOK(d), NEW i \in DOMAIN d.assoc
  PROVE  Fills(in_kwadd(d, i), d, i)
<1> DEFINE a == RecLoop(d, "add", "pk", i)
           b == RecLoop(d, "add", "kw", i)
           e == Task("components", i, d.maxcomp + 1, 1)
           w == in_kwadd(d, i)
           terms(x) == {t \in Term : Occurs(d, i, x, t)}
<1>1. /\ a \in LoopType /\ a.kind = "add" /\ a.x = "pk" /\ a.rec = i
      /\ a.terms = terms("pk")
      /\ b \in LoopType /\ b.kind = "add" /\ b.x = "kw" /\ b.rec = i
      /\ b.terms = terms("kw")
  BY RecLoopIs, Constants
<1>2. d.maxcomp + 1 \in Nat
  BY DatabaseFields DEF DatabaseOK
<1>3. e \in LoopType /\ e.kind = "components" /\ e.x = "ck" /\ e.rec = i
  BY <1>2, TaskIs
<1>4. w = <<a, b, e>>
  BY DEF in_kwadd
<1> HIDE DEF a, b, e, w
<1> DEFINE v == <<a, b>>
           u == <<e>>
<1>5. w = v \o u
  BY <1>4
<1>6. Before(a, b) /\ \A l \in {a, b} : Before(l, e)
  BY <1>1, <1>3, Constants DEF Before
<1>7. v \in Seq(LoopType) /\ Loops(v) = {a, b} /\ Ordered(v)
  BY <1>1, <1>6, TwoLoops
<1>8. u \in Seq(LoopType) /\ Loops(u) = {e} /\ Ordered(u)
  BY <1>3, OneLoop
<1> HIDE DEF v, u
<1>9. w \in Seq(LoopType) /\ Loops(w) = {a, b} \cup {e} /\ Ordered(w)
  BY <1>5, <1>6, <1>7, <1>8, LoopsJoin
<1>10. \A l \in Loops(w) : /\ l.rec = i /\ l.kind \in {"add", "components"}
                           /\ l.kind # "add" => l.x = "ck"
  BY <1>1, <1>3, <1>9
<1>11. ASSUME NEW r, NEW x \in RecIndex, NEW t \in Term
       PROVE  InWork(w, "add", r, x, t) <=> r = i /\ Occurs(d, i, x, t)
  <2>1. x = "pk" \/ x = "kw"
    BY DEF RecIndex
  <2>2. InWork(w, "add", r, x, t) <=>
          \E l \in Loops(w) : l.kind = "add" /\ l.rec = r /\ l.x = x /\ t \in l.terms
    BY InLoops
  <2>3. InWork(w, "add", r, x, t) <=> r = i /\ t \in terms(x)
    <3> HIDE DEF terms
    <3> QED
      BY <1>1, <1>3, <1>9, <2>1, <2>2
  <2> QED
    BY <2>3
<1> QED
  BY <1>9, <1>10, <1>11 DEF Fills, w

\* The loops w take out the entries of record i, if it can be read.
Clears(w, kinds, d, i) ==
  /\ w \in Seq(LoopType) /\ Ordered(w)
  /\ \A l \in Loops(w) :
       /\ l.rec = i /\ l.kind \in kinds
       /\ l.kind = "del" => /\ l.x \in RecIndex /\ GetSGML(d, i) = {"doc"}
                            /\ \A t \in l.terms : t \in Term /\ Occurs(d, i, l.x, t)
       /\ l.kind # "del" => l.x = "ck"
  /\ \A x \in RecIndex, t \in Term : \A r :
       InWork(w, "del", r, x, t) <=> /\ r = i /\ Occurs(d, i, x, t)
                                     /\ GetSGML(d, i) = {"doc"}

\* The loops of in_kwdel take out what the record contains.
LEMMA KwdelClears ==
  ASSUME NEW d, DatabaseOK(d), NEW i \in DOMAIN d.assoc
  PROVE  Clears(in_kwdel(d, i), {"del"}, d, i)
<1> DEFINE a == RecLoop(d, "del", "pk", i)
           b == RecLoop(d, "del", "kw", i)
           w == in_kwdel(d, i)
           terms(x) == {t \in Term : Occurs(d, i, x, t)}
<1>1. CASE GetSGML(d, i) # {"doc"}
  <2>1. w = <<>>
    BY <1>1 DEF in_kwdel
  <2>2. w \in Seq(LoopType) /\ Loops(w) = {} /\ Ordered(w)
    BY <2>1, NoLoop
  <2> HIDE DEF w
  <2> QED
    BY <1>1, <2>2, InLoops DEF Clears, w
<1>2. CASE GetSGML(d, i) = {"doc"}
  <2>1. /\ a \in LoopType /\ a.kind = "del" /\ a.x = "pk" /\ a.rec = i
        /\ a.terms = terms("pk")
        /\ b \in LoopType /\ b.kind = "del" /\ b.x = "kw" /\ b.rec = i
        /\ b.terms = terms("kw")
    BY RecLoopIs, Constants
  <2>2. w = <<a, b>>
    BY <1>2 DEF in_kwdel
  <2> HIDE DEF a, b, w
  <2>3. Before(a, b)
    BY <2>1 DEF Before
  <2>4. w \in Seq(LoopType) /\ Loops(w) = {a, b} /\ Ordered(w)
    BY <2>1, <2>2, <2>3, TwoLoops
  <2>5. \A l \in Loops(w) :
          /\ l.rec = i /\ l.kind = "del"
          /\ l.x \in RecIndex /\ \A t \in l.terms : t \in Term /\ Occurs(d, i, l.x, t)
    BY <2>1, <2>4, Constants
  <2>6. ASSUME NEW r, NEW x \in RecIndex, NEW t \in Term
        PROVE  InWork(w, "del", r, x, t) <=> r = i /\ Occurs(d, i, x, t)
    <3>1. x = "pk" \/ x = "kw"
      BY DEF RecIndex
    <3>2. InWork(w, "del", r, x, t) <=>
            \E l \in Loops(w) : l.kind = "del" /\ l.rec = r /\ l.x = x /\ t \in l.terms
      BY InLoops
    <3>3. InWork(w, "del", r, x, t) <=> r = i /\ t \in terms(x)
      <4> HIDE DEF terms
      <4> QED
        BY <2>1, <2>4, <3>1, <3>2
    <3> QED
      BY <3>3
  <2> QED
    BY <1>2, <2>4, <2>5, <2>6 DEF Clears, w
<1> QED
  BY <1>1, <1>2

\* Other tasks after them leave that as it is.
LEMMA ClearsMore ==
  ASSUME NEW d, NEW i, NEW w, NEW kinds, Clears(w, kinds, d, i),
         NEW more, NEW v \in Seq(LoopType),
         \A a \in Loops(v) : /\ a.rec = i /\ a.x = "ck"
                             /\ a.kind \in more /\ a.kind \notin {"add", "del"}
  PROVE  Clears(w \o v, kinds \cup more, d, i)
<1> DEFINE u == w \o v
<1>1. w \in Seq(LoopType) /\ Ordered(w)
  BY DEF Clears
<1>2. \A l, a : a.x = "ck" => Before(l, a)
  BY Constants DEF Before
<1>3. Ordered(v)
  BY <1>2 DEF Ordered, Loops
<1>4. u \in Seq(LoopType) /\ Ordered(u) /\ Loops(u) = Loops(w) \cup Loops(v)
  BY <1>1, <1>2, <1>3, LoopsJoin
<1> HIDE DEF u
<1>5. \A l \in Loops(u) :
        /\ l.rec = i /\ l.kind \in kinds \cup more
        /\ l.kind = "del" => /\ l.x \in RecIndex /\ GetSGML(d, i) = {"doc"}
                             /\ \A t \in l.terms : t \in Term /\ Occurs(d, i, l.x, t)
        /\ l.kind # "del" => l.x = "ck"
  BY <1>4 DEF Clears
<1>6. \A r, x, t : InWork(u, "del", r, x, t) <=> InWork(w, "del", r, x, t)
  BY <1>4, InLoops
<1> QED
  BY <1>4, <1>5, <1>6 DEF Clears, u

\* So do in_kwdel and fil_del of a replacement,
LEMMA ReplaceClears ==
  ASSUME NEW d, DatabaseOK(d), NEW i \in DOMAIN d.assoc
  PROVE  Clears(Replace(d, i), {"del", "fil_del"}, d, i)
<1> DEFINE a == Task("fil_del", i, i, 0)
           w == in_kwdel(d, i)
           v == <<a>>
<1>1. i \in Nat
  BY Numbered
<1>2. a \in LoopType /\ a.kind = "fil_del" /\ a.x = "ck" /\ a.rec = i
  BY <1>1, TaskIs
<1>3. Clears(w, {"del"}, d, i)
  BY KwdelClears
<1>4. Replace(d, i) = w \o v
  BY DEF Replace
<1> HIDE DEF a, w
<1>5. v \in Seq(LoopType) /\ Loops(v) = {a}
  BY <1>2, OneLoop
<1> HIDE DEF v
<1>6. Clears(w \o v, {"del"} \cup {"fil_del"}, d, i)
  BY <1>2, <1>3, <1>5, ClearsMore
<1>7. {"del"} \cup {"fil_del"} = {"del", "fil_del"}
  OBVIOUS
<1> QED
  BY <1>4, <1>6, <1>7

\* and those of delete_recs.
LEMMA DeleteClears ==
  ASSUME NEW d, DatabaseOK(d), NEW i \in DOMAIN d.assoc
  PROVE  Clears(in_kwdel(d, i) \o <<Task("comp_del", i, i, 0), Task("fil_del", i, i, 0)>>,
                {"del", "comp_del", "fil_del"}, d, i)
<1> DEFINE a == Task("comp_del", i, i, 0)
           b == Task("fil_del", i, i, 0)
           w == in_kwdel(d, i)
           v == <<a, b>>
<1>1. i \in Nat
  BY Numbered
<1>2. /\ a \in LoopType /\ a.kind = "comp_del" /\ a.x = "ck" /\ a.rec = i
      /\ b \in LoopType /\ b.kind = "fil_del" /\ b.x = "ck" /\ b.rec = i
  BY <1>1, TaskIs
<1>3. Clears(w, {"del"}, d, i)
  BY KwdelClears
<1> HIDE DEF a, b, w
<1>4. Before(a, b)
  BY <1>2, Constants DEF Before
<1>5. v \in Seq(LoopType) /\ Loops(v) = {a, b}
  BY <1>2, <1>4, TwoLoops
<1> HIDE DEF v
<1>6. Clears(w \o v, {"del"} \cup {"comp_del", "fil_del"}, d, i)
  BY <1>2, <1>3, <1>5, ClearsMore
<1>7. {"del"} \cup {"comp_del", "fil_del"} = {"del", "comp_del", "fil_del"}
  OBVIOUS
<1> QED
  BY <1>6, <1>7 DEF a, b, w, v

-----------------------------------------------------------------------------
(* The state of a program.                                                 *)

\* There is one database, and a program is at it.
LEMMA OneFile ==
  ASSUME Manual, IInv
  PROVE  /\ File = {1} /\ DatabaseOK(db[1])
         /\ db[1] \in Database /\ db[1].assoc \in Seq(Rec)
         /\ cmd # NULL => /\ cmd.file = 1 /\ D = db[1]
                          /\ \A r : SetD(r) => db'[1] = r
<1>1. File = {1}
  BY DEF Manual, File
<1>2. DatabaseOK(db[1]) /\ db \in [File -> Database]
  BY <1>1 DEF IInv
<1>3. db[1] \in Database /\ db[1].assoc \in Seq(Rec)
  BY <1>2, DatabaseFields DEF DatabaseOK
<1>4. ASSUME cmd # NULL
      PROVE  cmd.file = 1 /\ D = db[1] /\ \A r : SetD(r) => db'[1] = r
  <2>1. cmd.file = 1
    BY <1>1, <1>4, Running
  <2> QED
    BY <1>1, <1>2, <2>1 DEF D, SetD
<1> QED
  BY <1>1, <1>2, <1>3, <1>4

\* The lists of the index, and those of newinfo, are true.
LEMMA ListsTrue ==
  ASSUME Manual, IInv, NEW x \in RecIndex, NEW t \in Term
  PROVE  /\ ListOK(db[1], x, t, db[1].ix[x][t])
         /\ cmd # NULL => ListOK(db[1], x, t, Held(x, t))
<1>1. x \in Index
  BY DEF Index
<1>2. ListOK(db[1], x, t, db[1].ix[x][t])
  BY <1>1, OneFile, DatabaseFields DEF ListOK, DatabaseOK, Lists
<1>3. ASSUME cmd # NULL, AtCur(x, t)
      PROVE  ListOK(db[1], x, t, cur.p)
  <2>1. cur \in NewInfo_t \cup {NULL} /\ NewInfoOK(D, cur) /\ D = db[1]
    BY <1>3, Running, OneFile
  <2>2. cur # NULL /\ cur.x = x /\ cur.t = t
    BY <1>3 DEF AtCur
  <2>3. cur.p \in Posting /\ TruePosting(db[1].assoc, cur.x, cur.t, cur.p)
    BY <2>1, <2>2, NewInfoIs
  <2> QED
    BY <2>2, <2>3 DEF ListOK
<1> QED
  BY <1>2, <1>3 DEF Held

\* What record i of the associator reads as.
LEMMA Readable ==
  ASSUME NEW d, NEW i, GetSGML(d, i) = {"doc"}
  PROVE  i \in DOMAIN d.assoc /\ d.assoc[i].doc \notin Bad
  BY DEF GetSGML

\* A record has one primary key.
LEMMA OneKey ==
  ASSUME NEW d, DatabaseOK(d), NEW i \in DOMAIN d.assoc, NEW t \in Term, NEW u \in Term,
         Occurs(d, i, "pk", t), Occurs(d, i, "pk", u)
  PROVE  t = u
  BY Numbered, IndexingAssumption DEF Occurs

\* The lists of a running program, and of none.
LEMMA WhatLists ==
  ASSUME ListsExact, NEW x \in RecIndex, NEW t \in Term
  PROVE  /\ cmd = NULL => Exact(db[1], torn[1], x, t, db[1].ix[x][t], want[1])
         /\ cmd # NULL => Exact(db[1], torn[1], x, t, Held(x, t), Due(x, t))
         /\ NotYet(x, t) =>
              /\ Exact(db[1], torn[1], x, t, db[1].ix[x][t], want[1])
              /\ x = "pk" /\ primary # "none" => db[1].ix[x][t] = NULL
  BY DEF ListsExact

\* A step of a program that goes on.
LEMMA ListsGo ==
  ASSUME cmd' # NULL,
         \A x \in RecIndex, t \in Term :
           /\ Exact(db'[1], torn'[1], x, t, Held(x, t)', Due(x, t)')
           /\ NotYet(x, t)' =>
                /\ Exact(db'[1], torn'[1], x, t, db'[1].ix[x][t], want'[1])
                /\ x = "pk" /\ primary' # "none" => db'[1].ix[x][t] = NULL
  PROVE  ListsExact'
  BY DEF ListsExact

\* The documents of a database stay, and its lists over records.
SameLists(d, e) ==
  /\ Grown(d.assoc, e.assoc) /\ DOMAIN e.assoc = DOMAIN d.assoc
  /\ \A x \in RecIndex, t \in Term : e.ix[x][t] = d.ix[x][t]

\* Exactness is about documents and lists.
LEMMA ExactSame ==
  ASSUME NEW d, NEW e, SameLists(d, e), NEW out, NEW x \in RecIndex, NEW t, NEW p,
         ListOK(d, x, t, p), NEW S, Exact(d, out, x, t, p, S)
  PROVE  Exact(e, out, x, t, p, S)
<1>1. /\ Grown(d.assoc, e.assoc) /\ S \cap DOMAIN e.assoc \subseteq DOMAIN d.assoc
      /\ out \subseteq out
  BY DEF SameLists
<1> QED
  BY <1>1, ExactKept

\* A step that leaves lists and record loops alone.
LEMMA QuietStep ==
  ASSUME Manual, IInv, EInv, IInv', cmd # NULL,
         UNCHANGED <<primary, cmd, ended, cur, hash_tab>>, UNCHANGED ghosts,
         NEW r, SetD(r), SameLists(D, r),
         \A q \in Live : GetSGML(r, q) = {"doc"},
         Ordered(work'), \A l \in Loops(work') : LoopFor(l),
         \A x \in RecIndex, t \in Term : \A q :
           /\ InWork(work', "add", q, x, t) <=> InWork(work, "add", q, x, t)
           /\ Direct => (InWork(work', "del", q, x, t) <=> InWork(work, "del", q, x, t)),
         \A l : l.x \in RecIndex => (l \in lines' <=> l \in lines)
  PROVE  EInv'
<1>1. D = db[1] /\ db'[1] = r /\ cmd' # NULL
  BY OneFile
<1>2. /\ Live' = Live /\ Loaded' = Loaded /\ (InLoad' <=> InLoad) /\ (Direct' <=> Direct)
      /\ (Gathering' <=> Gathering)
      /\ want' = want /\ upto' = upto /\ torn' = torn /\ (Idle' <=> Idle)
  BY DEF Live, Loaded, InLoad, Direct, Gathering, Idle, ghosts
<1>3. \A x \in RecIndex, t \in Term : \A q : InLines(lines', q, x, t) <=> InLines(lines, q, x, t)
  BY DEF InLines
<1>4. AtPrimary' <=> AtPrimary
  <2>1. Of("pk")' = Of("pk")
    BY Constants DEF Of
  <2> QED
    BY <2>1 DEF AtPrimary
<1>5. ASSUME NEW x \in RecIndex, NEW t \in Term
      PROVE  Due(x, t)' = Due(x, t) /\ Held(x, t)' = Held(x, t) /\ (NotYet(x, t)' <=> NotYet(x, t))
             /\ db'[1].ix[x][t] = db[1].ix[x][t]
  <2>1. db'[1].ix[x][t] = db[1].ix[x][t]
    BY <1>1 DEF SameLists
  <2>2. Due(x, t)' = Due(x, t)
    BY <1>2, <1>3 DEF Due
  <2>3. AtCur(x, t)' <=> AtCur(x, t)
    BY DEF AtCur
  <2>4. Held(x, t)' = Held(x, t)
    BY <2>1, <2>3 DEF Held
  <2>5. NotYet(x, t)' <=> NotYet(x, t)
    BY <1>2, <1>4, <2>3 DEF NotYet
  <2> QED
    BY <2>1, <2>2, <2>4, <2>5
<1>6. ListsExact'
  <2>1. ASSUME NEW x \in RecIndex, NEW t \in Term
        PROVE  /\ Exact(r, torn[1], x, t, Held(x, t), Due(x, t))
               /\ NotYet(x, t) =>
                    /\ Exact(r, torn[1], x, t, db[1].ix[x][t], want[1])
                    /\ x = "pk" /\ primary # "none" => db[1].ix[x][t] = NULL
    <3>1. /\ Exact(D, torn[1], x, t, Held(x, t), Due(x, t))
          /\ NotYet(x, t) =>
               /\ Exact(D, torn[1], x, t, db[1].ix[x][t], want[1])
               /\ x = "pk" /\ primary # "none" => db[1].ix[x][t] = NULL
      BY <1>1, WhatLists DEF EInv
    <3>2. ListOK(D, x, t, Held(x, t)) /\ ListOK(D, x, t, db[1].ix[x][t])
      BY <1>1, ListsTrue
    <3> QED
      BY <3>1, <3>2, ExactSame
  <2> QED
    BY <1>1, <1>2, <1>5, <2>1, ListsGo
<1>7. OneEntry'
  BY <1>1, <1>2, <1>5, Constants DEF EInv, OneEntry
<1>8. WantOK'
  <2>1. DOMAIN r.assoc = DOMAIN db[1].assoc /\ r.assoc \in Seq(Rec) /\ db[1].assoc \in Seq(Rec)
    BY <1>1, OneFile, DatabaseFields DEF SameLists, IInv
  <2>2. Len(r.assoc) = Len(db[1].assoc)
    BY <2>1
  <2> QED
    BY <1>1, <1>2, <2>2 DEF EInv, WantOK
<1>9. LoadOK'
  <2>1. DOMAIN r.assoc = DOMAIN db[1].assoc /\ r.assoc \in Seq(Rec) /\ db[1].assoc \in Seq(Rec)
    BY <1>1, OneFile, DatabaseFields DEF SameLists, IInv
  <2>2. Len(r.assoc) = Len(db[1].assoc)
    BY <2>1
  <2>3. Of("pk")' = Of("pk")
    BY Constants DEF Of
  <2>4. InLoad /\ cmd.batch => BatchOK'
    <3> SUFFICES ASSUME InLoad, cmd.batch PROVE BatchOK'
      OBVIOUS
    <3>1. BatchOK
      BY DEF EInv, LoadOK
    <3> QED
      BY <1>2, <2>3, <3>1 DEF BatchOK
  <2> QED
    BY <1>1, <1>2, <2>2, <2>4 DEF EInv, LoadOK
<1>10. ASSUME NEW l, LoopFor(l)
       PROVE  LoopFor(l)'
  BY <1>2, <1>10 DEF LoopFor
<1>11. (\A i \in DOMAIN work : LoopFor(work[i]))'
  BY <1>10 DEF Loops
<1> QED
  BY <1>1, <1>2, <1>6, <1>7, <1>8, <1>9, <1>11 DEF EInv

-----------------------------------------------------------------------------
(* The loops that leave the record indexes alone.                          *)

\* The loops of a program that is at a loop of a kind.
LEMMA AtWork ==
  ASSUME IInv, EInv, NEW kind, At(kind)
  PROVE  /\ cmd # NULL /\ work \in Seq(LoopType) /\ work # <<>>
         /\ h = Head(work) /\ h \in LoopType /\ h.kind = kind
         /\ Loops(work) = {h} \cup Loops(Tail(work)) /\ Ordered(work)
         /\ Tail(work) \in Seq(LoopType)
         /\ LoopFor(h) /\ \A l \in Loops(Tail(work)) : LoopFor(l)
<1>1. /\ cmd # NULL /\ work # <<>> /\ h \in LoopType /\ h.kind = kind
      /\ work \in Seq(LoopType)
  BY AtLoop
<1>2. Loops(work) = {Head(work)} \cup Loops(Tail(work)) /\ Tail(work) \in Seq(LoopType)
  BY <1>1, LoopsTail
<1>3. Ordered(work) /\ \A l \in Loops(work) : LoopFor(l)
  BY <1>1 DEF EInv, Loops
<1> QED
  BY <1>1, <1>2, <1>3 DEF h

\* The first loop goes on with less to do.
LEMMA EditLoops ==
  ASSUME NEW w \in Seq(LoopType), w # <<>>, Ordered(w), NEW l \in LoopType,
         l.kind = Head(w).kind, l.x = Head(w).x
  PROVE  LET u == [w EXCEPT ![1] = l]
         IN  /\ u \in Seq(LoopType) /\ Ordered(u)
             /\ Loops(u) = {l} \cup Loops(Tail(w))
<1> DEFINE u == [w EXCEPT ![1] = l]
<1>1. w[1] = Head(w) /\ 1 \in DOMAIN w
  OBVIOUS
<1>2. /\ u \in Seq(LoopType) /\ DOMAIN u = DOMAIN w
      /\ \A i \in DOMAIN w : u[i] = IF i = 1 THEN l ELSE w[i]
  BY <1>1
<1> HIDE DEF u
<1>3. ASSUME NEW i \in DOMAIN u PROVE u[i].kind = w[i].kind /\ u[i].x = w[i].x
  BY <1>1, <1>2
<1>4. Ordered(u)
  BY <1>2, <1>3 DEF Ordered, Before
<1> DEFINE v == Tail(w)
           n == Len(w)
<1>5. /\ n \in Nat \ {0} /\ DOMAIN w = 1..n /\ DOMAIN v = 1..n - 1
      /\ \A i \in 1..n - 1 : v[i] = w[i + 1]
  OBVIOUS
<1> HIDE DEF v, n
<1>6. Loops(u) = {l} \cup Loops(v)
  <2>1. ASSUME NEW i \in DOMAIN u PROVE u[i] \in {l} \cup Loops(v)
    <3>1. CASE i = 1
      BY <1>2, <2>1, <3>1
    <3>2. CASE i # 1
      <4>1. u[i] = w[i] /\ i \in 1..n
        BY <1>2, <1>5, <2>1, <3>2
      <4>2. i - 1 \in 1..n - 1 /\ w[i] = v[i - 1]
        BY <1>5, <3>2, <4>1
      <4> QED
        BY <1>5, <4>1, <4>2 DEF Loops
    <3> QED
      BY <3>1, <3>2
  <2>2. ASSUME NEW i \in DOMAIN v PROVE v[i] \in Loops(u)
    <3>1. i + 1 \in 1..n /\ v[i] = w[i + 1] /\ i + 1 # 1
      BY <1>5, <2>2
    <3> QED
      BY <1>2, <1>5, <3>1 DEF Loops
  <2>3. l \in Loops(u)
    BY <1>1, <1>2 DEF Loops
  <2> QED
    BY <2>1, <2>2, <2>3 DEF Loops
<1> QED
  BY <1>2, <1>4, <1>6 DEF u, v

\* A loop for less is a loop for the same record.
LEMMA LoopForLess ==
  ASSUME NEW l, NEW m, LoopFor(l), m.kind = l.kind, m.x = l.x, m.rec = l.rec,
         m.terms \subseteq l.terms
  PROVE  LoopFor(m)
  BY DEF LoopFor

\* After a round of a term loop its term is no longer ahead.
LEMMA RoundLoops ==
  ASSUME IInv, EInv, NEW kind \in {"add", "del"}, At(kind), NEW t \in h.terms,
         NEW b \in BOOLEAN,
         work' = [work EXCEPT ![1].terms = @ \ {t}, ![1].touched = b]
  PROVE  /\ Ordered(work') /\ \A l \in Loops(work') : LoopFor(l)
         /\ InWork(work, kind, h.rec, h.x, t)
         /\ \A k \in {"add", "del"}, x \in RecIndex : \A r, u :
              InWork(work', k, r, x, u) <=>
                /\ InWork(work, k, r, x, u)
                /\ ~(k = kind /\ r = h.rec /\ x = h.x /\ u = t)
         /\ h.x \in RecIndex => \A r, u : InWork(work, kind, r, h.x, u) => r = h.rec
<1> DEFINE l == [h EXCEPT !.terms = @ \ {t}, !.touched = b]
           rest == Tail(work)
<1>1. /\ work \in Seq(LoopType) /\ work # <<>> /\ h = Head(work) /\ h \in LoopType
      /\ h.kind = kind /\ Loops(work) = {h} \cup Loops(rest) /\ Ordered(work)
      /\ LoopFor(h) /\ \A a \in Loops(rest) : LoopFor(a)
  BY AtWork
<1>2. work[1] = h /\ 1 \in DOMAIN work
  BY <1>1
<1>3. work' = [work EXCEPT ![1] = l]
  BY <1>1, <1>2 DEF LoopType
<1>4. /\ l \in LoopType /\ l.kind = kind /\ l.x = h.x /\ l.rec = h.rec
      /\ l.terms = h.terms \ {t}
  BY <1>1 DEF LoopType
<1> HIDE DEF l
<1>5. \A a \in Loops(rest) : Before(h, a)
  BY <1>1, LoopsTail, Zenon
<1>6. Ordered(work') /\ Loops(work') = {l} \cup Loops(rest)
  <2>1. l.kind = Head(work).kind /\ l.x = Head(work).x
    BY <1>1, <1>4
  <2> DEFINE u == [work EXCEPT ![1] = l]
  <2>2. Ordered(u) /\ Loops(u) = {l} \cup Loops(rest)
    BY <1>1, <1>4, <2>1, EditLoops
  <2> QED
    BY <1>3, <2>2, Zenon
<1> HIDE DEF rest
<1>7. LoopFor(l)
  BY <1>1, <1>4, LoopForLess
<1>8. InWork(work, kind, h.rec, h.x, t)
  BY <1>1, InLoops
<1>9. h.x \in RecIndex => \A a \in Loops(rest) : ~(a.kind = kind /\ a.x = h.x)
  BY <1>1, <1>5 DEF Before
<1>10. ASSUME NEW k \in {"add", "del"}, NEW r, NEW x \in RecIndex, NEW u
       PROVE  InWork(work', k, r, x, u) <=>
                /\ InWork(work, k, r, x, u)
                /\ ~(k = kind /\ r = h.rec /\ x = h.x /\ u = t)
  <2>1. /\ InWork(work', k, r, x, u) <=>
             \E a \in {l} \cup Loops(rest) :
               a.kind = k /\ a.rec = r /\ a.x = x /\ u \in a.terms
        /\ InWork(work, k, r, x, u) <=>
             \E a \in {h} \cup Loops(rest) :
               a.kind = k /\ a.rec = r /\ a.x = x /\ u \in a.terms
    BY <1>1, <1>6, InLoops
  <2> QED
    BY <1>1, <1>4, <1>9, <2>1
<1>11. h.x \in RecIndex => \A r, u : InWork(work, kind, r, h.x, u) => r = h.rec
  BY <1>1, <1>9, InLoops
<1> QED
  BY <1>1, <1>6, <1>7, <1>8, <1>10, <1>11

\* The first loop gives way to others for component indexes.
LEMMA QuietLoop ==
  ASSUME Manual, IInv, EInv, IInv', NEW kind, At(kind),
         UNCHANGED <<primary, cmd, ended>>, UNCHANGED batch, UNCHANGED ghosts,
         NEW r, SetD(r), SameLists(D, r),
         \A q \in Live : GetSGML(r, q) = {"doc"},
         NEW v \in Seq(LoopType), work' = v \o Tail(work),
         \A a \in Loops(v) : a.x = "ck" /\ LoopFor(a),
         h.x = "ck" \/ h.terms = {}
  PROVE  EInv'
<1>1. /\ cmd # NULL /\ work \in Seq(LoopType) /\ work # <<>> /\ h = Head(work)
      /\ Ordered(work)
      /\ \A l \in Loops(Tail(work)) : LoopFor(l)
  BY AtWork
<1>2. /\ Loops(work') = Loops(v) \cup Loops(Tail(work)) /\ Ordered(work')
      /\ \A k \in {"add", "del"}, x \in RecIndex : \A q, t :
           InWork(work', k, q, x, t) <=> InWork(work, k, q, x, t)
  BY <1>1, QuietLoops
<1>3. \A l \in Loops(work') : LoopFor(l)
  BY <1>1, <1>2
<1>6. ASSUME NEW x \in RecIndex, NEW t \in Term, NEW q
      PROVE  /\ InWork(work', "add", q, x, t) <=> InWork(work, "add", q, x, t)
             /\ Direct => (InWork(work', "del", q, x, t) <=> InWork(work, "del", q, x, t))
  <2>1. \A k \in {"add", "del"} :
          InWork(work', k, q, x, t) <=> InWork(work, k, q, x, t)
    BY <1>2, Zenon
  <2> QED
    BY <2>1
<1>4. UNCHANGED <<primary, cmd, ended, cur, hash_tab>> /\ UNCHANGED ghosts
  BY DEF batch
<1>5. \A l : l.x \in RecIndex => (l \in lines' <=> l \in lines)
  BY DEF batch
<1> QED
  BY <1>1, <1>2, <1>3, <1>4, <1>5, <1>6, QuietStep

\* Loops that go in front are typed if the whole list is.
LEMMA FrontTyped ==
  ASSUME NEW a, NEW b, NEW w \in Seq(LoopType), <<a, b>> \o w \in Seq(LoopType)
  PROVE  a \in LoopType /\ b \in LoopType
<1> DEFINE u == <<a, b>> \o w
<1>1. /\ 1 \in DOMAIN u /\ u[1] = a
      /\ 2 \in DOMAIN u /\ u[2] = b
      /\ u \in Seq(LoopType)
  OBVIOUS
<1> HIDE DEF u
<1>2. u[1] \in LoopType /\ u[2] \in LoopType
  BY <1>1
<1> QED
  BY <1>1, <1>2

\* Other fields of the database than documents and lists change.
LEMMA QuietFrame ==
  ASSUME Manual, IInv, EInv, IInv', NEW kind, At(kind),
         UNCHANGED <<primary, cmd, ended>>, UNCHANGED batch, UNCHANGED ghosts,
         NEW r, SetD(r), r.assoc = D.assoc, r.ix = D.ix,
         NEW v \in Seq(LoopType), work' = v \o Tail(work),
         \A a \in Loops(v) : a.x = "ck" /\ LoopFor(a),
         h.x = "ck" \/ h.terms = {}
  PROVE  EInv'
<1>1. D = db[1]
  BY AtWork, OneFile
<1>2. SameLists(D, r)
  BY DEF SameLists, Grown
<1>3. \A q \in Live : GetSGML(r, q) = {"doc"}
  BY <1>1 DEF EInv, WantOK, GetSGML
<1> QED
  BY <1>2, <1>3, QuietLoop

\* The first loop is over.
LEMMA QuietDone ==
  ASSUME Manual, IInv, EInv, IInv', NEW kind, At(kind),
         UNCHANGED <<primary, cmd, ended>>, UNCHANGED batch, UNCHANGED ghosts,
         NEW r, SetD(r), r.assoc = D.assoc, r.ix = D.ix, work' = Tail(work),
         h.x = "ck" \/ h.terms = {}
  PROVE  EInv'
<1> DEFINE v == <<>>
<1>1. v \in Seq(LoopType) /\ Loops(v) = {}
  BY NoLoop
<1>2. Tail(work) \in Seq(LoopType)
  BY AtWork
<1>3. work' = v \o Tail(work)
  BY <1>2
<1> HIDE DEF v
<1> QED
  BY <1>1, <1>3, QuietFrame

\* A loop that adds is at its end.
LEMMA AddDoneExact ==
  ASSUME Manual, IInv, EInv, IInv', AddDone
  PROVE  EInv'
<1> DEFINE n == IF h.touched THEN D.g[h.x].tot_numrecs + 1 ELSE D.g[h.x].tot_numrecs
           cs == IF h.x = "ck" THEN [D.comp EXCEPT ![h.id] = h.rec] ELSE D.comp
           r == [D EXCEPT !.g[h.x].tot_numrecs = n, !.comp = cs]
<1>1. /\ At("add") /\ work' = Tail(work) /\ h.terms = {}
      /\ UNCHANGED <<primary, cmd, ended>> /\ UNCHANGED batch /\ UNCHANGED ghosts
      /\ SetD(r)
  BY DEF AddDone, Rest
<1>2. D \in Database
  BY <1>1, AtWork, OneFile
<1> HIDE DEF n, cs
<1>3. r.assoc = D.assoc /\ r.ix = D.ix
  BY <1>2 DEF Database
<1> HIDE DEF r
<1> QED
  BY <1>1, <1>3, QuietDone

\* A loop that deletes is at its end.
LEMMA DelDoneExact ==
  ASSUME Manual, IInv, EInv, IInv', DelDone
  PROVE  EInv'
<1> DEFINE n == IF h.touched THEN D.g[h.x].tot_numrecs - 1 ELSE D.g[h.x].tot_numrecs
           cs == IF h.x = "ck" THEN [D.comp EXCEPT ![h.id] = NULL] ELSE D.comp
           r == [D EXCEPT !.g[h.x].tot_numrecs = n, !.comp = cs]
<1>1. /\ At("del") /\ work' = Tail(work) /\ h.terms = {}
      /\ UNCHANGED <<primary, cmd, ended>> /\ UNCHANGED batch /\ UNCHANGED ghosts
      /\ SetD(r)
  BY DEF DelDone, Rest
<1>2. D \in Database
  BY <1>1, AtWork, OneFile
<1> HIDE DEF n, cs
<1>3. r.assoc = D.assoc /\ r.ix = D.ix
  BY <1>2 DEF Database
<1> HIDE DEF r
<1> QED
  BY <1>1, <1>3, QuietDone

\* The record that is deleted is not one that is to have entries.
LEMMA FilDelExact ==
  ASSUME Manual, IInv, EInv, IInv', NEW hist \in BOOLEAN, FilDel(hist)
  PROVE  EInv'
<1> DEFINE r == fil_del(D, h.rec, hist)
           v == <<>>
<1>1. /\ At("fil_del") /\ work' = Tail(work)
      /\ UNCHANGED <<primary, cmd, ended>> /\ UNCHANGED batch /\ UNCHANGED ghosts
      /\ SetD(r)
  BY DEF FilDel
<1>2. /\ LoopFor(h) /\ h.kind = "fil_del" /\ cmd # NULL /\ Tail(work) \in Seq(LoopType)
  BY <1>1, AtWork
<1>3. D = db[1] /\ D \in Database /\ D.assoc \in Seq(Rec) /\ h.rec \in DOMAIN D.assoc
  BY <1>1, <1>2, OneFile, AtLoop
<1>4. h.x = "ck" /\ h.rec \notin Live
  BY <1>2 DEF LoopFor
<1>5. SameLists(D, r) /\ \A q : q # h.rec => GetSGML(r, q) = GetSGML(D, q)
  <2>1. CASE hist
    <3> DEFINE e == [D.assoc[h.rec] EXCEPT !.deleted = TRUE]
               a == [D.assoc EXCEPT ![h.rec] = e]
    <3>1. r = [D EXCEPT !.assoc = a]
      BY <2>1 DEF fil_del
    <3>2. e.doc = D.assoc[h.rec].doc
      BY <1>3 DEF Rec
    <3> HIDE DEF e
    <3>3. /\ DOMAIN a = DOMAIN D.assoc
          /\ \A j \in DOMAIN a : a[j] = IF j = h.rec THEN e ELSE D.assoc[j]
      BY <1>3
    <3> HIDE DEF a, r
    <3>4. r.assoc = a /\ r.ix = D.ix
      BY <1>3, <3>1 DEF Database
    <3> QED
      BY <3>2, <3>3, <3>4 DEF SameLists, Grown, GetSGML
  <2>2. CASE ~hist
    BY <2>2 DEF fil_del, SameLists, Grown
  <2> QED
    BY <2>1, <2>2
<1>6. \A q \in Live : GetSGML(r, q) = {"doc"}
  BY <1>3, <1>4, <1>5 DEF EInv, WantOK
<1>7. v \in Seq(LoopType) /\ Loops(v) = {}
  BY NoLoop
<1>8. work' = v \o Tail(work)
  BY <1>1, <1>2
<1> HIDE DEF r, v
<1> QED
  BY <1>1, <1>4, <1>5, <1>6, <1>7, <1>8, QuietLoop

\* in_components goes on to the next component.
LEMMA NextComponentExact ==
  ASSUME Manual, IInv, EInv, IInv', NextComponent
  PROVE  EInv'
<1> DEFINE words == Parts[D.assoc[h.rec].doc]
           new == D.maxcomp + 1
           ts == Occurring(words[h.part])
           a == Loop("add", "ck", h.rec, new, h.part, ts)
           b == [h EXCEPT !.part = @ + 1]
           r == [D EXCEPT !.maxcomp = new]
           v == <<a, b>>
<1>1. /\ At("components")
      /\ UNCHANGED <<primary, cmd, ended>> /\ UNCHANGED batch /\ UNCHANGED ghosts
      /\ SetD(r)
      /\ work' = v \o Tail(work)
  BY DEF NextComponent, Rest
<1>2. /\ LoopFor(h) /\ h.kind = "components" /\ h \in LoopType
      /\ cmd # NULL /\ Tail(work) \in Seq(LoopType)
  BY <1>1, AtWork
<1>3. h.x = "ck"
  BY <1>2 DEF LoopFor
<1>4. a.x = "ck" /\ a.kind = "add" /\ a.rec = h.rec
  BY DEF Loop
<1>5. b.x = h.x /\ b.kind = h.kind /\ b.rec = h.rec /\ b.terms = h.terms
  BY <1>2 DEF LoopType
<1>6. D \in Database
  BY <1>2, OneFile
<1> HIDE DEF new, a, b
<1>7. r.assoc = D.assoc /\ r.ix = D.ix
  BY <1>6 DEF Database
<1>8. a \in LoopType /\ b \in LoopType
  <2>1. v \o Tail(work) \in Seq(LoopType)
    BY <1>1 DEF IInv
  <2> QED
    BY <1>2, <2>1, FrontTyped
<1>9. Before(a, b)
  BY <1>4, Constants DEF Before
<1>10. v \in Seq(LoopType) /\ Loops(v) = {a, b}
  BY <1>8, <1>9, TwoLoops
<1> HIDE DEF v, r
<1>11. LoopFor(a)
  BY <1>2, <1>4, Constants DEF LoopFor
<1>12. LoopFor(b)
  BY <1>2, <1>5, LoopForLess
<1> QED
  BY <1>1, <1>3, <1>4, <1>5, <1>7, <1>10, <1>11, <1>12, QuietFrame

\* in_components is at its end.
LEMMA ComponentsDoneExact ==
  ASSUME Manual, IInv, EInv, IInv', ComponentsDone
  PROVE  EInv'
<1> DEFINE c == [D.compdoc EXCEPT ![h.rec] = <<h.id, D.maxcomp>>]
           r == IF h.part > 1 THEN [D EXCEPT !.compdoc = c] ELSE D
<1>1. /\ At("components") /\ work' = Tail(work)
      /\ UNCHANGED <<primary, cmd, ended>> /\ UNCHANGED batch /\ UNCHANGED ghosts
      /\ SetD(r)
  BY DEF ComponentsDone, Rest
<1>2. LoopFor(h) /\ h.kind = "components" /\ cmd # NULL
  BY <1>1, AtWork
<1>3. h.x = "ck"
  BY <1>2 DEF LoopFor
<1>4. D \in Database
  BY <1>2, OneFile
<1> HIDE DEF c
<1>5. r.assoc = D.assoc /\ r.ix = D.ix
  BY <1>4 DEF Database
<1> HIDE DEF r
<1> QED
  BY <1>1, <1>3, <1>5, QuietDone

\* in_comp_del finds the components of a record.
LEMMA CompDelExact ==
  ASSUME Manual, IInv, EInv, IInv', CompDel
  PROVE  EInv'
<1> DEFINE range == D.compdoc[h.rec]
           l == [Task("del_components", h.rec, range[1], 1) EXCEPT !.last = range[2]]
           c == [D.compdoc EXCEPT ![h.rec] = NULL]
           r == [D EXCEPT !.compdoc = c]
           v == <<l>>
<1>1. /\ At("comp_del")
      /\ UNCHANGED <<primary, cmd, ended>> /\ UNCHANGED batch /\ UNCHANGED ghosts
      /\ \/ work' = Tail(work) /\ UNCHANGED db
         \/ range # NULL /\ SetD(r) /\ work' = v \o Tail(work)
  BY DEF CompDel, Rest
<1>2. /\ LoopFor(h) /\ h.kind = "comp_del" /\ cmd # NULL
      /\ Tail(work) \in Seq(LoopType) /\ work' \in Seq(LoopType)
  BY <1>1, AtWork DEF IInv
<1>3. h.x = "ck" /\ ~InLoad /\ h.rec \notin want[1]
  BY <1>2 DEF LoopFor
<1>4. D \in Database
  BY <1>2, OneFile
<1>5. CASE work' = Tail(work) /\ UNCHANGED db
  <2>1. SetD(D)
    BY <1>1, <1>2, <1>5, Untouched
  <2> QED
    BY <1>1, <1>3, <1>5, <2>1, QuietDone
<1>6. CASE range # NULL /\ SetD(r) /\ work' = v \o Tail(work)
  <2>1. l.kind = "del_components" /\ l.x = "ck" /\ l.rec = h.rec
    BY DEF Task, Loop
  <2> HIDE DEF c
  <2>2. r.assoc = D.assoc /\ r.ix = D.ix
    BY <1>4 DEF Database
  <2> HIDE DEF r, range, l
  <2>3. l \in LoopType
    <3>1. v \o Tail(work) \in Seq(LoopType)
      BY <1>1, <1>2, <1>6
    <3>2. (v \o Tail(work))[1] = l /\ 1 \in DOMAIN (v \o Tail(work))
      BY <1>2
    <3> DEFINE u == v \o Tail(work)
    <3>3. u \in Seq(LoopType) /\ 1 \in DOMAIN u /\ u[1] = l
      BY <3>1, <3>2
    <3> HIDE DEF u
    <3> QED
      BY <3>3
  <2>4. v \in Seq(LoopType) /\ Loops(v) = {l}
    BY <2>3, OneLoop
  <2> HIDE DEF v
  <2>5. LoopFor(l)
    BY <1>3, <2>1 DEF LoopFor
  <2> QED
    BY <1>1, <1>3, <1>6, <2>1, <2>2, <2>4, <2>5, QuietFrame
<1> QED
  BY <1>1, <1>5, <1>6

\* in_comp_del is part of delete_recs.
LEMMA DelComponentExact ==
  ASSUME Manual, IInv, EInv, IInv', DelComponent
  PROVE  EInv'
<1> DEFINE ts == Occurring(in_extract(D, "ck", h.rec, h.part))
           a == Loop("del", "ck", h.rec, h.id, h.part, ts)
           b == [h EXCEPT !.id = @ + 1, !.part = @ + 1]
           v == <<a, b>>
<1>1. /\ At("del_components")
      /\ UNCHANGED <<primary, cmd, ended>> /\ UNCHANGED batch /\ UNCHANGED ghosts
      /\ UNCHANGED db
      /\ work' = IF h.id > h.last THEN Tail(work) ELSE v \o Tail(work)
  BY DEF DelComponent, Rest
<1>2. /\ LoopFor(h) /\ h.kind = "del_components" /\ h \in LoopType /\ cmd # NULL
      /\ Tail(work) \in Seq(LoopType) /\ work' \in Seq(LoopType)
  BY <1>1, AtWork DEF IInv
<1>3. h.x = "ck" /\ ~InLoad /\ h.rec \notin want[1]
  BY <1>2 DEF LoopFor
<1>4. SetD(D)
  BY <1>1, <1>2, Untouched
<1>5. CASE h.id > h.last
  BY <1>1, <1>3, <1>4, <1>5, QuietDone
<1>6. CASE ~(h.id > h.last)
  <2>1. a.x = "ck" /\ a.kind = "del" /\ a.rec = h.rec
    BY DEF Loop
  <2>2. b.x = h.x /\ b.kind = h.kind /\ b.rec = h.rec /\ b.terms = h.terms
    BY <1>2 DEF LoopType
  <2> HIDE DEF a, b
  <2>3. a \in LoopType /\ b \in LoopType
    BY <1>1, <1>2, <1>6, FrontTyped
  <2>4. Before(a, b)
    BY <2>1, Constants DEF Before
  <2>5. v \in Seq(LoopType) /\ Loops(v) = {a, b}
    BY <2>3, <2>4, TwoLoops
  <2>6. LoopFor(b)
    BY <1>2, <2>2, LoopForLess
  <2>7. LoopFor(a)
    <3>1. cmd.prog = "delete" /\ cmd \in Program_t
      BY <1>2, <1>3, Running DEF InLoad
    <3>2. ~cmd.batch
      BY <3>1 DEF Program_t, Load_t, Delete_t
    <3>3. Live = want[1]
      BY <1>3 DEF Live, Loaded
    <3> QED
      BY <1>3, <2>1, <3>2, <3>3 DEF LoopFor
  <2>8. \A m \in Loops(v) : m.x = "ck" /\ LoopFor(m)
    BY <1>3, <2>1, <2>2, <2>5, <2>6, <2>7
  <2>9. work' = v \o Tail(work)
    BY <1>1, <1>6
  <2> HIDE DEF v
  <2> QED
    BY <1>1, <1>3, <1>4, <2>5, <2>8, <2>9, QuietFrame
<1> QED
  BY <1>5, <1>6
-----------------------------------------------------------------------------
(* The term loops.                                                         *)

\* Exactness is about documents.
LEMMA ExactAssoc ==
  ASSUME NEW d, NEW e, e.assoc = d.assoc, NEW out, NEW x, NEW t, NEW p, NEW S,
         Exact(d, out, x, t, p, S)
  PROVE  Exact(e, out, x, t, p, S)
  BY DEF Exact, Occurs

\* A step of a program that writes lists: what is left to show.
LEMMA WriteStep ==
  ASSUME Manual, IInv, EInv, IInv', cmd # NULL,
         UNCHANGED <<primary, cmd, ended>>, UNCHANGED ghosts,
         hash_tab \subseteq hash_tab',
         hash_tab' = hash_tab \/ (cmd.batch /\ primary # "none"),
         NEW r, SetD(r), r.assoc = D.assoc,
         Ordered(work'), (\A i \in DOMAIN work : LoopFor(work[i]))',
         ListsExact', OneEntry', InLoad /\ cmd.batch => BatchOK'
  PROVE  EInv'
<1>1. D = db[1] /\ db'[1] = r /\ cmd' # NULL
  BY OneFile
<1>2. /\ Loaded' = Loaded /\ (InLoad' <=> InLoad) /\ (Direct' <=> Direct)
      /\ want' = want /\ upto' = upto /\ torn' = torn /\ ~Idle'
  BY DEF Loaded, InLoad, Direct, Idle, ghosts
<1>3. Live' \subseteq Live
  BY <1>2 DEF Live
<1>4. WantOK'
  <2>1. \A q \in Live' : GetSGML(db'[1], q) = {"doc"}
    BY <1>1, <1>3 DEF EInv, WantOK, GetSGML
  <2> QED
    BY <1>1, <1>2, <2>1 DEF EInv, WantOK
<1>5. LoadOK'
  BY <1>1, <1>2 DEF EInv, LoadOK
<1>6. (Direct \/ primary = "none" => hash_tab = {})'
  BY <1>2 DEF EInv, Direct
<1> QED
  BY <1>1, <1>2, <1>4, <1>5, <1>6 DEF EInv

\* The loops are still for the records that they are for.
LEMMA LoopsFor ==
  ASSUME UNCHANGED <<primary, cmd, cur, hash_tab>>, UNCHANGED ghosts,
         \A l \in Loops(work') : LoopFor(l)
  PROVE  (\A i \in DOMAIN work : LoopFor(work[i]))'
<1>1. Live' = Live /\ (InLoad' <=> InLoad) /\ want' = want
  BY DEF Live, Loaded, InLoad, ghosts
<1>2. ASSUME NEW l, LoopFor(l) PROVE LoopFor(l)'
  BY <1>1, <1>2 DEF LoopFor
<1> QED
  BY <1>2 DEF Loops

\* A record that is in a loop that adds is not in one that deletes.
LEMMA NotBoth ==
  ASSUME EInv, cmd # NULL, NEW r \in Live, NEW x, NEW t
  PROVE  ~InWork(work, "del", r, x, t)
  BY DEF EInv, InWork, LoopFor

\* A list of a record index or of the component index gets its entry.
LEMMA AddTermExact ==
  ASSUME Manual, IInv, EInv, IInv', NEW t \in Term, AddTerm(t)
  PROVE  EInv'
<1> DEFINE n == in_extract(D, h.x, h.rec, h.part)[t]
           line == [x |-> h.x, t |-> t, id |-> h.id, n |-> n]
           x == h.x
           b == ~cmd.batch
           w == AddPosting(D, h.x, t, h.id, n)
<1>1. /\ At("add") /\ t \in h.terms
      /\ UNCHANGED <<primary, cmd, ended, cur, hash_tab>> /\ UNCHANGED ghosts
      /\ work' = [work EXCEPT ![1].terms = @ \ {t}, ![1].touched = b]
      /\ IF cmd.batch THEN lines' = lines \cup {line} /\ UNCHANGED db
         ELSE SetD(w) /\ UNCHANGED lines
  BY DEF AddTerm, Rest
<1>2. /\ cmd # NULL /\ h \in LoopType /\ LoopOK(D, h) /\ h.kind = "add"
      /\ h.rec \in DOMAIN D.assoc
  BY <1>1, AtLoop
<1>3. DatabaseOK(D) /\ D = db[1] /\ b \in BOOLEAN /\ D \in Database
  BY <1>2, Running, OneFile
<1>4. x \in Index /\ n \in Nat \ {0}
  BY <1>1, <1>3, Round
<1>5. h.id \in Recno /\ (x # "ck" => h.id = h.rec)
  BY <1>2, <1>3, Numbered DEF LoopOK
<1>6. /\ Ordered(work') /\ \A l \in Loops(work') : LoopFor(l)
      /\ InWork(work, "add", h.rec, x, t)
      /\ \A k \in {"add", "del"}, y \in RecIndex : \A r, u :
           InWork(work', k, r, y, u) <=>
             /\ InWork(work, k, r, y, u)
             /\ ~(k = "add" /\ r = h.rec /\ y = x /\ u = t)
      /\ x \in RecIndex => \A r, u : InWork(work, "add", r, x, u) => r = h.rec
  BY <1>1, <1>3, RoundLoops
<1>7. /\ w.assoc = D.assoc /\ Plus(D.ix[x][t], Entry(h.id, n), w.ix[x][t])
      /\ \A y \in Index, u \in Term : y # x \/ u # t => w.ix[y][u] = D.ix[y][u]
  BY <1>3, <1>4, <1>5, AddPostingIs
<1>8. LoopFor(h) /\ Loops(work) = {h} \cup Loops(Tail(work)) /\ Ordered(work)
  BY <1>1, AtWork
<1>9. (\A i \in DOMAIN work : LoopFor(work[i]))'
  BY <1>1, <1>6, LoopsFor
<1>10. \A y \in RecIndex : y \in Index
  BY DEF Index
<1>11. line.x = x /\ line.t = t /\ line.id = h.id
  OBVIOUS
<1> HIDE DEF n, x, w, line
<1>12. CASE x = "ck"
  <2>1. ASSUME NEW y \in RecIndex, NEW u \in Term, NEW q
        PROVE  /\ InWork(work', "add", q, y, u) <=> InWork(work, "add", q, y, u)
               /\ InWork(work', "del", q, y, u) <=> InWork(work, "del", q, y, u)
    BY <1>6, <1>12, Constants
  <2>2. CASE cmd.batch
    <3>1. SetD(D) /\ SameLists(D, D)
      BY <1>1, <1>2, <2>2, Untouched DEF SameLists, Grown
    <3>2. \A q \in Live : GetSGML(D, q) = {"doc"}
      BY <1>3 DEF EInv, WantOK
    <3>3. \A l : l.x \in RecIndex => (l \in lines' <=> l \in lines)
      BY <1>1, <1>11, <1>12, <2>2, Constants
    <3> QED
      BY <1>1, <1>2, <1>6, <2>1, <3>1, <3>2, <3>3, QuietStep
  <2>3. CASE ~cmd.batch
    <3>1. SetD(w) /\ lines' = lines
      BY <1>1, <2>3
    <3>2. SameLists(D, w)
      BY <1>7, <1>10, <1>12, Constants DEF SameLists, Grown
    <3>3. \A q \in Live : GetSGML(w, q) = {"doc"}
      BY <1>3, <1>7 DEF EInv, WantOK, GetSGML
    <3> QED
      BY <1>1, <1>2, <1>6, <2>1, <3>1, <3>2, <3>3, QuietStep
  <2> QED
    BY <2>2, <2>3
<1>13. CASE x \in RecIndex
  <2>1. InLoad /\ cmd.indexed /\ h.rec = cmd.i /\ h.id = cmd.i
    BY <1>2, <1>5, <1>8, <1>13, Constants DEF LoopFor, x
  <2>2. cmd.i \in Loaded /\ cmd.rc = 1
    BY <2>1 DEF Loaded, EInv, LoadOK
  <2>3. /\ Live' = Live /\ Loaded' = Loaded /\ want' = want /\ torn' = torn
        /\ (InLoad' <=> InLoad) /\ cmd' # NULL /\ (Direct' <=> Direct)
    BY <1>1, <1>2 DEF Live, Loaded, InLoad, ghosts, Direct
  <2>4. CASE cmd.batch
    <3>1. SetD(D) /\ D.assoc = D.assoc /\ db' = db /\ lines' = lines \cup {line}
      BY <1>1, <1>2, <2>4, Untouched
    <3>2. Gathering /\ BatchOK /\ cur = NULL
      BY <2>1, <2>2, <2>4, Constants DEF Gathering, EInv, LoadOK, BatchOK
    <3>3. OneEntry'
      BY <1>1, <2>3, <2>4, <3>1, <3>2 DEF EInv, OneEntry, Direct
    <3>4. BatchOK'
      BY <1>1, <1>11, <2>1, <2>2, <2>3, <3>1, <3>2 DEF BatchOK
    <3>5. ListsExact'
      <4>1. ASSUME NEW y \in RecIndex, NEW u \in Term
            PROVE  Due(y, u)' = Due(y, u) /\ Held(y, u)' = Held(y, u) /\ NotYet(y, u)
        <5>1. NotYet(y, u)
          BY <1>2, <2>4, <3>2 DEF NotYet
        <5>2. Held(y, u)' = Held(y, u)
          BY <1>1, <3>1 DEF Held, AtCur
        <5>3. \A q : InLines(lines', q, y, u) <=>
                     InLines(lines, q, y, u) \/ (q = h.rec /\ y = x /\ u = t)
          BY <1>11, <2>1, <3>1 DEF InLines
        <5>4. \A q : InWork(work', "add", q, y, u) <=>
                     InWork(work, "add", q, y, u) /\ ~(q = h.rec /\ y = x /\ u = t)
          BY <1>6
        <5>5. ~Direct
          BY <2>4 DEF Direct
        <5> QED
          BY <1>6, <2>3, <5>1, <5>2, <5>3, <5>4, <5>5 DEF Due
      <4> QED
        BY <1>1, <1>2, <2>3, <3>1, <4>1, WhatLists, ListsGo DEF EInv
    <3> QED
      BY <1>1, <1>2, <1>6, <1>9, <3>1, <3>3, <3>4, <3>5, WriteStep
  <2>5. CASE ~cmd.batch
    <3>1. SetD(w) /\ lines' = lines /\ db'[1] = w
      BY <1>1, <1>2, <2>5, OneFile
    <3>2. Direct /\ lines = {} /\ cur = NULL /\ hash_tab = {}
      BY <1>2, <2>5 DEF Direct, IInv, EInv
    <3>3. cmd.i \in Live
      BY <2>2, <3>2 DEF Live
    <3>4. ASSUME NEW y \in RecIndex, NEW u \in Term
          PROVE  /\ ~NotYet(y, u)' /\ Held(y, u)' = w.ix[y][u] /\ Held(y, u) = D.ix[y][u]
                 /\ y = x /\ u = t => /\ cmd.i \notin Due(y, u)
                                      /\ Due(y, u)' = Due(y, u) \cup {cmd.i}
                 /\ y # x \/ u # t => Due(y, u)' = Due(y, u)
      <4>1. ~NotYet(y, u)' /\ Held(y, u)' = w.ix[y][u] /\ Held(y, u) = D.ix[y][u]
        BY <1>1, <1>3, <2>5, <3>1, <3>2 DEF NotYet, Held, AtCur
      <4>2. \A q : InWork(work', "add", q, y, u) <=>
                     InWork(work, "add", q, y, u) /\ ~(q = cmd.i /\ y = x /\ u = t)
        BY <1>6, <2>1
      <4>3. \A q : InWork(work', "del", q, y, u) <=> InWork(work, "del", q, y, u)
        BY <1>6
      <4>4. \A q : ~InLines(lines', q, y, u) /\ ~InLines(lines, q, y, u)
        BY <3>1, <3>2 DEF InLines
      <4>5. ~InWork(work, "del", cmd.i, y, u)
        BY <1>2, <3>3, NotBoth
      <4>6. InWork(work, "add", cmd.i, x, t)
        BY <1>6, <2>1
      <4> QED
        BY <2>3, <3>3, <4>1, <4>2, <4>3, <4>4, <4>5, <4>6 DEF Due
    <3>5. ASSUME NEW y \in RecIndex, NEW u \in Term
          PROVE  Exact(w, torn[1], y, u, w.ix[y][u], Due(y, u)')
      <4>1. Exact(D, torn[1], y, u, D.ix[y][u], Due(y, u)) /\ ListOK(D, y, u, D.ix[y][u])
        BY <1>2, <1>3, <3>4, WhatLists, ListsTrue DEF EInv
      <4>2. CASE y = x /\ u = t
        <5> DEFINE e == Entry(h.id, n)
        <5>1. e.rec = cmd.i
          BY <2>1 DEF Entry
        <5>2. Plus(D.ix[y][u], e, w.ix[y][u])
          BY <1>7, <4>2
        <5>3. e.rec \notin Due(y, u) /\ Due(y, u)' = Due(y, u) \cup {e.rec}
          BY <3>4, <4>2, <5>1
        <5> HIDE DEF e
        <5>4. Exact(D, torn[1], y, u, w.ix[y][u], Due(y, u)')
          BY <4>1, <5>2, <5>3, ExactAdded
        <5> QED
          BY <1>7, <5>4, ExactAssoc
      <4>3. CASE ~(y = x /\ u = t)
        <5>1. w.ix[y][u] = D.ix[y][u] /\ Due(y, u)' = Due(y, u)
          BY <1>7, <1>10, <3>4, <4>3
        <5> QED
          BY <1>7, <4>1, <5>1, ExactAssoc
      <4> QED
        BY <4>2, <4>3
    <3>6. ListsExact'
      BY <2>3, <3>1, <3>4, <3>5, ListsGo
    <3>7. OneEntry'
      <4> SUFFICES ASSUME primary # "none" PROVE OneEntry'
        BY <1>1 DEF OneEntry
      <4>1. /\ \A u \in Term : D.ix["pk"][u] # NULL => Len(D.ix["pk"][u].entries) = 1
            /\ \A r \in Recno, u \in Term :
                 InWork(work, "add", r, "pk", u) =>
                   D.ix["pk"][u] = NULL \/ \E q \in Recno : InWork(work, "del", q, "pk", u)
        BY <1>3, <3>2 DEF EInv, OneEntry
      <4>2. x = "pk" => D.ix["pk"][t] = NULL
        <5> SUFFICES ASSUME x = "pk", NEW q \in Recno, InWork(work, "del", q, "pk", t)
                     PROVE  FALSE
          BY <1>5, <1>6, <2>1, <4>1
        <5>1. PICK l \in Loops(work) : l.kind = "del" /\ l.x = "pk"
          BY InLoops
        <5>2. l \in Loops(Tail(work))
          BY <1>2, <1>8, <5>1
        <5>3. Before(h, l)
          BY <1>1, <5>2, AtWork, LoopsTail DEF h
        <5> QED
          BY <1>2, <5>1, <5>3, Constants DEF Before, x
      <4>3. ASSUME NEW u \in Term, w.ix["pk"][u] # NULL
            PROVE  Len(w.ix["pk"][u].entries) = 1
        <5>1. CASE x = "pk" /\ u = t
          <6>1. w.ix["pk"][u].entries = <<Entry(h.id, n)>>
            BY <1>7, <4>2, <5>1 DEF Plus
          <6> QED
            BY <6>1
        <5>2. CASE ~(x = "pk" /\ u = t)
          BY <1>7, <4>1, <4>3, <5>2, Constants
        <5> QED
          BY <5>1, <5>2
      <4>4. ASSUME NEW r \in Recno, NEW u \in Term, InWork(work', "add", r, "pk", u)
            PROVE  w.ix["pk"][u] = NULL \/ \E q \in Recno : InWork(work', "del", q, "pk", u)
        <5>1. InWork(work, "add", r, "pk", u) /\ ~(r = h.rec /\ "pk" = x /\ u = t)
          BY <1>6, <4>4, Constants
        <5>2. ~("pk" = x /\ u = t)
          BY <1>6, <1>13, <5>1
        <5>3. w.ix["pk"][u] = D.ix["pk"][u]
          BY <1>7, <5>2, Constants
        <5>4. \A q : InWork(work, "del", q, "pk", u) => InWork(work', "del", q, "pk", u)
          BY <1>6, Constants
        <5> QED
          BY <4>1, <5>1, <5>3, <5>4
      <4> QED
        BY <1>1, <3>1, <3>2, <4>3, <4>4 DEF OneEntry
    <3> QED
      BY <1>1, <1>2, <1>6, <1>7, <1>9, <2>5, <3>1, <3>6, <3>7, WriteStep
  <2> QED
    BY <2>4, <2>5
<1> QED
  BY <1>4, <1>12, <1>13 DEF Index

\* A batch load that replaces finds nothing in the lists to delete from.
LEMMA NothingThere ==
  ASSUME Manual, IInv, EInv, cmd # NULL, cmd.batch, NEW l, LoopFor(l), l.kind = "del",
         l.x \in RecIndex, NEW t \in Term, t \in l.terms
  PROVE  db[1].ix[l.x][t] = NULL
<1> DEFINE x == l.x
           p == db[1].ix[x][t]
<1>1. /\ primary = "replace" /\ cur # NULL /\ cur.x = "pk"
      /\ x = "pk" => t = cur.t
  BY DEF LoopFor
<1>2. InLoad
  BY Running DEF InLoad, Program_t, Load_t, Delete_t
<1>3. want[1] = {} /\ torn[1] = {}
  BY <1>1, <1>2 DEF EInv, LoadOK, BatchOK, WantOK
<1>4. NotYet(x, t)
  BY <1>1 DEF NotYet, AtCur, AtPrimary, RecIndex
<1>5. /\ Exact(db[1], torn[1], x, t, p, want[1])
      /\ x = "pk" => p = NULL
  BY <1>1, <1>4, WhatLists DEF EInv
<1>6. ListOK(db[1], x, t, p)
  BY ListsTrue
<1> HIDE DEF p
<1>7. Recs(p) = {}
  BY <1>3, <1>5 DEF Exact
<1>8. p = NULL
  BY <1>6, <1>7, RecsOccur
<1> QED
  BY <1>8 DEF p

\* A list loses an entry, or goes: it is that of the record.
LEMMA DelTermExact ==
  ASSUME Manual, IInv, EInv, IInv', NEW t \in Term, DelTerm(t)
  PROVE  EInv'
<1> DEFINE n == in_extract(D, h.x, h.rec, h.part)[t]
           b == h.touched \/ Reduces(D.ix[h.x][t], h.rec)
           x == h.x
           p == D.ix[x][t]
           w == DelPosting(D, h.x, t, h.rec, n)
<1>1. /\ At("del") /\ t \in h.terms
      /\ UNCHANGED <<primary, cmd, ended, cur, hash_tab, lines>> /\ UNCHANGED ghosts
      /\ SetD(w)
  BY DEF DelTerm, Rest, batch
<1>2. /\ cmd # NULL /\ h \in LoopType /\ LoopOK(D, h) /\ h.kind = "del"
      /\ h.rec \in DOMAIN D.assoc
      /\ work \in Seq(LoopType) /\ 1 \in DOMAIN work /\ work[1] = h
  BY <1>1, AtLoop
<1>3. work' = [work EXCEPT ![1].terms = @ \ {t}, ![1].touched = b] /\ b \in BOOLEAN
  BY <1>2 DEF DelTerm, LoopType
<1> HIDE DEF b
<1>4. DatabaseOK(D) /\ D = db[1] /\ D \in Database /\ db'[1] = w
  BY <1>1, <1>2, Running, OneFile
<1>5. x \in Index /\ n \in Nat \ {0} /\ n \in Nat
  BY <1>1, <1>3, Round
<1>6. /\ Ordered(work') /\ \A l \in Loops(work') : LoopFor(l)
      /\ InWork(work, "del", h.rec, x, t)
      /\ \A k \in {"add", "del"}, y \in RecIndex : \A r, u :
           InWork(work', k, r, y, u) <=>
             /\ InWork(work, k, r, y, u)
             /\ ~(k = "del" /\ r = h.rec /\ y = x /\ u = t)
      /\ x \in RecIndex => \A r, u : InWork(work, "del", r, x, u) => r = h.rec
  BY <1>1, <1>3, RoundLoops
<1>7. /\ w.assoc = D.assoc /\ w.ix[x][t] = Minus(p, h.rec, n)
      /\ \A y \in Index, u \in Term : y # x \/ u # t => w.ix[y][u] = D.ix[y][u]
  BY <1>4, <1>5, DelPostingIs
<1>8. LoopFor(h)
  BY <1>1, AtWork
<1>9. (\A i \in DOMAIN work : LoopFor(work[i]))'
  BY <1>1, <1>6, LoopsFor
<1>10. \A y \in RecIndex : y \in Index
  BY DEF Index
<1>11. \A q \in Live : GetSGML(w, q) = {"doc"}
  BY <1>4, <1>7 DEF EInv, WantOK, GetSGML
<1>a. x \in RecIndex => n = Words[D.assoc[h.rec].doc][x][t]
  BY <1>2, <1>4, <1>5, Extracted, Constants
<1> HIDE DEF n, x, w
<1>12. CASE x = "ck"
  <2>1. ASSUME NEW y \in RecIndex, NEW u \in Term, NEW q
        PROVE  /\ InWork(work', "add", q, y, u) <=> InWork(work, "add", q, y, u)
               /\ InWork(work', "del", q, y, u) <=> InWork(work, "del", q, y, u)
    BY <1>6, <1>12, Constants
  <2>2. SameLists(D, w)
    BY <1>7, <1>10, <1>12, Constants DEF SameLists, Grown
  <2> QED
    BY <1>1, <1>2, <1>6, <1>11, <2>1, <2>2, QuietStep
<1>13. CASE x \in RecIndex /\ cmd.batch
  <2>1. p = NULL
    BY <1>1, <1>2, <1>4, <1>8, <1>13, NothingThere DEF x
  <2>2. w.ix[x][t] = NULL
    BY <1>7, <2>1 DEF Minus, Reduces
  <2>3. SameLists(D, w)
    BY <1>7, <1>10, <2>1, <2>2 DEF SameLists, Grown
  <2>4. ASSUME NEW y \in RecIndex, NEW u \in Term, NEW q
        PROVE  InWork(work', "add", q, y, u) <=> InWork(work, "add", q, y, u)
    BY <1>6
  <2>5. ~Direct
    BY <1>13 DEF Direct
  <2> QED
    BY <1>1, <1>2, <1>6, <1>11, <2>3, <2>4, <2>5, QuietStep
<1>14. CASE x \in RecIndex /\ ~cmd.batch
  <2>1. Direct /\ lines = {} /\ cur = NULL /\ hash_tab = {}
    BY <1>2, <1>14 DEF Direct, IInv, EInv
  <2>2. h.rec \notin Live /\ h.rec \in Recno
    BY <1>2, <1>4, <1>8, Numbered DEF LoopFor
  <2>3. Occurs(D, h.rec, x, t)
    BY <1>5, <1>a, <1>14 DEF Occurs
  <2>4. /\ Live' = Live /\ want' = want /\ torn' = torn
        /\ cmd' # NULL /\ (Direct' <=> Direct)
    BY <1>1, <1>2 DEF Live, Loaded, InLoad, ghosts, Direct
  <2>5. ASSUME NEW y \in RecIndex, NEW u \in Term
        PROVE  /\ ~NotYet(y, u)' /\ Held(y, u)' = w.ix[y][u] /\ Held(y, u) = D.ix[y][u]
               /\ y = x /\ u = t => /\ h.rec \in Due(y, u)
                                    /\ Due(y, u)' = Due(y, u) \ {h.rec}
               /\ y # x \/ u # t => Due(y, u)' = Due(y, u)
    <3>1. ~NotYet(y, u)' /\ Held(y, u)' = w.ix[y][u] /\ Held(y, u) = D.ix[y][u]
      BY <1>1, <1>4, <1>14, <2>1 DEF NotYet, Held, AtCur
    <3>2. \A q : InWork(work', "del", q, y, u) <=>
                   InWork(work, "del", q, y, u) /\ ~(q = h.rec /\ y = x /\ u = t)
      BY <1>6
    <3>3. \A q : InWork(work', "add", q, y, u) <=> InWork(work, "add", q, y, u)
      BY <1>6
    <3>4. \A q : ~InLines(lines', q, y, u) /\ ~InLines(lines, q, y, u)
      BY <1>1, <2>1 DEF InLines
    <3> QED
      BY <1>6, <2>1, <2>2, <2>4, <3>1, <3>2, <3>3, <3>4 DEF Due
  <2>6. ASSUME NEW y \in RecIndex, NEW u \in Term
        PROVE  Exact(w, torn[1], y, u, w.ix[y][u], Due(y, u)')
    <3>1. Exact(D, torn[1], y, u, D.ix[y][u], Due(y, u)) /\ ListOK(D, y, u, D.ix[y][u])
      BY <1>2, <1>4, <2>5, WhatLists, ListsTrue DEF EInv
    <3>2. CASE y = x /\ u = t
      <4>1. h.rec \in Due(y, u) /\ Due(y, u)' = Due(y, u) \ {h.rec}
        BY <2>5, <3>2
      <4>2. Exact(D, torn[1], x, t, p, Due(y, u)) /\ ListOK(D, x, t, p)
        BY <3>1, <3>2
      <4> HIDE DEF p
      <4>3. h.rec \in Recs(p)
        BY <1>2, <2>3, <4>1, <4>2 DEF Exact
      <4>4. p # NULL /\ p \in Posting /\ Matches(p, h.rec) # {}
        BY <4>2, <4>3 DEF Recs, ListOK, Matches
      <4>5. CASE Len(p.entries) = 1
        <5>1. w.ix[x][t] = NULL
          BY <1>7, <4>4, <4>5 DEF Minus
        <5>2. Exact(D, torn[1], x, t, NULL, Due(y, u)')
          BY <1>14, <4>1, <4>2, <4>3, <4>4, <4>5, ExactGone
        <5> QED
          BY <1>7, <3>2, <5>1, <5>2, ExactAssoc
      <4>6. CASE Len(p.entries) # 1
        <5>1. Reduces(p, h.rec)
          BY <4>4, <4>6 DEF Reduces
        <5>2. w.ix[x][t] = Reduced(p, h.rec, n)
          BY <1>7, <4>6, <5>1 DEF Minus
        <5>3. Exact(D, torn[1], x, t, Reduced(p, h.rec, n), Due(y, u)')
          BY <1>5, <1>14, <4>1, <4>2, <5>1, ExactShrunk
        <5> QED
          BY <1>7, <3>2, <5>2, <5>3, ExactAssoc
      <4> QED
        BY <4>5, <4>6
    <3>3. CASE ~(y = x /\ u = t)
      <4>1. w.ix[y][u] = D.ix[y][u] /\ Due(y, u)' = Due(y, u)
        BY <1>7, <1>10, <2>5, <3>3
      <4> QED
        BY <1>7, <3>1, <4>1, ExactAssoc
    <3> QED
      BY <3>2, <3>3
  <2>7. ListsExact'
    BY <1>4, <2>4, <2>5, <2>6, ListsGo
  <2>8. OneEntry'
    <3> SUFFICES ASSUME primary # "none" PROVE OneEntry'
      BY <1>1 DEF OneEntry
    <3>1. /\ \A u \in Term : D.ix["pk"][u] # NULL => Len(D.ix["pk"][u].entries) = 1
          /\ \A r \in Recno, u \in Term :
               InWork(work, "add", r, "pk", u) =>
                 D.ix["pk"][u] = NULL \/ \E q \in Recno : InWork(work, "del", q, "pk", u)
      BY <1>4, <2>1 DEF EInv, OneEntry
    <3>2. x = "pk" => w.ix["pk"][t] = NULL
      BY <1>7, <3>1 DEF Minus, Reduces
    <3>3. \A u \in Term : ~(x = "pk" /\ u = t) => w.ix["pk"][u] = D.ix["pk"][u]
      BY <1>7, Constants
    <3>4. ASSUME NEW u \in Term, w.ix["pk"][u] # NULL
          PROVE  Len(w.ix["pk"][u].entries) = 1
      BY <3>1, <3>2, <3>3, <3>4
    <3>5. ASSUME NEW r \in Recno, NEW u \in Term, InWork(work', "add", r, "pk", u)
          PROVE  w.ix["pk"][u] = NULL \/ \E q \in Recno : InWork(work', "del", q, "pk", u)
      <4>1. InWork(work, "add", r, "pk", u)
        BY <1>6, <3>5, Constants
      <4>2. CASE x = "pk" /\ u = t
        BY <3>2, <4>2
      <4>3. CASE ~(x = "pk" /\ u = t)
        <5>1. \A q : InWork(work, "del", q, "pk", u) => InWork(work', "del", q, "pk", u)
          BY <1>6, <4>3, Constants
        <5> QED
          BY <3>1, <3>3, <4>1, <4>3, <5>1
      <4> QED
        BY <4>2, <4>3
    <3> QED
      BY <1>1, <1>4, <2>1, <3>4, <3>5 DEF OneEntry
  <2> QED
    BY <1>1, <1>2, <1>6, <1>7, <1>9, <1>14, <2>7, <2>8, WriteStep
<1> QED
  BY <1>5, <1>12, <1>13, <1>14 DEF Index

-----------------------------------------------------------------------------
(* The beginning and the end of a program.                                 *)

\* Nothing ahead.
LEMMA NoWork == \A kind, r, x, t : ~InWork(<<>>, kind, r, x, t)
  BY NoLoop, InLoops

\* A program that does without the batch files has none.
LEMMA DirectNow ==
  ASSUME IInv, EInv, cmd # NULL, ~cmd.batch
  PROVE  /\ Direct /\ lines = {} /\ cur = NULL /\ hash_tab = {}
         /\ InLoad => cmd.read = {}
  BY DEF Direct, IInv, EInv, LoadOK

\* A batch program is a load.
LEMMA BatchNow ==
  ASSUME IInv, EInv, cmd # NULL, cmd.batch
  PROVE  InLoad /\ BatchOK /\ ~Direct
<1>1. InLoad
  BY Running DEF InLoad, Program_t, Load_t, Delete_t
<1> QED
  BY <1>1 DEF EInv, LoadOK, Direct

\* A load between two loops.
LEMMA AtLoad ==
  ASSUME Manual, IInv, EInv, Loading
  PROVE  /\ cmd # NULL /\ cmd \in Load_t /\ work = <<>> /\ InLoad /\ cmd.file = 1
         /\ D = db[1] /\ cmd.i \in Nat /\ cmd.start \in Nat /\ cmd.max \in Nat
         /\ cmd.read \subseteq Nat /\ cmd.batch \in BOOLEAN
         /\ cmd.indexed => cmd.rc = 1
         /\ cmd.rc = NULL => ~cmd.indexed
         /\ \A k, r, x, t : ~InWork(work, k, r, x, t)
<1>1. cmd # NULL /\ cmd \in Load_t /\ work = <<>>
  BY AtRecord
<1>2. InLoad /\ cmd.file = 1 /\ D = db[1]
  BY <1>1, OneFile DEF InLoad, Loading
<1>3. cmd.indexed => cmd.rc = 1
  BY <1>2 DEF EInv, LoadOK
<1>4. NULL # 1
  BY Constants
<1> QED
  BY <1>1, <1>2, <1>3, <1>4, NoWork DEF Load_t

\* No program runs any more, and the lists are those of the records wanted.
LEMMA Stops ==
  ASSUME Manual, IInv, EInv, IInv', cmd' = NULL, UNCHANGED <<primary, db, upto>>,
         cur' = NULL \/ cur' = cur,
         (ended' = "error" /\ hash_tab' = hash_tab) \/ hash_tab' = {},
         torn' \in [File -> SUBSET Nat], primary = "replace" => torn'[1] = {},
         want' \in [File -> SUBSET Nat], want'[1] \subseteq 1..upto[1],
         \A r \in want'[1] : GetSGML(db[1], r) = {"doc"},
         \A x \in RecIndex, t \in Term :
           Exact(db[1], torn'[1], x, t, db[1].ix[x][t], want'[1])
  PROVE  EInv'
<1>1. Live' = want'[1] /\ ~InLoad' /\ ~Direct'
  BY DEF Live, Loaded, InLoad, Direct
<1>2. ListsExact'
  BY DEF ListsExact, NotYet
<1>3. OneEntry'
  BY <1>1 DEF EInv, OneEntry
<1>4. WantOK'
  BY <1>1 DEF EInv, WantOK
<1>5. LoadOK'
  BY <1>1 DEF LoadOK
<1>6. (Idle \/ Direct \/ primary = "none" => hash_tab = {})'
  BY <1>1 DEF Idle, EInv
<1> QED
  BY <1>2, <1>3, <1>4, <1>5, <1>6 DEF EInv

\* index_cheshire gives up.
LEMMA LoadExitsExact ==
  ASSUME Manual, IInv, EInv, IInv', LoadExits
  PROVE  EInv'
<1>1. /\ Loading /\ cmd.rc # NULL /\ Serious /\ cmd' = NULL /\ ended' = "error"
      /\ UNCHANGED <<primary, db, want, upto, torn, cur, hash_tab>>
  BY DEF LoadExits, batch, ghosts
<1>2. /\ cmd # NULL /\ InLoad /\ cmd.i \in Nat /\ D = db[1]
      /\ cmd.indexed => cmd.rc = 1
      /\ \A k, r, x, t : ~InWork(work, k, r, x, t)
  BY <1>1, AtLoad
<1>3. cmd.last_rec_proc = cmd.i - 1
  BY <1>2 DEF EInv, LoadOK
<1>4. cmd.rc \in {0, -1}
  BY <1>1, <1>2, <1>3 DEF Serious
<1>5. ~cmd.indexed
  BY <1>2, <1>4
<1>6. /\ want \in [File -> SUBSET Nat] /\ torn \in [File -> SUBSET Nat]
      /\ want[1] \subseteq 1..upto[1] /\ (primary = "replace" => torn[1] = {})
      /\ \A r \in want[1] : GetSGML(db[1], r) = {"doc"}
  BY DEF EInv, WantOK, Live
<1>7. ASSUME NEW x \in RecIndex, NEW t \in Term
      PROVE  Exact(db[1], torn[1], x, t, db[1].ix[x][t], want[1])
  <2>1. CASE cmd.batch
    <3>1. NotYet(x, t)
      BY <1>1, <1>2, <2>1 DEF NotYet, Gathering
    <3> QED
      BY <3>1, WhatLists DEF EInv
  <2>2. CASE ~cmd.batch
    <3>1. lines = {} /\ cur = NULL /\ cmd.read = {}
      BY <1>2, <2>2, DirectNow
    <3>2. Held(x, t) = db[1].ix[x][t] /\ Live = want[1]
      BY <1>2, <1>5, <3>1 DEF Held, AtCur, Live, Loaded
    <3>3. Due(x, t) = want[1]
      BY <1>2, <3>1, <3>2 DEF Due, InLines
    <3> QED
      BY <1>2, <3>2, <3>3, WhatLists DEF EInv
  <2> QED
    BY <2>1, <2>2
<1> QED
  BY <1>1, <1>6, <1>7, Stops

\* The records that were read are to be found from now on.
LEMMA FileDoneExact ==
  ASSUME Manual, IInv, EInv, IInv', FileDone
  PROVE  EInv'
<1>1. /\ Loading /\ cmd.rc = NULL /\ lines = {} /\ cur = NULL
      /\ want' = [want EXCEPT ![cmd.file] = @ \cup (cmd.read \ hash_tab)]
      /\ hash_tab' = {} /\ UNCHANGED <<primary, db, upto, torn, cur>>
      /\ cmd.file < NFiles \/ (cmd' = NULL /\ ended' = "done")
  BY DEF FileDone
<1>2. /\ cmd # NULL /\ InLoad /\ cmd.i \in Nat /\ D = db[1] /\ cmd.file = 1
      /\ ~cmd.indexed /\ cmd.read \subseteq Nat
      /\ \A k, r, x, t : ~InWork(work, k, r, x, t)
  BY <1>1, AtLoad
<1>3. cmd' = NULL /\ ended' = "done"
  BY <1>1, <1>2 DEF Manual
<1>4. /\ want \in [File -> SUBSET Nat] /\ torn \in [File -> SUBSET Nat] /\ File = {1}
      /\ want[1] \subseteq 1..upto[1] /\ (primary = "replace" => torn[1] = {})
      /\ \A r \in Live : GetSGML(db[1], r) = {"doc"}
  BY OneFile DEF EInv, WantOK
<1>5. Live = want[1] \cup (cmd.read \ hash_tab) /\ want'[1] = Live
      /\ want' \in [File -> SUBSET Nat]
  BY <1>1, <1>2, <1>4 DEF Live, Loaded
<1>6. ASSUME NEW r \in Live PROVE r \in 1..upto[1]
  <2>1. CASE r \in want[1]
    BY <1>4, <2>1
  <2>2. CASE r \in cmd.read
    <3>1. r \in cmd.start..cmd.i - 1
      BY <1>2, <2>2 DEF EInv, LoadOK
    <3>2. r \in DOMAIN db[1].assoc /\ db[1].assoc \in Seq(Rec)
      BY <1>4, OneFile, Readable
    <3>3. upto[1] = IF cmd.i - 1 <= Len(db[1].assoc) THEN cmd.i - 1 ELSE Len(db[1].assoc)
      BY <1>2 DEF EInv, LoadOK
    <3>4. r \in 1..Len(db[1].assoc) /\ r <= cmd.i - 1 /\ Len(db[1].assoc) \in Nat
      BY <1>2, <3>1, <3>2
    <3> QED
      BY <1>2, <3>3, <3>4
  <2> QED
    BY <1>5, <2>1, <2>2
<1>7. ASSUME NEW x \in RecIndex, NEW t \in Term
      PROVE  Exact(db[1], torn[1], x, t, db[1].ix[x][t], want'[1])
  <2>1. Held(x, t) = db[1].ix[x][t]
    BY <1>1 DEF Held, AtCur
  <2>2. Due(x, t) = Live
    BY <1>1, <1>2 DEF Due, InLines
  <2> QED
    BY <1>2, <1>5, <2>1, <2>2, WhatLists DEF EInv
<1>8. want'[1] \subseteq 1..upto[1] /\ \A r \in want'[1] : GetSGML(db[1], r) = {"doc"}
  BY <1>4, <1>5, <1>6
<1> QED
  BY <1>1, <1>3, <1>4, <1>5, <1>7, <1>8, Stops

\* delete_recs is at its end.
LEMMA DeleteDoneExact ==
  ASSUME Manual, IInv, EInv, IInv', DeleteDone
  PROVE  EInv'
<1>1. /\ cmd # NULL /\ cmd.prog = "delete" /\ work = <<>> /\ cmd' = NULL
      /\ UNCHANGED <<primary, db, want, upto, torn, cur, hash_tab>>
  BY DEF DeleteDone, batch, ghosts
<1>2. ~InLoad /\ ~cmd.batch
  BY <1>1, BatchNow DEF InLoad
<1>3. lines = {} /\ cur = NULL /\ hash_tab = {}
  BY <1>1, <1>2, DirectNow
<1>4. Live = want[1]
  BY <1>2 DEF Live, Loaded
<1>5. /\ want \in [File -> SUBSET Nat] /\ torn \in [File -> SUBSET Nat]
      /\ want[1] \subseteq 1..upto[1] /\ (primary = "replace" => torn[1] = {})
      /\ \A r \in want[1] : GetSGML(db[1], r) = {"doc"}
  BY <1>4 DEF EInv, WantOK
<1>6. ASSUME NEW x \in RecIndex, NEW t \in Term
      PROVE  Exact(db[1], torn[1], x, t, db[1].ix[x][t], want[1])
  <2>1. Held(x, t) = db[1].ix[x][t]
    BY <1>3 DEF Held, AtCur
  <2>2. Due(x, t) = want[1]
    BY <1>1, <1>3, <1>4, NoWork DEF Due, InLines
  <2> QED
    BY <1>1, <2>1, <2>2, WhatLists DEF EInv
<1> QED
  BY <1>1, <1>3, <1>5, <1>6, Stops

\* The lists of a running program are what they should be but for the
\* records it is at.
LEMMA AffectedExact ==
  ASSUME Manual, IInv, EInv, cmd # NULL, NEW x \in RecIndex, NEW t \in Term
  PROVE  /\ Exact(db[1], torn[1] \cup Busy, x, t, db[1].ix[x][t], want[1])
         /\ \E S : Exact(db[1], torn[1], x, t, db[1].ix[x][t], S)
<1> DEFINE p == db[1].ix[x][t]
           d == db[1]
           out == torn[1] \cup Busy
<1>1. want[1] \subseteq Nat
  BY OneFile DEF EInv, WantOK
<1>5. Loaded \subseteq Busy
  <2>1. cmd.indexed /\ InLoad => cmd.rc # NULL
    BY Constants DEF EInv, LoadOK
  <2> QED
    BY <2>1 DEF Loaded, Busy, InLoad
<1>6. \A k, r, y, u : InWork(work, k, r, y, u) => r \in Busy /\ r \notin want[1]
  BY DEF InWork, Busy, EInv, LoopFor
<1>7. ListOK(d, x, t, p) /\ Grown(d.assoc, d.assoc) /\ torn[1] \subseteq out
  BY ListsTrue DEF Grown
<1>8. CASE cmd.batch /\ AtCur(x, t)
  <2>1. NotYet(x, t)
    BY <1>8 DEF NotYet
  <2>2. Exact(d, torn[1], x, t, p, want[1])
    BY <2>1, WhatLists DEF EInv
  <2>3. Exact(d, out, x, t, p, want[1])
    BY <1>7, <2>2, ExactKept
  <2> QED
    BY <2>2, <2>3
<1>9. CASE ~(cmd.batch /\ AtCur(x, t))
  <2>1. Held(x, t) = p
    <3>1. ~cmd.batch => cur = NULL
      BY DirectNow
    <3> QED
      BY <1>9, <3>1 DEF Held, AtCur
  <2>2. Exact(d, torn[1], x, t, p, Due(x, t))
    BY <2>1, WhatLists DEF EInv
  <2>3. ASSUME NEW r \in want[1] PROVE r \in Due(x, t)
    <3>1. ~InLines(lines, r, x, t)
      <4>1. CASE cmd.batch
        <5>1. /\ \A l \in lines : l.x \in RecIndex => l.id \in Loaded
              /\ r < cmd.start /\ InLoad
          BY <4>1, BatchNow DEF BatchOK
        <5>2. cmd.read \subseteq cmd.start..cmd.i - 1 /\ cmd.start <= cmd.i
          BY <5>1 DEF EInv, LoadOK
        <5>3. cmd.i \in Nat /\ cmd.start \in Nat /\ r \in Nat
          BY <1>1, <5>1, Running DEF InLoad, Program_t, Load_t, Delete_t
        <5>4. r \notin Loaded
          BY <5>1, <5>2, <5>3 DEF Loaded
        <5> QED
          BY <5>1, <5>4 DEF InLines
      <4>2. CASE ~cmd.batch
        BY <4>2, DirectNow DEF InLines
      <4> QED
        BY <4>1, <4>2
    <3> QED
      BY <1>6, <3>1 DEF Due, Live
  <2>4. ASSUME NEW r \in Due(x, t), r \notin out PROVE r \in want[1]
    BY <1>5, <1>6, <2>4 DEF Due, Live
  <2>5. Exact(d, out, x, t, p, want[1])
    <3> DEFINE S == Due(x, t)
               T == want[1]
    <3>1. (\A r : r \in T => r \in S) /\ (\A r : r \in S /\ r \notin out => r \in T)
      BY <2>3, <2>4
    <3>2. Exact(d, torn[1], x, t, p, S)
      BY <2>2
    <3> HIDE DEF S, T, out
    <3>3. T \cap DOMAIN d.assoc \subseteq DOMAIN d.assoc
      OBVIOUS
    <3>4. Exact(d, out, x, t, p, T)
      BY <1>7, <3>1, <3>2, <3>3, ExactKept
    <3> QED
      BY <3>4 DEF T
  <2> QED
    BY <2>2, <2>5
<1> QED
  BY <1>8, <1>9

\* The records that are affected by a signal are those the program is at.
LEMMA InterruptExact ==
  ASSUME Manual, IInv, EInv, IInv', Interrupt
  PROVE  EInv'
<1>1. /\ cmd # NULL /\ cmd' = NULL /\ cur' = NULL /\ hash_tab' = {}
      /\ torn' = [torn EXCEPT ![cmd.file] = @ \cup Busy]
      /\ UNCHANGED <<primary, db, want, upto>>
      /\ primary # "replace"
  BY DEF Interrupt, Manual
<1>2. /\ want \in [File -> SUBSET Nat] /\ torn \in [File -> SUBSET Nat] /\ File = {1}
      /\ want[1] \subseteq 1..upto[1] /\ cmd.file = 1
      /\ \A r \in want[1] : GetSGML(db[1], r) = {"doc"}
  BY <1>1, OneFile DEF EInv, WantOK, Live
<1>3. Busy \subseteq Nat
  <2>1. cmd.i \in Nat /\ (InLoad => cmd.read \subseteq Nat) /\ cmd.prog \in {"load", "delete"}
    BY <1>1, Running DEF InLoad, Program_t, Load_t, Delete_t
  <2>2. \A j \in DOMAIN work : work[j].rec \in Nat
    <3>1. work \in Seq(LoopType)
      BY DEF IInv
    <3>2. \A l \in LoopType : l.rec \in Nat
      BY Constants DEF LoopType
    <3> QED
      BY <3>1, <3>2
  <2> QED
    BY <1>1, <2>1, <2>2 DEF Busy, InLoad
<1>4. torn'[1] = torn[1] \cup Busy /\ torn' \in [File -> SUBSET Nat]
  BY <1>1, <1>2, <1>3
<1>7. ASSUME NEW x \in RecIndex, NEW t \in Term
      PROVE  Exact(db[1], torn'[1], x, t, db[1].ix[x][t], want[1])
  BY <1>1, <1>4, AffectedExact
<1> QED
  BY <1>1, <1>2, <1>4, <1>7, Stops

\* A record is added to the data file, and is in no index.
LEMMA AddRecordExact ==
  ASSUME Manual, IInv, EInv, IInv', NEW f \in File, NEW c \in Doc, AddRecord(f, c)
  PROVE  EInv'
<1> DEFINE d == db[1]
           e == fil_add(d, c)
           new == [doc |-> c, deleted |-> FALSE]
<1>1. /\ Idle /\ db' = [db EXCEPT ![f] = fil_add(@, c)]
      /\ UNCHANGED <<primary, cmd, work, ended, want, upto, torn, cur, hash_tab>>
  BY DEF AddRecord, batch, ghosts
<1>2. f = 1 /\ d \in Database /\ d.assoc \in Seq(Rec) /\ db'[1] = e
  <2>1. File = {1} /\ d \in Database /\ d.assoc \in Seq(Rec)
    BY OneFile
  <2>2. f = 1 /\ db \in [File -> Database]
    BY <2>1 DEF IInv
  <2> QED
    BY <1>1, <2>1, <2>2
<1>3. e.assoc = Append(d.assoc, new) /\ e.ix = d.ix
  BY <1>2 DEF fil_add, Database
<1>4. /\ Len(e.assoc) = Len(d.assoc) + 1 /\ Len(d.assoc) \in Nat
      /\ DOMAIN d.assoc = 1..Len(d.assoc)
      /\ DOMAIN d.assoc \subseteq DOMAIN e.assoc
      /\ \A i \in DOMAIN d.assoc : e.assoc[i] = d.assoc[i]
  <2> HIDE DEF e, new
  <2> DEFINE s == d.assoc
  <2>1. s \in Seq(Rec) /\ e.assoc = Append(s, new)
    BY <1>2, <1>3
  <2> HIDE DEF s
  <2>2. /\ Len(e.assoc) = Len(s) + 1 /\ Len(s) \in Nat
        /\ DOMAIN s = 1..Len(s)
        /\ DOMAIN s \subseteq DOMAIN e.assoc
        /\ \A i \in DOMAIN s : e.assoc[i] = s[i]
    BY <2>1
  <2> QED
    BY <2>2 DEF s
<1> HIDE DEF e
<1>5. cmd = NULL /\ cmd' = NULL /\ hash_tab = {} /\ ~InLoad /\ ~InLoad' /\ cur = NULL
  BY <1>1 DEF Idle, InLoad, EInv, IInv
<1>6. Live = want[1] /\ Live' = want[1]
  BY <1>1, <1>5 DEF Live, Loaded
<1>7. want[1] \subseteq 1..upto[1] /\ upto[1] \in 0..Len(d.assoc)
  BY DEF EInv, WantOK
<1>8. want[1] \subseteq DOMAIN d.assoc
  BY <1>4, <1>7
<1>9. Grown(d.assoc, e.assoc)
  BY <1>4 DEF Grown
<1>10. ListsExact'
  <2>1. ASSUME NEW x \in RecIndex, NEW t \in Term
        PROVE  Exact(e, torn[1], x, t, e.ix[x][t], want[1])
    <3>1. Exact(d, torn[1], x, t, d.ix[x][t], want[1]) /\ ListOK(d, x, t, d.ix[x][t])
      BY <1>5, WhatLists, ListsTrue DEF EInv
    <3>2. want[1] \cap DOMAIN e.assoc \subseteq DOMAIN d.assoc
      BY <1>8
    <3> HIDE DEF d
    <3> DEFINE p == d.ix[x][t]
               out == torn[1]
               S == want[1]
    <3>4. out \subseteq out /\ S \cap DOMAIN e.assoc \subseteq DOMAIN d.assoc
      BY <3>2
    <3>5. Exact(d, out, x, t, p, S) /\ ListOK(d, x, t, p)
      BY <3>1
    <3> HIDE DEF p, out, S
    <3>6. Exact(e, out, x, t, p, S)
      BY <1>9, <3>4, <3>5, ExactKept
    <3>3. Exact(e, torn[1], x, t, d.ix[x][t], want[1])
      BY <3>6 DEF p, out, S
    <3> QED
      BY <1>3, <3>3
  <2> QED
    BY <1>1, <1>2, <1>5, <2>1 DEF ListsExact, NotYet
<1>11. OneEntry'
  BY <1>1, <1>2, <1>3, <1>5 DEF EInv, OneEntry, Direct
<1>12. WantOK'
  <2>1. \A r \in want[1] : GetSGML(e, r) = {"doc"}
    BY <1>4, <1>6, <1>8 DEF EInv, WantOK, GetSGML
  <2>2. upto[1] \in 0..Len(e.assoc)
    BY <1>4, <1>7
  <2> QED
    BY <1>1, <1>2, <1>6, <2>1, <2>2 DEF EInv, WantOK
<1>13. LoadOK'
  BY <1>5 DEF LoadOK
<1> QED
  BY <1>1, <1>5, <1>10, <1>11, <1>12, <1>13 DEF EInv

\* A record that is wanted and can be found has its key in the index, if
\* there is a primary key.
LEMMA Keyed ==
  ASSUME Manual, IInv, primary # "none", NEW r, GetSGML(db[1], r) = {"doc"}
  PROVE  r \in DOMAIN db[1].assoc /\ \E t \in Term : Occurs(db[1], r, "pk", t)
<1>1. r \in DOMAIN db[1].assoc /\ db[1].assoc[r].doc \notin Bad
  BY Readable
<1>2. db[1].assoc[r].doc \in Doc
  BY <1>1, OneFile, Numbered
<1>3. primary \in Primaries
  BY DEF IInv
<1>4. PICK t \in Term : Words[db[1].assoc[r].doc]["pk"][t] > 0
  BY <1>1, <1>2, <1>3 DEF Manual
<1> QED
  BY <1>1, <1>4 DEF Occurs

\* A load starts with nothing ahead.
LEMMA LoadExact ==
  ASSUME Manual, IInv, EInv, IInv', NEW s \in 1..MaxRecs + 1, NEW e \in 0..1,
         NEW b \in BOOLEAN, Load(s, e, b)
  PROVE  EInv'
<1>1. /\ Idle /\ s = upto[1] + 1
      /\ b => primary = "none" \/ \A f \in File, t \in Term : db[f].ix["pk"][t] = NULL
      /\ cmd' = [prog |-> "load", file |-> 1, start |-> s, i |-> s,
                 max |-> Len(db[1].assoc) + e, extra |-> e, batch |-> b,
                 rc |-> NULL, indexed |-> FALSE, read |-> {},
                 last_rec_proc |-> s - 1]
      /\ UNCHANGED <<primary, db, work, lines, cur, hash_tab, ended, want, upto, torn>>
  BY DEF Load, Manual, batch, ghosts
<1>2. /\ cmd'.prog = "load" /\ cmd'.start = s /\ cmd'.i = s /\ cmd'.batch = b
      /\ cmd'.indexed = FALSE /\ cmd'.read = {} /\ cmd'.last_rec_proc = s - 1
  BY <1>1
<1>3. cmd' # NULL
  <2> DEFINE max == Len(db[1].assoc) + e
             last == s - 1
  <2>1. 1 \in File /\ s \in Nat /\ e \in Nat /\ last \in Int /\ MaxRecs \in Nat
    BY Constants DEF File
  <2>2. max \in Nat
    BY <2>1, OneFile
  <2> HIDE DEF max, last
  <2>3. cmd' = [prog |-> "load", file |-> 1, start |-> s, i |-> s, max |-> max,
                extra |-> e, batch |-> b, rc |-> NULL, indexed |-> FALSE,
                read |-> {}, last_rec_proc |-> last]
    BY <1>1 DEF max, last
  <2>4. cmd' \in Load_t
    BY <2>1, <2>2, <2>3 DEF Load_t
  <2> QED
    BY <2>4, Constants DEF Program_t
<1>4. cmd = NULL /\ work = <<>> /\ lines = {} /\ cur = NULL /\ hash_tab = {}
  BY <1>1 DEF Idle, IInv, EInv
<1>5. /\ Live = want[1] /\ Live' = want[1] /\ InLoad' /\ Loaded' = {}
  BY <1>1, <1>2, <1>3, <1>4 DEF Live, Loaded, InLoad
<1>6. /\ want[1] \subseteq 1..upto[1] /\ upto[1] \in 0..Len(db[1].assoc)
      /\ db[1].assoc \in Seq(Rec) /\ File = {1}
      /\ \A r \in want[1] : GetSGML(db[1], r) = {"doc"}
  BY <1>5, OneFile DEF EInv, WantOK
<1>7. ASSUME NEW x \in RecIndex, NEW t \in Term
      PROVE  /\ Exact(db[1], torn[1], x, t, db[1].ix[x][t], want[1])
             /\ Held(x, t)' = db[1].ix[x][t] /\ Due(x, t)' = want[1]
             /\ NotYet(x, t)' /\ x = "pk" /\ primary # "none" => db[1].ix[x][t] = NULL
  <2>1. Exact(db[1], torn[1], x, t, db[1].ix[x][t], want[1])
    BY <1>4, WhatLists DEF EInv
  <2>2. Held(x, t)' = db[1].ix[x][t]
    BY <1>1, <1>4 DEF Held, AtCur
  <2>3. \A k, r : ~InWork(work', k, r, x, t) /\ ~InLines(lines', r, x, t)
    BY <1>1, <1>4, NoWork DEF InLines
  <2>4. Due(x, t)' = want[1]
    BY <1>5, <2>3 DEF Due
  <2>5. NotYet(x, t)' => b
    BY <1>2 DEF NotYet
  <2> QED
    BY <1>1, <1>6, <2>1, <2>2, <2>4, <2>5
<1>8. ListsExact'
  BY <1>1, <1>3, <1>7, ListsGo
<1>9. OneEntry'
  <2>1. \A r, t : ~InWork(work', "add", r, "pk", t)
    BY <1>1, <1>4, NoWork
  <2> QED
    BY <1>1, <1>4, <2>1 DEF EInv, OneEntry
<1>10. WantOK'
  BY <1>1, <1>5 DEF EInv, WantOK
<1>11. b => BatchOK'
  <2> SUFFICES ASSUME b PROVE BatchOK'
    OBVIOUS
  <2>1. \A r \in want[1] : r < s
    BY <1>1, <1>6
  <2>2. ASSUME primary = "replace" PROVE want[1] = {}
    <3> SUFFICES ASSUME NEW r \in want[1] PROVE FALSE
      OBVIOUS
    <3>1. primary # "none"
      BY <2>2
    <3>2. PICK t \in Term : Occurs(db[1], r, "pk", t)
      BY <1>6, <3>1, Keyed
    <3>3. r \in DOMAIN db[1].assoc
      BY <1>6, Readable
    <3>4. Exact(db[1], torn[1], "pk", t, db[1].ix["pk"][t], want[1])
      BY <1>7, Constants
    <3>5. r \in Recs(db[1].ix["pk"][t])
      BY <3>2, <3>3, <3>4 DEF Exact
    <3>6. db[1].ix["pk"][t] = NULL
      BY <1>1, <1>6, <3>1
    <3> QED
      BY <3>5, <3>6 DEF Recs
  <2> QED
    BY <1>1, <1>2, <1>4, <2>1, <2>2 DEF BatchOK
<1>12. LoadOK'
  <2>1. upto[1] = IF s - 1 <= Len(db[1].assoc) THEN s - 1 ELSE Len(db[1].assoc)
    BY <1>1, <1>6
  <2>2. s <= s
    OBVIOUS
  <2> QED
    BY <1>1, <1>2, <1>11, <2>1, <2>2 DEF LoadOK
<1>13. (\A i \in DOMAIN work : LoopFor(work[i]))' /\ Ordered(work')
  BY <1>1, <1>4, NoLoop
<1> QED
  BY <1>1, <1>4, <1>8, <1>9, <1>10, <1>12, <1>13 DEF EInv

\* What delete_recs is told to delete is no longer wanted.
LEMMA DeleteExact ==
  ASSUME Manual, IInv, EInv, IInv', NEW f \in File, NEW i \in Recno, Delete(f, i)
  PROVE  EInv'
<1> DEFINE d == db[1]
           w == in_kwdel(d, i) \o <<Task("comp_del", i, i, 0), Task("fil_del", i, i, 0)>>
<1>1. /\ Idle /\ i \in DOMAIN db[f].assoc
      /\ GetSGML(db[f], i) = {"doc"} => i \in want[f]
      /\ cmd' = [prog |-> "delete", file |-> f, i |-> i, batch |-> FALSE]
      /\ work' = in_kwdel(db[f], i) \o <<Task("comp_del", i, i, 0),
                                         Task("fil_del", i, i, 0)>>
      /\ want' = [want EXCEPT ![f] = @ \ {i}]
      /\ UNCHANGED <<primary, db, lines, cur, hash_tab, ended, upto, torn>>
  BY DEF Delete, batch
<1>2. f = 1 /\ DatabaseOK(d) /\ File = {1}
  BY OneFile
<1>3. work' = w /\ want \in [File -> SUBSET Nat] /\ i \in DOMAIN d.assoc
  BY <1>1, <1>2 DEF EInv, WantOK
<1>4. want'[1] = want[1] \ {i} /\ want' \in [File -> SUBSET Nat]
  BY <1>1, <1>2, <1>3
<1>5. cmd'.prog = "delete" /\ cmd'.batch = FALSE
  BY <1>1
<1>6. cmd' # NULL
  <2>1. i \in Nat
    BY <1>2, <1>3, Numbered
  <2>2. cmd' \in Delete_t
    BY <1>1, <2>1 DEF Delete_t
  <2> QED
    BY <2>2, Constants DEF Program_t
<1>7. cmd = NULL /\ lines = {} /\ cur = NULL /\ hash_tab = {}
  BY <1>1 DEF Idle, IInv, EInv
<1>8. /\ Live = want[1] /\ Live' = want[1] \ {i} /\ ~InLoad' /\ Direct'
  BY <1>4, <1>5, <1>6, <1>7 DEF Live, Loaded, InLoad, Direct
<1>9. \A r \in want[1] : GetSGML(d, r) = {"doc"}
  BY <1>8 DEF EInv, WantOK
<1>10. Clears(w, {"del", "comp_del", "fil_del"}, d, i)
  BY <1>2, <1>3, DeleteClears
<1> HIDE DEF w
<1>11. /\ Ordered(w)
       /\ \A l \in Loops(w) : /\ l.rec = i /\ l.kind \in {"del", "comp_del", "fil_del"}
                              /\ l.kind # "del" => l.x = "ck"
       /\ \A x \in RecIndex, t \in Term : \A r :
            InWork(w, "del", r, x, t) <=> /\ r = i /\ Occurs(d, i, x, t)
                                          /\ GetSGML(d, i) = {"doc"}
  BY <1>10 DEF Clears
<1>12. \A r, x, t : ~InWork(w, "add", r, x, t)
  BY <1>11, InLoops
<1>13. ASSUME NEW x \in RecIndex, NEW t \in Term
       PROVE  /\ Exact(d, torn[1], x, t, d.ix[x][t], Due(x, t)')
              /\ Held(x, t)' = d.ix[x][t] /\ ~NotYet(x, t)'
  <2>1. Exact(d, torn[1], x, t, d.ix[x][t], want[1]) /\ ListOK(d, x, t, d.ix[x][t])
    BY <1>7, WhatLists, ListsTrue DEF EInv
  <2>2. Held(x, t)' = d.ix[x][t] /\ ~NotYet(x, t)'
    BY <1>1, <1>5, <1>7 DEF Held, AtCur, NotYet
  <2>3. Due(x, t)' = (want[1] \ {i})
          \cup {r \in Recno : r = i /\ Occurs(d, i, x, t) /\ GetSGML(d, i) = {"doc"}}
    <3>1. \A r : ~InLines(lines', r, x, t)
      BY <1>1, <1>7 DEF InLines
    <3> QED
      BY <1>3, <1>8, <1>11, <1>12, <3>1 DEF Due
  <2>4. \A r \in Due(x, t)' : r \in want[1]
    BY <1>1, <1>2, <2>3
  <2>5. \A r \in want[1] : Occurs(d, r, x, t) => r \in Due(x, t)'
    BY <1>9, <2>3
  <2>6. Grown(d.assoc, d.assoc)
    BY DEF Grown
  <2>7. Due(x, t)' \cap DOMAIN d.assoc \subseteq DOMAIN d.assoc
    OBVIOUS
  <2>8. \A r \in DOMAIN d.assoc : Occurs(d, r, x, t) =>
          (r \in Due(x, t)' => r \in want[1]) /\
          (r \in want[1] /\ r \notin torn[1] => r \in Due(x, t)')
    BY <2>4, <2>5
  <2> HIDE DEF d
  <2>9. Exact(d, torn[1], x, t, d.ix[x][t], Due(x, t)')
    BY <2>1, <2>6, <2>7, <2>8, ExactKept
  <2> QED
    BY <2>2, <2>9
<1>14. ListsExact'
  BY <1>1, <1>6, <1>13, ListsGo
<1>15. OneEntry'
  BY <1>1, <1>3, <1>7, <1>12 DEF EInv, OneEntry
<1>16. WantOK'
  BY <1>1, <1>4, <1>8, <1>9 DEF EInv, WantOK
<1>17. LoadOK'
  BY <1>8 DEF LoadOK
<1>18. (\A j \in DOMAIN work : LoopFor(work[j]))'
  <2>1. ASSUME NEW l \in Loops(w) PROVE LoopFor(l)'
    <3>1. /\ l.rec = i /\ l.kind \in {"del", "comp_del", "fil_del"}
          /\ l.kind # "del" => l.x = "ck"
      BY <1>11
    <3> QED
      BY <1>4, <1>5, <1>8, <3>1 DEF LoopFor
  <2> QED
    BY <1>3, <2>1 DEF Loops
<1> QED
  BY <1>1, <1>3, <1>7, <1>11, <1>14, <1>15, <1>16, <1>17, <1>18 DEF EInv

-----------------------------------------------------------------------------
(* The records of a load.                                                  *)

\* Between two records no list changes.
LEMMA ListsStay ==
  ASSUME Manual, IInv, EInv, InLoad, cmd' # NULL, cmd'.batch = cmd.batch,
         UNCHANGED <<primary, db, torn>>, UNCHANGED batch,
         work = <<>>, work' = <<>>, Live' = Live,
         cmd.batch => Gathering /\ want' = want
  PROVE  ListsExact' /\ OneEntry'
<1>1. UNCHANGED <<lines, cur, hash_tab>>
  BY DEF batch
<1>2. \A k, r, x, t : ~InWork(work, k, r, x, t) /\ ~InWork(work', k, r, x, t)
  BY NoWork
<1>3. ASSUME NEW x \in RecIndex, NEW t \in Term
      PROVE  /\ Due(x, t)' = Due(x, t) /\ Held(x, t)' = Held(x, t)
             /\ NotYet(x, t)' => NotYet(x, t) /\ want' = want
  <2>1. Due(x, t)' = Due(x, t)
    BY <1>1, <1>2 DEF Due
  <2>2. Held(x, t)' = Held(x, t)
    BY <1>1 DEF Held, AtCur
  <2>3. NotYet(x, t)' => NotYet(x, t) /\ want' = want
    BY DEF NotYet, InLoad
  <2> QED
    BY <2>1, <2>2, <2>3
<1>4. cmd # NULL
  BY DEF InLoad
<1>5. ListsExact'
  BY <1>3, <1>4, WhatLists, ListsGo DEF EInv
<1>6. OneEntry'
  BY <1>1, <1>2 DEF EInv, OneEntry
<1> QED
  BY <1>5, <1>6

\* in_kwadd returns without indexing the record.
LEMMA ReturnedExact ==
  ASSUME Manual, IInv, EInv, IInv', Loading, cmd.rc = NULL, cmd.i <= cmd.max,
         UNCHANGED <<primary, db, ended, upto, torn>>, UNCHANGED batch,
         NEW rc \in -2..1, Returned(rc)
  PROVE  EInv'
<1>1. /\ cmd # NULL /\ cmd \in Load_t /\ InLoad /\ work = <<>> /\ ~cmd.indexed
  BY AtLoad
<1>2. cmd' = [cmd EXCEPT !.rc = rc] /\ work' = <<>> /\ want' = want
      /\ UNCHANGED <<lines, cur, hash_tab>>
  BY <1>1 DEF Returned, batch
<1>3. /\ cmd'.i = cmd.i /\ cmd'.start = cmd.start /\ cmd'.batch = cmd.batch
      /\ cmd'.prog = cmd.prog /\ cmd'.rc = rc /\ cmd'.indexed = cmd.indexed
      /\ cmd'.read = cmd.read /\ cmd'.max = cmd.max
      /\ cmd'.last_rec_proc = cmd.last_rec_proc
      /\ cmd' \in Load_t
  BY <1>1, <1>2, ReturnedOK DEF Load_t
<1>4. cmd' # NULL /\ rc # NULL
  BY <1>3, Constants DEF Program_t
<1>5. /\ InLoad' /\ Loaded' = Loaded /\ Live' = Live /\ Gathering /\ Gathering'
  BY <1>1, <1>2, <1>3, <1>4 DEF InLoad, Loaded, Live, Gathering
<1>6. ListsExact' /\ OneEntry'
  BY <1>1, <1>2, <1>3, <1>4, <1>5, ListsStay
<1>7. WantOK'
  BY <1>2, <1>5 DEF EInv, WantOK
<1>8. cmd.batch => BatchOK'
  <2> SUFFICES ASSUME cmd.batch PROVE BatchOK'
    OBVIOUS
  <2>1. BatchOK /\ cur = NULL
    BY <1>1, <1>5, BatchNow DEF BatchOK
  <2> QED
    BY <1>2, <1>3, <1>5, <2>1 DEF BatchOK
<1>9. LoadOK'
  BY <1>1, <1>2, <1>3, <1>5, <1>8 DEF EInv, LoadOK
<1>10. (\A i \in DOMAIN work : LoopFor(work[i]))' /\ Ordered(work')
  BY <1>2, NoLoop
<1>11. (Idle \/ Direct \/ primary = "none" => hash_tab = {})'
  BY <1>1, <1>2, <1>3, <1>4 DEF EInv, Idle, Direct
<1> QED
  BY <1>6, <1>7, <1>9, <1>10, <1>11 DEF EInv

\* The record that was indexed is wanted, or has been read.
LEMMA NextRecordExact ==
  ASSUME Manual, IInv, EInv, IInv', NextRecord
  PROVE  EInv'
<1> DEFINE i == cmd.i
           len == Len(db[1].assoc)
           read == IF cmd.indexed /\ cmd.batch THEN cmd.read \cup {i} ELSE cmd.read
<1>1. /\ Loading /\ cmd.rc # NULL /\ ~Serious
      /\ cmd' = [cmd EXCEPT !.last_rec_proc = i, !.i = i + 1, !.rc = NULL,
                            !.indexed = FALSE, !.read = read]
      /\ want' = IF cmd.indexed /\ ~cmd.batch
                 THEN [want EXCEPT ![cmd.file] = @ \cup {i}] ELSE want
      /\ upto' = IF i = upto[cmd.file] + 1 /\ i <= Len(D.assoc)
                 THEN [upto EXCEPT ![cmd.file] = i] ELSE upto
      /\ UNCHANGED <<primary, db, work, ended, torn>> /\ UNCHANGED batch
      /\ UNCHANGED <<lines, cur, hash_tab>>
  BY DEF NextRecord, batch
<1>2. /\ cmd # NULL /\ cmd \in Load_t /\ InLoad /\ work = <<>> /\ cmd.file = 1
      /\ D = db[1] /\ i \in Nat /\ cmd.start \in Nat /\ cmd.read \subseteq Nat
      /\ cmd.batch \in BOOLEAN
  BY <1>1, AtLoad
<1> HIDE DEF read
<1>3. /\ cmd'.i = i + 1 /\ cmd'.start = cmd.start /\ cmd'.batch = cmd.batch
      /\ cmd'.prog = "load" /\ cmd'.indexed = FALSE /\ cmd'.read = read
      /\ cmd'.last_rec_proc = i
  BY <1>1, <1>2 DEF Load_t
<1>4. cmd' # NULL
  <2>1. read \subseteq Nat
    BY <1>2 DEF read
  <2> DEFINE j == i + 1
  <2>2. j \in Nat /\ i \in Int
    BY <1>2
  <2> HIDE DEF i, j
  <2>3. cmd' = [cmd EXCEPT !.last_rec_proc = i, !.i = j, !.rc = NULL,
                           !.indexed = FALSE, !.read = read]
    BY <1>1 DEF j
  <2>4. cmd' \in Load_t
    BY <1>2, <2>1, <2>2, <2>3 DEF Load_t
  <2> QED
    BY <2>4, Constants DEF Program_t
<1>5. /\ upto[1] = IF i - 1 <= len THEN i - 1 ELSE len
      /\ cmd.read \subseteq cmd.start..i - 1 /\ cmd.start <= i
      /\ IF cmd.batch THEN BatchOK ELSE cmd.read = {}
  BY <1>2 DEF EInv, LoadOK
<1>6. len \in Nat /\ DOMAIN db[1].assoc = 1..len /\ File = {1}
      /\ want \in [File -> SUBSET Nat] /\ upto \in [File -> Nat]
      /\ want[1] \subseteq 1..upto[1]
  BY OneFile DEF EInv, WantOK
<1>7. /\ upto'[1] = (IF i <= len THEN i ELSE len) /\ upto' \in [File -> Nat]
      /\ upto[1] <= upto'[1]
  <2>1. CASE i <= len
    <3>1. upto[1] = i - 1 /\ i = upto[1] + 1
      BY <1>2, <1>5, <1>6, <2>1
    <3>2. upto' = [upto EXCEPT ![1] = i]
      BY <1>1, <1>2, <2>1, <3>1
    <3> QED
      BY <1>2, <1>6, <2>1, <3>1, <3>2
  <2>2. CASE ~(i <= len)
    <3>1. upto' = upto /\ upto[1] = len
      BY <1>1, <1>2, <1>5, <1>6, <2>2
    <3> QED
      BY <1>2, <1>6, <2>2, <3>1
  <2> QED
    BY <2>1, <2>2
<1>8. /\ want' \in [File -> SUBSET Nat]
      /\ want'[1] = IF cmd.indexed /\ ~cmd.batch THEN want[1] \cup {i} ELSE want[1]
  BY <1>1, <1>2, <1>6
<1>9. /\ Loaded = cmd.read \cup (IF cmd.indexed THEN {i} ELSE {})
      /\ Loaded' = read /\ InLoad'
  BY <1>2, <1>3, <1>4 DEF Loaded, InLoad
<1>10. Live' = Live
  <2>1. CASE cmd.batch
    <3>1. read = Loaded /\ want'[1] = want[1]
      BY <1>8, <1>9, <2>1 DEF read
    <3> QED
      BY <1>1, <1>9, <3>1 DEF Live
  <2>2. CASE ~cmd.batch
    <3>1. hash_tab = {} /\ cmd.read = {} /\ read = {}
      BY <1>2, <2>2, DirectNow DEF read
    <3> QED
      BY <1>1, <1>8, <1>9, <2>2, <3>1 DEF Live
  <2> QED
    BY <2>1, <2>2
<1>11. Gathering
  BY <1>1, <1>2 DEF Gathering
<1>12. ListsExact' /\ OneEntry'
  <2>1. cmd.batch => want' = want
    BY <1>1
  <2> QED
    BY <1>1, <1>2, <1>3, <1>4, <1>10, <1>11, <2>1, ListsStay
<1>13. \A r \in Live : GetSGML(db[1], r) = {"doc"}
  BY DEF EInv, WantOK
<1>14. want'[1] \subseteq 1..upto'[1]
  <2>1. ASSUME NEW r \in want[1] PROVE r \in 1..upto'[1]
    BY <1>6, <1>7
  <2>2. ASSUME cmd.indexed, ~cmd.batch PROVE i \in 1..upto'[1]
    <3>1. i \in Live
      BY <1>2, <1>9, <2>2, DirectNow DEF Live
    <3>2. i \in 1..len
      BY <1>6, <1>13, <3>1, Readable
    <3> QED
      BY <1>2, <1>6, <1>7, <3>2
  <2> QED
    BY <1>8, <2>1, <2>2
<1>15. upto'[1] \in 0..len
  BY <1>2, <1>6, <1>7
<1>16. WantOK'
  BY <1>1, <1>7, <1>8, <1>10, <1>13, <1>14, <1>15 DEF EInv, WantOK
<1>17. cmd.batch => BatchOK'
  <2> SUFFICES ASSUME cmd.batch PROVE BatchOK'
    OBVIOUS
  <2>1. BatchOK /\ cur = NULL
    BY <1>5, <1>11 DEF BatchOK
  <2>2. Loaded' = Loaded /\ want' = want
    BY <1>1, <1>9 DEF read
  <2> QED
    BY <1>1, <1>3, <2>1, <2>2 DEF BatchOK
<1>18. LoadOK'
  <2>1. upto'[1] = IF cmd'.i - 1 <= len THEN cmd'.i - 1 ELSE len
    BY <1>2, <1>3, <1>6, <1>7
  <2>2. cmd'.last_rec_proc = cmd'.i - 1 /\ cmd'.start <= cmd'.i
    BY <1>2, <1>3, <1>5
  <2>3. cmd'.read \subseteq cmd'.start..cmd'.i - 1
    BY <1>2, <1>3, <1>5 DEF read
  <2>4. ~cmd.batch => cmd'.read = {}
    BY <1>3, <1>5 DEF read
  <2> QED
    BY <1>1, <1>3, <1>17, <2>1, <2>2, <2>3, <2>4 DEF LoadOK
<1>19. (\A j \in DOMAIN work : LoopFor(work[j]))' /\ Ordered(work')
  BY <1>1, <1>2, NoLoop
<1>20. (Idle \/ Direct \/ primary = "none" => hash_tab = {})'
  BY <1>1, <1>2, <1>3, <1>4 DEF EInv, Idle, Direct
<1> QED
  BY <1>12, <1>16, <1>18, <1>19, <1>20 DEF EInv

\* The record that in_kwadd is about to index is new.
LEMMA NewRecord ==
  ASSUME Manual, IInv, EInv, Loading, cmd.rc = NULL, GetSGML(D, cmd.i) = {"doc"}
  PROVE  /\ cmd.i \in DOMAIN db[1].assoc /\ cmd.i \in Recno
         /\ cmd.i \notin want[1] /\ cmd.i \notin Live
         /\ Loaded = cmd.read
<1>1. /\ cmd # NULL /\ InLoad /\ D = db[1] /\ cmd.i \in Nat /\ cmd.start \in Nat
      /\ ~cmd.indexed
  BY AtLoad
<1>2. cmd.i \in DOMAIN db[1].assoc /\ db[1].assoc \in Seq(Rec)
  BY <1>1, OneFile, Readable
<1>3. cmd.i \in 1..Len(db[1].assoc) /\ cmd.i \in Recno /\ Len(db[1].assoc) \in Nat
  BY <1>2, OneFile, Numbered
<1>4. upto[1] = cmd.i - 1 /\ cmd.read \subseteq cmd.start..cmd.i - 1
  BY <1>1, <1>3 DEF EInv, LoadOK
<1>5. want[1] \subseteq 1..upto[1]
  BY DEF EInv, WantOK
<1>6. cmd.i \notin want[1] /\ cmd.i \notin cmd.read
  BY <1>1, <1>4, <1>5
<1>7. Loaded = cmd.read
  BY <1>1 DEF Loaded
<1> QED
  BY <1>2, <1>3, <1>6, <1>7 DEF Live

\* in_kwadd goes on to its loops: what is left to show.
LEMMA StartsRecord ==
  ASSUME Manual, IInv, EInv, IInv', Loading, cmd.rc = NULL, cmd.i <= cmd.max,
         GetSGML(D, cmd.i) = {"doc"},
         UNCHANGED <<primary, db, ended, upto, torn>>, UNCHANGED batch,
         cmd' = [cmd EXCEPT !.rc = 1, !.indexed = TRUE],
         NEW old, want' = [want EXCEPT ![cmd.file] = @ \ old], cmd.batch => old = {}
  PROVE  /\ cmd' # NULL /\ InLoad' /\ cmd'.i = cmd.i /\ cmd'.batch = cmd.batch
         /\ cmd'.indexed /\ (Direct' <=> Direct)
         /\ want'[1] = want[1] \ old /\ Loaded' = Loaded \cup {cmd.i}
         /\ (ListsExact' /\ OneEntry' /\ Ordered(work')
               /\ (\A i \in DOMAIN work : LoopFor(work[i]))') => EInv'
<1>1. /\ cmd # NULL /\ cmd \in Load_t /\ InLoad /\ D = db[1] /\ cmd.file = 1
  BY AtLoad
<1>2. /\ cmd'.i = cmd.i /\ cmd'.start = cmd.start /\ cmd'.batch = cmd.batch
      /\ cmd'.prog = "load" /\ cmd'.rc = 1 /\ cmd'.indexed = TRUE
      /\ cmd'.read = cmd.read /\ cmd'.last_rec_proc = cmd.last_rec_proc
  BY <1>1 DEF Load_t
<1>3. cmd' # NULL /\ 1 # NULL
  <2> DEFINE one == 1
  <2>1. one \in -2..1
    OBVIOUS
  <2>2. cmd' = [cmd EXCEPT !.rc = one, !.indexed = TRUE]
    OBVIOUS
  <2> HIDE DEF one
  <2>3. cmd' \in Load_t
    BY <1>1, <2>1, <2>2 DEF Load_t
  <2>4. NULL # 1
    BY Constants
  <2> QED
    BY <2>3, <2>4, Constants DEF Program_t
<1>4. UNCHANGED <<lines, cur, hash_tab>> /\ File = {1} /\ want \in [File -> SUBSET Nat]
  BY OneFile DEF batch, EInv, WantOK
<1>5. /\ InLoad' /\ (Direct' <=> Direct) /\ Gathering /\ ~Idle'
  BY <1>1, <1>2, <1>3 DEF InLoad, Direct, Gathering, Idle
<1>6. want'[1] = want[1] \ old /\ want' \in [File -> SUBSET Nat]
  BY <1>1, <1>4
<1>7. Loaded = cmd.read /\ Loaded' = Loaded \cup {cmd.i}
  BY <1>2, <1>5, NewRecord DEF Loaded
<1>8. WantOK'
  <2>1. Live' \subseteq Live \cup {cmd.i}
    BY <1>4, <1>6, <1>7 DEF Live
  <2>2. \A r \in Live' : GetSGML(db[1], r) = {"doc"}
    BY <1>1, <2>1 DEF EInv, WantOK
  <2> QED
    BY <1>6, <2>2 DEF EInv, WantOK
<1>9. cmd.batch => BatchOK'
  <2> SUFFICES ASSUME cmd.batch PROVE BatchOK'
    OBVIOUS
  <2>1. BatchOK /\ cur = NULL
    BY <1>1, <1>5, BatchNow DEF BatchOK
  <2> QED
    BY <1>2, <1>4, <1>6, <1>7, <2>1 DEF BatchOK
<1>10. LoadOK'
  BY <1>1, <1>2, <1>5, <1>9 DEF EInv, LoadOK
<1>11. (Idle \/ Direct \/ primary = "none" => hash_tab = {})'
  BY <1>4, <1>5 DEF EInv
<1> QED
  BY <1>2, <1>3, <1>5, <1>6, <1>7, <1>8, <1>10, <1>11 DEF EInv

\* A record whose key is in no list.
LEMMA IndexesNew ==
  ASSUME Manual, IInv, EInv, IInv', Loading, cmd.rc = NULL, cmd.i <= cmd.max,
         GetSGML(D, cmd.i) = {"doc"},
         UNCHANGED <<primary, db, ended, upto, torn>>, UNCHANGED batch,
         Indexes({}),
         primary # "none" /\ ~cmd.batch => \A t \in Term :
           Occurs(D, cmd.i, "pk", t) => D.ix["pk"][t] = NULL
  PROVE  EInv'
<1> DEFINE i == cmd.i
           d == db[1]
           w == in_kwadd(d, i)
<1>1. /\ cmd # NULL /\ InLoad /\ D = d /\ cmd.file = 1 /\ work = <<>>
      /\ \A k, r, x, t : ~InWork(work, k, r, x, t)
  BY AtLoad
<1>2. i \in DOMAIN d.assoc /\ i \notin want[1] /\ i \notin Live /\ DatabaseOK(d)
  BY NewRecord, OneFile
<1>3. /\ cmd' = [cmd EXCEPT !.rc = 1, !.indexed = TRUE]
      /\ work' = <<>> \o in_kwadd(D, i)
      /\ want' = [want EXCEPT ![cmd.file] = @ \ {}]
  BY DEF Indexes
<1>4. Fills(w, d, i)
  BY <1>2, KwaddFills
<1>5. w \in Seq(LoopType)
  BY <1>4 DEF Fills
<1>6. work' = w
  BY <1>1, <1>3, <1>5
<1> HIDE DEF w
<1>7. /\ cmd' # NULL /\ InLoad' /\ cmd'.i = i /\ cmd'.batch = cmd.batch
      /\ cmd'.indexed /\ (Direct' <=> Direct)
      /\ want'[1] = want[1] \ {} /\ Loaded' = Loaded \cup {i}
      /\ (ListsExact' /\ OneEntry' /\ Ordered(work')
            /\ (\A j \in DOMAIN work : LoopFor(work[j]))') => EInv'
  BY <1>3, StartsRecord
<1>8. /\ Ordered(w)
      /\ \A l \in Loops(w) : /\ l.rec = i /\ l.kind \in {"add", "components"}
                             /\ l.kind # "add" => l.x = "ck"
      /\ \A x \in RecIndex, t \in Term : \A r :
           InWork(w, "add", r, x, t) <=> r = i /\ Occurs(d, i, x, t)
  BY <1>4 DEF Fills
<1>9. \A r, x, t : ~InWork(w, "del", r, x, t)
  BY <1>8, InLoops
<1>10. UNCHANGED <<lines, cur, hash_tab>>
  BY DEF batch
<1>11. want'[1] = want[1] /\ \A r : r # i => (r \in Live' <=> r \in Live)
  BY <1>7, <1>10 DEF Live
<1>12. ASSUME NEW x \in RecIndex, NEW t \in Term
       PROVE  /\ Exact(d, torn[1], x, t, Held(x, t)', Due(x, t)')
              /\ NotYet(x, t)' =>
                   /\ Exact(d, torn[1], x, t, d.ix[x][t], want[1])
                   /\ x = "pk" /\ primary # "none" => d.ix[x][t] = NULL
  <2> DEFINE S == Due(x, t)
             T == Due(x, t)'
             p == Held(x, t)
             out == torn[1]
  <2>1. Exact(d, out, x, t, p, S) /\ ListOK(d, x, t, p)
    BY <1>1, WhatLists, ListsTrue DEF EInv
  <2>2. Held(x, t)' = p
    BY <1>10 DEF Held, AtCur
  <2>3. ASSUME NEW r, Occurs(d, r, x, t) PROVE r \in T <=> r \in S
    <3>1. InLines(lines', r, x, t) <=> InLines(lines, r, x, t)
      BY <1>10
    <3>2. ~InWork(work', "del", r, x, t) /\ (InWork(work', "add", r, x, t) <=> r = i)
      BY <1>6, <1>8, <1>9, <2>3
    <3> QED
      BY <1>1, <1>2, <1>11, <3>1, <3>2 DEF Due
  <2>4. Grown(d.assoc, d.assoc) /\ out \subseteq out
    BY DEF Grown
  <2>5. T \cap DOMAIN d.assoc \subseteq DOMAIN d.assoc
    OBVIOUS
  <2> HIDE DEF S, T, p, out, d
  <2>6. Exact(d, out, x, t, p, T)
    BY <2>1, <2>3, <2>4, <2>5, ExactKept
  <2>7. NotYet(x, t)' => NotYet(x, t)
    BY <1>1, <1>7 DEF NotYet, Gathering
  <2>8. NotYet(x, t)' =>
          /\ Exact(d, torn[1], x, t, d.ix[x][t], want[1])
          /\ x = "pk" /\ primary # "none" => d.ix[x][t] = NULL
    BY <2>7, WhatLists DEF EInv, d
  <2> QED
    BY <2>2, <2>6, <2>8 DEF T, out
<1>13. ListsExact'
  BY <1>7, <1>11, <1>12, ListsGo
<1>14. OneEntry'
  <2> SUFFICES ASSUME primary # "none" PROVE OneEntry'
    BY DEF OneEntry
  <2>1. ASSUME Direct, NEW r, NEW t \in Term, InWork(work', "add", r, "pk", t)
        PROVE  d.ix["pk"][t] = NULL
    BY <1>1, <1>6, <1>8, <2>1, Constants DEF Direct
  <2> QED
    BY <1>7, <1>10, <2>1 DEF EInv, OneEntry
<1>15. (\A j \in DOMAIN work : LoopFor(work[j]))'
  <2>1. ASSUME NEW l \in Loops(w) PROVE LoopFor(l)'
    BY <1>2, <1>7, <1>8, <1>11 DEF LoopFor
  <2> QED
    BY <1>6, <2>1 DEF Loops
<1> QED
  BY <1>6, <1>7, <1>8, <1>13, <1>14, <1>15

\* A record that replaces record o: the key of both is in one list.
LEMMA IndexesAgain ==
  ASSUME Manual, IInv, EInv, IInv', Loading, cmd.rc = NULL, cmd.i <= cmd.max,
         GetSGML(D, cmd.i) = {"doc"},
         UNCHANGED <<primary, db, ended, upto, torn>>, UNCHANGED batch,
         primary = "replace", ~cmd.batch,
         NEW key \in Term, Occurs(D, cmd.i, "pk", key), D.ix["pk"][key] # NULL,
         NEW o, o = D.ix["pk"][key].entries[1].rec, Indexes({o})
  PROVE  EInv'
<1> DEFINE i == cmd.i
           d == db[1]
           v == Replace(d, o)
           a == in_kwadd(d, i)
           w == v \o a
           p == d.ix["pk"][key]
<1>1. /\ cmd # NULL /\ InLoad /\ D = d /\ cmd.file = 1 /\ work = <<>>
      /\ \A k, r, x, t : ~InWork(work, k, r, x, t)
  BY AtLoad
<1>2. /\ i \in DOMAIN d.assoc /\ i \notin want[1] /\ DatabaseOK(d)
      /\ Loaded = cmd.read
  BY NewRecord, OneFile
<1>3. Direct /\ lines = {} /\ cur = NULL /\ hash_tab = {} /\ cmd.read = {}
  BY <1>1, DirectNow
<1>4. Live = want[1]
  BY <1>2, <1>3 DEF Live
<1>5. ASSUME NEW x \in RecIndex, NEW t \in Term
      PROVE  /\ Due(x, t) = want[1] /\ Held(x, t) = d.ix[x][t]
             /\ Exact(d, torn[1], x, t, d.ix[x][t], want[1])
             /\ ListOK(d, x, t, d.ix[x][t])
  <2>1. Held(x, t) = d.ix[x][t]
    BY <1>3 DEF Held, AtCur
  <2>2. Due(x, t) = want[1]
    BY <1>1, <1>3, <1>4 DEF Due, InLines
  <2>3. Exact(d, torn[1], x, t, d.ix[x][t], want[1]) /\ ListOK(d, x, t, d.ix[x][t])
    BY <1>1, <2>1, <2>2, WhatLists, ListsTrue DEF EInv
  <2> QED
    BY <2>1, <2>2, <2>3
<1>6. torn[1] = {} /\ \A r \in Live : GetSGML(d, r) = {"doc"}
  BY DEF EInv, WantOK
<1>7. o \in Recs(p)
  <2>1. ListOK(d, "pk", key, p) /\ p # NULL
    BY <1>1, <1>5, Constants
  <2>2. o = p.entries[1].rec
    BY <1>1
  <2> HIDE DEF p
  <2>3. p.entries \in Seq(Ent) /\ p.entries # <<>>
    BY <2>1, PostingFields DEF ListOK, TruePosting
  <2>4. 1 \in DOMAIN p.entries
    BY <2>3
  <2> QED
    BY <2>1, <2>2, <2>4 DEF Recs
<1>8. o \in want[1] /\ Occurs(d, o, "pk", key)
  <2>1. Exact(d, torn[1], "pk", key, p, want[1]) /\ ListOK(d, "pk", key, p)
    BY <1>5, Constants
  <2> HIDE DEF p, d
  <2>2. o \in want[1]
    BY <1>6, <1>7, <2>1 DEF Exact
  <2>3. Occurs(d, o, "pk", key)
    BY <1>7, <2>1, RecsOccur, Constants
  <2> QED
    BY <2>2, <2>3
<1>9. GetSGML(d, o) = {"doc"} /\ o \in DOMAIN d.assoc /\ o # i /\ o \in Recno
  BY <1>2, <1>4, <1>6, <1>8, Readable, Numbered
<1>10. /\ cmd' = [cmd EXCEPT !.rc = 1, !.indexed = TRUE]
       /\ work' = w
       /\ want' = [want EXCEPT ![cmd.file] = @ \ {o}]
  <2>1. {o} # {} /\ (CHOOSE r \in {o} : TRUE) = o
    OBVIOUS
  <2> QED
    BY <1>1, <2>1 DEF Indexes
<1>11. Fills(a, d, i) /\ Clears(v, {"del", "fil_del"}, d, o)
  BY <1>2, <1>9, KwaddFills, ReplaceClears
<1> HIDE DEF a, v
<1>12. /\ a \in Seq(LoopType) /\ Ordered(a) /\ v \in Seq(LoopType) /\ Ordered(v)
       /\ \A l \in Loops(a) : /\ l.rec = i /\ l.kind \in {"add", "components"}
                              /\ l.kind # "add" => l.x = "ck"
       /\ \A l \in Loops(v) : /\ l.rec = o /\ l.kind \in {"del", "fil_del"}
                              /\ l.kind # "del" => l.x = "ck"
  BY <1>11 DEF Fills, Clears
<1>13. \A l \in Loops(v), m \in Loops(a) : Before(l, m)
  BY <1>12 DEF Before
<1>14. Ordered(w) /\ Loops(w) = Loops(v) \cup Loops(a)
  BY <1>12, <1>13, LoopsJoin
<1> HIDE DEF w
<1>15. ASSUME NEW x \in RecIndex, NEW t \in Term, NEW r
       PROVE  /\ InWork(w, "add", r, x, t) <=> r = i /\ Occurs(d, i, x, t)
              /\ InWork(w, "del", r, x, t) <=> r = o /\ Occurs(d, o, x, t)
  <2>1. InWork(a, "add", r, x, t) <=> r = i /\ Occurs(d, i, x, t)
    BY <1>11 DEF Fills
  <2>2. InWork(v, "del", r, x, t) <=> r = o /\ Occurs(d, o, x, t)
    BY <1>9, <1>11 DEF Clears
  <2>3. InWork(w, "add", r, x, t) <=> InWork(a, "add", r, x, t)
    BY <1>12, <1>14, InLoops
  <2>4. InWork(w, "del", r, x, t) <=> InWork(v, "del", r, x, t)
    BY <1>12, <1>14, InLoops
  <2> QED
    BY <2>1, <2>2, <2>3, <2>4
<1>16. /\ cmd' # NULL /\ InLoad' /\ cmd'.i = i /\ cmd'.batch = cmd.batch
       /\ cmd'.indexed /\ (Direct' <=> Direct)
       /\ want'[1] = want[1] \ {o} /\ Loaded' = Loaded \cup {i}
       /\ (ListsExact' /\ OneEntry' /\ Ordered(work')
             /\ (\A j \in DOMAIN work : LoopFor(work[j]))') => EInv'
  BY <1>10, StartsRecord
<1>17. UNCHANGED <<lines, cur, hash_tab>>
  BY DEF batch
<1>18. Live' = (want[1] \ {o}) \cup {i}
  BY <1>2, <1>3, <1>16, <1>17 DEF Live
<1>19. ASSUME NEW x \in RecIndex, NEW t \in Term
       PROVE  /\ Exact(d, torn[1], x, t, Held(x, t)', Due(x, t)')
              /\ ~NotYet(x, t)'
  <2> DEFINE S == want[1]
             T == Due(x, t)'
             q == d.ix[x][t]
             out == torn[1]
  <2>1. Exact(d, out, x, t, q, S) /\ ListOK(d, x, t, q)
    BY <1>5
  <2>2. Held(x, t)' = q /\ ~NotYet(x, t)'
    BY <1>3, <1>16, <1>17 DEF Held, AtCur, NotYet, Direct
  <2>3. ASSUME NEW r, Occurs(d, r, x, t) PROVE r \in T <=> r \in S
    <3>1. ~InLines(lines', r, x, t)
      BY <1>3, <1>17 DEF InLines
    <3>2. /\ InWork(work', "add", r, x, t) <=> r = i
          /\ InWork(work', "del", r, x, t) <=> r = o
      BY <1>10, <1>15, <2>3
    <3>3. r \in T <=> (r \in Live' /\ r # i) \/ (r \in Recno /\ r = o)
      BY <1>3, <1>16, <3>1, <3>2 DEF Due
    <3> QED
      BY <1>2, <1>8, <1>9, <1>18, <3>3
  <2>4. Grown(d.assoc, d.assoc) /\ out \subseteq out
    BY DEF Grown
  <2>5. T \cap DOMAIN d.assoc \subseteq DOMAIN d.assoc
    OBVIOUS
  <2> HIDE DEF S, T, q, out, d
  <2>6. Exact(d, out, x, t, q, T)
    BY <2>1, <2>3, <2>4, <2>5, ExactKept
  <2> QED
    BY <2>2, <2>6 DEF T, out
<1>20. ListsExact'
  BY <1>16, <1>19, ListsGo
<1>21. OneEntry'
  <2>1. ASSUME NEW r, NEW t \in Term, InWork(work', "add", r, "pk", t)
        PROVE  \E q \in Recno : InWork(work', "del", q, "pk", t)
    <3>1. Occurs(d, i, "pk", t)
      BY <1>10, <1>15, <2>1, Constants
    <3>2. t = key
      BY <1>1, <1>2, <3>1, OneKey
    <3>3. InWork(work', "del", o, "pk", t)
      BY <1>8, <1>10, <1>15, <3>2, Constants
    <3> QED
      BY <1>9, <3>3
  <2> QED
    BY <1>17, <2>1 DEF EInv, OneEntry
<1>22. (\A j \in DOMAIN work : LoopFor(work[j]))'
  <2>1. ASSUME NEW l \in Loops(a) PROVE LoopFor(l)'
    BY <1>2, <1>12, <1>16 DEF LoopFor
  <2>2. ASSUME NEW l \in Loops(v) PROVE LoopFor(l)'
    BY <1>9, <1>12, <1>16, <1>18 DEF LoopFor
  <2> QED
    BY <1>10, <1>14, <2>1, <2>2 DEF Loops
<1> QED
  BY <1>10, <1>14, <1>16, <1>20, <1>21, <1>22

\* in_kwadd returns at once, or starts its loops.
LEMMA KwAddExact ==
  ASSUME Manual, IInv, EInv, IInv', KwAdd
  PROVE  EInv'
<1> DEFINE found == IF cmd.batch \/ primary = "none" THEN {}
                    ELSE PrimaryEntry(D, cmd.i)
           old == {p.entries[1].rec : p \in {q \in found : Len(q.entries) = 1}}
<1>1. /\ Loading /\ cmd.rc = NULL /\ cmd.i <= cmd.max
      /\ UNCHANGED <<primary, db, ended, upto, torn>> /\ UNCHANGED batch
  BY DEF KwAdd
<1>2. PICK got \in GetSGML(D, cmd.i) :
        IF got # "doc"
        THEN Returned(CASE got = "parse_error" -> -2
                        [] got = "deleted" -> 1
                        [] got = "error" -> -1)
        ELSE IF primary = "ignore" /\ found # {} THEN Returned(1)
        ELSE IF \E r \in old : r > cmd.i THEN Returned(0) ELSE Indexes(old)
  BY DEF KwAdd
<1>3. cmd # NULL /\ DatabaseOK(D) /\ D = db[1]
  BY <1>1, AtLoad, Running
<1>4. cmd.batch \/ primary = "none" => found = {}
  OBVIOUS
<1>5. ~cmd.batch /\ primary # "none" =>
        \A p : p \in found <=> \E t \in Term : /\ p = D.ix["pk"][t] /\ p # NULL
                                              /\ Occurs(D, cmd.i, "pk", t)
  BY DEF PrimaryEntry, Occurring, in_extract, Occurs
<1>6. \A r : r \in old <=> \E p \in found : Len(p.entries) = 1 /\ r = p.entries[1].rec
  OBVIOUS
<1> HIDE DEF old, found
<1>7. CASE got # "doc"
  <2> DEFINE rc == CASE got = "parse_error" -> -2
                     [] got = "deleted" -> 1
                     [] got = "error" -> -1
  <2>1. Returned(rc)
    BY <1>2, <1>7
  <2>2. rc \in -2..1
    BY <1>7, Reading
  <2> HIDE DEF rc
  <2> QED
    BY <1>1, <2>1, <2>2, ReturnedExact
<1>8. CASE got = "doc"
  <2>1. GetSGML(D, cmd.i) = {"doc"}
    BY <1>8 DEF GetSGML
  <2>2. 0 \in -2..1 /\ 1 \in -2..1
    OBVIOUS
  <2>3. CASE Returned(0)
    BY <1>1, <2>2, <2>3, ReturnedExact
  <2>4. CASE Returned(1)
    BY <1>1, <2>2, <2>4, ReturnedExact
  <2>5. CASE Indexes(old) /\ old = {}
    <3>1. ASSUME primary # "none", ~cmd.batch, NEW t \in Term,
                 Occurs(D, cmd.i, "pk", t), D.ix["pk"][t] # NULL
          PROVE  FALSE
      <4>1. D.ix["pk"][t] \in found
        BY <1>5, <3>1
      <4>2. Len(D.ix["pk"][t].entries) = 1
        BY <1>3, <3>1 DEF EInv, OneEntry
      <4> QED
        BY <1>6, <2>5, <4>1, <4>2
    <3> QED
      BY <1>1, <2>1, <2>5, <3>1, IndexesNew
  <2>6. CASE Indexes(old) /\ old # {} /\ ~(primary = "ignore" /\ found # {})
    <3>1. PICK o : o \in old
      BY <2>6
    <3>2. PICK p \in found : o = p.entries[1].rec
      BY <1>6, <3>1
    <3>3. ~cmd.batch /\ primary # "none" /\ primary # "ignore"
      BY <1>4, <2>6, <3>2
    <3>4. primary = "replace"
      BY <3>3, IndexingAssumption DEF IInv
    <3>5. PICK t \in Term : p = D.ix["pk"][t] /\ p # NULL /\ Occurs(D, cmd.i, "pk", t)
      BY <1>5, <3>2, <3>3
    <3>6. cmd.i \in DOMAIN D.assoc
      BY <2>1, Readable
    <3>7. ASSUME NEW q \in found PROVE q = p
      <4>1. PICK u \in Term : q = D.ix["pk"][u] /\ Occurs(D, cmd.i, "pk", u)
        BY <1>5, <3>3
      <4>2. u = t
        BY <1>3, <3>5, <3>6, <4>1, OneKey
      <4> QED
        BY <3>5, <4>1, <4>2
    <3>8. old = {o}
      BY <1>6, <3>1, <3>2, <3>7
    <3>9. Indexes({o}) /\ o = D.ix["pk"][t].entries[1].rec /\ D.ix["pk"][t] # NULL
      BY <2>6, <3>2, <3>5, <3>8
    <3> QED
      BY <1>1, <2>1, <3>3, <3>4, <3>5, <3>9, IndexesAgain
  <2> QED
    BY <1>2, <1>8, <2>3, <2>4, <2>5, <2>6
<1> QED
  BY <1>7, <1>8

-----------------------------------------------------------------------------
(* The batch files are loaded.                                             *)

\* The records of S whose line for t is not among ls.
Through(S, ls, x, t) == {r \in S : ~InLines(ls, r, x, t)}

\* What a batch load knows between two lines.
LEMMA AtBatch ==
  ASSUME Manual, IInv, EInv, InBatch
  PROVE  /\ cmd # NULL /\ cmd.batch /\ work = <<>> /\ InLoad /\ BatchOK /\ ~Direct
         /\ ~Gathering /\ D = db[1] /\ DatabaseOK(D) /\ D \in Database
         /\ cur \in NewInfo_t \cup {NULL} /\ NewInfoOK(D, cur)
         /\ want[1] \cap Loaded = {}
         /\ \A l \in lines : l.x \in Index /\ l.t \in Term /\ l.id \in Recno
                             /\ l.n \in Nat \ {0} /\ l \in Line
         /\ \A x \in RecIndex, t \in Term : Due(x, t) = Through(Live, lines, x, t)
<1>1. /\ cmd # NULL /\ cmd.batch /\ work = <<>> /\ DatabaseOK(D)
      /\ \A l \in lines : /\ l.x \in Index /\ l.t \in Term /\ l.id \in Recno
                           /\ l.n \in Nat \ {0}
      /\ cur \in NewInfo_t \cup {NULL} /\ NewInfoOK(D, cur)
  BY AtLine
<1>2. /\ Loading /\ cmd.rc = NULL /\ cmd.i > cmd.max
  BY DEF InBatch
<1>3. /\ InLoad /\ BatchOK /\ ~Direct /\ D = db[1] /\ D \in Database
  BY <1>1, BatchNow, OneFile
<1>4. /\ cmd.i \in Nat /\ cmd.start \in Nat /\ cmd.max \in Nat /\ ~cmd.indexed
      /\ \A k, r, x, t : ~InWork(work, k, r, x, t)
  BY <1>2, AtLoad
<1>5. ~Gathering
  BY <1>2, <1>4 DEF Gathering
<1>6. Loaded = cmd.read /\ cmd.read \subseteq cmd.start..cmd.i - 1
  BY <1>3, <1>4 DEF Loaded, EInv, LoadOK
<1>7. (\A r \in want[1] : r < cmd.start) /\ want[1] \subseteq Nat
  BY <1>3, OneFile DEF BatchOK, EInv, WantOK
<1>8. want[1] \cap Loaded = {}
  BY <1>4, <1>6, <1>7
<1>9. \A x \in RecIndex, t \in Term : Due(x, t) = Through(Live, lines, x, t)
  BY <1>3, <1>4 DEF Due, Through
<1>10. lines \subseteq Line
  BY DEF IInv
<1> QED
  BY <1>1, <1>3, <1>5, <1>8, <1>9, <1>10

\* A line of a record index is about a record that was read and contains
\* the term, and it is the only one.
LEMMA LineIs ==
  ASSUME Manual, IInv, EInv, InBatch, NEW l \in lines, l.x \in RecIndex
  PROVE  /\ l.id \in Loaded /\ l.id \notin want[1]
         /\ l.id \in DOMAIN D.assoc /\ Occurs(D, l.id, l.x, l.t)
         /\ ~InLines(lines \ {l}, l.id, l.x, l.t) /\ InLines(lines, l.id, l.x, l.t)
         /\ ~Skipped(l) => l.id \in Live
         /\ Skipped(l) => l.id \notin Live
<1>1. /\ BatchOK /\ want[1] \cap Loaded = {} /\ D = db[1] /\ InLoad
      /\ \A m \in lines : m \in Line
  BY AtBatch
<1>2. l.id \in Loaded /\ l.id \notin want[1]
  BY <1>1 DEF BatchOK
<1>3. ASSUME NEW m \in lines, m.x \in RecIndex
      PROVE  /\ m.id \in DOMAIN D.assoc /\ m.n = Words[D.assoc[m.id].doc][m.x][m.t]
             /\ m.n \in Nat \ {0}
  BY <1>3, AtLine DEF TrueEntry, Entry
<1>4. Occurs(D, l.id, l.x, l.t)
  BY <1>3 DEF Occurs
<1>5. ASSUME NEW m \in lines, m.x = l.x, m.t = l.t, m.id = l.id
      PROVE  m = l
  <2>1. m.n = l.n
    BY <1>3, <1>5
  <2> QED
    BY <1>1, <1>5, <2>1 DEF Line
<1>6. ~InLines(lines \ {l}, l.id, l.x, l.t) /\ InLines(lines, l.id, l.x, l.t)
  BY <1>5 DEF InLines
<1>7. primary = "none" => hash_tab = {}
  BY DEF EInv
<1>8. /\ ~Skipped(l) => l.id \in Live
      /\ Skipped(l) => l.id \notin Live
  BY <1>2, <1>7 DEF Skipped, Live
<1> QED
  BY <1>2, <1>3, <1>4, <1>6, <1>8

\* The lines without one of them.
LEMMA LinesLess ==
  ASSUME NEW ls, NEW l, NEW r, NEW x, NEW t, ~(l.x = x /\ l.t = t /\ l.id = r)
  PROVE  InLines(ls \ {l}, r, x, t) <=> InLines(ls, r, x, t)
  BY DEF InLines

\* newinfo and the index after newinfo went into it.
LEMMA FlushedIs ==
  ASSUME Manual, IInv, EInv, InBatch
  PROVE  /\ Flushed \in Database /\ Flushed.assoc = D.assoc
         /\ \A x \in Index, t \in Term : Flushed.ix[x][t] = Held(x, t)
<1>1. /\ D = db[1] /\ D \in Database
      /\ cur \in NewInfo_t \cup {NULL} /\ NewInfoOK(D, cur)
  BY AtBatch
<1>2. CASE cur = NULL
  BY <1>1, <1>2 DEF Flushed, Held, AtCur
<1>3. CASE cur # NULL
  <2> DEFINE r == PutPosting(D, cur.x, cur.t, cur.p)
  <2>1. cur.x \in Index /\ cur.t \in Term /\ cur.p \in Posting
    BY <1>1, <1>3, NewInfoIs
  <2>2. Put(D, r, cur.x, cur.t, cur.p)
    BY <1>1, <2>1, PutFields
  <2>3. Flushed = r
    BY <1>3 DEF Flushed
  <2> HIDE DEF r
  <2> QED
    BY <1>1, <1>3, <2>2, <2>3 DEF Put, Held, AtCur
<1> QED
  BY <1>2, <1>3

\* Less is to be in a list that has none of what is not.
LEMMA ExactLess ==
  ASSUME NEW d, NEW out, NEW x, NEW t, NEW p, NEW S, NEW T,
         Exact(d, out, x, t, p, S), T \subseteq S, Recs(p) \ out \subseteq T
  PROVE  Exact(d, out, x, t, p, T)
  BY DEF Exact

\* A step of in_batch_load: what is left to show.
LEMMA LineStep ==
  ASSUME Manual, IInv, EInv, IInv', InBatch,
         UNCHANGED <<primary, cmd, ended>>, UNCHANGED ghosts, lines' \subseteq lines,
         hash_tab \subseteq hash_tab', hash_tab' = hash_tab \/ primary # "none",
         NEW r, SetD(r), r.assoc = D.assoc,
         Ordered(work'), (\A i \in DOMAIN work : LoopFor(work[i]))',
         \A q, x, t : ~InWork(work', "add", q, x, t),
         \A x \in RecIndex, t \in Term :
           /\ Exact(D, torn[1], x, t, Held(x, t)', Through(Live', lines', x, t))
           /\ NotYet(x, t)' => NotYet(x, t) /\ r.ix[x][t] = D.ix[x][t],
         primary # "none" =>
           /\ \A t \in Term : r.ix["pk"][t] # NULL => Len(r.ix["pk"][t].entries) = 1
           /\ cur' # NULL /\ cur'.x = "pk" => Len(cur'.p.entries) = 1
           /\ cur' # NULL /\ cur'.x # "pk" => Of("pk")' = {}
  PROVE  EInv'
<1>1. /\ cmd # NULL /\ cmd.batch /\ InLoad /\ BatchOK /\ ~Direct
      /\ ~Gathering /\ D = db[1]
  BY AtBatch
<1>2. db'[1] = r /\ want' = want /\ torn' = torn /\ cmd' # NULL /\ ~Direct'
      /\ ~Gathering' /\ Loaded' = Loaded
  BY <1>1, OneFile DEF ghosts, Direct, Gathering, InLoad, Loaded
<1>3. ASSUME NEW x \in RecIndex, NEW t \in Term
      PROVE  /\ Due(x, t)' = Through(Live', lines', x, t)
             /\ Exact(r, torn[1], x, t, Held(x, t)', Due(x, t)')
             /\ NotYet(x, t)' =>
                  /\ Exact(r, torn[1], x, t, r.ix[x][t], want[1])
                  /\ x = "pk" /\ primary # "none" => r.ix[x][t] = NULL
  <2>1. Due(x, t)' = Through(Live', lines', x, t)
    BY <1>2 DEF Due, Through
  <2>2. Exact(D, torn[1], x, t, Held(x, t)', Due(x, t)')
    BY <2>1
  <2>3. Exact(r, torn[1], x, t, Held(x, t)', Due(x, t)')
    BY <2>2, ExactAssoc
  <2>4. ASSUME NotYet(x, t)'
        PROVE  /\ Exact(r, torn[1], x, t, r.ix[x][t], want[1])
               /\ x = "pk" /\ primary # "none" => r.ix[x][t] = NULL
    <3>1. NotYet(x, t) /\ r.ix[x][t] = D.ix[x][t]
      BY <2>4
    <3>2. /\ Exact(D, torn[1], x, t, r.ix[x][t], want[1])
          /\ x = "pk" /\ primary # "none" => r.ix[x][t] = NULL
      BY <1>1, <3>1, WhatLists DEF EInv
    <3> QED
      BY <3>2, ExactAssoc
  <2> QED
    BY <2>1, <2>3, <2>4
<1>4. ListsExact'
  BY <1>2, <1>3, ListsGo
<1>5. OneEntry'
  BY <1>2 DEF OneEntry
<1>6. BatchOK'
  BY <1>1, <1>2 DEF BatchOK
<1> QED
  BY <1>1, <1>4, <1>5, <1>6, WriteStep

\* A line of a record that is superseded.
LEMMA BatchSkipExact ==
  ASSUME Manual, IInv, EInv, IInv', InBatch, NEW l \in lines, BatchSkip(l)
  PROVE  EInv'
<1>1. /\ Skipped(l) /\ lines' = lines \ {l}
      /\ UNCHANGED <<primary, cmd, ended, db, work, cur, hash_tab>> /\ UNCHANGED ghosts
  BY DEF BatchSkip, Rest
<1>2. /\ cmd # NULL /\ cmd.batch /\ work = <<>> /\ BatchOK /\ D = db[1]
      /\ \A x \in RecIndex, t \in Term : Due(x, t) = Through(Live, lines, x, t)
  BY AtBatch
<1>3. Live' = Live /\ SetD(D)
  BY <1>1, <1>2, Untouched DEF Live, Loaded, InLoad, ghosts
<1>4. ASSUME NEW x \in RecIndex, NEW t \in Term
      PROVE  /\ Exact(D, torn[1], x, t, Held(x, t)', Through(Live', lines', x, t))
             /\ NotYet(x, t)' => NotYet(x, t)
  <2>1. Through(Live', lines', x, t) = Due(x, t)
    <3>1. ASSUME NEW r \in Live
          PROVE  InLines(lines', r, x, t) <=> InLines(lines, r, x, t)
      <4>1. ~(l.x = x /\ l.t = t /\ l.id = r)
        BY <1>1, LineIs
      <4> QED
        BY <1>1, <4>1, LinesLess
    <3> QED
      BY <1>2, <1>3, <3>1 DEF Through
  <2>2. Held(x, t)' = Held(x, t)
    BY <1>1 DEF Held, AtCur
  <2>3. NotYet(x, t)' => NotYet(x, t)
    BY <1>1, <1>2 DEF NotYet, Gathering, AtCur, AtPrimary, Of, InLoad
  <2> QED
    BY <1>2, <2>1, <2>2, <2>3, WhatLists DEF EInv
<1>5. Ordered(work') /\ (\A i \in DOMAIN work : LoopFor(work[i]))'
  BY <1>1, <1>2, NoLoop
<1>6. \A q, x, t : ~InWork(work', "add", q, x, t)
  BY <1>1, <1>2, NoWork
<1>7. primary # "none" =>
        /\ \A t \in Term : D.ix["pk"][t] # NULL => Len(D.ix["pk"][t].entries) = 1
        /\ cur' # NULL /\ cur'.x = "pk" => Len(cur'.p.entries) = 1
        /\ cur' # NULL /\ cur'.x # "pk" => Of("pk")' = {}
  BY <1>1, <1>2 DEF EInv, OneEntry, BatchOK, Of
<1> QED
  BY <1>1, <1>3, <1>4, <1>5, <1>6, <1>7, LineStep

\* newinfo goes into the index at the last line of an index.
LEMMA BatchFlushExact ==
  ASSUME Manual, IInv, EInv, IInv', InBatch, BatchFlush
  PROVE  EInv'
<1>1. /\ cur # NULL /\ Of(cur.x) = {} /\ SetD(Flushed) /\ cur' = NULL
      /\ UNCHANGED <<primary, cmd, ended, work, lines, hash_tab>> /\ UNCHANGED ghosts
  BY DEF BatchFlush, Rest
<1>2. /\ cmd # NULL /\ cmd.batch /\ work = <<>> /\ BatchOK /\ D = db[1] /\ ~Gathering
      /\ \A x \in RecIndex, t \in Term : Due(x, t) = Through(Live, lines, x, t)
  BY AtBatch
<1>3. /\ Flushed.assoc = D.assoc
      /\ \A x \in Index, t \in Term : Flushed.ix[x][t] = Held(x, t)
  BY FlushedIs
<1>4. Live' = Live /\ db'[1] = Flushed /\ ~Gathering'
  BY <1>1, <1>2, OneFile DEF Live, Loaded, InLoad, Gathering, ghosts
<1>5. \A x \in RecIndex : x \in Index
  BY DEF Index
<1>6. ASSUME NEW x \in RecIndex, NEW t \in Term
      PROVE  /\ Exact(D, torn[1], x, t, Held(x, t)', Through(Live', lines', x, t))
             /\ NotYet(x, t)' => NotYet(x, t) /\ Flushed.ix[x][t] = D.ix[x][t]
  <2>1. Held(x, t)' = Held(x, t)
    BY <1>1, <1>3, <1>4, <1>5 DEF Held, AtCur
  <2>2. Through(Live', lines', x, t) = Due(x, t)
    BY <1>1, <1>2, <1>4
  <2>3. ASSUME NotYet(x, t)' PROVE NotYet(x, t) /\ ~AtCur(x, t)
    <3>1. CASE \E l \in lines : l.x = x /\ l.t = t
      BY <1>1, <1>2, <3>1 DEF NotYet, AtCur, Of
    <3>2. CASE x = "kw" /\ primary # "none" /\ Of("pk") # {}
      <4>1. cur.x = "pk"
        BY <1>1, <1>2, <3>2 DEF BatchOK
      <4> QED
        BY <1>1, <1>2, <3>2, <4>1 DEF NotYet, AtCur, AtPrimary
    <3> QED
      BY <1>1, <1>4, <2>3, <3>1, <3>2 DEF NotYet, AtCur, AtPrimary, Of
  <2>4. ~AtCur(x, t) => Flushed.ix[x][t] = D.ix[x][t]
    BY <1>2, <1>3, <1>5 DEF Held
  <2> QED
    BY <1>2, <2>1, <2>2, <2>3, <2>4, WhatLists DEF EInv
<1>7. Ordered(work') /\ (\A i \in DOMAIN work : LoopFor(work[i]))'
  BY <1>1, <1>2, NoLoop
<1>8. \A q, x, t : ~InWork(work', "add", q, x, t)
  BY <1>1, <1>2, NoWork
<1>9. primary # "none" =>
        /\ \A t \in Term : Flushed.ix["pk"][t] # NULL => Len(Flushed.ix["pk"][t].entries) = 1
        /\ cur' # NULL /\ cur'.x = "pk" => Len(cur'.p.entries) = 1
        /\ cur' # NULL /\ cur'.x # "pk" => Of("pk")' = {}
  <2> SUFFICES ASSUME primary # "none", NEW t \in Term, Held("pk", t) # NULL
               PROVE  Len(Held("pk", t).entries) = 1
    BY <1>1, <1>3, Constants
  <2> QED
    BY DEF EInv, OneEntry, Held, AtCur
<1> QED
  BY <1>1, <1>3, <1>6, <1>7, <1>8, <1>9, LineStep

\* The line of a record that stays: its entry, and the others.
LEMMA LineAdded ==
  ASSUME Manual, IInv, EInv, InBatch, NEW l \in lines, ~Skipped(l),
         NEW x \in RecIndex, NEW t \in Term, NEW T, T = Through(Live, lines \ {l}, x, t)
  PROVE  /\ ~(x = l.x /\ t = l.t) => T = Due(x, t)
         /\ x = l.x /\ t = l.t =>
              \A q : Plus(Held(x, t), Entry(l.id, l.n), q) => Exact(D, torn[1], x, t, q, T)
<1>1. /\ cmd # NULL /\ D = db[1] /\ Due(x, t) = Through(Live, lines, x, t)
  BY AtBatch
<1>2. \A r : ~(l.x = x /\ l.t = t /\ l.id = r) =>
        (InLines(lines \ {l}, r, x, t) <=> InLines(lines, r, x, t))
  BY LinesLess
<1>3. ~(x = l.x /\ t = l.t) => T = Due(x, t)
  BY <1>1, <1>2 DEF Through
<1>4. ASSUME x = l.x, t = l.t, NEW q, Plus(Held(x, t), Entry(l.id, l.n), q)
      PROVE  Exact(D, torn[1], x, t, q, T)
  <2> DEFINE e == Entry(l.id, l.n)
             S == Due(x, t)
             p == Held(x, t)
             out == torn[1]
  <2>1. e.rec = l.id
    BY DEF Entry
  <2>2. /\ ~InLines(lines \ {l}, l.id, x, t) /\ InLines(lines, l.id, x, t)
        /\ l.id \in Live
    BY <1>4, LineIs
  <2>3. e.rec \notin S /\ e.rec \in T
    BY <1>1, <2>1, <2>2 DEF Through
  <2>4. \A r : r # e.rec => (r \in T <=> r \in S)
    BY <1>1, <1>2, <2>1 DEF Through
  <2>5. Exact(D, out, x, t, p, S) /\ ListOK(D, x, t, p)
    BY <1>1, WhatLists, ListsTrue DEF EInv
  <2>6. Plus(p, e, q)
    BY <1>4
  <2> HIDE DEF e, S, p, out
  <2>7. Exact(D, out, x, t, q, T)
    BY <2>3, <2>4, <2>5, <2>6, ExactAdded
  <2> QED
    BY <2>7 DEF out
<1> QED
  BY <1>3, <1>4

\* Another key: what newinfo is, and where the lists are.
LEMMA BatchNewKeyExact ==
  ASSUME Manual, IInv, EInv, IInv', InBatch, NEW l \in lines, BatchNewKey(l)
  PROVE  EInv'
<1> DEFINE d == Flushed
           p == d.ix[l.x][l.t]
           new == p = NULL \/ IsPrimary(l.x)
           q == IF new THEN NewInfo(d, l.x, l.id, l.n) ELSE Extended(p, l.id, l.n)
           r == Counted(d, l.x, l.n, new)
           replaces == /\ IsPrimary(l.x) /\ primary = "replace"
                       /\ p # NULL /\ Len(p.entries) = 1
<1>1. /\ IsNextLine(l) /\ ~Skipped(l) /\ ~SameKey(l) /\ lines' = lines \ {l}
      /\ UNCHANGED <<primary, cmd, ended, hash_tab>> /\ UNCHANGED ghosts
      /\ SetD(r)
      /\ cur' = [x |-> l.x, t |-> l.t, p |-> q]
      /\ work' = IF replaces THEN Replace(d, p.entries[1].rec) ELSE <<>>
  BY DEF BatchNewKey, Rest
<1>2. /\ cmd # NULL /\ cmd.batch /\ BatchOK /\ D = db[1] /\ ~Gathering
      /\ l.x \in Index /\ l.t \in Term /\ l.id \in Recno /\ l.n \in Nat \ {0}
  BY AtBatch
<1>3. /\ d \in Database /\ d.assoc = D.assoc
      /\ \A x \in Index, t \in Term : d.ix[x][t] = Held(x, t)
  BY FlushedIs
<1> HIDE DEF d
<1>4. new \in BOOLEAN /\ l.n \in Nat
  BY <1>2
<1>5. CountedIs(d, r, l.x, new)
  <2> HIDE DEF new
  <2> QED
    BY <1>2, <1>3, <1>4, CountedFields
<1>6. r.assoc = D.assoc /\ r.ix = d.ix
  <2> HIDE DEF new, r
  <2> QED
    BY <1>3, <1>5 DEF CountedIs
<1>7. p = Held(l.x, l.t) /\ (p = NULL \/ p \in Posting)
  BY <1>2, <1>3, DatabaseFields
<1>8. cur # NULL => l.x = cur.x /\ l.t # cur.t /\ \A m \in lines : m.x = cur.x => m.t # cur.t
  BY <1>1 DEF IsNextLine, SameKey, Of
<1>9. \A x, t : AtCur(x, t) => ~\E m \in lines : m.x = x /\ m.t = t
  BY <1>8 DEF AtCur
<1>10. IsPrimary(l.x) => p = NULL
  <2> SUFFICES ASSUME IsPrimary(l.x) PROVE p = NULL
    OBVIOUS
  <2>1. l.x = "pk" /\ primary # "none" /\ l.x \in RecIndex
    BY Constants DEF IsPrimary
  <2>2. NotYet(l.x, l.t)
    BY <1>2 DEF NotYet
  <2>3. db[1].ix[l.x][l.t] = NULL
    BY <1>2, <2>1, <2>2, WhatLists DEF EInv
  <2>4. ~AtCur(l.x, l.t)
    BY <1>9
  <2> HIDE DEF p
  <2> QED
    BY <1>7, <2>3, <2>4 DEF Held
<1>11. Plus(p, Entry(l.id, l.n), q)
  <2>1. CASE p = NULL
    BY <1>2, <1>3, <2>1, NewInfoFields, Constants DEF Plus
  <2>2. CASE p # NULL
    <3>1. p \in Posting /\ ~new
      BY <1>7, <1>10, <2>2
    <3>2. q = Extended(p, l.id, l.n)
      BY <3>1
    <3> HIDE DEF p, q, new
    <3>3. q \in Posting /\ q.entries = Append(p.entries, Entry(l.id, l.n))
      BY <1>2, <3>1, <3>2, ExtendedFields
    <3> QED
      BY <2>2, <3>3, Constants DEF Plus
  <2> QED
    BY <2>1, <2>2
<1>12. work' = <<>>
  BY <1>1, <1>10
<1>13. cur' # NULL /\ cur'.x = l.x /\ cur'.t = l.t /\ cur'.p = q
  <2>1. cur' \in NewInfo_t \cup {NULL}
    BY DEF IInv
  <2>2. q \in Posting
    BY <1>2, <1>3, <1>7, NewInfoFields, ExtendedFields
  <2>3. cur' \in NewInfo_t
    BY <1>1, <1>2, <2>2 DEF NewInfo_t
  <2> QED
    BY <1>1, <2>3, Constants
<1> HIDE DEF p, q, r, new, replaces
<1>14. Live' = Live /\ db'[1] = r /\ ~Gathering'
  BY <1>1, <1>2, OneFile DEF Live, Loaded, InLoad, Gathering, ghosts
<1>15. \A x \in RecIndex : x \in Index
  BY DEF Index
<1>16. ASSUME NEW x \in RecIndex, NEW t \in Term
       PROVE  /\ Exact(D, torn[1], x, t, Held(x, t)', Through(Live', lines', x, t))
              /\ NotYet(x, t)' => NotYet(x, t) /\ r.ix[x][t] = D.ix[x][t]
  <2> DEFINE T == Through(Live', lines', x, t)
  <2>1. T = Through(Live, lines \ {l}, x, t)
    BY <1>1, <1>14
  <2> HIDE DEF T
  <2>2. Exact(D, torn[1], x, t, Held(x, t)', T)
    <3>1. CASE x = l.x /\ t = l.t
      <4>1. Held(x, t)' = q
        BY <1>13, <3>1 DEF Held, AtCur
      <4>2. Plus(Held(x, t), Entry(l.id, l.n), q)
        BY <1>7, <1>11, <3>1
      <4> QED
        BY <1>1, <2>1, <3>1, <4>1, <4>2, LineAdded
    <3>2. CASE ~(x = l.x /\ t = l.t)
      <4>1. Held(x, t)' = Held(x, t)
        <5>1. ~AtCur(x, t)'
          BY <1>13, <3>2 DEF AtCur
        <5>2. Held(x, t)' = r.ix[x][t]
          BY <1>14, <5>1 DEF Held
        <5> QED
          BY <1>3, <1>6, <1>15, <5>2
      <4>2. T = Due(x, t)
        BY <1>1, <2>1, <3>2, LineAdded
      <4> QED
        BY <1>2, <4>1, <4>2, WhatLists DEF EInv
    <3> QED
      BY <3>1, <3>2
  <2>3. ASSUME NotYet(x, t)' PROVE NotYet(x, t) /\ ~AtCur(x, t)
    <3>1. CASE \E m \in lines : m.x = x /\ m.t = t
      BY <1>2, <1>9, <3>1 DEF NotYet
    <3>2. CASE x = "kw" /\ primary # "none" /\ Of("pk") # {}
      <4>1. cur # NULL => cur.x = "pk"
        BY <1>2, <3>2 DEF BatchOK
      <4> QED
        BY <1>2, <3>2, <4>1 DEF NotYet, AtCur, AtPrimary
    <3>3. AtCur(x, t)' => x = l.x /\ t = l.t
      BY <1>13 DEF AtCur
    <3>4. AtPrimary' => Of("pk") # {}
      BY <1>1, <1>13 DEF AtPrimary, Of
    <3> QED
      BY <1>1, <1>14, <2>3, <3>1, <3>2, <3>3, <3>4 DEF NotYet
  <2>4. ~AtCur(x, t) => r.ix[x][t] = D.ix[x][t]
    BY <1>2, <1>3, <1>6, <1>15 DEF Held
  <2> QED
    BY <2>2, <2>3, <2>4 DEF T
<1>17. Ordered(work') /\ (\A i \in DOMAIN work : LoopFor(work[i]))'
  BY <1>12, NoLoop
<1>18. \A a, x, t : ~InWork(work', "add", a, x, t)
  BY <1>12, NoWork
<1>19. ASSUME primary # "none"
       PROVE  /\ \A t \in Term : r.ix["pk"][t] # NULL => Len(r.ix["pk"][t].entries) = 1
              /\ cur' # NULL /\ cur'.x = "pk" => Len(cur'.p.entries) = 1
              /\ cur' # NULL /\ cur'.x # "pk" => Of("pk")' = {}
  <2>1. ASSUME NEW t \in Term, r.ix["pk"][t] # NULL
        PROVE  Len(r.ix["pk"][t].entries) = 1
    <3>1. r.ix["pk"][t] = Held("pk", t)
      BY <1>3, <1>6, Constants
    <3> QED
      BY <1>19, <2>1, <3>1 DEF EInv, OneEntry, Held, AtCur
  <2>2. ASSUME l.x = "pk" PROVE Len(q.entries) = 1
    <3>1. p = NULL
      BY <1>10, <1>19, <2>2 DEF IsPrimary
    <3>2. q.entries = <<Entry(l.id, l.n)>>
      BY <1>11, <3>1 DEF Plus
    <3> QED
      BY <3>2
  <2>3. ASSUME l.x # "pk" PROVE Of("pk") = {}
    BY <1>1, <1>2, <1>8, <1>19, <2>3 DEF IsNextLine, BatchOK
  <2>4. Of("pk")' \subseteq Of("pk")
    BY <1>1 DEF Of
  <2> QED
    BY <1>13, <2>1, <2>2, <2>3, <2>4
<1> QED
  BY <1>1, <1>6, <1>16, <1>17, <1>18, <1>19, LineStep

\* A line less, at the same key.
LEMMA SameKeyLess ==
  ASSUME Manual, IInv, EInv, InBatch, lines' \subseteq lines,
         UNCHANGED <<primary, cmd>>,
         cur # NULL, cur' # NULL, cur'.x = cur.x, cur'.t = cur.t,
         NEW x \in RecIndex, NEW t \in Term
  PROVE  (AtCur(x, t)' <=> AtCur(x, t)) /\ (NotYet(x, t)' => NotYet(x, t))
<1>1. AtCur(x, t)' <=> AtCur(x, t)
  BY DEF AtCur
<1>2. AtPrimary' => AtPrimary
  BY DEF AtPrimary, Of
<1>3. Gathering' <=> Gathering
  BY DEF Gathering, InLoad
<1> QED
  BY <1>1, <1>2, <1>3 DEF NotYet

\* The list of the key gets an entry.
LEMMA SameKeyExtendsExact ==
  ASSUME Manual, IInv, EInv, IInv', InBatch, NEW l \in lines, ~Skipped(l),
         cur # NULL, l.x = cur.x, l.t = cur.t, ~IsPrimary(l.x),
         UNCHANGED <<primary, cmd, ended, work, hash_tab>>, UNCHANGED ghosts,
         lines' = lines \ {l},
         cur' = [cur EXCEPT !.p = Extended(@, l.id, l.n)],
         SetD(Counted(D, l.x, l.n, FALSE))
  PROVE  EInv'
<1> DEFINE no == FALSE
           n == l.n
           r == Counted(D, l.x, n, no)
           q == Extended(cur.p, l.id, n)
<1>1. /\ cmd # NULL /\ cmd.batch /\ work = <<>> /\ BatchOK /\ D = db[1] /\ D \in Database
      /\ l.x \in Index /\ l.t \in Term /\ l.id \in Recno /\ n \in Nat \ {0}
      /\ cur \in NewInfo_t /\ NewInfoOK(D, cur)
  BY AtBatch
<1>2. cur.p \in Posting
  BY <1>1, NewInfoIs
<1>3. SetD(r) /\ no \in BOOLEAN /\ n \in Nat
  BY <1>1
<1>4. cur' = [cur EXCEPT !.p = q]
  BY <1>1 DEF NewInfo_t
<1>5. q \in Posting /\ q.entries = Append(cur.p.entries, Entry(l.id, n))
  BY <1>1, <1>2, ExtendedFields
<1> HIDE DEF no, q
<1>6. r.assoc = D.assoc /\ r.ix = D.ix
  <2>1. CountedIs(D, r, l.x, no)
    BY <1>1, <1>3, CountedFields
  <2> QED
    BY <2>1 DEF CountedIs
<1> HIDE DEF r
<1>7. cur' \in NewInfo_t /\ cur'.x = cur.x /\ cur'.t = cur.t /\ cur'.p = q
  BY <1>1, <1>4, <1>5 DEF NewInfo_t
<1>8. cur' # NULL /\ q # NULL /\ cur.p # NULL
  BY <1>2, <1>5, <1>7, Constants
<1>9. Plus(cur.p, Entry(l.id, l.n), q)
  BY <1>5, <1>8 DEF Plus, n
<1>10. Live' = Live /\ db'[1] = r
  BY <1>1, <1>3, OneFile DEF Live, Loaded, InLoad, ghosts
<1>11. lines' \subseteq lines
  OBVIOUS
<1>12. ASSUME NEW x \in RecIndex, NEW t \in Term
       PROVE  /\ Exact(D, torn[1], x, t, Held(x, t)', Through(Live', lines', x, t))
              /\ NotYet(x, t)' => NotYet(x, t) /\ r.ix[x][t] = D.ix[x][t]
  <2> DEFINE T == Through(Live', lines', x, t)
  <2>1. T = Through(Live, lines \ {l}, x, t)
    BY <1>10
  <2> HIDE DEF T
  <2>2. (AtCur(x, t)' <=> AtCur(x, t)) /\ (NotYet(x, t)' => NotYet(x, t))
    BY <1>7, <1>8, <1>11, SameKeyLess
  <2>3. CASE AtCur(x, t)
    <3>1. x = l.x /\ t = l.t
      BY <2>3 DEF AtCur
    <3>2. Held(x, t)' = q /\ Plus(Held(x, t), Entry(l.id, l.n), q)
      BY <1>7, <1>9, <2>2, <2>3 DEF Held
    <3>3. Exact(D, torn[1], x, t, Held(x, t)', T)
      BY <2>1, <3>1, <3>2, LineAdded
    <3> QED
      BY <1>6, <2>2, <3>3 DEF T
  <2>4. CASE ~AtCur(x, t)
    <3>1. ~(x = l.x /\ t = l.t)
      BY <2>4 DEF AtCur
    <3>2. T = Due(x, t)
      BY <2>1, <3>1, LineAdded
    <3>3. Held(x, t)' = Held(x, t)
      BY <1>1, <1>6, <1>10, <2>2, <2>4 DEF Held
    <3>4. Exact(D, torn[1], x, t, Held(x, t)', T)
      BY <1>1, <3>2, <3>3, WhatLists DEF EInv
    <3> QED
      BY <1>6, <2>2, <3>4 DEF T
  <2> QED
    BY <2>3, <2>4
<1>13. Ordered(work') /\ (\A i \in DOMAIN work : LoopFor(work[i]))'
  BY <1>1, NoLoop
<1>14. \A a, x, t : ~InWork(work', "add", a, x, t)
  BY <1>1, NoWork
<1>15. primary # "none" =>
         /\ \A t \in Term : r.ix["pk"][t] # NULL => Len(r.ix["pk"][t].entries) = 1
         /\ cur' # NULL /\ cur'.x = "pk" => Len(cur'.p.entries) = 1
         /\ cur' # NULL /\ cur'.x # "pk" => Of("pk")' = {}
  BY <1>1, <1>6, <1>7, <1>11 DEF EInv, OneEntry, BatchOK, Of, IsPrimary
<1> QED
  BY <1>3, <1>6, <1>11, <1>12, <1>13, <1>14, <1>15, LineStep

\* What a batch load knows at the second line of a primary key.
LEMMA AtSecond ==
  ASSUME Manual, IInv, EInv, InBatch, NEW l \in lines, ~Skipped(l),
         cur # NULL, l.x = cur.x, l.t = cur.t, IsPrimary(l.x)
  PROVE  /\ l.x = "pk" /\ primary # "none" /\ l.x \in RecIndex /\ l.id \in Live
         /\ cur \in NewInfo_t /\ cur.p \in Posting /\ cur.p # NULL
         /\ cur.p.entries \in Seq(Ent) /\ Len(cur.p.entries) = 1
         /\ cur.p.entries[1].rec \in DOMAIN D.assoc
         /\ Occurs(D, cur.p.entries[1].rec, "pk", cur.t)
         /\ Recs(cur.p) = {cur.p.entries[1].rec}
         /\ Exact(D, torn[1], "pk", cur.t, cur.p, Due("pk", cur.t))
         /\ l.id \notin Due("pk", cur.t)
         /\ \A t \in Term : NotYet("kw", t)
<1>1. /\ l.x = "pk" /\ primary # "none" /\ l.x \in RecIndex
  BY Constants DEF IsPrimary
<1>2. /\ cmd # NULL /\ cmd.batch /\ D = db[1] /\ l.t \in Term
      /\ cur \in NewInfo_t /\ NewInfoOK(D, cur)
      /\ Due("pk", cur.t) = Through(Live, lines, "pk", cur.t)
  BY <1>1, AtBatch
<1>3. /\ cur.p \in Posting /\ cur.p # NULL /\ cur.p.entries \in Seq(Ent)
      /\ TruePosting(D.assoc, cur.x, cur.t, cur.p)
  BY <1>2, NewInfoIs, Constants
<1>4. Len(cur.p.entries) = 1
  BY <1>1 DEF EInv, OneEntry
<1>5. DOMAIN cur.p.entries = {1}
  BY <1>3, <1>4
<1>6. Recs(cur.p) = {cur.p.entries[1].rec}
  BY <1>3, <1>5 DEF Recs
<1>7. ListOK(D, "pk", cur.t, cur.p)
  BY <1>1, <1>3 DEF ListOK
<1>8. /\ cur.p.entries[1].rec \in DOMAIN D.assoc
      /\ Occurs(D, cur.p.entries[1].rec, "pk", cur.t)
  BY <1>1, <1>6, <1>7, RecsOccur
<1>9. Exact(D, torn[1], "pk", cur.t, cur.p, Due("pk", cur.t))
  <2>1. Held("pk", cur.t) = cur.p
    BY <1>1 DEF Held, AtCur
  <2> QED
    BY <1>1, <1>2, <2>1, WhatLists DEF EInv
<1>10. l.id \in Live /\ l.id \notin Due("pk", cur.t)
  BY <1>1, <1>2, LineIs DEF Through
<1>11. \A t \in Term : NotYet("kw", t)
  BY <1>1, <1>2 DEF NotYet, AtPrimary
<1> QED
  BY <1>1, <1>2, <1>3, <1>4, <1>6, <1>8, <1>9, <1>10, <1>11

\* No list but that of the key has an entry of record o.
LEMMA Superseded ==
  ASSUME Manual, IInv, EInv, InBatch, NEW l \in lines, ~Skipped(l),
         cur # NULL, l.x = cur.x, l.t = cur.t, IsPrimary(l.x),
         NEW o \in DOMAIN D.assoc, Occurs(D, o, "pk", cur.t), o \notin want[1],
         NEW x \in RecIndex, NEW t \in Term, ~(x = "pk" /\ t = cur.t)
  PROVE  Exact(D, torn[1], x, t, Held(x, t), Due(x, t) \ {o})
<1>1. /\ cmd # NULL /\ D = db[1] /\ DatabaseOK(D) /\ cur.t \in Term
  BY AtBatch
<1>2. l.x = "pk" /\ \A u \in Term : NotYet("kw", u)
  BY AtSecond
<1>3. Exact(D, torn[1], x, t, Held(x, t), Due(x, t)) /\ ListOK(D, x, t, Held(x, t))
  BY <1>1, WhatLists, ListsTrue DEF EInv
<1>4. x = "pk" \/ x = "kw"
  BY DEF RecIndex
<1>5. o \notin Recs(Held(x, t)) \ torn[1]
  <2>1. CASE x = "pk"
    <3>1. o \in Recs(Held(x, t)) => Occurs(D, o, "pk", t)
      BY <1>3, <2>1, RecsOccur
    <3> QED
      BY <1>1, <2>1, <3>1, OneKey
  <2>2. CASE x = "kw"
    <3>1. Exact(D, torn[1], x, t, D.ix[x][t], want[1])
      BY <1>1, <1>2, <2>2, WhatLists DEF EInv
    <3>2. Held(x, t) = D.ix[x][t]
      BY <1>1, <1>2, <2>2 DEF Held, AtCur
    <3> QED
      BY <3>1, <3>2 DEF Exact
  <2> QED
    BY <1>4, <2>1, <2>2
<1>6. Recs(Held(x, t)) \ torn[1] \subseteq Due(x, t) \ {o}
  BY <1>3, <1>5 DEF Exact
<1>7. Due(x, t) \ {o} \subseteq Due(x, t)
  OBVIOUS
<1> QED
  BY <1>3, <1>6, <1>7, ExactLess

\* The line's record is ignored.
LEMMA SameKeyIgnoresExact ==
  ASSUME Manual, IInv, EInv, IInv', InBatch, NEW l \in lines, ~Skipped(l),
         cur # NULL, l.x = cur.x, l.t = cur.t, IsPrimary(l.x),
         UNCHANGED <<primary, cmd, ended, work, cur, db>>, UNCHANGED ghosts,
         lines' = lines \ {l}, hash_tab' = hash_tab \cup {l.id}
  PROVE  EInv'
<1> DEFINE o == l.id
<1>1. /\ cmd # NULL /\ cmd.batch /\ work = <<>> /\ BatchOK /\ D = db[1]
      /\ \A x \in RecIndex, t \in Term : Due(x, t) = Through(Live, lines, x, t)
  BY AtBatch
<1>2. /\ l.x = "pk" /\ primary # "none" /\ l.x \in RecIndex
      /\ Exact(D, torn[1], "pk", cur.t, cur.p, Due("pk", cur.t))
      /\ o \notin Due("pk", cur.t)
  BY AtSecond
<1>3. o \in DOMAIN D.assoc /\ Occurs(D, o, "pk", cur.t) /\ o \notin want[1]
  BY <1>2, LineIs
<1>4. \A x, t : \A r : r # o => (InLines(lines', r, x, t) <=> InLines(lines, r, x, t))
  BY LinesLess
<1> HIDE DEF o
<1>5. Live' = Live \ {o} /\ SetD(D)
  BY <1>1, <1>3, Untouched DEF Live, Loaded, InLoad, ghosts, o
<1>6. ASSUME NEW x \in RecIndex, NEW t \in Term
      PROVE  /\ Exact(D, torn[1], x, t, Held(x, t)', Through(Live', lines', x, t))
             /\ NotYet(x, t)' => NotYet(x, t)
  <2>1. Through(Live', lines', x, t) = Due(x, t) \ {o}
    BY <1>1, <1>4, <1>5 DEF Through
  <2>2. Held(x, t)' = Held(x, t)
    BY DEF Held, AtCur
  <2>3. lines' \subseteq lines
    OBVIOUS
  <2>4. NotYet(x, t)' => NotYet(x, t)
    BY <2>3, SameKeyLess
  <2>5. Exact(D, torn[1], x, t, Held(x, t), Due(x, t) \ {o})
    <3>1. CASE x = "pk" /\ t = cur.t
      <4>1. Held(x, t) = cur.p
        BY <1>2, <3>1 DEF Held, AtCur
      <4>2. Due(x, t) \ {o} = Due("pk", cur.t)
        BY <1>2, <3>1
      <4> QED
        BY <1>2, <3>1, <4>1, <4>2
    <3>2. CASE ~(x = "pk" /\ t = cur.t)
      BY <1>3, <3>2, Superseded
    <3> QED
      BY <3>1, <3>2
  <2> QED
    BY <2>1, <2>2, <2>4, <2>5
<1>7. Ordered(work') /\ (\A i \in DOMAIN work : LoopFor(work[i]))'
  BY <1>1, NoLoop
<1>8. \A a, x, t : ~InWork(work', "add", a, x, t)
  BY <1>1, NoWork
<1>9. /\ \A t \in Term : D.ix["pk"][t] # NULL => Len(D.ix["pk"][t].entries) = 1
      /\ cur' # NULL /\ cur'.x = "pk" => Len(cur'.p.entries) = 1
      /\ cur' # NULL /\ cur'.x # "pk" => Of("pk")' = {}
  BY <1>1, <1>2 DEF EInv, OneEntry
<1>10. lines' \subseteq lines /\ hash_tab \subseteq hash_tab'
  OBVIOUS
<1> QED
  BY <1>2, <1>5, <1>6, <1>7, <1>8, <1>9, <1>10, LineStep

\* A list with one entry is exact if no other record is to be in it.
LEMMA ExactOne ==
  ASSUME NEW d, NEW out, NEW x, NEW t, NEW q, q # NULL, NEW e, q.entries = <<e>>,
         NEW T, e.rec \in T, \A r \in T \cap DOMAIN d.assoc : Occurs(d, r, x, t) => r = e.rec
  PROVE  Exact(d, out, x, t, q, T)
<1> DEFINE one == <<e>>
<1>1. DOMAIN one = {1} /\ one[1] = e
  OBVIOUS
<1> HIDE DEF one
<1>2. DOMAIN q.entries = {1} /\ q.entries[1] = e
  BY <1>1 DEF one
<1>3. Recs(q) = {e.rec}
  BY <1>2 DEF Recs
<1> QED
  BY <1>2, <1>3 DEF Exact

\* The record of the key gives way to the line's.
LEMMA SameKeyReplacesExact ==
  ASSUME Manual, IInv, EInv, IInv', InBatch, NEW l \in lines, ~Skipped(l),
         cur # NULL, l.x = cur.x, l.t = cur.t, IsPrimary(l.x), primary = "replace",
         UNCHANGED <<primary, cmd, ended, db>>, UNCHANGED ghosts,
         lines' = lines \ {l},
         cur' = [cur EXCEPT !.p.entries[1] = Entry(l.id, l.n)],
         hash_tab' = hash_tab \cup {cur.p.entries[1].rec},
         work' = Replace(D, cur.p.entries[1].rec)
  PROVE  EInv'
<1> DEFINE o == cur.p.entries[1].rec
           e == Entry(l.id, l.n)
<1>1. /\ cmd # NULL /\ cmd.batch /\ BatchOK /\ D = db[1] /\ DatabaseOK(D) /\ cur.t \in Term
      /\ l.n \in Nat \ {0} /\ l.id \in Recno
      /\ \A x \in RecIndex, t \in Term : Due(x, t) = Through(Live, lines, x, t)
  BY AtBatch
<1>2. /\ l.x = "pk" /\ primary # "none" /\ l.x \in RecIndex /\ l.id \in Live
      /\ cur \in NewInfo_t /\ cur.p \in Posting
      /\ cur.p.entries \in Seq(Ent) /\ Len(cur.p.entries) = 1
      /\ o \in DOMAIN D.assoc /\ Occurs(D, o, "pk", cur.t)
      /\ Recs(cur.p) = {o}
      /\ Exact(D, torn[1], "pk", cur.t, cur.p, Due("pk", cur.t))
      /\ l.id \notin Due("pk", cur.t)
  BY AtSecond
<1>3. want[1] = {} /\ torn[1] = {}
  BY <1>1 DEF EInv, WantOK, BatchOK
<1>4. e.rec = l.id /\ e \in Ent
  BY <1>1 DEF Entry, Ent
<1>5. cur' # NULL /\ cur'.x = cur.x /\ cur'.t = cur.t /\ cur'.p # NULL
      /\ cur'.p.entries = <<e>>
  <2> DEFINE list == [cur.p.entries EXCEPT ![1] = e]
             q == [cur.p EXCEPT !.entries = list]
  <2>1. list = <<e>> /\ list \in Seq(Ent)
    BY <1>2, <1>4
  <2>2. cur' = [cur EXCEPT !.p = q]
    BY <1>2 DEF NewInfo_t, Posting
  <2> HIDE DEF list
  <2>3. q \in Posting /\ q.entries = list
    BY <1>2, <2>1 DEF Posting, Ent
  <2> HIDE DEF q
  <2>4. cur' \in NewInfo_t /\ cur'.x = cur.x /\ cur'.t = cur.t /\ cur'.p = q
    BY <1>2, <2>2, <2>3 DEF NewInfo_t
  <2> QED
    BY <2>1, <2>3, <2>4, Constants
<1>6. Clears(work', {"del", "fil_del"}, D, o)
  BY <1>1, <1>2, ReplaceClears
<1>7. hash_tab' = hash_tab \cup {o}
  OBVIOUS
<1> HIDE DEF o, e
<1>8. Live' = Live \ {o} /\ SetD(D) /\ want' = want /\ (InLoad' <=> InLoad)
  BY <1>1, <1>3, <1>7, Untouched DEF Live, Loaded, InLoad, ghosts
<1>9. o \in Due("pk", cur.t)
  BY <1>2, <1>3 DEF Exact
<1>10. ASSUME NEW x \in RecIndex, NEW t \in Term
       PROVE  /\ Exact(D, torn[1], x, t, Held(x, t)', Through(Live', lines', x, t))
              /\ NotYet(x, t)' => NotYet(x, t)
  <2> DEFINE T == Through(Live', lines', x, t)
  <2>1. lines' \subseteq lines
    OBVIOUS
  <2>2. (AtCur(x, t)' <=> AtCur(x, t)) /\ (NotYet(x, t)' => NotYet(x, t))
    BY <1>5, <2>1, SameKeyLess
  <2>3. \A r : ~(l.x = x /\ l.t = t /\ l.id = r) =>
          (InLines(lines', r, x, t) <=> InLines(lines, r, x, t))
    BY LinesLess
  <2>4. CASE x = "pk" /\ t = cur.t
    <3>1. Held(x, t)' = cur'.p
      BY <1>2, <1>5, <2>4 DEF Held, AtCur
    <3>2. ~InLines(lines', l.id, x, t)
      BY <1>2, <2>4, LineIs
    <3>3. e.rec \in T
      BY <1>2, <1>4, <1>8, <1>9, <3>2 DEF Through
    <3>4. ASSUME NEW r \in T \cap DOMAIN D.assoc, Occurs(D, r, x, t), r # e.rec
          PROVE  FALSE
      <4>1. r \in Live /\ r # o /\ ~InLines(lines', r, x, t)
        BY <1>8 DEF Through
      <4>2. r \in Due(x, t)
        BY <1>1, <1>4, <2>3, <3>4, <4>1 DEF Through
      <4>3. r \in Recs(cur.p)
        BY <1>2, <2>4, <3>4, <4>2 DEF Exact
      <4> QED
        BY <1>2, <4>1, <4>3
    <3> HIDE DEF T
    <3>5. Exact(D, torn[1], x, t, cur'.p, T)
      BY <1>5, <3>3, <3>4, ExactOne
    <3> QED
      BY <2>2, <3>1, <3>5 DEF T
  <2>5. CASE ~(x = "pk" /\ t = cur.t)
    <3>0. \A r : InLines(lines', r, x, t) <=> InLines(lines, r, x, t)
      BY <1>2, <2>3, <2>5
    <3>1. T = Due(x, t) \ {o}
      BY <1>1, <1>8, <3>0 DEF Through
    <3>2. Held(x, t)' = Held(x, t)
      BY <1>2, <2>2, <2>5 DEF Held, AtCur
    <3>3. Exact(D, torn[1], x, t, Held(x, t), Due(x, t) \ {o})
      BY <1>2, <1>3, <2>5, Superseded
    <3> QED
      BY <2>2, <3>1, <3>2, <3>3
  <2> QED
    BY <2>4, <2>5
<1>11. ASSUME NEW a \in Loops(work') PROVE LoopFor(a)'
  <2>1. /\ a.rec = o /\ a.kind \in {"del", "fil_del"}
        /\ a.kind # "del" => a.x = "ck"
        /\ a.kind = "del" => \A t \in a.terms : t \in Term /\ Occurs(D, o, a.x, t)
    BY <1>6 DEF Clears
  <2>2. a.kind = "del" /\ a.x = "pk" => a.terms \subseteq {cur.t}
    BY <1>1, <1>2, <2>1, OneKey
  <2>3. o \notin Live' /\ o \notin want'[1]
    BY <1>3, <1>8
  <2> QED
    BY <1>2, <1>5, <2>1, <2>2, <2>3 DEF LoopFor
<1>12. Ordered(work') /\ (\A i \in DOMAIN work : LoopFor(work[i]))'
  BY <1>6, <1>11 DEF Clears, Loops
<1>13. \A a, x, t : ~InWork(work', "add", a, x, t)
  BY <1>6, InLoops DEF Clears
<1>14. /\ \A t \in Term : D.ix["pk"][t] # NULL => Len(D.ix["pk"][t].entries) = 1
       /\ cur' # NULL /\ cur'.x = "pk" => Len(cur'.p.entries) = 1
       /\ cur' # NULL /\ cur'.x # "pk" => Of("pk")' = {}
  BY <1>1, <1>2, <1>5 DEF EInv, OneEntry
<1>15. lines' \subseteq lines /\ hash_tab \subseteq hash_tab'
  BY <1>7
<1> QED
  BY <1>2, <1>8, <1>10, <1>12, <1>13, <1>14, <1>15, LineStep

\* Another line of the key.
LEMMA BatchSameExact ==
  ASSUME Manual, IInv, EInv, IInv', InBatch, NEW l \in lines, BatchSame(l)
  PROVE  EInv'
<1>1. /\ IsNextLine(l) /\ ~Skipped(l) /\ SameKey(l)
      /\ lines' = lines \ {l} /\ UNCHANGED <<primary, cmd, ended>> /\ UNCHANGED ghosts
  BY DEF BatchSame, Rest
<1>2. cur # NULL /\ l.t = cur.t /\ l.x = cur.x
  BY <1>1 DEF SameKey, IsNextLine
<1>3. CASE ~IsPrimary(l.x)
  <2>1. /\ cur' = [cur EXCEPT !.p = Extended(@, l.id, l.n)]
        /\ SetD(Counted(D, l.x, l.n, FALSE))
        /\ work' = work /\ hash_tab' = hash_tab
    BY <1>3 DEF BatchSame
  <2> QED
    BY <1>1, <1>2, <1>3, <2>1, SameKeyExtendsExact
<1>4. CASE IsPrimary(l.x) /\ primary = "replace"
  <2>1. /\ cur' = [cur EXCEPT !.p.entries[1] = Entry(l.id, l.n)]
        /\ hash_tab' = hash_tab \cup {cur.p.entries[1].rec}
        /\ work' = Replace(D, cur.p.entries[1].rec)
        /\ db' = db
    BY <1>4 DEF BatchSame
  <2> QED
    BY <1>1, <1>2, <1>4, <2>1, SameKeyReplacesExact
<1>5. CASE IsPrimary(l.x) /\ primary # "replace"
  <2>1. /\ hash_tab' = hash_tab \cup {l.id}
        /\ cur' = cur /\ work' = work /\ db' = db
    BY <1>5 DEF BatchSame
  <2> QED
    BY <1>1, <1>2, <1>5, <2>1, SameKeyIgnoresExact
<1> QED
  BY <1>3, <1>4, <1>5

-----------------------------------------------------------------------------
(* The theorems.                                                           *)

\* Empty files.
LEMMA InitExact ==
  ASSUME Manual, Init
  PROVE  EInv
<1>1. File = {1} /\ IInv
  BY InitOK DEF Manual, File
<1>2. db[1] = NewDatabase /\ want[1] = {} /\ upto[1] = 0 /\ torn[1] = {}
  BY <1>1 DEF Init
<1>3. /\ cmd = NULL /\ work = <<>> /\ lines = {} /\ cur = NULL /\ hash_tab = {}
      /\ want = [f \in File |-> {}] /\ upto = [f \in File |-> 0]
      /\ torn = [f \in File |-> {}]
  BY DEF Init
<1>4. \A x \in RecIndex, t \in Term : NewDatabase.ix[x][t] = NULL
  BY DEF NewDatabase, Index
<1>5. NewDatabase.assoc = <<>>
  BY DEF NewDatabase
<1>6. ~InLoad /\ ~Direct /\ Live = {}
  BY <1>2, <1>3 DEF InLoad, Direct, Live, Loaded
<1>7. ListsExact
  BY <1>2, <1>3, <1>4 DEF ListsExact, Exact, Recs, NotYet
<1>8. OneEntry
  BY <1>2, <1>3, <1>4, <1>6, Constants DEF OneEntry
<1>9. WantOK
  <2>1. Len(NewDatabase.assoc) = 0
    BY <1>5
  <2> QED
    BY <1>1, <1>2, <1>3, <1>6, <2>1 DEF WantOK
<1> QED
  BY <1>3, <1>6, <1>7, <1>8, <1>9 DEF EInv, LoadOK

\* One round of a loop, or the next loop.
LEMMA StepExact ==
  ASSUME Manual, IInv, EInv, IInv', Step
  PROVE  EInv'
  BY AddDoneExact, DelDoneExact, FilDelExact, NextComponentExact, ComponentsDoneExact,
     CompDelExact, DelComponentExact, AddTermExact, DelTermExact DEF Step

\* One line of in_batch_load, or the last.
LEMMA BatchStepExact ==
  ASSUME Manual, IInv, EInv, IInv', BatchStep
  PROVE  EInv'
  BY BatchFlushExact, BatchSkipExact, BatchSameExact, BatchNewKeyExact DEF BatchStep

\* Every step preserves the invariant.
LEMMA NextExact ==
  ASSUME Manual, IInv, EInv, IInv', [Next]_vars
  PROVE  EInv'
<1>1. CASE Program
  BY <1>1, StepExact, KwAddExact, NextRecordExact, LoadExitsExact, BatchStepExact,
     FileDoneExact, DeleteDoneExact DEF Program
<1>2. CASE Interrupt
  BY <1>2, InterruptExact
<1>3. CASE \E f \in File, c \in Doc : AddRecord(f, c)
  BY <1>3, AddRecordExact
<1>4. CASE \E f \in File, r \in Recno : Delete(f, r)
  BY <1>4, DeleteExact
<1>5. CASE \E s \in 1..MaxRecs + 1, e \in 0..1, b \in BOOLEAN : Load(s, e, b)
  BY <1>5, LoadExact
<1>6. CASE UNCHANGED vars
  <2>1. /\ UNCHANGED <<primary, db, cmd, work, lines, cur, hash_tab, ended>>
        /\ UNCHANGED <<want, upto, torn>>
    BY <1>6 DEF vars, ghosts
  <2>2. /\ (InLoad' <=> InLoad) /\ Loaded' = Loaded /\ Live' = Live
        /\ (Direct' <=> Direct) /\ (Idle' <=> Idle) /\ (Gathering' <=> Gathering)
        /\ (AtPrimary' <=> AtPrimary) /\ Of("pk")' = Of("pk")
    BY <2>1 DEF InLoad, Loaded, Live, Direct, Idle, Gathering, AtPrimary, Of
  <2>3. \A x, t : /\ Due(x, t)' = Due(x, t) /\ Held(x, t)' = Held(x, t)
                  /\ (NotYet(x, t)' <=> NotYet(x, t))
    BY <2>1, <2>2 DEF Due, Held, NotYet, AtCur
  <2>4. ListsExact'
    BY <2>1, <2>3 DEF EInv, ListsExact
  <2>5. OneEntry' /\ WantOK'
    BY <2>1, <2>2 DEF EInv, OneEntry, WantOK
  <2>6. LoadOK'
    BY <2>1, <2>2 DEF EInv, LoadOK, BatchOK
  <2>7. cmd # NULL => (\A i \in DOMAIN work : LoopFor(work[i]))'
    BY <2>1, <2>2 DEF EInv, LoopFor
  <2> QED
    BY <2>1, <2>2, <2>4, <2>5, <2>6, <2>7 DEF EInv
<1> QED
  BY <1>1, <1>2, <1>3, <1>4, <1>5, <1>6 DEF Next

\* Every step of index_cheshire and of delete_recs, the records that are
\* added meanwhile and the signals included, preserves what EInv says of the
\* lists, of what is ahead in the loops and in the batch files, and of the
\* records that searches should find, if the operator follows the manual.
THEOREM ExactInvariance ==
  ASSUME Manual
  PROVE  Spec => []EInv
  BY InitExact, NextExact, Invariance, PTL DEF Spec

\* An index holds exactly the records that were loaded and neither deleted,
\* replaced nor ignored since, each once, but for the records at which a
\* signal came: single entries that in_kwdel drops unseen, the lists that
\* in_batch_load keeps in newinfo and the records that hash_tab supersedes
\* never cost another record its entry.
THEOREM IndexesExact ==
  ASSUME Manual
  PROVE  Spec => []IndexExact
<1>1. IInv /\ EInv => IndexExact
  <2> SUFFICES ASSUME IInv, EInv PROVE IndexExact
    OBVIOUS
  <2>1. File = {1} /\ (cmd # NULL => cmd.file = 1)
    BY OneFile
  <2>2. \A r \in want[1] : r \in DOMAIN db[1].assoc
    BY Readable DEF EInv, WantOK, Live
  <2> DEFINE out == torn[1] \cup IF cmd # NULL THEN Busy ELSE {}
  <2>3. Affected(1) = out
    BY <2>1 DEF Affected
  <2>4. ASSUME NEW x \in RecIndex, NEW t \in Term
        PROVE  LET p == db[1].ix[x][t]
               IN  /\ Recs(p) \ out
                        = {r \in want[1] \ out : Words[db[1].assoc[r].doc][x][t] > 0}
                   /\ p # NULL => \A i, j \in DOMAIN p.entries :
                        p.entries[i].rec = p.entries[j].rec /\ i # j
                          => p.entries[i].rec \in torn[1]
    <3> DEFINE p == db[1].ix[x][t]
    <3>1. /\ Exact(db[1], out, x, t, p, want[1])
          /\ \E S : Exact(db[1], torn[1], x, t, p, S)
      <4>1. CASE cmd = NULL
        <5>1. Exact(db[1], torn[1], x, t, p, want[1]) /\ out = torn[1]
          BY <4>1, WhatLists DEF EInv
        <5> QED
          BY <5>1
      <4>2. CASE cmd # NULL
        BY <4>2, AffectedExact
      <4> QED
        BY <4>1, <4>2
    <3>2. \A r \in Recs(p) : r \in DOMAIN db[1].assoc /\ Occurs(db[1], r, x, t)
      BY ListsTrue, RecsOccur
    <3> HIDE DEF p, out
    <3>3. Recs(p) \ out = {r \in want[1] \ out : Occurs(db[1], r, x, t)}
      BY <2>2, <3>1, <3>2 DEF Exact
    <3>4. p # NULL => \A i, j \in DOMAIN p.entries :
            p.entries[i].rec = p.entries[j].rec /\ i # j
              => p.entries[i].rec \in torn[1]
      BY <3>1 DEF Exact
    <3> QED
      BY <3>3, <3>4 DEF Occurs, p
  <2> QED
    BY <2>1, <2>3, <2>4 DEF IndexExact
<1> QED
  BY <1>1, Invariance, ExactInvariance, PTL

\* What searches should find is there and not deleted, and with a primary
\* key no two of those records have the same: a record that is loaded
\* directly or in a batch, and replaces another or is ignored, never leaves
\* two records under one key.
THEOREM PrimaryKeysUnique ==
  ASSUME Manual
  PROVE  Spec => []KeysUnique
<1>1. IInv /\ EInv => KeysUnique
  <2> SUFFICES ASSUME IInv, EInv PROVE KeysUnique
    OBVIOUS
  <2>1. File = {1} /\ (cmd # NULL => cmd.file = 1)
    BY OneFile
  <2>2. ASSUME NEW r \in want[1]
        PROVE  /\ GetSGML(db[1], r) = {"doc"}
               /\ r \in DOMAIN db[1].assoc /\ ~db[1].assoc[r].deleted
    <3>1. GetSGML(db[1], r) = {"doc"}
      BY DEF EInv, WantOK, Live
    <3> QED
      BY <3>1 DEF GetSGML
  <2>3. ASSUME primary # "none",
               NEW r \in want[1] \ Affected(1), NEW q \in want[1] \ Affected(1),
               NEW t \in Term,
               Words[db[1].assoc[q].doc]["pk"][t] > 0,
               Words[db[1].assoc[r].doc]["pk"][t] > 0
        PROVE  q = r
    <3>1. Occurs(db[1], r, "pk", t)
      BY <2>3 DEF Occurs
    <3>2. Occurs(db[1], q, "pk", t)
      BY <2>3 DEF Occurs
    <3> DEFINE p == db[1].ix["pk"][t]
    <3>3. "pk" \in RecIndex
      BY DEF RecIndex
    <3>4. \E out : Exact(db[1], out, "pk", t, p, want[1])
      <4>1. CASE cmd = NULL
        BY <3>3, <4>1, WhatLists DEF EInv
      <4>2. CASE cmd # NULL
        BY <3>3, <4>2, AffectedExact
      <4> QED
        BY <4>1, <4>2
    <3>5. p # NULL => Len(p.entries) = 1 /\ p \in Posting
      BY <2>3, <3>3, ListsTrue DEF EInv, OneEntry, ListOK
    <3> HIDE DEF p
    <3>6. r \in Recs(p) /\ q \in Recs(p)
      BY <2>2, <3>1, <3>2, <3>4 DEF Exact
    <3>7. p # NULL
      BY <3>6 DEF Recs
    <3>8. p.entries \in Seq(Ent)
      BY <3>5, <3>7, PostingFields
    <3>9. DOMAIN p.entries = {1}
      BY <3>5, <3>7, <3>8
    <3> QED
      BY <3>6, <3>7, <3>9 DEF Recs
  <2> QED
    BY <2>1, <2>2, <2>3 DEF KeysUnique
<1> QED
  BY <1>1, Invariance, ExactInvariance, PTL

=============================================================================
