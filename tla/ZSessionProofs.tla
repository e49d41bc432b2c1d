--------------------------- MODULE ZSessionProofs ---------------------------
(***************************************************************************)
(* Proofs of the properties of ZSession, for any names, records, addresses *)
(* and any sequence of requests.                                           *)
(***************************************************************************)
EXTENDS ZSession, StoreProofs, SequenceTheorems, WellFoundedInduction

-----------------------------------------------------------------------------
(* Induction over a bounded loop.                                          *)

\* A set of numbers that has 0 and, with a number below N, the next one, has
\* all numbers up to N.
LEMMA UpTo ==
  ASSUME NEW N \in Nat, NEW S, 0 \in S,
         \A n \in Nat : n < N /\ n \in S => n + 1 \in S
  PROVE  0..N \subseteq S
<1> DEFINE T == 0..N \ S
           R == OpToRel(<, Nat)
<1>1. IsWellFoundedOn(R, Nat)
  BY NatLessThanWellFounded
<1>2. \A j, k \in Nat : <<j, k>> \in R <=> j < k
  BY DEF OpToRel
<1> SUFFICES ASSUME T # {} PROVE FALSE
  OBVIOUS
<1>3. T \subseteq Nat /\ 0 \notin T
  OBVIOUS
<1>4. \A n \in Nat : n < N /\ n \notin T => n + 1 \notin T
  OBVIOUS
<1>5. \A n \in T : n <= N
  OBVIOUS
<1> HIDE DEF R, T
<1>6. PICK k \in T : \A j \in T : ~(<<j, k>> \in R)
  BY <1>1, <1>3, WFMin
<1>7. k \in Nat /\ k # 0 /\ k <= N
  BY <1>3, <1>5
<1>8. k - 1 \in Nat /\ k - 1 < N /\ k - 1 < k
  BY <1>7
<1>9. k - 1 \notin T
  BY <1>2, <1>6, <1>7, <1>8
<1>10. (k - 1) + 1 \notin T
  BY <1>4, <1>8, <1>9
<1> QED
  BY <1>6, <1>7, <1>10

-----------------------------------------------------------------------------
(* Sequences.                                                              *)

\* A reordered sequence has the same length and the same elements.
LEMMA OrdersFacts ==
  ASSUME NEW S, NEW s \in Seq(S), NEW e \in Orders(s)
  PROVE  e \in Seq(S) /\ Len(e) = Len(s) /\ ToSet(e) = ToSet(s)
<1> DEFINE I == 1..Len(s)
<1>1. PICK p \in Bijection(I, I) : e = [i \in I |-> s[p[i]]]
  BY DEF Orders
<1>2. p \in [I -> I] /\ \A j \in I : \E i \in I : p[i] = j
  BY <1>1 DEF Bijection, Injection, Surjection
<1>3. Len(s) \in Nat /\ DOMAIN s = I /\ \A i \in I : s[i] \in S
  BY LenProperties, ElementOfSeq
<1>4. e \in [I -> S] /\ \A i \in I : e[i] = s[p[i]]
  BY <1>1, <1>2, <1>3
<1>5. e \in Seq(S)
  BY <1>3, <1>4, IsASeq
<1>6. Len(e) = Len(s)
  BY <1>3, <1>4, <1>5, LenProperties
<1>7. DOMAIN e = I
  BY <1>4
<1> HIDE DEF I
<1>8. ToSet(e) = {e[i] : i \in I} /\ ToSet(s) = {s[i] : i \in I}
  BY <1>3, <1>7 DEF ToSet
<1>9. {e[i] : i \in I} = {s[i] : i \in I}
  BY <1>2, <1>4
<1> QED
  BY <1>5, <1>6, <1>8, <1>9

-----------------------------------------------------------------------------
(* The walk of the merges.                                                 *)

\* A walk that has come to w: it has taken records of both sets only.
Walked(s, t, w) ==
  /\ w.i \in 1..(Len(s) + 1)
  /\ w.j \in 1..(Len(t) + 1)
  /\ w.out \in Seq(weighted_entry)

\* A step of the walk keeps to the two sequences.
LEMMA WalkStepType ==
  ASSUME NEW op, NEW s \in Seq(weighted_entry), NEW t \in Seq(weighted_entry),
         NEW w, Walked(s, t, w)
  PROVE  Walked(s, t, WalkStep(op, s, t, w))
<1> DEFINE Take(ok, e) == IF ok THEN Append(w.out, e) ELSE w.out
<1>1. Len(s) \in Nat /\ Len(t) \in Nat
  OBVIOUS
<1>2. /\ w.i \in 1..(Len(s) + 1) /\ w.j \in 1..(Len(t) + 1)
      /\ w.out \in Seq(weighted_entry)
  BY DEF Walked
<1>3. CASE w.i > Len(s) \/ w.j > Len(t)
  BY <1>3 DEF WalkStep
<1>4. CASE w.i <= Len(s) /\ w.j <= Len(t)
  <2>1. /\ w.i \in 1..Len(s) /\ w.j \in 1..Len(t)
        /\ w.i + 1 \in 1..(Len(s) + 1) /\ w.j + 1 \in 1..(Len(t) + 1)
    BY <1>1, <1>2, <1>4
  <2>2. s[w.i] \in weighted_entry /\ t[w.j] \in weighted_entry
    BY <2>1, ElementOfSeq
  <2>3. \A ok \in BOOLEAN, e \in weighted_entry : Take(ok, e) \in Seq(weighted_entry)
    BY <1>2, AppendProperties
  <2> DEFINE a == [i |-> w.i + 1, j |-> w.j, out |-> Take(op # "and", s[w.i])]
             b == [i |-> w.i, j |-> w.j + 1, out |-> Take(op = "or", t[w.j])]
             c == [i |-> w.i + 1, j |-> w.j + 1, out |-> Take(op # "not", s[w.i])]
  <2>4. WalkStep(op, s, t, w) \in {a, b, c}
    BY <1>1, <1>2, <1>4 DEF WalkStep
  <2>5. /\ Take(op # "and", s[w.i]) \in Seq(weighted_entry)
        /\ Take(op = "or", t[w.j]) \in Seq(weighted_entry)
        /\ Take(op # "not", s[w.i]) \in Seq(weighted_entry)
    BY <2>2, <2>3
  <2> HIDE DEF Take
  <2>6. Walked(s, t, a) /\ Walked(s, t, b) /\ Walked(s, t, c)
    BY <1>2, <2>1, <2>5 DEF Walked
  <2> QED
    BY <2>4, <2>6
<1> QED
  BY <1>1, <1>2, <1>3, <1>4

\* The states of the walk, from the first one on.
WalkStart == [i |-> 1, j |-> 1, out |-> <<>>]

IsWalk(op, s, t, N, w) ==
  w = [n \in 0..N |-> IF n = 0 THEN WalkStart ELSE WalkStep(op, s, t, w[n - 1])]

\* What the walk leaves of the operands is added to its result.
WalkEnd(op, s, t, end) ==
  end.out \o (IF op # "and" THEN SubSeq(s, end.i, Len(s)) ELSE <<>>)
          \o (IF op = "or" THEN SubSeq(t, end.j, Len(t)) ELSE <<>>)

\* The loop of a merge has a state after every number of steps.
LEMMA WalkExists ==
  ASSUME NEW op, NEW s, NEW t, NEW N \in Nat
  PROVE  \E w : IsWalk(op, s, t, N, w)
<1> DEFINE S == {n \in Nat : \E w : IsWalk(op, s, t, n, w)}
<1>1. 0 \in S
  <2>1. IsWalk(op, s, t, 0, [n \in 0..0 |-> WalkStart])
    BY DEF IsWalk
  <2> QED
    BY <2>1
<1>2. ASSUME NEW n \in Nat, n \in S PROVE n + 1 \in S
  <2>1. PICK f : IsWalk(op, s, t, n, f)
    BY <1>2
  <2> DEFINE g == [m \in 0..(n + 1) |->
                     IF m = n + 1 THEN WalkStep(op, s, t, f[n]) ELSE f[m]]
             h == [m \in 0..(n + 1) |->
                     IF m = 0 THEN WalkStart ELSE WalkStep(op, s, t, g[m - 1])]
  <2>2. ASSUME NEW m \in 0..(n + 1) PROVE g[m] = h[m]
    <3>1. CASE m = n + 1
      <4>1. m # 0 /\ m - 1 = n /\ n \in 0..(n + 1) /\ n # n + 1
        BY <3>1
      <4>2. g[n] = f[n] /\ g[m] = WalkStep(op, s, t, f[n])
        BY <3>1, <4>1
      <4> QED
        BY <4>1, <4>2
    <3>2. CASE m # n + 1
      <4>1. m \in 0..n /\ g[m] = f[m]
        BY <3>2
      <4>2. f[m] = IF m = 0 THEN WalkStart ELSE WalkStep(op, s, t, f[m - 1])
        BY <2>1, <4>1 DEF IsWalk
      <4>3. m # 0 => m - 1 \in 0..(n + 1) /\ m - 1 # n + 1 /\ g[m - 1] = f[m - 1]
        BY <4>1
      <4> QED
        BY <4>1, <4>2, <4>3
    <3> QED
      BY <3>1, <3>2
  <2>3. g = h
    BY <2>2
  <2>4. IsWalk(op, s, t, n + 1, g)
    BY <2>3 DEF IsWalk
  <2> QED
    BY <2>4
<1> HIDE DEF S
<1>3. N \in 0..N
  OBVIOUS
<1>4. N \in S
  BY <1>1, <1>2, <1>3, UpTo
<1> QED
  BY <1>4 DEF S

\* A merge is what its loop leaves after as many steps as there are entries.
LEMMA WalkIsLoop ==
  ASSUME NEW op, NEW s \in Seq(weighted_entry), NEW t \in Seq(weighted_entry)
  PROVE  \E w : /\ w[0] = WalkStart
                /\ \A n \in 1..(Len(s) + Len(t)) : w[n] = WalkStep(op, s, t, w[n - 1])
                /\ Walk(op, s, t) = WalkEnd(op, s, t, w[Len(s) + Len(t)])
<1> DEFINE N == Len(s) + Len(t)
           w == CHOOSE f : IsWalk(op, s, t, N, f)
<1>1. N \in Nat
  OBVIOUS
<1>2. IsWalk(op, s, t, N, w)
  BY <1>1, WalkExists
<1>3. w[0] = WalkStart /\ \A n \in 1..N : w[n] = WalkStep(op, s, t, w[n - 1])
  <2> HIDE DEF N, w
  <2>1. 0 \in 0..N /\ \A n \in 1..N : n \in 0..N /\ n # 0
    BY <1>1
  <2> QED
    BY <1>2, <2>1 DEF IsWalk
<1>4. Walk(op, s, t) = WalkEnd(op, s, t, w[N])
  BY DEF Walk, WalkEnd, IsWalk, WalkStart
<1> QED
  BY <1>3, <1>4

\* What is added to the result of a walk are records of the two sets.
LEMMA WalkEndType ==
  ASSUME NEW op, NEW s \in Seq(weighted_entry), NEW t \in Seq(weighted_entry),
         NEW w, Walked(s, t, w)
  PROVE  /\ WalkEnd(op, s, t, w) \in Seq(weighted_entry)
         /\ op # "and" => Len(WalkEnd(op, s, t, w)) >= Len(w.out) + (Len(s) - w.i + 1)
<1> DEFINE a == IF op # "and" THEN SubSeq(s, w.i, Len(s)) ELSE <<>>
           b == IF op = "or" THEN SubSeq(t, w.j, Len(t)) ELSE <<>>
           c == SubSeq(s, w.i, Len(s))
           d == SubSeq(t, w.j, Len(t))
           E == weighted_entry
<1>1. /\ Len(s) \in Nat /\ Len(t) \in Nat
      /\ w.i \in 1..(Len(s) + 1) /\ w.j \in 1..(Len(t) + 1) /\ w.out \in Seq(E)
  BY DEF Walked
<1>2. /\ \A k \in w.i..Len(s) : s[k] \in E
      /\ \A k \in w.j..Len(t) : t[k] \in E
  BY <1>1, ElementOfSeq
<1>3. c \in Seq(E) /\ Len(c) = Len(s) - w.i + 1
  BY <1>1, <1>2, SubSeqProperties
<1>4. d \in Seq(E)
  BY <1>1, <1>2, SubSeqProperties
<1>5. <<>> \in Seq(E) /\ Len(<<>>) = 0
  BY EmptySeq
<1> HIDE DEF c, d, E
<1>6. a \in Seq(E) /\ b \in Seq(E) /\ (op # "and" => Len(a) = Len(s) - w.i + 1)
  BY <1>3, <1>4, <1>5 DEF c, d
<1>7. WalkEnd(op, s, t, w) = (w.out \o a) \o b
  BY DEF WalkEnd
<1> HIDE DEF a, b
<1>8. w.out \o a \in Seq(E) /\ Len(w.out \o a) = Len(w.out) + Len(a)
  BY <1>1, <1>6, ConcatProperties
<1>9. (w.out \o a) \o b \in Seq(E) /\ Len((w.out \o a) \o b) = Len(w.out \o a) + Len(b)
  BY <1>6, <1>8, ConcatProperties
<1>10. Len(a) \in Nat /\ Len(b) \in Nat /\ Len(w.out) \in Nat
  BY <1>1, <1>6, LenProperties
<1> QED
  BY <1>1, <1>6, <1>7, <1>8, <1>9, <1>10 DEF E

\* A walk starts before the first entries, with nothing.
LEMMA WalkStarts ==
  ASSUME NEW s \in Seq(weighted_entry), NEW t \in Seq(weighted_entry)
  PROVE  /\ Walked(s, t, WalkStart)
         /\ WalkStart.i = WalkStart.j /\ Len(WalkStart.out) = WalkStart.i - 1
<1>1. Len(s) \in Nat /\ Len(t) \in Nat
  OBVIOUS
<1>2. WalkStart.i = 1 /\ WalkStart.j = 1 /\ WalkStart.out = <<>>
  BY DEF WalkStart
<1>3. <<>> \in Seq(weighted_entry) /\ Len(<<>>) = 0
  BY EmptySeq
<1>4. 1 \in 1..(Len(s) + 1) /\ 1 \in 1..(Len(t) + 1)
  BY <1>1
<1> QED
  BY <1>2, <1>3, <1>4 DEF Walked

\* Merging two sets gives records of the two sets.
LEMMA WalkType ==
  ASSUME NEW op, NEW s \in Seq(weighted_entry), NEW t \in Seq(weighted_entry)
  PROVE  Walk(op, s, t) \in Seq(weighted_entry)
<1> DEFINE N == Len(s) + Len(t)
<1>1. N \in Nat
  OBVIOUS
<1>2. PICK w : /\ w[0] = WalkStart
               /\ \A n \in 1..N : w[n] = WalkStep(op, s, t, w[n - 1])
               /\ Walk(op, s, t) = WalkEnd(op, s, t, w[N])
  BY WalkIsLoop
<1> DEFINE S == {n \in Nat : Walked(s, t, w[n])}
<1>3. 0 \in S
  BY <1>2, WalkStarts
<1> HIDE DEF N
<1>4. ASSUME NEW n \in Nat, n < N, n \in S PROVE n + 1 \in S
  <2>1. n + 1 \in 1..N /\ (n + 1) - 1 = n
    BY <1>1, <1>4
  <2>2. w[n + 1] = WalkStep(op, s, t, w[n])
    BY <1>2, <2>1
  <2> QED
    BY <1>4, <2>2, WalkStepType
<1>5. N \in 0..N
  BY <1>1
<1> HIDE DEF S
<1>6. N \in S
  BY <1>1, <1>3, <1>4, <1>5, UpTo
<1> QED
  BY <1>2, <1>6, WalkEndType DEF S

\* The union of a set with itself is no smaller.
LEMMA WalkSelf ==
  ASSUME NEW s \in Seq(weighted_entry)
  PROVE  Len(Walk("or", s, s)) >= Len(s)
<1> DEFINE N == Len(s) + Len(s)
           Even(w) == Walked(s, s, w) /\ w.i = w.j /\ Len(w.out) = w.i - 1
<1>1. N \in Nat
  OBVIOUS
<1>2. PICK w : /\ w[0] = WalkStart
               /\ \A n \in 1..N : w[n] = WalkStep("or", s, s, w[n - 1])
               /\ Walk("or", s, s) = WalkEnd("or", s, s, w[N])
  BY WalkIsLoop
<1> DEFINE S == {n \in Nat : Even(w[n])}
<1>3. 0 \in S
  BY <1>2, WalkStarts
<1>4. ASSUME NEW v, Even(v) PROVE Even(WalkStep("or", s, s, v))
  <2>1. Walked(s, s, WalkStep("or", s, s, v))
    BY <1>4, WalkStepType
  <2>2. CASE v.i > Len(s)
    BY <1>4, <2>2 DEF WalkStep
  <2>3. CASE ~(v.i > Len(s))
    <3>1. v.i \in 1..Len(s) /\ v.out \in Seq(weighted_entry)
      BY <1>4, <2>3 DEF Walked
    <3>2. s[v.i] \in weighted_entry
      BY <3>1, ElementOfSeq
    <3>3. s[v.i] \in Nat
      BY <3>2, BodyAssumption, Zenon
    <3>4. ~(s[v.i] < s[v.i]) /\ ~(s[v.i] > s[v.i])
      BY <3>3
    <3> DEFINE o == Append(v.out, s[v.i])
    <3>5. WalkStep("or", s, s, v) = [i |-> v.i + 1, j |-> v.j + 1, out |-> o]
      BY <1>4, <2>3, <3>3, <3>4 DEF WalkStep
    <3>6. Len(o) = Len(v.out) + 1
      BY <3>1, <3>2, AppendProperties
    <3> HIDE DEF o
    <3> QED
      BY <1>4, <2>1, <3>1, <3>5, <3>6
  <2> QED
    BY <2>2, <2>3
<1> HIDE DEF N, Even
<1>5. ASSUME NEW n \in Nat, n < N, n \in S PROVE n + 1 \in S
  <2>1. n + 1 \in 1..N /\ (n + 1) - 1 = n
    BY <1>1, <1>5
  <2>2. w[n + 1] = WalkStep("or", s, s, w[n])
    BY <1>2, <2>1
  <2> QED
    BY <1>4, <1>5, <2>2
<1>6. N \in 0..N
  BY <1>1
<1> HIDE DEF S
<1>7. N \in S
  BY <1>1, <1>3, <1>5, <1>6, UpTo
<1>8. Walked(s, s, w[N]) /\ Len(w[N].out) = w[N].i - 1
  BY <1>7 DEF S, Even
<1> DEFINE op == "or"
<1>9. Len(WalkEnd(op, s, s, w[N])) >= Len(w[N].out) + (Len(s) - w[N].i + 1)
  BY <1>8, WalkEndType
<1> QED
  BY <1>2, <1>8, <1>9 DEF Walked

-----------------------------------------------------------------------------
(* Stores whose entries are at home.                                       *)

\* What an entry of a sound store has.
LEMMA HomeFacts ==
  ASSUME NEW s, Sound(s), NEW k \in Keys, s.tab[k] # NULL
  PROVE  /\ s.tab[k] \in result_set_data
         /\ s.up
         /\ s.tab[k].ptr \in Obj /\ s.tab[k].ptr # NULL
         /\ s.heap[s.tab[k].ptr] # NULL
         /\ s.heap[s.tab[k].ptr] \in weighted_result
         /\ s.heap[s.tab[k].ptr].setid = k
         /\ s.heap[s.tab[k].ptr].body \in Bodies
         /\ s.tab[k].hits = Len(s.heap[s.tab[k].ptr].body.ents)
         /\ s.tab[k].hits <= MaxHits
<1>1. AtHome(s, k) /\ s \in AnyStore
  BY DEF Sound, AnyStore
<1>2. s.tab[k] \in result_set_data /\ \A o \in Obj : s.heap[o] \in weighted_result \cup {NULL}
  BY <1>1, StoreFields DEF AnyStore
<1>3. /\ s.tab[k].ptr \in Obj
      /\ s.heap[s.tab[k].ptr] # NULL
      /\ s.heap[s.tab[k].ptr].setid = k
      /\ s.tab[k].hits = Len(s.heap[s.tab[k].ptr].body.ents)
      /\ s.up /\ s.tab[k].hits <= MaxHits
  BY <1>1 DEF AtHome
<1>4. s.heap[s.tab[k].ptr] \in weighted_result
  BY <1>2, <1>3
<1>5. s.heap[s.tab[k].ptr].body \in Bodies
  BY <1>4 DEF weighted_result
<1> QED
  BY <1>2, <1>3, <1>4, <1>5, Constants

\* A body is a sequence of entries with a kind.
LEMMA BodyFields ==
  ASSUME NEW b \in Bodies
  PROVE  /\ b.ents \in Seq(weighted_entry) /\ Len(b.ents) \in Nat
         /\ b.type \in {"Boolean", "ranked"}
         /\ b # NULL
BY Constants DEF Bodies

\* What a name stands for is the set in core.
LEMMA HomeContents ==
  ASSUME NEW s, Sound(s), NEW k \in Keys
  PROVE  Contents(s, k) = IF s.tab[k] = NULL THEN NULL ELSE s.heap[s.tab[k].ptr].body
<1>1. CASE s.tab[k] = NULL
  BY <1>1 DEF Contents
<1>2. CASE s.tab[k] # NULL
  BY <1>2, HomeFacts DEF Contents
<1> QED
  BY <1>1, <1>2

\* Entry k of r has the records that it has in s, perhaps in another order.
SameSet(s, r, k) ==
  /\ r.tab[k] = s.tab[k]
  /\ s.tab[k] # NULL =>
       LET p == s.tab[k].ptr
       IN  /\ Len(r.heap[p].body.ents) = Len(s.heap[p].body.ents)
           /\ ToSet(r.heap[p].body.ents) = ToSet(s.heap[p].body.ents)

\* A call changes no entry; it may put a set into another order.
Kept(s, r) ==
  /\ r.tab = s.tab /\ r.orphan = s.orphan /\ (s.up => r.up)
  /\ \A k \in Keys : SameSet(s, r, k)

\* Sets that are left alone stay at home.
LEMMA Untouched ==
  ASSUME NEW s, Sound(s), NEW r \in AnyStore,
         r.tab = s.tab, r.orphan = s.orphan, s.up => r.up,
         \A k \in Keys : s.tab[k] # NULL => r.heap[s.tab[k].ptr] = s.heap[s.tab[k].ptr]
  PROVE  Sound(r) /\ Kept(s, r)
<1>1. ASSUME NEW k \in Keys PROVE AtHome(r, k)
  BY HomeFacts DEF AtHome
<1>2. Kept(s, r)
  BY DEF Kept, SameSet
<1> QED
  BY <1>1, <1>2 DEF Sound, AnyStore

\* One call after another changes no entry either.
LEMMA KeptTwice ==
  ASSUME NEW s, NEW r, NEW u, Kept(s, r), Kept(r, u)
  PROVE  Kept(s, u)
<1>1. ASSUME NEW k \in Keys PROVE SameSet(s, u, k)
  <2>1. SameSet(s, r, k) /\ SameSet(r, u, k)
    BY DEF Kept
  <2>2. u.tab[k] = s.tab[k] /\ r.tab[k] = s.tab[k]
    BY <2>1, Zenon DEF SameSet
  <2>3. CASE s.tab[k] # NULL
    <3> DEFINE p == s.tab[k].ptr
    <3>1. /\ Len(r.heap[p].body.ents) = Len(s.heap[p].body.ents)
          /\ ToSet(r.heap[p].body.ents) = ToSet(s.heap[p].body.ents)
      BY <2>1, <2>3, Zenon DEF SameSet
    <3>2. /\ Len(u.heap[p].body.ents) = Len(r.heap[p].body.ents)
          /\ ToSet(u.heap[p].body.ents) = ToSet(r.heap[p].body.ents)
      BY <2>1, <2>2, <2>3, Zenon DEF SameSet
    <3> QED
      BY <2>2, <3>1, <3>2, Zenon DEF SameSet
  <2> QED
    BY <2>2, <2>3, Zenon DEF SameSet
<1> QED
  BY <1>1 DEF Kept

\* A diagnostic is no change to the sets.
LEMMA DiagSound ==
  ASSUME NEW s, Sound(s), NEW c \in Diagnostic
  PROVE  LET r == diagnostic_set(s, c)
         IN  /\ Sound(r) /\ Kept(s, r)
             /\ r.tab = s.tab /\ r.heap = s.heap /\ r.up = s.up /\ r.orphan = s.orphan
             /\ r.diag = c
<1> DEFINE r == diagnostic_set(s, c)
<1>1. s \in AnyStore
  BY DEF Sound, AnyStore
<1>2. /\ r \in AnyStore
      /\ r.tab = s.tab /\ r.heap = s.heap /\ r.up = s.up /\ r.orphan = s.orphan
      /\ r.diag = c
  BY <1>1, DiagFields
<1> HIDE DEF r
<1>3. Sound(r) /\ Kept(s, r)
  BY <1>2, Untouched
<1> QED
  BY <1>2, <1>3 DEF r

\* Clearing the diagnostic is setting none.
LEMMA ClearSound ==
  ASSUME NEW s, Sound(s)
  PROVE  LET r == diagnostic_clear(s)
         IN  /\ Sound(r) /\ Kept(s, r)
             /\ r.tab = s.tab /\ r.heap = s.heap /\ r.up = s.up /\ r.orphan = s.orphan
             /\ r.diag = 0
<1>1. diagnostic_clear(s) = diagnostic_set(s, 0)
  BY DEF diagnostic_clear, diagnostic_set
<1>2. 0 \in Diagnostic
  BY DEF Diagnostic
<1> QED
  BY <1>1, <1>2, DiagSound

\* The answer g to a request for the set of name n: the set in core, or none.
Got(s, g, n) ==
  /\ Sound(g.st) /\ Kept(s, g.st)
  /\ g.st.tab = s.tab /\ g.st.heap = s.heap /\ g.st.orphan = s.orphan
  /\ \/ s.tab[Key[n]] = NULL /\ g.set = NULL
     \/ s.tab[Key[n]] # NULL /\ g.set = s.tab[Key[n]].ptr /\ g.st = s

\* In a sound store no set is ever read back from its file.
LEMMA GetSound ==
  ASSUME NEW s, Sound(s), NEW n \in Name
  PROVE  Got(s, se_get_result_set(s, n), n)
<1> DEFINE k == Key[n]
           g == se_get_result_set(s, n)
           u == [s EXCEPT !.up = TRUE]
           d == diagnostic_set(u, 30)
<1>1. k \in Keys /\ s \in AnyStore
  BY Constants DEF Sound, AnyStore
<1>2. CASE s.tab[k] = NULL
  <2>1. g = [st |-> d, set |-> NULL]
    BY <1>2 DEF se_get_result_set
  <2>2. /\ u \in AnyStore
        /\ u.tab = s.tab /\ u.heap = s.heap /\ u.up = TRUE /\ u.orphan = s.orphan
    BY <1>1, UpFields
  <2>3. 30 \in Diagnostic
    BY DEF Diagnostic
  <2> HIDE DEF u
  <2>4. /\ d \in AnyStore
        /\ d.tab = s.tab /\ d.heap = s.heap /\ d.up = TRUE /\ d.orphan = s.orphan
    BY <2>2, <2>3, DiagFields
  <2> HIDE DEF d
  <2>5. Sound(d) /\ Kept(s, d)
    BY <2>4, Untouched
  <2> QED
    BY <1>2, <2>1, <2>4, <2>5 DEF Got
<1>3. CASE s.tab[k] # NULL
  <2>1. s.tab[k].ptr # NULL
    BY <1>1, <1>3, HomeFacts
  <2>2. g = [st |-> s, set |-> s.tab[k].ptr]
    BY <1>3, <2>1 DEF se_get_result_set
  <2>3. Kept(s, s)
    BY DEF Kept, SameSet
  <2> QED
    BY <1>3, <2>2, <2>3 DEF Got
<1> QED
  BY <1>2, <1>3

-----------------------------------------------------------------------------
(* New sets, and sets that are merged.                                     *)

\* The set at o has no name, and no entry points to it.
Loose(s, o) ==
  /\ o \in Obj /\ s.heap[o] # NULL
  /\ s.heap[o].setid = Unnamed
  /\ s.heap[o].body \in Bodies
  /\ o \notin Pointers(s)

\* An entry points to its set.
LEMMA PointsTo ==
  ASSUME NEW s, NEW k \in Keys, s.tab[k] # NULL
  PROVE  s.tab[k].ptr \in Pointers(s)
BY DEF Pointers

\* Stores with the same table have the same pointers.
LEMMA SamePointers ==
  ASSUME NEW s, NEW r, r.tab = s.tab
  PROVE  Pointers(r) = Pointers(s)
BY DEF Pointers

\* A new set is loose, and takes one address.
LEMMA NewSound ==
  ASSUME NEW s, Sound(s), FreeAddrs(s) # {}, NEW b \in Bodies
  PROVE  LET r == New(s, b)
             o == Alloc(s)
         IN  /\ Sound(r) /\ Kept(s, r)
             /\ r.tab = s.tab /\ r.diag = s.diag /\ r.up = s.up
             /\ r.heap = [s.heap EXCEPT ![o] = [setid |-> Unnamed, body |-> b]]
             /\ Loose(r, o) /\ r.heap[o].body = b
             /\ FreeAddrs(r) = FreeAddrs(s) \ {o}
<1> DEFINE o == Alloc(s)
           f == [setid |-> Unnamed, body |-> b]
           h == [s.heap EXCEPT ![o] = f]
           r == New(s, b)
<1>1. s \in AnyStore /\ s.heap \in [Obj -> weighted_result \cup {NULL}]
  BY StoreFields DEF Sound, AnyStore
<1>2. o \in Obj /\ o \notin Pointers(s)
  BY Fresh
<1>3. f \in weighted_result /\ f # NULL /\ f.setid = Unnamed /\ f.body = b
  <2>1. f \in weighted_result
    BY DEF weighted_result
  <2> QED
    BY <2>1, Constants
<1>4. r = [s EXCEPT !.heap = h]
  BY DEF New
<1> HIDE DEF f, r
<1>5. h \in [Obj -> weighted_result \cup {NULL}]
  BY <1>1, <1>3
<1>6. h[o] = f /\ \A x \in Obj : x # o => h[x] = s.heap[x]
  BY <1>1, <1>2
<1> HIDE DEF h
<1>7. /\ r \in AnyStore /\ r.heap = h
      /\ r.tab = s.tab /\ r.diag = s.diag /\ r.up = s.up /\ r.orphan = s.orphan
  BY <1>1, <1>4, <1>5 DEF AnyStore, Store_t
<1>8. ASSUME NEW k \in Keys, s.tab[k] # NULL
      PROVE  r.heap[s.tab[k].ptr] = s.heap[s.tab[k].ptr]
  <2>1. s.tab[k].ptr \in Obj /\ s.tab[k].ptr # o
    BY <1>2, <1>8, HomeFacts, PointsTo
  <2> QED
    BY <1>6, <1>7, <2>1
<1>9. Sound(r) /\ Kept(s, r)
  BY <1>7, <1>8, Untouched
<1>10. Pointers(r) = Pointers(s)
  BY <1>7, SamePointers
<1>11. Loose(r, o) /\ r.heap[o].body = b
  BY <1>2, <1>3, <1>6, <1>7, <1>10 DEF Loose
<1>12. FreeAddrs(r) = FreeAddrs(s) \ {o}
  BY <1>3, <1>6, <1>7, <1>10 DEF FreeAddrs
<1> QED
  BY <1>7, <1>9, <1>11, <1>12 DEF h, f, r

\* Sorting an operand in place changes neither its records nor an address.
SortedFrom(s, r) ==
  /\ Sound(r) /\ Kept(s, r)
  /\ r.diag = s.diag
  /\ FreeAddrs(r) = FreeAddrs(s)

\* se_sortwtset, for a stored set.
LEMMA SortSound ==
  ASSUME NEW s, Sound(s), NEW j \in Keys, s.tab[j] # NULL,
         NEW r \in SortInPlace(s, s.tab[j].ptr)
  PROVE  SortedFrom(s, r)
<1> DEFINE o == s.tab[j].ptr
           b == s.heap[o].body
<1>1. /\ o \in Obj /\ s.heap[o] # NULL /\ s.heap[o] \in weighted_result
      /\ s.heap[o].setid = j /\ b \in Bodies
  BY HomeFacts
<1>2. CASE b.type # "ranked"
  <2>1. r = s
    BY <1>2 DEF SortInPlace
  <2> QED
    BY <2>1 DEF SortedFrom, Kept, SameSet
<1>3. CASE b.type = "ranked"
  <2>1. PICK e \in Orders(b.ents) : r = [s EXCEPT !.heap[o].body.ents = e]
    BY <1>3 DEF SortInPlace
  <2>2. /\ b.ents \in Seq(weighted_entry)
        /\ e \in Seq(weighted_entry) /\ Len(e) = Len(b.ents) /\ ToSet(e) = ToSet(b.ents)
    BY <1>1, OrdersFacts DEF Bodies
  <2> DEFINE c == [b EXCEPT !.ents = e]
             f == [s.heap[o] EXCEPT !.body = c]
             h == [s.heap EXCEPT ![o] = f]
  <2>3. c \in Bodies /\ c.ents = e
    BY <1>1, <2>2 DEF Bodies
  <2>4. r = [s EXCEPT !.heap = h]
    BY <2>1
  <2> HIDE DEF c
  <2>5. f \in weighted_result /\ f.setid = j /\ f.body = c
    BY <1>1, <2>3 DEF weighted_result
  <2> HIDE DEF f
  <2>6. s \in AnyStore /\ s.heap \in [Obj -> weighted_result \cup {NULL}]
    BY StoreFields DEF Sound, AnyStore
  <2>7. /\ h \in [Obj -> weighted_result \cup {NULL}]
        /\ h[o] = f /\ \A x \in Obj : x # o => h[x] = s.heap[x]
    BY <1>1, <2>5, <2>6
  <2> HIDE DEF h
  <2>8. /\ r \in AnyStore /\ r.heap = h
        /\ r.tab = s.tab /\ r.diag = s.diag /\ r.up = s.up /\ r.orphan = s.orphan
    BY <2>4, <2>6, <2>7 DEF AnyStore, Store_t
  <2>9. f # NULL
    BY <2>5, Constants
  <2>10. ASSUME NEW k \in Keys, s.tab[k] # NULL
         PROVE  AtHome(r, k) /\ SameSet(s, r, k)
    <3>1. /\ s.tab[k].ptr \in Obj
          /\ s.heap[s.tab[k].ptr] # NULL
          /\ s.heap[s.tab[k].ptr].setid = k
          /\ s.tab[k].hits = Len(s.heap[s.tab[k].ptr].body.ents)
          /\ s.up /\ s.tab[k].hits <= MaxHits
      BY <2>10, HomeFacts
    <3>2. CASE s.tab[k].ptr = o
      <4>1. r.heap[s.tab[k].ptr] = f /\ k = j
        BY <1>1, <2>7, <2>8, <3>1, <3>2
      <4>2. Len(f.body.ents) = Len(s.heap[s.tab[k].ptr].body.ents)
        BY <2>2, <2>3, <2>5, <3>2
      <4>3. ToSet(f.body.ents) = ToSet(s.heap[s.tab[k].ptr].body.ents)
        BY <2>2, <2>3, <2>5, <3>2
      <4> HIDE DEF o, b
      <4> QED
        BY <2>5, <2>8, <2>9, <3>1, <4>1, <4>2, <4>3 DEF AtHome, SameSet
    <3>3. CASE s.tab[k].ptr # o
      <4>1. r.heap[s.tab[k].ptr] = s.heap[s.tab[k].ptr]
        BY <2>7, <2>8, <3>1, <3>3
      <4> QED
        BY <2>8, <3>1, <4>1 DEF AtHome, SameSet
    <3> QED
      BY <3>2, <3>3
  <2>11. ASSUME NEW k \in Keys, s.tab[k] = NULL
         PROVE  AtHome(r, k) /\ SameSet(s, r, k)
    BY <2>8, <2>11 DEF AtHome, SameSet
  <2>12. Sound(r) /\ Kept(s, r)
    BY <2>8, <2>10, <2>11 DEF Sound, Kept, AnyStore
  <2>13. Pointers(r) = Pointers(s)
    BY <2>8, SamePointers
  <2>14. FreeAddrs(r) = FreeAddrs(s)
    BY <1>1, <2>7, <2>8, <2>9, <2>13 DEF FreeAddrs
  <2> QED
    BY <2>8, <2>12, <2>14 DEF SortedFrom
<1> QED
  BY <1>2, <1>3

\* Two addresses are free.
Roomy(s) == \E a, b \in FreeAddrs(s) : a # b

\* Two stores with the same table and sets have the same free addresses.
LEMMA SameFree ==
  ASSUME NEW s, NEW r, r.tab = s.tab, r.heap = s.heap
  PROVE  FreeAddrs(r) = FreeAddrs(s)
BY SamePointers DEF FreeAddrs

\* What a merge leaves: the operands, perhaps in another order, and a loose
\* result; the union of a set with itself is no smaller than the set.
MergedFrom(s, op, o1, o2, m) ==
  /\ Sound(m.st) /\ Kept(s, m.st)
  /\ m.st.diag = s.diag
  /\ Loose(m.st, m.set)
  /\ FreeAddrs(m.st) # {}
  /\ op = "or" /\ o1 = o2 =>
       Len(m.st.heap[m.set].body.ents) >= Len(s.heap[o1].body.ents)

\* The merge of operands in record order.
LEMMA MergeSortedSound ==
  ASSUME NEW s, Sound(s), Roomy(s), NEW op,
         NEW j \in Keys, s.tab[j] # NULL, NEW k \in Keys, s.tab[k] # NULL,
         NEW m \in MergeSorted(s, op, s.tab[j].ptr, s.tab[k].ptr)
  PROVE  MergedFrom(s, op, s.tab[j].ptr, s.tab[k].ptr, m)
<1> DEFINE o1 == s.tab[j].ptr
           o2 == s.tab[k].ptr
           b1 == s.heap[o1].body
           b2 == s.heap[o2].body
           ents == Walk(op, b1.ents, b2.ents)
           ranked == "ranked" \in {b1.type, b2.type}
           kind == IF ranked THEN "ranked" ELSE "Boolean"
<1>1. b1 \in Bodies /\ b2 \in Bodies
  BY HomeFacts
<1>2. b1.ents \in Seq(weighted_entry) /\ b2.ents \in Seq(weighted_entry)
  BY <1>1, BodyFields
<1>3. PICK e \in (IF ranked THEN Orders(ents) ELSE {ents}) :
        m = [st |-> New(s, [ents |-> e, type |-> kind]), set |-> Alloc(s)]
  BY DEF MergeSorted
<1>4. ents \in Seq(weighted_entry)
  BY <1>2, WalkType
<1>5. kind \in {"Boolean", "ranked"}
  OBVIOUS
<1>6. o1 = o2 => b1 = b2
  OBVIOUS
<1>7. op = "or" /\ o1 = o2 => Len(ents) >= Len(b1.ents)
  BY <1>2, <1>6, WalkSelf
<1> HIDE DEF ents, ranked, kind, b1, b2, o1, o2
<1>8. e \in Seq(weighted_entry) /\ Len(e) = Len(ents)
  BY <1>3, <1>4, OrdersFacts
<1> DEFINE b == [ents |-> e, type |-> kind]
<1>9. b \in Bodies /\ b.ents = e
  BY <1>5, <1>8 DEF Bodies
<1>10. m.st = New(s, b) /\ m.set = Alloc(s)
  BY <1>3
<1> HIDE DEF b
<1>11. FreeAddrs(s) # {} /\ FreeAddrs(s) \ {Alloc(s)} # {}
  BY DEF Roomy
<1>12. /\ Sound(m.st) /\ Kept(s, m.st)
       /\ m.st.diag = s.diag
       /\ Loose(m.st, m.set) /\ m.st.heap[m.set].body = b
       /\ FreeAddrs(m.st) # {}
  <2> DEFINE r == New(s, b)
             o == Alloc(s)
  <2>1. /\ Sound(r) /\ Kept(s, r)
        /\ r.tab = s.tab /\ r.diag = s.diag /\ r.up = s.up
        /\ r.heap = [s.heap EXCEPT ![o] = [setid |-> Unnamed, body |-> b]]
        /\ Loose(r, o) /\ r.heap[o].body = b
        /\ FreeAddrs(r) = FreeAddrs(s) \ {o}
    BY <1>9, <1>11, NewSound
  <2> HIDE DEF r, o
  <2>2. m.st = r /\ m.set = o
    BY <1>10 DEF r, o
  <2>3. FreeAddrs(s) \ {o} # {}
    BY <1>11 DEF o
  <2> QED
    BY <2>1, <2>2, <2>3
<1> QED
  BY <1>7, <1>8, <1>9, <1>12 DEF MergedFrom, o1, o2, b1

\* What is sorted before a merge is the same to it.
LEMMA SortedRoom ==
  ASSUME NEW s, NEW r, SortedFrom(s, r)
  PROVE  Roomy(s) => Roomy(r)
BY DEF SortedFrom, Roomy

\* A merge of two stored sets.
LEMMA MergedSound ==
  ASSUME NEW s, Sound(s), Roomy(s), NEW op,
         NEW j \in Keys, s.tab[j] # NULL, NEW k \in Keys, s.tab[k] # NULL,
         NEW m \in Merged(s, op, s.tab[j].ptr, s.tab[k].ptr)
  PROVE  MergedFrom(s, op, s.tab[j].ptr, s.tab[k].ptr, m)
<1> DEFINE o1 == s.tab[j].ptr
           o2 == s.tab[k].ptr
<1>1. PICK v \in SortInPlace(s, o1) : \E u \in SortInPlace(v, o2) : m \in MergeSorted(u, op, o1, o2)
  BY DEF Merged
<1>2. PICK u \in SortInPlace(v, o2) : m \in MergeSorted(u, op, o1, o2)
  BY <1>1
<1>3. SortedFrom(s, v)
  BY SortSound
<1>4. Sound(v) /\ v.tab = s.tab /\ Roomy(v)
  BY <1>3, SortedRoom DEF SortedFrom, Kept
<1>5. SortedFrom(v, u)
  <2>1. v.tab[k] # NULL /\ u \in SortInPlace(v, v.tab[k].ptr)
    BY <1>2, <1>4
  <2> QED
    BY <1>4, <2>1, SortSound
<1>6. Sound(u) /\ u.tab = s.tab /\ Roomy(u)
  BY <1>4, <1>5, SortedRoom DEF SortedFrom, Kept
<1>7. MergedFrom(u, op, o1, o2, m)
  <2>1. /\ u.tab[j] # NULL /\ u.tab[k] # NULL
        /\ m \in MergeSorted(u, op, u.tab[j].ptr, u.tab[k].ptr)
    BY <1>2, <1>6
  <2> QED
    BY <1>6, <2>1, MergeSortedSound
<1>8. Kept(s, u)
  BY <1>3, <1>5, KeptTwice DEF SortedFrom
<1>9. Kept(s, m.st)
  BY <1>7, <1>8, KeptTwice DEF MergedFrom
<1>10. Len(u.heap[o1].body.ents) = Len(s.heap[o1].body.ents)
  BY <1>8 DEF Kept, SameSet
<1>11. m.st.diag = s.diag
  BY <1>3, <1>5, <1>7 DEF SortedFrom, MergedFrom
<1> HIDE DEF o1, o2
<1>12. MergedFrom(s, op, o1, o2, m)
  BY <1>7, <1>9, <1>10, <1>11 DEF MergedFrom
<1> QED
  BY <1>12 DEF o1, o2

-----------------------------------------------------------------------------
(* Queries.                                                                *)

\* What a query leaves: every entry, and a set that is loose, or a stored set
\* that the query named.
Found(s, q, out) ==
  /\ Sound(out.st) /\ Kept(s, out.st)
  /\ out.set # NULL =>
       \/ Loose(out.st, out.set)
       \/ /\ q.kind = "set" /\ q.set \in Name
          /\ s.tab[Key[q.set]] # NULL
          /\ out.st = s /\ out.set = s.tab[Key[q.set]].ptr

\* The kinds of queries.
LEMMA QueryKinds ==
  ASSUME NEW q \in Query
  PROVE  \/ q.kind = "term" /\ q.body \in Body
         \/ q.kind = "set" /\ q.set \in Name
         \/ q.kind \in {"and", "or", "not"} /\ q.left \in Name /\ q.right \in Name
         \/ q.kind = "bad"
<1>1. CASE q \in [kind : {"term"}, body : Body]
  BY <1>1
<1>2. CASE q \in [kind : {"set"}, set : Name]
  BY <1>2
<1>3. CASE q \in [kind : {"and", "or", "not"}, left : Name, right : Name]
  BY <1>3
<1>4. CASE q = [kind |-> "bad"]
  BY <1>4
<1> QED
  BY <1>1, <1>2, <1>3, <1>4 DEF Query

\* A query with two operands.
LEMMA MergeOutcomesFound ==
  ASSUME NEW s, Sound(s), Roomy(s), NEW q, q.left \in Name, q.right \in Name,
         NEW out \in MergeOutcomes(s, q)
  PROVE  Found(s, q, out)
<1> DEFINE l == se_get_result_set(s, q.left)
           r == se_get_result_set(l.st, q.right)
<1>1. Got(s, l, q.left)
  BY GetSound
<1>2. Sound(l.st) /\ Kept(s, l.st) /\ l.st.tab = s.tab /\ l.st.heap = s.heap
  BY <1>1 DEF Got
<1>3. Got(l.st, r, q.right)
  BY <1>2, GetSound
<1>4. Sound(r.st) /\ Kept(l.st, r.st) /\ r.st.tab = s.tab /\ r.st.heap = s.heap
  BY <1>2, <1>3 DEF Got
<1>5. Kept(s, r.st)
  BY <1>2, <1>4, KeptTwice
<1>6. Roomy(r.st)
  BY <1>4, SameFree DEF Roomy
<1>7. \/ out = Outcome(l.st, NULL, FALSE)
      \/ \E d \in BOOLEAN : out = Outcome(r.st, NULL, d)
      \/ /\ l.set # NULL /\ r.set # NULL
         /\ \E m \in Merged(r.st, q.kind, l.set, r.set) : out = Outcome(m.st, m.set, FALSE)
  BY DEF MergeOutcomes
<1> HIDE DEF l, r
<1>8. CASE out = Outcome(l.st, NULL, FALSE)
  <2>1. out.st = l.st /\ out.set = NULL
    BY <1>8 DEF Outcome
  <2> QED
    BY <1>2, <2>1 DEF Found
<1>9. ASSUME NEW d \in BOOLEAN, out = Outcome(r.st, NULL, d) PROVE Found(s, q, out)
  <2>1. out.st = r.st /\ out.set = NULL
    BY <1>9 DEF Outcome
  <2> QED
    BY <1>4, <1>5, <2>1 DEF Found
<1>10. ASSUME l.set # NULL, r.set # NULL,
              NEW m \in Merged(r.st, q.kind, l.set, r.set), out = Outcome(m.st, m.set, FALSE)
       PROVE  Found(s, q, out)
  <2>1. /\ Key[q.left] \in Keys /\ r.st.tab[Key[q.left]] # NULL
        /\ l.set = r.st.tab[Key[q.left]].ptr
    BY <1>1, <1>4, <1>10, Constants DEF Got
  <2>2. /\ Key[q.right] \in Keys /\ r.st.tab[Key[q.right]] # NULL
        /\ r.set = r.st.tab[Key[q.right]].ptr
    BY <1>2, <1>3, <1>4, <1>10, Constants DEF Got
  <2>3. MergedFrom(r.st, q.kind, l.set, r.set, m)
    BY <1>4, <1>6, <1>10, <2>1, <2>2, MergedSound
  <2>4. Sound(m.st) /\ Kept(r.st, m.st) /\ Loose(m.st, m.set)
    BY <2>3 DEF MergedFrom
  <2>5. Kept(s, m.st)
    BY <1>5, <2>4, KeptTwice
  <2>6. out.st = m.st /\ out.set = m.set
    BY <1>10 DEF Outcome
  <2> QED
    BY <2>4, <2>5, <2>6 DEF Found
<1> QED
  BY <1>7, <1>8, <1>9, <1>10

\* Every query.
LEMMA QueryFound ==
  ASSUME NEW s, Sound(s), Roomy(s), NEW q \in Query, NEW out \in se_process_query(s, q)
  PROVE  Found(s, q, out)
<1>1. CASE q.kind = "term"
  <2>1. q.body \in Bodies
    BY <1>1, QueryKinds, BodyAssumption
  <2>2. out.st = New(s, q.body) /\ out.set = Alloc(s)
    BY <1>1 DEF se_process_query, Outcome
  <2>3. FreeAddrs(s) # {}
    BY DEF Roomy
  <2>4. Sound(New(s, q.body)) /\ Kept(s, New(s, q.body)) /\ Loose(New(s, q.body), Alloc(s))
    BY <2>1, <2>3, NewSound
  <2> QED
    BY <2>2, <2>4 DEF Found
<1>2. CASE q.kind = "set"
  <2> DEFINE g == se_get_result_set(s, q.set)
  <2>1. q.set \in Name
    BY <1>2, QueryKinds
  <2>2. out.st = g.st /\ out.set = g.set
    BY <1>2 DEF se_process_query, Outcome
  <2>3. Got(s, g, q.set)
    BY <2>1, GetSound
  <2> HIDE DEF g
  <2> QED
    BY <1>2, <2>1, <2>2, <2>3 DEF Found, Got
<1>3. CASE q.kind = "bad"
  <2> DEFINE d == diagnostic_set(s, 114)
  <2>1. out.st = d /\ out.set = NULL
    BY <1>3 DEF se_process_query, Outcome
  <2>2. 114 \in Diagnostic
    BY DEF Diagnostic
  <2>3. Sound(d) /\ Kept(s, d)
    BY <2>2, DiagSound
  <2> QED
    BY <2>1, <2>3 DEF Found
<1>4. CASE q.kind \in {"and", "or", "not"}
  <2>1. q.left \in Name /\ q.right \in Name
    BY <1>4, QueryKinds
  <2>2. out \in MergeOutcomes(s, q)
    BY <1>4 DEF se_process_query
  <2> QED
    BY <2>1, <2>2, MergeOutcomesFound
<1> QED
  BY <1>1, <1>2, <1>3, <1>4, QueryKinds

-----------------------------------------------------------------------------
(* Storing a set.                                                          *)

\* r is s with the set that was at o stored under n, unless the name was in
\* use and is not to be replaced.
StoredAs(s, r, o, n, replace) ==
  LET k == Key[n]
  IN  /\ Sound(r)
      /\ SameBut(s, r, k)
      /\ r.tab[k] # NULL
      /\ \/ r.heap[r.tab[k].ptr].body = s.heap[o].body
         \/ ~replace /\ s.tab[k] # NULL /\ SameAt(s, r, k)
      /\ n # EmptyName /\ Filed(s) => Filed(r)

\* Two entries of a sound store have two sets.
LEMMA Apart ==
  ASSUME NEW s, Sound(s), NEW j \in Keys, s.tab[j] # NULL,
         NEW k \in Keys, s.tab[k] # NULL, j # k
  PROVE  s.tab[j].ptr # s.tab[k].ptr
BY HomeFacts

\* What an entry for the set f at o has.
Holds(r, k, o, f) ==
  /\ r.tab[k] \in result_set_data /\ r.tab[k] # NULL
  /\ r.tab[k].ptr = o /\ r.heap[o] = f
  /\ r.tab[k].hits = Len(f.body.ents)

\* A store that differs from a sound one in entry k only is sound if k has a
\* set of its own.
LEMMA EntrySound ==
  ASSUME NEW s, Sound(s), NEW r \in AnyStore, r.up,
         NEW k \in Keys, SameBut(s, r, k),
         NEW o \in Obj, NEW f \in Result, f.setid = k, Len(f.body.ents) <= MaxHits,
         Holds(r, k, o, f)
  PROVE  Sound(r)
<1>1. f # NULL
  BY Constants, ResultIsSet
<1>2. AtHome(r, k)
  BY <1>1 DEF AtHome, Holds
<1>3. ASSUME NEW j \in Keys, j # k PROVE AtHome(r, j)
  <2>1. SameAt(s, r, j)
    BY <1>3 DEF SameBut
  <2>2. CASE s.tab[j] = NULL
    BY <2>1, <2>2 DEF SameAt, AtHome
  <2>3. CASE s.tab[j] # NULL
    BY <2>1, <2>3, HomeFacts DEF SameAt, AtHome
  <2> QED
    BY <2>2, <2>3
<1> QED
  BY <1>2, <1>3 DEF Sound, AnyStore

\* A new entry for the set at o, which no entry has.
LEMMA EnterSound ==
  ASSUME NEW s, Sound(s), NEW base \in AnyStore,
         base.tab = s.tab, base.up, base.orphan = s.orphan,
         NEW o \in Obj, o \notin Pointers(s), base.heap[o] # NULL,
         Len(base.heap[o].body.ents) <= MaxHits,
         \A j \in Keys : s.tab[j] # NULL => base.heap[s.tab[j].ptr] = s.heap[s.tab[j].ptr],
         NEW k \in Keys, NEW ns \in BOOLEAN, NEW w \in BOOLEAN
  PROVE  LET r == NewEntry(base, o, k, ns, w)
         IN  /\ Sound(r) /\ SameBut(s, r, k)
             /\ r.tab[k] # NULL /\ r.heap[r.tab[k].ptr].body = base.heap[o].body
             /\ s.tab[k] = NULL /\ Filed(s) => Filed(r)
<1> DEFINE r == NewEntry(base, o, k, ns, w)
           file == ~ns /\ w
           f == [setid |-> k, body |-> base.heap[o].body]
           e == StoredEntry(o, f, file)
<1>1. NewEntryIs(base, o, k, file, r)
  BY NewEntryFields
<1> HIDE DEF r
<1>2. /\ r \in AnyStore /\ f \in Result /\ e \in result_set_data
      /\ r.tab = [s.tab EXCEPT ![k] = e]
      /\ r.heap = [base.heap EXCEPT ![o] = f]
      /\ r.up = base.up
      /\ r.orphan <=> s.orphan \/ (s.tab[k] # NULL /\ s.tab[k].disk # NULL)
  BY <1>1 DEF NewEntryIs
<1>3. /\ e.ptr = o /\ e.hits = Len(f.body.ents)
      /\ e.really_stored = file /\ e.disk = IF file THEN f ELSE NULL
  BY DEF StoredEntry
<1>4. f.setid = k /\ f.body = base.heap[o].body
  OBVIOUS
<1>5. s \in AnyStore /\ s.tab \in [Keys -> result_set_data \cup {NULL}]
  BY StoreFields DEF Sound, AnyStore
<1>6. base.heap \in [Obj -> weighted_result \cup {NULL}]
  BY StoreFields DEF AnyStore
<1>7. e # NULL
  BY <1>2, Constants
<1> HIDE DEF e, f, file
<1>8. r.tab[k] = e /\ r.heap[o] = f
  BY <1>2, <1>5, <1>6
<1>9. SameBut(s, r, k)
  <2> SUFFICES ASSUME NEW j \in Keys, j # k PROVE SameAt(s, r, j)
    BY DEF SameBut
  <2>1. r.tab[j] = s.tab[j]
    BY <1>2, <1>5
  <2>2. ASSUME s.tab[j] # NULL
        PROVE  r.heap[s.tab[j].ptr] = s.heap[s.tab[j].ptr]
    <3>1. s.tab[j].ptr \in Obj /\ s.tab[j].ptr # o
      BY <2>2, HomeFacts, PointsTo
    <3>2. r.heap[s.tab[j].ptr] = base.heap[s.tab[j].ptr]
      BY <1>2, <1>6, <3>1
    <3> QED
      BY <2>2, <3>2
  <2> QED
    BY <2>1, <2>2 DEF SameAt
<1>10. Holds(r, k, o, f)
  BY <1>2, <1>3, <1>7, <1>8 DEF Holds
<1>11. Sound(r)
  BY <1>2, <1>4, <1>9, <1>10, EntrySound
<1>12. r.tab[k] # NULL /\ r.heap[r.tab[k].ptr].body = base.heap[o].body
  BY <1>3, <1>4, <1>7, <1>8
<1>13. ASSUME s.tab[k] = NULL, Filed(s) PROVE Filed(r)
  <2>1. ~r.orphan
    BY <1>2, <1>13 DEF Filed
  <2>2. ASSUME NEW j \in Keys, r.tab[j] # NULL, r.tab[j].disk # NULL
        PROVE  r.tab[j].really_stored
    <3>1. CASE j = k
      BY <1>3, <1>8, <2>2, <3>1
    <3>2. CASE j # k
      BY <1>9, <1>13, <2>2, <3>2 DEF SameBut, SameAt, Filed
    <3> QED
      BY <3>1, <3>2
  <2> QED
    BY <2>1, <2>2 DEF Filed
<1> QED
  BY <1>9, <1>11, <1>12, <1>13 DEF r

\* The entry of a name in use gets the set at o, which no entry has.
LEMMA ReplaceSound ==
  ASSUME NEW s, Sound(s), NEW o \in Obj, o \notin Pointers(s), s.heap[o] # NULL,
         Len(s.heap[o].body.ents) <= MaxHits, NEW k \in Keys, s.tab[k] # NULL
  PROVE  LET r == ReplaceEntry(s, o, k)
         IN  /\ Sound(r) /\ SameBut(s, r, k)
             /\ r.tab[k] # NULL /\ r.heap[r.tab[k].ptr].body = s.heap[o].body
             /\ Filed(s) => Filed(r)
<1> DEFINE r == ReplaceEntry(s, o, k)
           f == [setid |-> k, body |-> s.heap[o].body]
           e == ReplacedEntry(s.tab[k], o, f)
           p == s.tab[k].ptr
<1>1. s \in AnyStore /\ s.tab \in [Keys -> result_set_data \cup {NULL}]
  BY StoreFields DEF Sound, AnyStore
<1>2. ReplaceEntryIs(s, o, k, r)
  BY <1>1, ReplaceFields
<1> HIDE DEF r
<1>3. /\ r \in AnyStore /\ f \in Result
      /\ r.tab = [s.tab EXCEPT ![k] = e]
      /\ \A x \in Obj : r.heap[x] = IF x = p THEN NULL ELSE IF x = o THEN f ELSE s.heap[x]
      /\ r.up = s.up /\ r.orphan = s.orphan
  BY <1>2 DEF ReplaceEntryIs
<1>4. f.setid = k /\ f.body = s.heap[o].body
  OBVIOUS
<1> HIDE DEF f
<1>5. s.tab[k] \in result_set_data /\ s.up /\ o # p
  BY HomeFacts, PointsTo
<1>6. /\ e.ptr = o /\ e.hits = Len(f.body.ents)
      /\ e.really_stored = s.tab[k].really_stored /\ e.disk = s.tab[k].disk
  BY <1>5 DEF ReplacedEntry, result_set_data
<1>7. f.body \in Bodies
  BY <1>3 DEF Result
<1>8. Len(f.body.ents) \in Nat
  BY <1>7, BodyFields
<1>9. e \in result_set_data
  <2> DEFINE l == Len(f.body.ents)
  <2>1. e = [s.tab[k] EXCEPT !.ptr = o, !.hits = l]
    BY DEF ReplacedEntry
  <2> HIDE DEF l, e
  <2> QED
    BY <1>5, <1>8, <2>1 DEF result_set_data, l
<1>10. e # NULL
  BY <1>9, Constants
<1> HIDE DEF e
<1>11. r.tab[k] = e /\ r.heap[o] = f
  BY <1>1, <1>3, <1>5
<1>12. SameBut(s, r, k)
  <2> SUFFICES ASSUME NEW j \in Keys, j # k PROVE SameAt(s, r, j)
    BY DEF SameBut
  <2>1. r.tab[j] = s.tab[j]
    BY <1>1, <1>3
  <2>2. ASSUME s.tab[j] # NULL
        PROVE  r.heap[s.tab[j].ptr] = s.heap[s.tab[j].ptr]
    <3>1. s.tab[j].ptr \in Obj /\ s.tab[j].ptr # o
      BY <2>2, HomeFacts, PointsTo
    <3>2. s.tab[j].ptr # p
      BY <2>2, Apart
    <3> QED
      BY <1>3, <3>1, <3>2
  <2> QED
    BY <2>1, <2>2 DEF SameAt
<1>13. Holds(r, k, o, f)
  BY <1>6, <1>9, <1>10, <1>11 DEF Holds
<1>14. Sound(r)
  <2>1. r.up
    BY <1>3, <1>5
  <2>2. Len(f.body.ents) <= MaxHits
    BY <1>4
  <2> QED
    BY <1>3, <1>4, <1>12, <1>13, <2>1, <2>2, EntrySound
<1>15. r.tab[k] # NULL /\ r.heap[r.tab[k].ptr].body = s.heap[o].body
  BY <1>4, <1>6, <1>10, <1>11
<1>16. ASSUME Filed(s) PROVE Filed(r)
  <2>1. ~r.orphan
    BY <1>3, <1>16 DEF Filed
  <2>2. ASSUME NEW j \in Keys, r.tab[j] # NULL, r.tab[j].disk # NULL
        PROVE  r.tab[j].really_stored
    <3>1. CASE j = k
      BY <1>6, <1>11, <1>16, <2>2, <3>1 DEF Filed
    <3>2. CASE j # k
      BY <1>12, <1>16, <2>2, <3>2 DEF SameBut, SameAt, Filed
    <3> QED
      BY <3>1, <3>2
  <2> QED
    BY <2>1, <2>2 DEF Filed
<1> QED
  BY <1>12, <1>14, <1>15, <1>16 DEF r

\* The set at o may be stored under n: it is loose, or it is the set of an
\* entry, and then n is not the name of another one.
Storable(s, o, n) ==
  /\ o \in Obj /\ s.heap[o] # NULL
  /\ \/ Loose(s, o)
     \/ /\ FreeAddrs(s) # {}
        /\ \E j \in Keys : /\ s.tab[j] # NULL /\ s.tab[j].ptr = o
                           /\ Key[n] # j => s.tab[Key[n]] = NULL

\* The look-up before a new entry leaves the sets alone.
LEMMA CheckedSound ==
  ASSUME NEW s, Sound(s), NEW n \in Name
  PROVE  LET r == Checked(s, n)
         IN  /\ r \in AnyStore
             /\ r.tab = s.tab /\ r.heap = s.heap /\ r.up /\ r.orphan = s.orphan
             /\ FreeAddrs(r) = FreeAddrs(s) /\ Alloc(r) = Alloc(s)
<1> DEFINE r == Checked(s, n)
<1>1. s \in AnyStore
  BY DEF Sound, AnyStore
<1>2. r \in AnyStore /\ r.tab = s.tab /\ r.heap = s.heap /\ r.up = TRUE /\ r.orphan = s.orphan
  BY <1>1, CheckedFields
<1> HIDE DEF r
<1>3. FreeAddrs(r) = FreeAddrs(s)
  BY <1>2, SameFree
<1>4. Alloc(r) = Alloc(s)
  BY <1>3 DEF Alloc
<1> QED
  BY <1>2, <1>3, <1>4 DEF r

\* The state in which a new entry is made, and the address of its set: a set
\* that has a name is copied.
Copied(s, o, n) == IF NeedsCopy(s, o) THEN se_dup_result_set(Checked(s, n), o) ELSE Checked(s, n)

CopyAt(s, o) == IF NeedsCopy(s, o) THEN Alloc(s) ELSE o

\* The copy is a set of its own.
LEMMA CopySound ==
  ASSUME NEW s, Sound(s), NEW n \in Name, NEW o, Storable(s, o, n)
  PROVE  LET base == Copied(s, o, n)
             new  == CopyAt(s, o)
         IN  /\ base \in AnyStore
             /\ base.tab = s.tab /\ base.up /\ base.orphan = s.orphan
             /\ new \in Obj /\ new \notin Pointers(s)
             /\ base.heap[new] # NULL /\ base.heap[new].body = s.heap[o].body
             /\ \A j \in Keys : s.tab[j] # NULL =>
                  base.heap[s.tab[j].ptr] = s.heap[s.tab[j].ptr]
<1> DEFINE chk == Checked(s, n)
<1>1. /\ chk \in AnyStore
      /\ chk.tab = s.tab /\ chk.heap = s.heap /\ chk.up /\ chk.orphan = s.orphan
      /\ FreeAddrs(chk) = FreeAddrs(s) /\ Alloc(chk) = Alloc(s)
  BY CheckedSound
<1>2. o \in Obj /\ s.heap[o] # NULL
  BY DEF Storable
<1>3. CASE Loose(s, o)
  <2>1. ~NeedsCopy(s, o) /\ o \notin Pointers(s)
    BY <1>3 DEF Loose, NeedsCopy
  <2>2. Copied(s, o, n) = chk /\ CopyAt(s, o) = o
    BY <2>1 DEF Copied, CopyAt
  <2> HIDE DEF chk
  <2> QED
    BY <1>1, <1>2, <2>1, <2>2
<1>4. CASE ~Loose(s, o)
  <2>1. PICK j \in Keys : s.tab[j] # NULL /\ s.tab[j].ptr = o
    BY <1>4 DEF Storable
  <2>2. s.heap[o].setid = j /\ j # Unnamed
    BY <2>1, HomeFacts, Constants
  <2>3. NeedsCopy(s, o)
    BY <2>2 DEF NeedsCopy
  <2>4. FreeAddrs(s) # {}
    BY <1>4 DEF Storable
  <2> DEFINE d == se_dup_result_set(chk, o)
             a == Alloc(s)
  <2>5. Copied(s, o, n) = d /\ CopyAt(s, o) = a
    BY <2>3 DEF Copied, CopyAt
  <2> HIDE DEF chk
  <2>6. /\ d \in AnyStore
        /\ d.heap = [chk.heap EXCEPT ![Alloc(chk)] = chk.heap[o]]
        /\ d.tab = chk.tab /\ d.up = chk.up /\ d.orphan = chk.orphan
    BY <1>1, <1>2, <2>4, DupFields
  <2>7. a \in Obj /\ a \notin Pointers(s)
    BY <2>4, Fresh
  <2> HIDE DEF d, a
  <2>8. d.heap = [s.heap EXCEPT ![a] = s.heap[o]]
    BY <1>1, <2>6 DEF a
  <2>9. s.heap \in [Obj -> weighted_result \cup {NULL}]
    BY StoreFields DEF Sound, AnyStore
  <2>10. d.heap[a] = s.heap[o] /\ \A x \in Obj : x # a => d.heap[x] = s.heap[x]
    BY <2>7, <2>8, <2>9
  <2>11. ASSUME NEW i \in Keys, s.tab[i] # NULL
         PROVE  d.heap[s.tab[i].ptr] = s.heap[s.tab[i].ptr]
    <3>1. s.tab[i].ptr \in Obj /\ s.tab[i].ptr # a
      BY <2>7, <2>11, HomeFacts, PointsTo
    <3> QED
      BY <2>10, <3>1
  <2> QED
    BY <1>1, <1>2, <2>5, <2>6, <2>7, <2>10, <2>11
<1> QED
  BY <1>3, <1>4

\* se_store_result_set.
LEMMA StoreSound ==
  ASSUME NEW s, Sound(s), NEW n \in Name, NEW o, Storable(s, o, n),
         Len(s.heap[o].body.ents) <= MaxHits, NEW replace \in BOOLEAN
  PROVE  StoredAs(s, se_store_result_set(s, o, n, replace, nosave, TRUE).st, o, n, replace)
<1> DEFINE k == Key[n]
           id == s.heap[o].setid
           w == TRUE
           c == se_store_result_set(s, o, n, replace, nosave, w)
           put == NewEntry(Copied(s, o, n), CopyAt(s, o), k, nosave, w)
           kept == diagnostic_set(s, 21)
<1>1. k \in Keys /\ nosave \in BOOLEAN /\ w \in BOOLEAN
  BY Constants, ClientAssumption
<1>2. o \in Obj /\ s.heap[o] # NULL
  BY DEF Storable
<1>3. CASE n # EmptyName /\ id = k
  <2>1. c.st = s
    BY <1>3 DEF se_store_result_set
  <2>2. ~Loose(s, o)
    BY <1>1, <1>3, Constants DEF Loose
  <2>3. PICK j \in Keys : s.tab[j] # NULL /\ s.tab[j].ptr = o
    BY <2>2 DEF Storable
  <2>4. j = k
    BY <1>3, <2>3, HomeFacts
  <2> HIDE DEF c
  <2> QED
    BY <2>1, <2>3, <2>4 DEF StoredAs, SameBut, SameAt, c
<1>4. CASE ~(n # EmptyName /\ id = k) /\ se_check_result_set(s, n) = NULL
  <2>1. c.st = put
    BY <1>4 DEF se_store_result_set, Copied, CopyAt
  <2> DEFINE base == Copied(s, o, n)
             new == CopyAt(s, o)
  <2>2. /\ base \in AnyStore
        /\ base.tab = s.tab /\ base.up /\ base.orphan = s.orphan
        /\ new \in Obj /\ new \notin Pointers(s)
        /\ base.heap[new] # NULL /\ base.heap[new].body = s.heap[o].body
        /\ \A j \in Keys : s.tab[j] # NULL =>
             base.heap[s.tab[j].ptr] = s.heap[s.tab[j].ptr]
    BY CopySound
  <2> HIDE DEF base, new, c, w
  <2>3. put = NewEntry(base, new, k, nosave, w)
    BY DEF base, new
  <2> HIDE DEF put, k
  <2>4. /\ Sound(put) /\ SameBut(s, put, k)
        /\ put.tab[k] # NULL /\ put.heap[put.tab[k].ptr].body = base.heap[new].body
        /\ s.tab[k] = NULL /\ Filed(s) => Filed(put)
    BY <1>1, <2>2, <2>3, EnterSound
  <2>5. n # EmptyName => s.tab[k] = NULL
    BY <1>4 DEF se_check_result_set, k
  <2>6. put.heap[put.tab[k].ptr].body = s.heap[o].body
    BY <2>2, <2>4
  <2> QED
    BY <2>1, <2>4, <2>5, <2>6 DEF StoredAs, k, c, w
<1>5. CASE ~(n # EmptyName /\ id = k) /\ se_check_result_set(s, n) # NULL
  <2>1. n # EmptyName /\ id # k /\ s.tab[k] # NULL
    BY <1>5 DEF se_check_result_set
  <2>2. Loose(s, o)
    BY <2>1, HomeFacts DEF Storable
  <2>3. o \notin Pointers(s)
    BY <2>2 DEF Loose
  <2>4. CASE replace
    <3> DEFINE r == ReplaceEntry(s, o, k)
    <3>1. c.st = r
      BY <1>5, <2>1, <2>4 DEF se_store_result_set, MayReplace
    <3> HIDE DEF c, w, k
    <3>2. /\ Sound(r) /\ SameBut(s, r, k)
          /\ r.tab[k] # NULL /\ r.heap[r.tab[k].ptr].body = s.heap[o].body
          /\ Filed(s) => Filed(r)
      BY <1>1, <1>2, <2>1, <2>3, ReplaceSound
    <3> HIDE DEF r
    <3> QED
      BY <3>1, <3>2 DEF StoredAs, k, c, w
  <2>5. CASE ~replace
    <3>1. c.st = kept
      BY <1>5, <2>1, <2>5 DEF se_store_result_set, MayReplace
    <3>2. 21 \in Diagnostic
      BY DEF Diagnostic
    <3>3. Sound(kept) /\ kept.tab = s.tab /\ kept.heap = s.heap /\ kept.orphan = s.orphan
      BY <3>2, DiagSound
    <3> HIDE DEF c, w, k, kept
    <3>4. SameBut(s, kept, k) /\ SameAt(s, kept, k)
      BY <3>3 DEF SameBut, SameAt
    <3>5. Filed(s) => Filed(kept)
      BY <3>3 DEF Filed
    <3> QED
      BY <2>1, <2>5, <3>1, <3>3, <3>4, <3>5 DEF StoredAs, k, c, w
  <2> QED
    BY <2>4, <2>5
<1> QED
  BY <1>3, <1>4, <1>5

\* What a request leaves behind in memory is no change to the sets.
LEMMA CollectSound ==
  ASSUME NEW s, Sound(s)
  PROVE  LET r == Collect(s)
         IN  /\ Sound(r) /\ Kept(s, r)
             /\ r.tab = s.tab /\ r.diag = s.diag /\ r.up = s.up /\ r.orphan = s.orphan
<1> DEFINE r == Collect(s)
<1>1. s \in AnyStore
  BY DEF Sound, AnyStore
<1>2. /\ r \in AnyStore
      /\ \A x \in Obj : r.heap[x] = IF x \in Pointers(s) THEN s.heap[x] ELSE NULL
      /\ r.tab = s.tab /\ r.diag = s.diag /\ r.up = s.up /\ r.orphan = s.orphan
  BY <1>1, CollectFields
<1> HIDE DEF r
<1>3. ASSUME NEW k \in Keys, s.tab[k] # NULL
      PROVE  r.heap[s.tab[k].ptr] = s.heap[s.tab[k].ptr]
  <2>1. s.tab[k].ptr \in Obj /\ s.tab[k].ptr \in Pointers(s)
    BY <1>3, HomeFacts, PointsTo
  <2> QED
    BY <1>2, <2>1
<1>4. Sound(r) /\ Kept(s, r)
  BY <1>2, <1>3, Untouched
<1> QED
  BY <1>2, <1>4 DEF r

-----------------------------------------------------------------------------
(* Fetching records.                                                       *)

\* Records are fetched from the set of the name, if there is one.
Retrieved(s, n, last, fails, r) ==
  /\ Sound(r.st) /\ Kept(s, r.st)
  /\ r.st.tab = s.tab /\ r.st.heap = s.heap /\ r.st.orphan = s.orphan
  /\ s.tab[Key[n]] = NULL => ~r.ok /\ r.inside
  /\ s.tab[Key[n]] # NULL =>
       /\ r.ok <=> ~fails
       /\ r.inside <=> last <= s.tab[Key[n]].hits

\* Fetching changes nothing but the diagnostic.
LEMMA RetrieveSound ==
  ASSUME NEW s, Sound(s), NEW n \in Name, NEW start \in Nat, NEW number \in Nat,
         NEW fails \in BOOLEAN
  PROVE  Retrieved(s, n, start + number - 1, fails,
                   RetrieveRecords2(s, n, start, number, fails))
<1> DEFINE c == diagnostic_clear(s)
           g == se_get_result_set(c, n)
           d == diagnostic_set(g.st, 14)
           u == IF fails THEN d ELSE g.st
           r == RetrieveRecords2(s, n, start, number, fails)
           k == Key[n]
           last == start + number - 1
<1>1. Sound(c) /\ Kept(s, c) /\ c.tab = s.tab /\ c.heap = s.heap /\ c.orphan = s.orphan
  BY ClearSound
<1> HIDE DEF c
<1>2. Got(c, g, n)
  BY <1>1, GetSound
<1>3. r = IF g.set = NULL THEN [st |-> g.st, ok |-> FALSE, inside |-> TRUE]
          ELSE [st |-> u, ok |-> ~fails,
                inside |-> last <= Len(g.st.heap[g.set].body.ents)]
  BY DEF RetrieveRecords2, c
<1> HIDE DEF g, r
<1>4. /\ Sound(g.st) /\ Kept(c, g.st)
      /\ g.st.tab = s.tab /\ g.st.heap = s.heap /\ g.st.orphan = s.orphan
  BY <1>1, <1>2 DEF Got
<1>5. Kept(s, g.st)
  BY <1>1, <1>4, KeptTwice
<1>6. 14 \in Diagnostic
  BY DEF Diagnostic
<1>7. /\ Sound(d) /\ Kept(g.st, d)
      /\ d.tab = s.tab /\ d.heap = s.heap /\ d.orphan = s.orphan
  BY <1>4, <1>6, DiagSound
<1>8. Kept(s, d)
  BY <1>5, <1>7, KeptTwice
<1> HIDE DEF d
<1>9. /\ Sound(u) /\ Kept(s, u)
      /\ u.tab = s.tab /\ u.heap = s.heap /\ u.orphan = s.orphan
  BY <1>4, <1>5, <1>7, <1>8
<1> HIDE DEF u, last
<1>10. k \in Keys
  BY Constants
<1>11. CASE s.tab[k] = NULL
  <2>1. g.set = NULL
    BY <1>1, <1>2, <1>11 DEF Got
  <2> QED
    BY <1>3, <1>4, <1>5, <1>11, <2>1 DEF Retrieved, last, r
<1>12. CASE s.tab[k] # NULL
  <2>1. g.set = s.tab[k].ptr /\ g.set # NULL
    BY <1>1, <1>2, <1>10, <1>12, HomeFacts DEF Got
  <2>2. Len(g.st.heap[g.set].body.ents) = s.tab[k].hits
    BY <1>4, <1>10, <1>12, <2>1, HomeFacts
  <2>3. /\ r.st = u /\ (r.ok <=> ~fails)
        /\ r.inside <=> last <= Len(g.st.heap[g.set].body.ents)
    BY <1>3, <2>1
  <2> QED
    BY <1>9, <1>12, <2>2, <2>3 DEF Retrieved, last, r
<1> QED
  BY <1>11, <1>12

-----------------------------------------------------------------------------
(* Searches.                                                               *)

\* What is the same set by way of another store is the same set.
LEMMA SameSetTwice ==
  ASSUME NEW s, NEW r, NEW u, NEW k, SameSet(s, r, k), SameSet(r, u, k)
  PROVE  SameSet(s, u, k)
BY DEF SameSet

\* An entry that is left alone has the same set.
LEMMA SameAtSet ==
  ASSUME NEW s, Sound(s), NEW r, NEW k \in Keys, SameAt(s, r, k)
  PROVE  SameSet(s, r, k)
BY HomeFacts DEF SameAt, SameSet

\* A call that keeps the entries keeps their files.
LEMMA KeptFiled ==
  ASSUME NEW s, NEW r, Kept(s, r), Filed(s)
  PROVE  Filed(r)
BY DEF Kept, Filed

\* A search that fails before it stores a set.
SearchFailed(n) ==
  /\ Sound(st') /\ Kept(st, st')
  /\ cur' \in {cur, n} /\ cnt' = 0
  /\ \E replace \in BOOLEAN : resp' = SearchReply(n, replace, FALSE, 0, TRUE)
  /\ UNCHANGED <<names, conn>>

\* The answer to a search that has stored its set: a search that is told to
\* replace says the number of hits of the set that is stored.
SearchAnswer(n, replace, ok, count, inside) ==
  /\ cnt' = count
  /\ resp' = SearchReply(n, replace, ok, count, inside)
  /\ ~replace => "keep" \in Client
  /\ ok /\ replace => st'.tab[Key[n]].hits = count
  /\ ~ok => count = 0 /\ inside
  /\ ok /\ replace /\ "medium" \notin Client => inside

\* A search that stores its set.
SearchStored(n) ==
  /\ Sound(st')
  /\ \A j \in Keys \ {Key[n]} : SameSet(st, st', j)
  /\ st'.tab[Key[n]] # NULL
  /\ n # EmptyName /\ Filed(st) => Filed(st')
  /\ names' = names \/ (~Contains(names, n) /\ names' = Append(names, n))
  /\ cur' = n /\ conn' = conn
  /\ \E replace \in BOOLEAN, ok \in BOOLEAN, count \in 0..MaxHits, inside \in BOOLEAN :
       SearchAnswer(n, replace, ok, count, inside)

\* What a query has found may be stored under n by the clients modelled.
LEMMA FoundStorable ==
  ASSUME "rename" \notin Client, NEW n \in Name, NEW replace, NEW q, NEW want,
         ClientSearches(n, replace, q, want),
         NEW s, Sound(s), Roomy(s), s.tab = st.tab, NEW out, Found(s, q, out),
         out.set # NULL
  PROVE  /\ Storable(out.st, out.set, n)
         /\ out.st.heap[out.set].body \in Bodies
<1>1. CASE Loose(out.st, out.set)
  BY <1>1 DEF Loose, Storable
<1>2. CASE /\ q.kind = "set" /\ q.set \in Name
           /\ s.tab[Key[q.set]] # NULL
           /\ out.st = s /\ out.set = s.tab[Key[q.set]].ptr
  <2> DEFINE j == Key[q.set]
  <2>1. j \in Keys
    BY <1>2, Constants
  <2>2. /\ out.set \in Obj /\ s.heap[out.set] # NULL
        /\ s.heap[out.set].body \in Bodies
    BY <1>2, <2>1, HomeFacts
  <2>3. Key[n] # j => s.tab[Key[n]] = NULL
    BY <1>2 DEF ClientSearches
  <2>4. FreeAddrs(s) # {}
    BY DEF Roomy
  <2> QED
    BY <1>2, <2>1, <2>2, <2>3, <2>4 DEF Storable
<1> QED
  BY <1>1, <1>2 DEF Found

\* The end of a search that has stored its set as s.
LEMMA SearchEnds ==
  ASSUME NEW n \in Name, NEW s, Sound(s), s.tab[Key[n]] # NULL,
         \A j \in Keys \ {Key[n]} : SameSet(st, s, j),
         n # EmptyName /\ Filed(st) => Filed(s),
         NEW u, Sound(u), Kept(s, u), st' = Collect(u)
  PROVE  /\ Sound(st')
         /\ \A j \in Keys \ {Key[n]} : SameSet(st, st', j)
         /\ st'.tab = s.tab
         /\ n # EmptyName /\ Filed(st) => Filed(st')
<1>1. Sound(st') /\ Kept(u, st')
  BY CollectSound
<1>2. Kept(s, st')
  BY <1>1, KeptTwice
<1>3. st'.tab = s.tab /\ \A j \in Keys : SameSet(s, st', j)
  BY <1>2 DEF Kept
<1>4. \A j \in Keys \ {Key[n]} : SameSet(st, st', j)
  BY <1>3, SameSetTwice
<1>5. Filed(s) => Filed(st')
  BY <1>2, KeptFiled
<1> QED
  BY <1>1, <1>3, <1>4, <1>5

\* The number of records sent with a response.
LEMMA RecordsNumber ==
  ASSUME NEW count \in Nat, NEW want
  PROVE  /\ RecordsWithSearch(count, want) \in Nat
         /\ want # "medium" => RecordsWithSearch(count, want) <= count
BY ClientAssumption DEF RecordsWithSearch

\* The rest of a search, once the query has found a set.
LEMMA SearchFoundStores ==
  ASSUME Sound(st), Roomy(st), "rename" \notin Client,
         NEW n \in Name, NEW replace \in BOOLEAN, NEW q,
         NEW want, NEW fails \in BOOLEAN, ClientSearches(n, replace, q, want),
         NEW out, Found(diagnostic_clear(st), q, out), out.set # NULL,
         cur' = n, SearchFound(n, replace, want, fails, out)
  PROVE  SearchStored(n)
<1> DEFINE c == diagnostic_clear(st)
           k == Key[n]
           b == out.st.heap[out.set].body
           count == Len(b.ents)
           s == Stored(out, n, replace)
           number == RecordsWithSearch(count, want)
           r == RetrieveRecords2(s, n, 1, number, fails)
<1>1. Sound(c) /\ Kept(st, c) /\ c.tab = st.tab /\ c.heap = st.heap
  BY ClearSound
<1>2. Roomy(c)
  BY <1>1, SameFree DEF Roomy
<1>3. Storable(out.st, out.set, n) /\ b \in Bodies
  BY <1>1, <1>2, FoundStorable
<1>4. count \in Nat
  BY <1>3, BodyFields
<1>5. /\ count <= MaxHits
      /\ names' = IF count > 0 /\ ~Contains(names, n) THEN Append(names, n) ELSE names
      /\ IF number > 0 /\ ~r.ok THEN SearchError(r.st, n, replace)
         ELSE /\ st' = Collect(IF number > 0 THEN r.st ELSE s)
              /\ cnt' = count
              /\ resp' = SearchReply(n, replace, TRUE, count, number > 0 => r.inside)
              /\ UNCHANGED conn
  BY DEF SearchFound
<1>6. Sound(out.st) /\ Kept(c, out.st)
  BY DEF Found
<1>7. StoredAs(out.st, s, out.set, n, replace)
  BY <1>3, <1>5, <1>6, StoreSound DEF Stored
<1>8. k \in Keys
  BY Constants
<1> HIDE DEF c, s, b, number, r, count
<1>9. /\ Sound(s) /\ s.tab[k] # NULL
      /\ SameBut(out.st, s, k)
      /\ n # EmptyName /\ Filed(out.st) => Filed(s)
      /\ replace => s.heap[s.tab[k].ptr].body = b
  BY <1>7 DEF StoredAs, b
<1>10. Kept(st, out.st)
  BY <1>1, <1>6, KeptTwice
<1>11. \A j \in Keys \ {k} : SameSet(st, s, j)
  <2> SUFFICES ASSUME NEW j \in Keys, j # k PROVE SameSet(st, s, j)
    OBVIOUS
  <2>1. SameSet(out.st, s, j)
    BY <1>6, <1>9, SameAtSet DEF SameBut
  <2> QED
    BY <1>10, <2>1, SameSetTwice DEF Kept
<1>12. n # EmptyName /\ Filed(st) => Filed(s)
  BY <1>9, <1>10, KeptFiled
<1>13. replace => s.tab[k].hits = count
  BY <1>8, <1>9, HomeFacts DEF count
<1>14. number \in Nat /\ (want # "medium" => number <= count)
  BY <1>4, RecordsNumber DEF number
<1>15. Retrieved(s, n, 1 + number - 1, fails, r)
  BY <1>9, <1>14, RetrieveSound DEF r
<1>16. /\ Sound(r.st) /\ Kept(s, r.st)
       /\ r.inside <=> number <= s.tab[k].hits
  BY <1>9, <1>14, <1>15 DEF Retrieved
<1>17. names' = names \/ (~Contains(names, n) /\ names' = Append(names, n))
  BY <1>5
<1>18. Kept(s, s)
  BY DEF Kept, SameSet
<1>19. ~replace => "keep" \in Client
  BY DEF ClientSearches
<1>20. want = "medium" => "medium" \in Client
  BY DEF ClientSearches
<1>21. CASE number > 0 /\ ~r.ok
  <2>1. /\ st' = Collect(r.st) /\ cnt' = 0 /\ conn' = conn
        /\ resp' = SearchReply(n, replace, FALSE, 0, TRUE)
    BY <1>5, <1>21 DEF SearchError
  <2>2. /\ Sound(st')
        /\ \A j \in Keys \ {Key[n]} : SameSet(st, st', j)
        /\ st'.tab = s.tab
        /\ n # EmptyName /\ Filed(st) => Filed(st')
    BY <1>9, <1>11, <1>12, <1>16, <2>1, SearchEnds
  <2>3. SearchAnswer(n, replace, FALSE, 0, TRUE)
    BY <1>19, <2>1 DEF SearchAnswer
  <2>4. 0 \in 0..MaxHits
    BY ClientAssumption
  <2> QED
    BY <1>9, <1>17, <2>1, <2>2, <2>3, <2>4 DEF SearchStored
<1>22. CASE ~(number > 0 /\ ~r.ok)
  <2> DEFINE u == IF number > 0 THEN r.st ELSE s
             inside == number > 0 => r.inside
  <2>1. /\ st' = Collect(u) /\ cnt' = count /\ conn' = conn
        /\ resp' = SearchReply(n, replace, TRUE, count, inside)
    BY <1>5, <1>22
  <2>2. Sound(u) /\ Kept(s, u)
    BY <1>9, <1>16, <1>18
  <2> HIDE DEF u
  <2>3. /\ Sound(st')
        /\ \A j \in Keys \ {Key[n]} : SameSet(st, st', j)
        /\ st'.tab = s.tab
        /\ n # EmptyName /\ Filed(st) => Filed(st')
    BY <1>9, <1>11, <1>12, <2>1, <2>2, SearchEnds
  <2>4. replace /\ "medium" \notin Client => inside
    BY <1>13, <1>14, <1>16, <1>20
  <2>5. inside \in BOOLEAN
    OBVIOUS
  <2> HIDE DEF inside
  <2> DEFINE yes == TRUE
  <2>6. yes \in BOOLEAN /\ resp' = SearchReply(n, replace, yes, count, inside)
    BY <2>1
  <2>7. SearchAnswer(n, replace, yes, count, inside)
    BY <1>13, <1>19, <2>1, <2>3, <2>4 DEF SearchAnswer
  <2>8. count \in 0..MaxHits
    BY <1>4, <1>5, ClientAssumption
  <2> HIDE DEF yes
  <2> QED
    BY <1>9, <1>17, <2>1, <2>3, <2>5, <2>6, <2>7, <2>8 DEF SearchStored
<1> QED
  BY <1>21, <1>22

\* The store of a new process.
LEMMA StartFields ==
  /\ EmptyStore \in AnyStore
  /\ \A k \in Keys : EmptyStore.tab[k] = NULL
  /\ EmptyStore.orphan = FALSE
<1> DEFINE t == [k \in Keys |-> NULL]
           h == [o \in Obj |-> NULL]
<1>1. t \in [Keys -> result_set_data \cup {NULL}] /\ h \in [Obj -> weighted_result \cup {NULL}]
  OBVIOUS
<1>2. \A k \in Keys : t[k] = NULL
  OBVIOUS
<1>3. EmptyStore = [tab |-> t, heap |-> h, diag |-> 0, up |-> FALSE, orphan |-> FALSE]
  BY DEF EmptyStore
<1>4. 0 \in Diagnostic
  BY DEF Diagnostic
<1> HIDE DEF t, h
<1> QED
  BY <1>1, <1>2, <1>3, <1>4 DEF AnyStore, Store_t

\* A store without entries is sound.
LEMMA NoEntriesSound ==
  ASSUME NEW r \in AnyStore, \A k \in Keys : r.tab[k] = NULL
  PROVE  Sound(r)
BY DEF Sound, AtHome, AnyStore

\* What a crash leaves is sound.
LEMMA EmptySound ==
  ASSUME NEW lost \in BOOLEAN
  PROVE  LET r == [EmptyStore EXCEPT !.orphan = lost]
         IN  /\ Sound(r)
             /\ \A k \in Keys : r.tab[k] = NULL
<1> DEFINE r == [EmptyStore EXCEPT !.orphan = lost]
<1>1. r \in AnyStore /\ r.tab = EmptyStore.tab
  BY StartFields DEF AnyStore, Store_t
<1> HIDE DEF r
<1> QED
  BY <1>1, StartFields, NoEntriesSound DEF r

\* So is the store of a new process.
LEMMA StartSound ==
  /\ Sound(EmptyStore) /\ Filed(EmptyStore)
  /\ \A k \in Keys : EmptyStore.tab[k] = NULL
BY StartFields, NoEntriesSound DEF Filed

\* The process has died: nothing is left in memory.
Crashed(n) ==
  /\ Sound(st') /\ \A k \in Keys : st'.tab[k] = NULL
  /\ conn' = "crashed" /\ resp' = NoResp /\ cur' = n
  /\ UNCHANGED <<names, cnt>>

\* Under Room, two addresses are free.
LEMMA RoomFree ==
  ASSUME Room
  PROVE  Roomy(st)
BY TwoFree DEF Room, Roomy

\* The error path of a search.
LEMMA ErrorFails ==
  ASSUME Sound(st), NEW n, NEW replace \in BOOLEAN, NEW s, Sound(s), Kept(st, s),
         SearchError(s, n, replace), names' = names, cur' \in {cur, n}
  PROVE  SearchFailed(n)
<1>1. /\ st' = Collect(s) /\ cnt' = 0 /\ conn' = conn
      /\ resp' = SearchReply(n, replace, FALSE, 0, TRUE)
  BY DEF SearchError
<1>2. Sound(st') /\ Kept(s, st')
  BY <1>1, CollectSound
<1>3. Kept(st, st')
  BY <1>2, KeptTwice
<1> QED
  BY <1>1, <1>2, <1>3 DEF SearchFailed

\* A search is refused, fails, stores a set, or kills the process.
LEMMA SearchEffect ==
  ASSUME Sound(st), "rename" \notin Client, HandleSearchRequest
  PROVE  /\ conn = "open"
         /\ \E n \in Name : SearchFailed(n) \/ SearchStored(n) \/ Crashed(n)
<1>1. PICK n \in Name, replace \in BOOLEAN :
        /\ conn = "open" /\ Room
        /\ \/ \E known \in BOOLEAN : SearchRefused(n, replace, known)
           \/ \E q \in Query, want \in {"none", "small", "medium"}, fails \in BOOLEAN :
                /\ fails => want # "none"
                /\ ClientSearches(n, replace, q, want)
                /\ SearchAccepted(n, replace, q, want, fails)
  BY DEF HandleSearchRequest
<1>2. Roomy(st)
  BY <1>1, RoomFree
<1>3. ASSUME NEW known \in BOOLEAN, SearchRefused(n, replace, known)
      PROVE  SearchFailed(n)
  <2> DEFINE code == RefusedBy(n, replace, known)
             d == diagnostic_set(st, code)
  <2>1. SearchError(d, n, replace) /\ names' = names /\ cur' = cur
    BY <1>3 DEF SearchRefused
  <2>2. code \in Diagnostic
    BY DEF RefusedBy, Diagnostic
  <2>3. Sound(d) /\ Kept(st, d)
    BY <2>2, DiagSound
  <2> HIDE DEF d
  <2> QED
    BY <2>1, <2>3, ErrorFails
<1>4. ASSUME NEW q \in Query, NEW want \in {"none", "small", "medium"},
             NEW fails \in BOOLEAN,
             ClientSearches(n, replace, q, want),
             SearchAccepted(n, replace, q, want, fails)
      PROVE  SearchFailed(n) \/ SearchStored(n) \/ Crashed(n)
  <2> DEFINE c == diagnostic_clear(st)
  <2>1. PICK out \in se_process_query(c, q) :
          IF out.dies THEN Crash
          ELSE IF out.set # NULL /\ out.st.diag = 0
          THEN SearchFound(n, replace, want, fails, out)
          ELSE SearchError(out.st, n, replace) /\ UNCHANGED names
    BY <1>4 DEF SearchAccepted
  <2>2. cur' = n
    BY <1>4 DEF SearchAccepted
  <2>3. Sound(c) /\ Kept(st, c) /\ c.tab = st.tab /\ c.heap = st.heap
    BY ClearSound
  <2>4. Roomy(c)
    BY <1>2, <2>3, SameFree DEF Roomy
  <2>5. Found(c, q, out)
    BY <2>3, <2>4, QueryFound
  <2>6. CASE out.dies
    <3> DEFINE lost == \E k \in Keys : st.tab[k] # NULL /\ st.tab[k].disk # NULL
    <3>1. /\ conn' = "crashed" /\ resp' = NoResp /\ names' = names /\ cnt' = cnt
          /\ st' = [EmptyStore EXCEPT !.orphan = lost]
      BY <2>1, <2>6 DEF Crash
    <3>2. lost \in BOOLEAN
      OBVIOUS
    <3> HIDE DEF lost
    <3>3. Sound(st') /\ \A k \in Keys : st'.tab[k] = NULL
      BY <3>1, <3>2, EmptySound
    <3> QED
      BY <2>2, <3>1, <3>3 DEF Crashed
  <2>7. CASE ~out.dies /\ out.set # NULL /\ out.st.diag = 0
    <3>1. SearchFound(n, replace, want, fails, out)
      BY <2>1, <2>7
    <3> QED
      BY <1>2, <1>4, <2>2, <2>5, <2>7, <3>1, SearchFoundStores
  <2>8. CASE ~out.dies /\ ~(out.set # NULL /\ out.st.diag = 0)
    <3>1. SearchError(out.st, n, replace) /\ names' = names
      BY <2>1, <2>8
    <3>2. Sound(out.st) /\ Kept(c, out.st)
      BY <2>5 DEF Found
    <3>3. Kept(st, out.st)
      BY <2>3, <3>2, KeptTwice
    <3> QED
      BY <2>2, <3>1, <3>2, <3>3, ErrorFails
  <2> QED
    BY <2>6, <2>7, <2>8
<1> QED
  BY <1>1, <1>3, <1>4

-----------------------------------------------------------------------------
(* The list of names.                                                      *)

\* No name is in the list twice.
NoTwice(l) == \A i, j \in 1..Len(l) : l[i] = l[j] => i = j

\* A name that is not there yet may be added.
LEMMA AddName ==
  ASSUME NEW l \in Seq(Name), NoTwice(l), NEW n \in Name, ~Contains(l, n)
  PROVE  LET r == Append(l, n)
         IN  /\ r \in Seq(Name) /\ NoTwice(r)
             /\ \A m \in Name : Contains(r, m) <=> Contains(l, m) \/ m = n
<1> DEFINE r == Append(l, n)
<1>1. /\ r \in Seq(Name) /\ Len(r) = Len(l) + 1 /\ r[Len(l) + 1] = n
      /\ \A i \in 1..Len(l) : r[i] = l[i]
  BY AppendProperties
<1>2. Len(l) \in Nat
  OBVIOUS
<1> HIDE DEF r
<1>3. NoTwice(r)
  BY <1>1, <1>2 DEF NoTwice, Contains
<1>4. \A m \in Name : Contains(r, m) <=> Contains(l, m) \/ m = n
  BY <1>1, <1>2 DEF Contains
<1> QED
  BY <1>1, <1>3, <1>4 DEF r

\* RemoveFirst takes away the element at some position.
LEMMA RemovedAt ==
  ASSUME NEW l \in Seq(Name), NoTwice(l), NEW n, Contains(l, n)
  PROVE  \E x \in 1..Len(l) : /\ l[x] = n
                              /\ RemoveFirst(l, n) = SubSeq(l, 1, x - 1) \o SubSeq(l, x + 1, Len(l))
<1> DEFINE I == {i \in 1..Len(l) : l[i] = n}
<1>1. PICK x \in 1..Len(l) : l[x] = n
  BY DEF Contains
<1>2. I = {x}
  BY <1>1 DEF NoTwice
<1>3. x \in Nat /\ x <= x
  BY <1>1
<1>4. Min({x}) = x
  BY <1>3 DEF Min
<1>5. RemoveFirst(l, n) = RemoveAt(l, IF I # {} THEN Min(I) ELSE 0)
  BY <1>1 DEF RemoveFirst, SelectInSeq
<1> HIDE DEF I
<1>6. RemoveFirst(l, n) = RemoveAt(l, x)
  BY <1>2, <1>4, <1>5
<1> QED
  BY <1>1, <1>6 DEF RemoveAt

\* The list without one of its names.
LEMMA RemoveName ==
  ASSUME NEW l \in Seq(Name), NoTwice(l), NEW n \in Name, Contains(l, n)
  PROVE  LET r == RemoveFirst(l, n)
         IN  /\ r \in Seq(Name) /\ NoTwice(r)
             /\ \A m \in Name : Contains(r, m) <=> Contains(l, m) /\ m # n
<1> DEFINE r == RemoveFirst(l, n)
           L == Len(l)
<1>1. PICK x \in 1..L : /\ l[x] = n
                        /\ r = SubSeq(l, 1, x - 1) \o SubSeq(l, x + 1, L)
  BY RemovedAt
<1>2. L \in Nat /\ x \in Nat /\ x - 1 \in Int /\ x + 1 \in Int /\ 1 \in Int
  OBVIOUS
<1>3. \A i \in 1..L : l[i] \in Name
  BY ElementOfSeq
<1> DEFINE a == SubSeq(l, 1, x - 1)
           b == SubSeq(l, x + 1, L)
<1>4. /\ a \in Seq(Name) /\ Len(a) = x - 1
      /\ \A i \in 1..(x - 1) : a[i] = l[i]
  <2>1. \A i \in 1..(x - 1) : l[i] \in Name
    BY <1>2, <1>3
  <2>2. /\ a \in Seq(Name) /\ Len(a) = IF 1 <= x - 1 THEN (x - 1) - 1 + 1 ELSE 0
        /\ \A i \in 1..((x - 1) - 1 + 1) : a[i] = l[1 + i - 1]
    BY <1>2, <2>1, SubSeqProperties
  <2> HIDE DEF a
  <2>3. Len(a) = x - 1
    BY <1>1, <1>2, <2>2
  <2>4. ASSUME NEW i \in 1..(x - 1) PROVE a[i] = l[i]
    <3>1. i \in 1..((x - 1) - 1 + 1) /\ 1 + i - 1 = i
      BY <1>2
    <3> QED
      BY <2>2, <3>1
  <2> QED
    BY <2>2, <2>3, <2>4
<1>5. /\ b \in Seq(Name) /\ Len(b) = L - x
      /\ \A i \in 1..(L - x) : b[i] = l[x + i]
  <2>1. \A i \in (x + 1)..L : l[i] \in Name
    BY <1>2, <1>3
  <2>2. /\ b \in Seq(Name) /\ Len(b) = IF x + 1 <= L THEN L - (x + 1) + 1 ELSE 0
        /\ \A i \in 1..(L - (x + 1) + 1) : b[i] = l[(x + 1) + i - 1]
    BY <1>2, <2>1, SubSeqProperties
  <2> HIDE DEF b
  <2>3. Len(b) = L - x
    BY <1>1, <1>2, <2>2
  <2>4. ASSUME NEW i \in 1..(L - x) PROVE b[i] = l[x + i]
    <3>1. i \in 1..(L - (x + 1) + 1) /\ (x + 1) + i - 1 = x + i
      BY <1>2
    <3> QED
      BY <2>2, <3>1
  <2> QED
    BY <2>2, <2>3, <2>4
<1> HIDE DEF a, b, r, L
<1>6. /\ r \in Seq(Name) /\ Len(r) = Len(a) + Len(b)
      /\ \A i \in 1..(Len(a) + Len(b)) : r[i] = IF i <= Len(a) THEN a[i] ELSE b[i - Len(a)]
  BY <1>1, <1>4, <1>5, ConcatProperties DEF a, b
<1>7. Len(r) = L - 1
  BY <1>2, <1>4, <1>5, <1>6
<1>8. ASSUME NEW i \in 1..(L - 1)
      PROVE  r[i] = IF i < x THEN l[i] ELSE l[i + 1]
  <2>1. i \in 1..(Len(a) + Len(b))
    BY <1>2, <1>4, <1>5
  <2>2. CASE i < x
    <3>1. i <= Len(a) /\ i \in 1..(x - 1)
      BY <1>2, <1>4, <2>2
    <3> QED
      BY <1>4, <1>6, <2>1, <2>2, <3>1
  <2>3. CASE ~(i < x)
    <3>1. ~(i <= Len(a)) /\ i - Len(a) \in 1..(L - x) /\ x + (i - Len(a)) = i + 1
      BY <1>1, <1>2, <1>4, <2>3
    <3> QED
      BY <1>5, <1>6, <2>1, <2>3, <3>1
  <2> QED
    BY <2>2, <2>3
<1>9. NoTwice(r)
  <2> SUFFICES ASSUME NEW i \in 1..(L - 1), NEW j \in 1..(L - 1), r[i] = r[j] PROVE i = j
    BY <1>7 DEF NoTwice
  <2> DEFINE f(y) == IF y < x THEN y ELSE y + 1
  <2>1. f(i) \in 1..L /\ f(j) \in 1..L /\ r[i] = l[f(i)] /\ r[j] = l[f(j)]
    BY <1>2, <1>8
  <2>2. f(i) = f(j)
    BY <2>1 DEF NoTwice, L
  <2> QED
    BY <1>2, <2>2
<1>10. ASSUME NEW m \in Name PROVE Contains(r, m) <=> Contains(l, m) /\ m # n
  <2>1. ASSUME NEW i \in 1..(L - 1), r[i] = m PROVE Contains(l, m) /\ m # n
    <3> DEFINE y == IF i < x THEN i ELSE i + 1
    <3>1. y \in 1..L /\ y # x /\ l[y] = m
      BY <1>2, <1>8, <2>1
    <3> HIDE DEF y
    <3> QED
      BY <1>1, <3>1 DEF Contains, NoTwice, L
  <2>2. ASSUME NEW y \in 1..L, l[y] = m, m # n PROVE \E i \in 1..(L - 1) : r[i] = m
    <3>1. y # x
      BY <1>1, <2>2
    <3>2. CASE y < x
      <4>1. y \in 1..(L - 1) /\ r[y] = m
        BY <1>1, <1>2, <1>8, <2>2, <3>2
      <4> QED
        BY <4>1
    <3>3. CASE y > x
      <4>1. y - 1 \in 1..(L - 1) /\ ~(y - 1 < x) /\ (y - 1) + 1 = y
        BY <1>1, <1>2, <3>3
      <4>2. r[y - 1] = m
        BY <1>8, <2>2, <4>1
      <4> QED
        BY <4>1, <4>2
    <3> QED
      BY <1>2, <3>1, <3>2, <3>3
  <2> QED
    BY <1>7, <2>1, <2>2 DEF Contains, L
<1> QED
  BY <1>6, <1>9, <1>10 DEF r

-----------------------------------------------------------------------------
(* Deletions.                                                              *)

\* What is left alone twice is left alone.
LEMMA SameAtTwice ==
  ASSUME NEW s, NEW r, NEW u, NEW k, SameAt(s, r, k), SameAt(r, u, k)
  PROVE  SameAt(s, u, k)
BY DEF SameAt

\* An entry whose set is where it was, in a store without a new entry.
LEMMA LeftSound ==
  ASSUME NEW s, Sound(s), NEW r \in AnyStore, r.up = s.up,
         \A j \in Keys : r.tab[j] = NULL \/ SameAt(s, r, j)
  PROVE  Sound(r)
<1>1. ASSUME NEW j \in Keys, r.tab[j] # NULL PROVE AtHome(r, j)
  <2>1. SameAt(s, r, j)
    BY <1>1
  <2>2. s.tab[j] # NULL
    BY <1>1, <2>1 DEF SameAt
  <2> QED
    BY <2>1, <2>2, HomeFacts DEF SameAt, AtHome
<1>2. ASSUME NEW j \in Keys, r.tab[j] = NULL PROVE AtHome(r, j)
  BY <1>2 DEF AtHome
<1> QED
  BY <1>1, <1>2 DEF Sound, AnyStore

\* d is s without entry k, unless the entry is left alone.
Deleted(s, d, k) ==
  /\ Sound(d) /\ d.up = s.up
  /\ SameBut(s, d, k)
  /\ d.tab[k] = NULL \/ SameAt(s, d, k)
  /\ Filed(s) => Filed(d)
  /\ s.up /\ d.diag = 0 => s.tab[k] # NULL /\ d.tab[k] = NULL

\* Removing an entry of a sound store leaves the others alone.
LEMMA RemoveSound ==
  ASSUME NEW s, Sound(s), NEW k \in Keys, s.tab[k] # NULL
  PROVE  Deleted(s, RemoveEntry(s, k), k)
<1> DEFINE r == RemoveEntry(s, k)
<1>1. s \in AnyStore /\ s.tab \in [Keys -> result_set_data \cup {NULL}]
  BY StoreFields DEF Sound, AnyStore
<1>2. /\ r \in AnyStore
      /\ r.tab = [s.tab EXCEPT ![k] = NULL]
      /\ \A x \in Obj : r.heap[x] = IF x = s.tab[k].ptr THEN NULL ELSE s.heap[x]
      /\ r.diag = s.diag /\ r.up = s.up
      /\ r.orphan <=> s.orphan \/ (s.tab[k].disk # NULL /\ ~s.tab[k].really_stored)
  BY <1>1, RemoveFields
<1> HIDE DEF r
<1>3. r.tab[k] = NULL
  BY <1>1, <1>2
<1>4. ASSUME NEW j \in Keys, j # k PROVE SameAt(s, r, j)
  <2>1. r.tab[j] = s.tab[j]
    BY <1>1, <1>2, <1>4
  <2>2. ASSUME s.tab[j] # NULL
        PROVE  r.heap[s.tab[j].ptr] = s.heap[s.tab[j].ptr]
    <3>1. s.tab[j].ptr \in Obj
      BY <2>2, HomeFacts
    <3>2. s.tab[j].ptr # s.tab[k].ptr
      BY <1>4, <2>2, Apart
    <3> QED
      BY <1>2, <3>1, <3>2
  <2> QED
    BY <2>1, <2>2 DEF SameAt
<1>5. Sound(r)
  BY <1>2, <1>3, <1>4, LeftSound
<1>6. ASSUME Filed(s) PROVE Filed(r)
  <2>1. ~r.orphan
    BY <1>2, <1>6 DEF Filed
  <2>2. ASSUME NEW j \in Keys, r.tab[j] # NULL, r.tab[j].disk # NULL
        PROVE  r.tab[j].really_stored
    BY <1>3, <1>4, <1>6, <2>2 DEF SameAt, Filed
  <2> QED
    BY <2>1, <2>2 DEF Filed
<1>7. SameBut(s, r, k)
  BY <1>4 DEF SameBut
<1> QED
  BY <1>2, <1>3, <1>5, <1>6, <1>7 DEF Deleted, r

\* se_delete_result_set.
LEMMA DeleteSound ==
  ASSUME NEW s, Sound(s), NEW n \in Name
  PROVE  Deleted(s, se_delete_result_set(s, n).st, Key[n])
<1> DEFINE k == Key[n]
           d == diagnostic_set(s, 30)
<1>1. k \in Keys
  BY Constants
<1>2. CASE ~s.up
  <2>1. se_delete_result_set(s, n).st = s
    BY <1>2 DEF se_delete_result_set
  <2> QED
    BY <1>2, <2>1 DEF Deleted, SameBut, SameAt
<1>3. CASE s.up /\ se_check_result_set(s, n) = NULL
  <2>1. se_delete_result_set(s, n).st = d
    BY <1>3 DEF se_delete_result_set
  <2>2. 30 \in Diagnostic
    BY DEF Diagnostic
  <2>3. /\ Sound(d) /\ d.tab = s.tab /\ d.heap = s.heap /\ d.up = s.up
        /\ d.orphan = s.orphan /\ d.diag = 30
    BY <2>2, DiagSound
  <2> HIDE DEF d
  <2>4. Filed(s) => Filed(d)
    BY <2>3 DEF Filed
  <2>5. SameBut(s, d, k) /\ SameAt(s, d, k)
    BY <2>3 DEF SameBut, SameAt
  <2> QED
    BY <2>1, <2>3, <2>4, <2>5 DEF Deleted
<1>4. CASE s.up /\ se_check_result_set(s, n) # NULL
  <2>1. s.tab[k] # NULL
    BY <1>4 DEF se_check_result_set
  <2>2. se_delete_result_set(s, n).st = RemoveEntry(s, k)
    BY <1>4 DEF se_delete_result_set
  <2> QED
    BY <1>1, <2>1, <2>2, RemoveSound
<1> QED
  BY <1>2, <1>3, <1>4

\* The variables of the loop over a list of names.
Removal == [st : AnyStore, names : Seq(Name), status : Seq(Nat), deleted : Nat, code : Nat]

\* Every name of the list l has a set.
AllStored(s, l) == \A m \in Name : Contains(l, m) => s.tab[Key[m]] # NULL

\* The state of the loop after i names of list.
Removed(list, i, acc) ==
  /\ acc \in Removal
  /\ Sound(acc.st) /\ acc.st.up = st.up
  /\ Filed(st) => Filed(acc.st)
  /\ NoTwice(acc.names)
  /\ \A m \in Name : Contains(acc.names, m) => Contains(names, m)
  /\ OneSpelling /\ AllStored(st, names) => AllStored(acc.st, acc.names)
  /\ \A k \in Keys : acc.st.tab[k] = NULL \/ SameAt(st, acc.st, k)
  /\ \A k \in Keys : (\A j \in 1..i : Key[list[j]] # k) => SameAt(st, acc.st, k)
  /\ acc.deleted <= i
  /\ acc.deleted = i =>
       \A j \in 1..i : st.tab[Key[list[j]]] # NULL /\ acc.st.tab[Key[list[j]]] = NULL

RemovalStart == [st |-> st, names |-> names, status |-> <<>>, deleted |-> 0, code |-> 0]

\* The loop starts with everything as it was.
LEMMA RemovalStarts ==
  ASSUME Sound(st), Listed, NEW list
  PROVE  Removed(list, 0, RemovalStart)
<1> DEFINE a == RemovalStart
<1>1. a.st = st /\ a.names = names /\ a.deleted = 0
  BY DEF RemovalStart
<1>2. st \in AnyStore /\ names \in Seq(Name) /\ NoTwice(names) /\ <<>> \in Seq(Nat)
  BY EmptySeq DEF Sound, AnyStore, Listed, NoTwice
<1>3. a \in Removal
  BY <1>2 DEF Removal, RemovalStart
<1>4. \A k : SameAt(st, st, k)
  BY DEF SameAt
<1> HIDE DEF a
<1> QED
  BY <1>1, <1>2, <1>3, <1>4 DEF Removed, a

\* The delete status is a small number.
LEMMA StatusType ==
  ASSUME NEW diag
  PROVE  DeleteStatus(diag) \in Nat
BY DEF DeleteStatus

\* One round of the loop.
LEMMA RoundSound ==
  ASSUME Sound(st), Listed, conn = "open", NEW list \in Seq(Name),
         NEW i \in Nat, i < Len(list), NEW acc, Removed(list, i, acc)
  PROVE  Removed(list, i + 1, RemoveOne(acc, list[i + 1]))
<1> DEFINE id == list[i + 1]
           k == Key[id]
           d == se_delete_result_set(acc.st, id)
           c == diagnostic_clear(d.st)
           s == DeleteStatus(d.st.diag)
           l == RemoveOne(acc, id)
<1>1. i + 1 \in 1..Len(list) /\ id \in Name /\ k \in Keys
  BY ElementOfSeq, Constants
<1>2. acc \in Removal /\ Sound(acc.st) /\ acc.st.up = st.up /\ NoTwice(acc.names)
  BY DEF Removed
<1>3. /\ acc.st \in AnyStore /\ acc.names \in Seq(Name) /\ acc.status \in Seq(Nat)
      /\ acc.deleted \in Nat /\ acc.code \in Nat
  BY <1>2 DEF Removal
<1>4. s \in Nat /\ 0 \in Nat
  BY StatusType
<1>5. Append(acc.status, s) \in Seq(Nat) /\ Append(acc.status, 0) \in Seq(Nat)
  BY <1>3, <1>4, AppendProperties
<1>6. \A j \in 1..i : j \in 1..(i + 1)
  OBVIOUS
<1>7. CASE ~Contains(acc.names, id)
  <2> DEFINE a == Append(acc.status, 0)
  <2>1. l = [acc EXCEPT !.status = a]
    BY <1>7 DEF RemoveOne
  <2> HIDE DEF a, l, k, id
  <2>2. l.st = acc.st /\ l.names = acc.names /\ l.deleted = acc.deleted
    BY <1>2, <2>1 DEF Removal
  <2>3. l \in Removal
    BY <1>2, <1>5, <2>1 DEF Removal, a
  <2>4. l.deleted <= i /\ l.deleted # i + 1
    BY <1>3, <2>2 DEF Removed
  <2>5. \A j \in Keys : (\A m \in 1..(i + 1) : Key[list[m]] # j) => SameAt(st, l.st, j)
    BY <1>6, <2>2 DEF Removed
  <2>6. l.deleted <= i + 1
    BY <1>3, <2>2, <2>4
  <2> QED
    BY <2>2, <2>3, <2>4, <2>5, <2>6 DEF Removed, l, id
<1>8. CASE Contains(acc.names, id)
  <2> DEFINE f == RemoveFirst(acc.names, id)
             n == acc.deleted + (IF d.st.diag = 0 THEN 1 ELSE 0)
             o == IF d.st.diag = 0 \/ s # 0 THEN s ELSE acc.code
             a == Append(acc.status, s)
  <2>1. l = [st |-> c, names |-> f, status |-> a, deleted |-> n, code |-> o]
    BY <1>8 DEF RemoveOne
  <2>2. Deleted(acc.st, d.st, k)
    BY <1>1, <1>2, DeleteSound
  <2> HIDE DEF d
  <2>3. Sound(d.st)
    BY <2>2 DEF Deleted
  <2>4. /\ Sound(c) /\ c.tab = d.st.tab /\ c.heap = d.st.heap /\ c.up = d.st.up
        /\ c.orphan = d.st.orphan
    BY <2>3, ClearSound
  <2>5. f \in Seq(Name) /\ NoTwice(f) /\ \A m \in Name : Contains(f, m) <=> Contains(acc.names, m) /\ m # id
    BY <1>1, <1>2, <1>3, <1>8, RemoveName
  <2>6. n \in Nat /\ o \in Nat /\ c \in AnyStore
    BY <1>3, <1>4, <2>4 DEF Sound, AnyStore
  <2> HIDE DEF l, c, f, n, o, a, s
  <2>7. l.st = c /\ l.names = f /\ l.deleted = n
    BY <2>1
  <2>8. l \in Removal
    BY <1>5, <2>1, <2>5, <2>6 DEF Removal, a
  <2>9. st.up
    <3>1. Contains(names, id)
      BY <1>1, <1>8 DEF Removed
    <3>2. names # <<>>
      BY <3>1 DEF Contains
    <3> QED
      BY <3>2 DEF Listed
  <2>10. Filed(st) => Filed(c)
    BY <2>2, <2>4 DEF Removed, Deleted, Filed
  <2>11. /\ \A j \in Keys \ {k} : SameAt(acc.st, c, j)
         /\ c.tab[k] = NULL \/ SameAt(acc.st, c, k)
    BY <2>2, <2>4 DEF Deleted, SameBut, SameAt
  <2> HIDE DEF k, id
  <2>12. ASSUME NEW j \in Keys PROVE c.tab[j] = NULL \/ SameAt(st, c, j)
    <3>1. CASE c.tab[j] = NULL
      BY <3>1
    <3>2. CASE c.tab[j] # NULL
      <4>1. SameAt(acc.st, c, j)
        BY <2>11, <3>2
      <4>2. acc.st.tab[j] # NULL
        BY <3>2, <4>1 DEF SameAt
      <4> QED
        BY <4>1, <4>2, SameAtTwice DEF Removed
    <3> QED
      BY <3>1, <3>2
  <2>13. ASSUME NEW j \in Keys, \A m \in 1..(i + 1) : Key[list[m]] # j
         PROVE  SameAt(st, c, j)
    <3>1. i + 1 \in 1..(i + 1) /\ j # k
      BY <2>13 DEF k, id
    <3>2. SameAt(acc.st, c, j)
      BY <2>11, <3>1
    <3>3. SameAt(st, acc.st, j)
      BY <1>6, <2>13 DEF Removed
    <3> QED
      BY <3>2, <3>3, SameAtTwice
  <2>14. ASSUME OneSpelling, AllStored(st, names) PROVE AllStored(c, f)
    <3> SUFFICES ASSUME NEW m \in Name, Contains(f, m) PROVE c.tab[Key[m]] # NULL
      BY DEF AllStored
    <3>1. Contains(acc.names, m) /\ m # id
      BY <2>5
    <3>2. acc.st.tab[Key[m]] # NULL
      BY <2>14, <3>1 DEF Removed, AllStored
    <3>3. Key[m] \in Keys /\ Key[m] # k
      BY <1>1, <2>14, <3>1, Constants DEF OneSpelling, k
    <3> QED
      BY <2>11, <3>2, <3>3 DEF SameAt
  <2>15. n <= i + 1
    BY <1>3 DEF Removed, n
  <2>16. ASSUME n = i + 1, NEW j \in 1..(i + 1)
         PROVE  st.tab[Key[list[j]]] # NULL /\ c.tab[Key[list[j]]] = NULL
    <3>1. acc.deleted = i /\ d.st.diag = 0
      BY <1>3, <2>16 DEF Removed, n
    <3>2. acc.st.tab[k] # NULL /\ c.tab[k] = NULL
      BY <1>2, <2>2, <2>4, <2>9, <3>1 DEF Deleted
    <3>3. st.tab[k] # NULL
      BY <1>1, <3>2 DEF Removed, SameAt
    <3>4. CASE j = i + 1
      BY <3>2, <3>3, <3>4 DEF k, id
    <3>5. CASE j # i + 1
      <4>1. j \in 1..i /\ j \in 1..Len(list)
        BY <1>1, <3>5
      <4>2. Key[list[j]] \in Keys
        BY <4>1, ElementOfSeq, Constants
      <4>3. st.tab[Key[list[j]]] # NULL /\ acc.st.tab[Key[list[j]]] = NULL
        BY <3>1, <4>1 DEF Removed
      <4>4. Key[list[j]] # k
        BY <3>2, <4>3
      <4>5. SameAt(acc.st, c, Key[list[j]])
        BY <2>11, <4>2, <4>4
      <4> QED
        BY <4>3, <4>5 DEF SameAt
    <3> QED
      BY <3>4, <3>5
  <2>17. \A m \in Name : Contains(f, m) => Contains(names, m)
    BY <2>5 DEF Removed
  <2>18. c.up = st.up
    BY <1>2, <2>2, <2>4 DEF Deleted
  <2> QED
    BY <2>4, <2>5, <2>7, <2>8, <2>10, <2>12, <2>13, <2>14, <2>15, <2>16, <2>17, <2>18 DEF Removed, l, id
<1> QED
  BY <1>7, <1>8

\* The states of the loop, from the first one on.
IsRemoval(list, N, r) ==
  r = [i \in 0..N |-> IF i = 0 THEN RemovalStart ELSE RemoveOne(r[i - 1], list[i])]

\* The loop has a state after every number of rounds.
LEMMA RemovalExists ==
  ASSUME NEW list, NEW N \in Nat
  PROVE  \E r : IsRemoval(list, N, r)
<1> DEFINE S == {n \in Nat : \E r : IsRemoval(list, n, r)}
<1>1. 0 \in S
  <2>1. IsRemoval(list, 0, [n \in 0..0 |-> RemovalStart])
    BY DEF IsRemoval
  <2> QED
    BY <2>1
<1>2. ASSUME NEW n \in Nat, n \in S PROVE n + 1 \in S
  <2>1. PICK f : IsRemoval(list, n, f)
    BY <1>2
  <2> DEFINE g == [m \in 0..(n + 1) |->
                     IF m = n + 1 THEN RemoveOne(f[n], list[m]) ELSE f[m]]
             h == [m \in 0..(n + 1) |->
                     IF m = 0 THEN RemovalStart ELSE RemoveOne(g[m - 1], list[m])]
  <2>2. ASSUME NEW m \in 0..(n + 1) PROVE g[m] = h[m]
    <3>1. CASE m = n + 1
      <4>1. m # 0 /\ m - 1 = n /\ n \in 0..(n + 1) /\ n # n + 1
        BY <3>1
      <4>2. g[n] = f[n] /\ g[m] = RemoveOne(f[n], list[m])
        BY <3>1, <4>1
      <4> QED
        BY <4>1, <4>2
    <3>2. CASE m # n + 1
      <4>1. m \in 0..n /\ g[m] = f[m]
        BY <3>2
      <4>2. f[m] = IF m = 0 THEN RemovalStart ELSE RemoveOne(f[m - 1], list[m])
        BY <2>1, <4>1 DEF IsRemoval
      <4>3. m # 0 => m - 1 \in 0..(n + 1) /\ m - 1 # n + 1 /\ g[m - 1] = f[m - 1]
        BY <4>1
      <4> QED
        BY <4>1, <4>2, <4>3
    <3> QED
      BY <3>1, <3>2
  <2>3. g = h
    BY <2>2
  <2>4. IsRemoval(list, n + 1, g)
    BY <2>3 DEF IsRemoval
  <2> QED
    BY <2>4
<1> HIDE DEF S
<1>3. N \in 0..N
  OBVIOUS
<1>4. N \in S
  BY <1>1, <1>2, <1>3, UpTo
<1> QED
  BY <1>4 DEF S

\* What the loop leaves after the whole list.
LEMMA RemovalSound ==
  ASSUME Sound(st), Listed, conn = "open", NEW list \in Seq(Name)
  PROVE  Removed(list, Len(list), RemoveListOfResultSets(list))
<1> DEFINE N == Len(list)
           r == CHOOSE f : IsRemoval(list, N, f)
           S == {n \in Nat : Removed(list, n, r[n])}
<1>1. N \in Nat
  OBVIOUS
<1>2. IsRemoval(list, N, r)
  BY <1>1, RemovalExists
<1>3. RemoveListOfResultSets(list) = r[N]
  BY DEF RemoveListOfResultSets, IsRemoval, RemovalStart
<1> HIDE DEF N, r
<1>4. r[0] = RemovalStart /\ \A n \in 1..N : r[n] = RemoveOne(r[n - 1], list[n])
  <2>1. 0 \in 0..N /\ \A n \in 1..N : n \in 0..N /\ n # 0
    BY <1>1
  <2> QED
    BY <1>2, <2>1 DEF IsRemoval
<1>5. 0 \in S
  BY <1>4, RemovalStarts
<1>6. ASSUME NEW n \in Nat, n < N, n \in S PROVE n + 1 \in S
  <2>1. n + 1 \in 1..N /\ (n + 1) - 1 = n
    BY <1>1, <1>6
  <2>2. r[n + 1] = RemoveOne(r[n], list[n + 1])
    BY <1>4, <2>1
  <2>3. n < Len(list) /\ Removed(list, n, r[n])
    BY <1>6 DEF N
  <2> QED
    BY <2>2, <2>3, RoundSound
<1>7. N \in 0..N
  BY <1>1
<1> HIDE DEF S
<1>8. N \in S
  BY <1>1, <1>5, <1>6, <1>7, UpTo
<1> QED
  BY <1>3, <1>8 DEF S, N

\* What a delete request leaves.
SetsDeleted(list) ==
  /\ list \in Seq(Name)
  /\ Sound(st') /\ st'.up = st.up
  /\ Filed(st) => Filed(st')
  /\ names' \in Seq(Name) /\ NoTwice(names')
  /\ \A m \in Name : Contains(names', m) => Contains(names, m)
  /\ OneSpelling /\ AllStored(st, names) => AllStored(st', names')
  /\ \A k \in Keys : st'.tab[k] = NULL \/ SameSet(st, st', k)
  /\ \A k \in Keys : (\A j \in 1..Len(list) : Key[list[j]] # k) => SameSet(st, st', k)
  /\ resp'.op = "delete" /\ resp'.list = list
  /\ resp'.overall = 0 =>
       \A j \in 1..Len(list) : st.tab[Key[list[j]]] # NULL /\ st'.tab[Key[list[j]]] = NULL

\* The request for one list of names.
LEMMA DeleteSetsSound ==
  ASSUME Sound(st), Listed, conn = "open", NEW list \in Seq(Name),
         NEW all \in BOOLEAN, DeleteSets(list, all)
  PROVE  SetsDeleted(list)
<1> DEFINE r == RemoveListOfResultSets(list)
           code == IF all /\ list = <<>> THEN 1
                   ELSE IF Len(list) > r.deleted THEN (IF all THEN 8 ELSE 9)
                   ELSE r.code
<1>1. /\ st' = Collect(r.st) /\ names' = r.names
      /\ resp' = [op |-> "delete", list |-> list, status |-> r.status, overall |-> code]
  BY DEF DeleteSets
<1>2. Removed(list, Len(list), r)
  BY RemovalSound
<1> HIDE DEF r
<1>3. /\ r \in Removal /\ Sound(r.st) /\ r.st.up = st.up
      /\ Filed(st) => Filed(r.st)
      /\ NoTwice(r.names)
      /\ \A m \in Name : Contains(r.names, m) => Contains(names, m)
      /\ OneSpelling /\ AllStored(st, names) => AllStored(r.st, r.names)
      /\ \A k \in Keys : r.st.tab[k] = NULL \/ SameAt(st, r.st, k)
      /\ \A k \in Keys : (\A j \in 1..Len(list) : Key[list[j]] # k) => SameAt(st, r.st, k)
      /\ r.deleted <= Len(list)
      /\ r.deleted = Len(list) =>
           \A j \in 1..Len(list) : st.tab[Key[list[j]]] # NULL /\ r.st.tab[Key[list[j]]] = NULL
  BY <1>2 DEF Removed
<1>4. /\ Sound(st') /\ Kept(r.st, st') /\ st'.tab = r.st.tab /\ st'.up = r.st.up
  BY <1>1, <1>3, CollectSound
<1>5. Filed(r.st) => Filed(st')
  BY <1>4, KeptFiled
<1>6. ASSUME NEW k \in Keys, SameAt(st, r.st, k) PROVE SameSet(st, st', k)
  BY <1>4, <1>6, SameAtSet, SameSetTwice DEF Kept
<1>7. r.names \in Seq(Name) /\ r.deleted \in Nat /\ Len(list) \in Nat
  BY <1>3 DEF Removal
<1>8. AllStored(r.st, r.names) => AllStored(st', names')
  BY <1>1, <1>4 DEF AllStored
<1>9. resp'.op = "delete" /\ resp'.list = list /\ resp'.overall = code
  BY <1>1
<1>10. code = 0 => r.deleted = Len(list)
  BY <1>3, <1>7
<1> HIDE DEF code
<1>11. resp'.overall = 0 =>
         \A j \in 1..Len(list) : st.tab[Key[list[j]]] # NULL /\ st'.tab[Key[list[j]]] = NULL
  BY <1>3, <1>4, <1>9, <1>10
<1>12. \A k \in Keys : st'.tab[k] = NULL \/ SameSet(st, st', k)
  BY <1>3, <1>4, <1>6
<1>13. \A k \in Keys : (\A j \in 1..Len(list) : Key[list[j]] # k) => SameSet(st, st', k)
  BY <1>3, <1>6
<1> QED
  BY <1>1, <1>3, <1>4, <1>5, <1>7, <1>8, <1>9, <1>11, <1>12, <1>13 DEF SetsDeleted

\* A delete request.
LEMMA DeleteEffect ==
  ASSUME Sound(st), Listed, HandleDeleteResultSetRequest
  PROVE  /\ conn = "open" /\ UNCHANGED <<cur, cnt, conn>>
         /\ \E list : SetsDeleted(list)
<1> DEFINE yes == TRUE
           no == FALSE
<1>1. conn = "open" /\ UNCHANGED <<cur, cnt, conn>>
  BY DEF HandleDeleteResultSetRequest
<1>2. \/ DeleteSets(names, yes)
      \/ \E n, m \in Name : DeleteSets(<<n>>, no) \/ DeleteSets(<<n, m>>, no)
  BY DEF HandleDeleteResultSetRequest
<1>3. yes \in BOOLEAN /\ no \in BOOLEAN
  OBVIOUS
<1> HIDE DEF yes, no
<1>4. CASE DeleteSets(names, yes)
  <2>1. names \in Seq(Name)
    BY DEF Listed
  <2> QED
    BY <1>1, <1>3, <1>4, <2>1, DeleteSetsSound
<1>5. ASSUME NEW n \in Name, DeleteSets(<<n>>, no) PROVE \E list : SetsDeleted(list)
  <2> DEFINE l == <<n>>
  <2>1. l \in Seq(Name)
    OBVIOUS
  <2> HIDE DEF l
  <2> QED
    BY <1>1, <1>3, <1>5, <2>1, DeleteSetsSound DEF l
<1>6. ASSUME NEW n \in Name, NEW m \in Name, DeleteSets(<<n, m>>, no)
      PROVE  \E list : SetsDeleted(list)
  <2> DEFINE l == <<n, m>>
  <2>1. l \in Seq(Name)
    OBVIOUS
  <2> HIDE DEF l
  <2> QED
    BY <1>1, <1>3, <1>6, <2>1, DeleteSetsSound DEF l
<1> QED
  BY <1>1, <1>2, <1>4, <1>5, <1>6

-----------------------------------------------------------------------------
(* Presents and scans.                                                     *)

\* se_get_result_hits leaves every entry.
LEMMA HitsSound ==
  ASSUME NEW s, Sound(s), NEW n \in Name
  PROVE  LET c == se_get_result_hits(s, n)
         IN  /\ Sound(c.st) /\ Kept(s, c.st) /\ c.st.tab = s.tab
             /\ s.tab[Key[n]] = NULL => c.hits = -1
             /\ s.tab[Key[n]] # NULL => c.hits = s.tab[Key[n]].hits
<1> DEFINE c == se_get_result_hits(s, n)
           u == [s EXCEPT !.up = TRUE]
           d == diagnostic_set(u, 30)
<1>1. s \in AnyStore
  BY DEF Sound, AnyStore
<1>2. CASE s.tab[Key[n]] = NULL
  <2>1. c.st = d /\ c.hits = -1
    BY <1>2 DEF se_get_result_hits
  <2>2. /\ u \in AnyStore
        /\ u.tab = s.tab /\ u.heap = s.heap /\ u.up = TRUE /\ u.orphan = s.orphan
    BY <1>1, UpFields
  <2>3. 30 \in Diagnostic
    BY DEF Diagnostic
  <2> HIDE DEF u, c
  <2>4. /\ d \in AnyStore
        /\ d.tab = s.tab /\ d.heap = s.heap /\ d.up = TRUE /\ d.orphan = s.orphan
    BY <2>2, <2>3, DiagFields
  <2> HIDE DEF d
  <2>5. Sound(d) /\ Kept(s, d)
    BY <2>4, Untouched
  <2> QED
    BY <1>2, <2>1, <2>4, <2>5 DEF c
<1>3. CASE s.tab[Key[n]] # NULL
  <2>1. c.st = s /\ c.hits = s.tab[Key[n]].hits
    BY <1>3 DEF se_get_result_hits
  <2> HIDE DEF c
  <2> QED
    BY <1>3, <2>1 DEF Kept, SameSet, c
<1> QED
  BY <1>2, <1>3

\* What a present leaves: every entry.  A client that presents its latest
\* set only is sent no record from beyond its end.
Presented ==
  /\ Sound(st') /\ Kept(st, st')
  /\ cur' \in Name \cup {cur}
  /\ resp'.op = "present"
  /\ "other" \notin Client => cur' = cur /\ (CountCovers => resp'.inside)
  /\ UNCHANGED <<names, cnt, conn>>

\* A present is refused or answered.
LEMMA PresentEffect ==
  ASSUME Sound(st), cnt \in 0..MaxHits, HandlePresentRequest
  PROVE  conn = "open" /\ Presented
<1>1. PICK n \in Name, start \in 0..MaxHits, number \in 0..MaxHits :
        /\ conn = "open"
        /\ n # cur /\ st.tab[Key[n]] # NULL => "other" \in Client
        /\ \/ \E valid \in BOOLEAN : PresentRefused(n, start, number, valid)
           \/ \E fails \in BOOLEAN : PresentAccepted(n, start, number, fails)
        /\ UNCHANGED <<names, cnt, conn>>
  BY DEF HandlePresentRequest
<1> DEFINE c == PresentCount(n)
           k == Key[n]
<1>2. /\ Sound(c.st) /\ Kept(st, c.st) /\ c.st.tab = st.tab
      /\ cur = n => c.hits = cnt
      /\ cur # n /\ st.tab[k] = NULL => c.hits = -1
  <2>1. CASE cur = n
    <3>1. c.st = st /\ c.hits = cnt
      BY <2>1 DEF PresentCount
    <3> HIDE DEF c
    <3> QED
      BY <2>1, <3>1 DEF Kept, SameSet
  <2>2. CASE cur # n
    <3>1. c = se_get_result_hits(st, n)
      BY <2>2 DEF PresentCount
    <3> HIDE DEF c
    <3> QED
      BY <2>2, <3>1, HitsSound
  <2> QED
    BY <2>1, <2>2
<1> HIDE DEF c
<1>3. ASSUME NEW s, Sound(s), Kept(st, s), NEW code \in Diagnostic,
             PresentReply(diagnostic_set(s, code), n, FALSE, TRUE), cur' = cur
      PROVE  Presented
  <2> DEFINE d == diagnostic_set(s, code)
  <2>1. st' = d /\ resp' = [op |-> "present", name |-> n, ok |-> FALSE, inside |-> TRUE]
    BY <1>3 DEF PresentReply
  <2>2. Sound(d) /\ Kept(s, d)
    BY <1>3, DiagSound
  <2> HIDE DEF d
  <2>3. Kept(st, d)
    BY <1>3, <2>2, KeptTwice
  <2> QED
    BY <1>1, <1>3, <2>1, <2>2, <2>3 DEF Presented
<1>4. 106 \in Diagnostic /\ 30 \in Diagnostic /\ 13 \in Diagnostic
  BY DEF Diagnostic
<1>5. Kept(st, st)
  BY DEF Kept, SameSet
<1>6. ASSUME NEW valid \in BOOLEAN, PresentRefused(n, start, number, valid)
      PROVE  Presented
  <2>1. /\ \/ PresentReply(diagnostic_set(st, 106), n, FALSE, TRUE)
           \/ PresentReply(diagnostic_set(c.st, 30), n, FALSE, TRUE)
           \/ PresentReply(diagnostic_set(c.st, 13), n, FALSE, TRUE)
        /\ cur' = cur
    BY <1>6 DEF PresentRefused, c
  <2> QED
    BY <1>2, <1>3, <1>4, <1>5, <2>1
<1>7. ASSUME NEW fails \in BOOLEAN, PresentAccepted(n, start, number, fails)
      PROVE  Presented
  <2> DEFINE r == RetrieveRecords2(c.st, n, start, number, fails)
             last == start + number - 1
             inside == r.ok => r.inside
  <2>1. /\ c.hits >= 0 /\ ~OutOfRange(start, number, c.hits)
        /\ cur' = n /\ PresentReply(r.st, n, r.ok, inside)
    BY <1>7 DEF PresentAccepted, c
  <2>2. start \in Nat /\ number \in Nat
    BY ClientAssumption
  <2>3. Retrieved(c.st, n, last, fails, r)
    BY <1>2, <2>2, RetrieveSound
  <2> HIDE DEF r
  <2>4. Sound(r.st) /\ Kept(c.st, r.st)
    BY <2>3 DEF Retrieved
  <2>5. Kept(st, r.st)
    BY <1>2, <2>4, KeptTwice
  <2>6. st' = r.st /\ resp'.op = "present" /\ resp'.inside = inside
    BY <2>1 DEF PresentReply
  <2>7. ASSUME "other" \notin Client PROVE cur' = cur /\ (CountCovers => inside)
    <3>1. cur = n
      BY <1>1, <1>2, <2>1, <2>7
    <3>2. start + number <= cnt + 1
      BY <1>2, <2>1, <2>2, <3>1, ClientAssumption DEF OutOfRange
    <3>3. ASSUME CountCovers PROVE inside
      <4>1. CASE st.tab[k] = NULL
        BY <1>2, <2>3, <4>1 DEF Retrieved
      <4>2. CASE st.tab[k] # NULL
        <5>1. cnt <= st.tab[k].hits
          BY <3>1, <3>3, <4>2 DEF CountCovers
        <5>2. k \in Keys /\ st.tab[k].hits \in Nat
          BY <4>2, HomeFacts, EntryFields, Constants
        <5>3. last <= st.tab[k].hits
          BY <2>2, <3>2, <5>1, <5>2
        <5> QED
          BY <1>2, <2>3, <4>2, <5>3 DEF Retrieved
      <4> QED
        BY <4>1, <4>2
    <3> QED
      BY <2>1, <3>1, <3>3
  <2> HIDE DEF inside
  <2> QED
    BY <1>1, <2>1, <2>4, <2>5, <2>6, <2>7 DEF Presented
<1> QED
  BY <1>1, <1>6, <1>7

\* A scan changes nothing but the diagnostic.
LEMMA ScanEffect ==
  ASSUME Sound(st), HandleScanRequest
  PROVE  /\ conn = "open" /\ UNCHANGED <<names, cur, cnt, conn>>
         /\ Sound(st') /\ Kept(st, st') /\ st'.up = st.up
         /\ resp'.op = "scan"
<1>1. PICK outcome \in {"done", "no_index", "no_database"} :
        /\ st' = [st EXCEPT !.diag = ScanDiagnostic(outcome)]
        /\ resp'.op = "scan"
  BY DEF HandleScanRequest
<1> DEFINE code == ScanDiagnostic(outcome)
<1>2. st.diag \in Diagnostic
  BY StoreFields DEF Sound
<1>3. 114 \in Diagnostic /\ 109 \in Diagnostic
  BY DEF Diagnostic
<1>4. code \in Diagnostic
  BY <1>2, <1>3 DEF ScanDiagnostic
<1>5. st' = diagnostic_set(st, code)
  BY <1>1 DEF diagnostic_set
<1> HIDE DEF code
<1>6. Sound(st') /\ Kept(st, st') /\ st'.up = st.up
  BY <1>4, <1>5, DiagSound
<1> QED
  BY <1>1, <1>6 DEF HandleScanRequest

-----------------------------------------------------------------------------
(* Sorts.                                                                  *)

\* The names of the input sets of a sort.
LEMMA InputNames ==
  ASSUME NEW ins \in [1..1 -> Name] \cup [1..2 -> Name]
  PROVE  /\ ins[1] \in Name /\ 1 \in DOMAIN ins
         /\ \/ Len(ins) = 1
            \/ Len(ins) = 2 /\ ins[2] \in Name /\ 2 \in DOMAIN ins
<1>1. ASSUME NEW N \in Nat, ins \in [1..N -> Name]
      PROVE  Len(ins) = N /\ DOMAIN ins = 1..N /\ \A i \in 1..N : ins[i] \in Name
  <2>1. ins \in Seq(Name)
    BY <1>1, IsASeq
  <2>2. DOMAIN ins = 1..N
    BY <1>1
  <2>3. Len(ins) = N
    BY <1>1, <2>1, <2>2, LenProperties
  <2> QED
    BY <1>1, <2>2, <2>3
<1>2. 1 \in Nat /\ 2 \in Nat /\ 1 \in 1..1 /\ 1 \in 1..2 /\ 2 \in 1..2
  OBVIOUS
<1>3. CASE ins \in [1..1 -> Name]
  <2>1. Len(ins) = 1 /\ DOMAIN ins = 1..1 /\ \A i \in 1..1 : ins[i] \in Name
    BY <1>1, <1>2, <1>3
  <2> QED
    BY <1>2, <2>1
<1>4. CASE ins \in [1..2 -> Name]
  <2>1. Len(ins) = 2 /\ DOMAIN ins = 1..2 /\ \A i \in 1..2 : ins[i] \in Name
    BY <1>1, <1>2, <1>4
  <2> QED
    BY <1>2, <2>1
<1> QED
  BY <1>3, <1>4

\* The input sets are those of one or two entries, if all are there.
GotInputs(ins, i) ==
  /\ Sound(i.st) /\ Kept(st, i.st)
  /\ i.st.tab = st.tab /\ i.st.heap = st.heap
  /\ NULL \notin ToSet(i.sets) =>
       LET j == Key[ins[1]]
           k == Key[ins[2]]
       IN  /\ st.tab[j] # NULL
           /\ \/ i.sets = <<st.tab[j].ptr>>
              \/ /\ 2 \in DOMAIN ins /\ ins[2] \in Name /\ st.tab[k] # NULL
                 /\ i.sets = <<st.tab[j].ptr, st.tab[k].ptr>>

\* The inputs of a sort.
LEMMA InputsSound ==
  ASSUME Sound(st), NEW ins \in [1..1 -> Name] \cup [1..2 -> Name]
  PROVE  GotInputs(ins, Inputs(ins))
<1> DEFINE c == diagnostic_clear(st)
           g == se_get_result_set(c, ins[1])
           h == se_get_result_set(g.st, ins[2])
           i == Inputs(ins)
<1>1. Sound(c) /\ Kept(st, c) /\ c.tab = st.tab /\ c.heap = st.heap
  BY ClearSound
<1>2. i = IF g.set = NULL \/ Len(ins) = 1 THEN [st |-> g.st, sets |-> <<g.set>>]
          ELSE [st |-> h.st, sets |-> <<g.set, h.set>>]
  BY DEF Inputs
<1> HIDE DEF c
<1>3. Got(c, g, ins[1])
  BY <1>1, InputNames, GetSound
<1> HIDE DEF g, i
<1>4. Sound(g.st) /\ Kept(c, g.st) /\ g.st.tab = st.tab /\ g.st.heap = st.heap
  BY <1>1, <1>3 DEF Got
<1>5. Kept(st, g.st)
  BY <1>1, <1>4, KeptTwice
<1>6. g.set # NULL => st.tab[Key[ins[1]]] # NULL /\ g.set = st.tab[Key[ins[1]]].ptr
  BY <1>1, <1>3 DEF Got
<1>7. CASE g.set = NULL \/ Len(ins) = 1
  <2> DEFINE l == <<g.set>>
  <2>1. i.st = g.st /\ i.sets = l
    BY <1>2, <1>7
  <2>2. ToSet(l) = {g.set}
    BY DEF ToSet
  <2>3. NULL \notin ToSet(i.sets) => g.set # NULL
    BY <2>1, <2>2
  <2> QED
    BY <1>4, <1>5, <1>6, <2>1, <2>3 DEF GotInputs, i
<1>8. CASE ~(g.set = NULL \/ Len(ins) = 1)
  <2> DEFINE l == <<g.set, h.set>>
  <2>1. i.st = h.st /\ i.sets = l
    BY <1>2, <1>8
  <2>2. ins[2] \in Name /\ 2 \in DOMAIN ins
    BY <1>8, InputNames
  <2>3. Got(g.st, h, ins[2])
    BY <1>4, <2>2, GetSound
  <2> HIDE DEF h
  <2>4. Sound(h.st) /\ Kept(g.st, h.st) /\ h.st.tab = st.tab /\ h.st.heap = st.heap
    BY <1>4, <2>3 DEF Got
  <2>5. Kept(st, h.st)
    BY <1>5, <2>4, KeptTwice
  <2>6. h.set # NULL => st.tab[Key[ins[2]]] # NULL /\ h.set = st.tab[Key[ins[2]]].ptr
    BY <1>4, <2>3 DEF Got
  <2>7. h.set \in ToSet(l)
    <3>1. 2 \in DOMAIN l /\ l[2] = h.set
      OBVIOUS
    <3> QED
      BY <3>1 DEF ToSet
  <2>8. NULL \notin ToSet(i.sets) => h.set # NULL
    BY <2>1, <2>7
  <2> QED
    BY <1>6, <1>8, <2>1, <2>2, <2>4, <2>5, <2>6, <2>8 DEF GotInputs, i
<1> QED
  BY <1>7, <1>8

\* The set to sort is no smaller than the input, if there is only one.
Gathered(ins, m) ==
  /\ Sound(m.st) /\ Kept(st, m.st)
  /\ m.st.heap[m.set].body \in Bodies
  /\ FreeAddrs(m.st) # {}
  /\ st.tab[Key[ins[1]]] # NULL
  /\ (\A i \in DOMAIN ins : Key[ins[i]] = Key[ins[1]]) =>
       st.tab[Key[ins[1]]].hits <= Len(m.st.heap[m.set].body.ents)

\* The inputs are merged.
LEMMA GatherSound ==
  ASSUME Sound(st), Roomy(st), NEW ins \in [1..1 -> Name] \cup [1..2 -> Name],
         NEW i, GotInputs(ins, i), NULL \notin ToSet(i.sets), NEW m \in ToSort(i)
  PROVE  Gathered(ins, m)
<1> DEFINE j == Key[ins[1]]
           k == Key[ins[2]]
           o == st.tab[j].ptr
           p == st.tab[k].ptr
<1>1. /\ Sound(i.st) /\ Kept(st, i.st) /\ i.st.tab = st.tab /\ i.st.heap = st.heap
      /\ st.tab[j] # NULL
      /\ \/ i.sets = <<o>>
         \/ /\ 2 \in DOMAIN ins /\ ins[2] \in Name /\ st.tab[k] # NULL
            /\ i.sets = <<o, p>>
  BY DEF GotInputs
<1>2. j \in Keys
  BY InputNames, Constants
<1>3. /\ o \in Obj /\ st.heap[o].body \in Bodies
      /\ st.tab[j].hits = Len(st.heap[o].body.ents) /\ st.tab[j].hits \in Nat
  BY <1>1, <1>2, HomeFacts, EntryFields
<1>4. Roomy(i.st)
  BY <1>1, SameFree DEF Roomy
<1>5. CASE i.sets = <<o>>
  <2>1. m.st = i.st /\ m.set = o
    BY <1>5 DEF ToSort
  <2>2. FreeAddrs(i.st) # {}
    BY <1>4 DEF Roomy
  <2>3. m.st.heap[m.set] = st.heap[o]
    BY <1>1, <2>1
  <2>4. st.tab[j].hits <= Len(m.st.heap[m.set].body.ents)
    <3>1. Len(m.st.heap[m.set].body.ents) = st.tab[j].hits
      BY <1>3, <2>3
    <3> HIDE DEF j
    <3> QED
      BY <1>3, <3>1
  <2> HIDE DEF j, o
  <2> QED
    BY <1>1, <1>3, <2>1, <2>2, <2>3, <2>4 DEF Gathered, j
<1>6. CASE 2 \in DOMAIN ins /\ ins[2] \in Name /\ st.tab[k] # NULL /\ i.sets = <<o, p>>
  <2> DEFINE op == "or"
  <2>1. k \in Keys
    BY <1>6, Constants
  <2>2. m \in Merged(i.st, op, o, p)
    BY <1>6 DEF ToSort
  <2>3. m \in Merged(i.st, op, i.st.tab[j].ptr, i.st.tab[k].ptr)
    BY <1>1, <2>2
  <2>4. i.st.tab[j] # NULL /\ i.st.tab[k] # NULL
    BY <1>1, <1>6
  <2> HIDE DEF op, j, k, o, p
  <2>5. MergedFrom(i.st, op, i.st.tab[j].ptr, i.st.tab[k].ptr, m)
    BY <1>1, <1>2, <1>4, <2>1, <2>3, <2>4, MergedSound
  <2>6. MergedFrom(i.st, op, o, p, m)
    BY <1>1, <2>5 DEF o, p
  <2>7. /\ Sound(m.st) /\ Kept(i.st, m.st) /\ Loose(m.st, m.set) /\ FreeAddrs(m.st) # {}
        /\ o = p => Len(m.st.heap[m.set].body.ents) >= Len(i.st.heap[o].body.ents)
    BY <2>6 DEF MergedFrom, op
  <2>8. Kept(st, m.st)
    BY <1>1, <2>7, KeptTwice
  <2>9. m.st.heap[m.set].body \in Bodies
    BY <2>7 DEF Loose
  <2>10. ASSUME \A x \in DOMAIN ins : Key[ins[x]] = j
         PROVE  st.tab[j].hits <= Len(m.st.heap[m.set].body.ents)
    <3>1. k = j
      BY <1>6, <2>10 DEF k
    <3>2. o = p
      BY <3>1 DEF o, p
    <3>3. Len(m.st.heap[m.set].body.ents) >= st.tab[j].hits
      BY <1>1, <1>3, <2>7, <3>2
    <3>4. Len(m.st.heap[m.set].body.ents) \in Nat
      BY <2>9, BodyFields
    <3> QED
      BY <1>3, <3>3, <3>4
  <2> QED
    BY <1>1, <2>7, <2>8, <2>9, <2>10 DEF Gathered, j
<1> QED
  BY <1>1, <1>5, <1>6

\* What a sort that stores its set leaves; the latest set does not get
\* smaller if the client does not sort other sets over it.
Sorted(n) ==
  /\ Sound(st') /\ st'.tab[Key[n]] # NULL
  /\ \A j \in Keys \ {Key[n]} : SameSet(st, st', j)
  /\ n # EmptyName /\ Filed(st) => Filed(st')
  /\ "sort_over" \notin Client /\ cur # EmptyName /\ Key[n] = Key[cur] =>
       /\ st.tab[Key[n]] # NULL
       /\ st.tab[Key[n]].hits <= st'.tab[Key[n]].hits

\* The sorted set is stored.
LEMMA StoreSortedSound ==
  ASSUME Sound(st), NEW ins \in [1..1 -> Name] \cup [1..2 -> Name], NEW n \in Name,
         SortsOver(ins, n) => "sort_over" \in Client,
         NEW m, Gathered(ins, m), Len(m.st.heap[m.set].body.ents) <= MaxHits,
         NEW e \in Orders(m.st.heap[m.set].body.ents), StoreSorted(m, e, n)
  PROVE  Sorted(n) /\ resp'.op = "sort" /\ resp'.name = n
<1> DEFINE b == [ents |-> e, type |-> m.st.heap[m.set].body.type]
           o == Alloc(m.st)
           r == New(m.st, b)
           yes == TRUE
           s == se_store_result_set(r, o, n, yes, nosave, TRUE).st
           c == diagnostic_clear(s)
           k == Key[n]
<1>1. /\ st' = Collect(c)
      /\ resp' = [op |-> "sort", name |-> n, status |-> SORT_SUCCESS, set_status |-> 0]
  BY DEF StoreSorted
<1>2. /\ Sound(m.st) /\ Kept(st, m.st) /\ m.st.heap[m.set].body \in Bodies
      /\ FreeAddrs(m.st) # {} /\ st.tab[Key[ins[1]]] # NULL
  BY DEF Gathered
<1>3. /\ m.st.heap[m.set].body.ents \in Seq(weighted_entry)
      /\ m.st.heap[m.set].body.type \in {"Boolean", "ranked"}
  BY <1>2, BodyFields
<1>4. e \in Seq(weighted_entry) /\ Len(e) = Len(m.st.heap[m.set].body.ents)
  BY <1>3, OrdersFacts
<1>5. b \in Bodies /\ b.ents = e
  BY <1>3, <1>4 DEF Bodies
<1>6. yes \in BOOLEAN
  OBVIOUS
<1> HIDE DEF b, yes
<1>7. Sound(r) /\ Kept(m.st, r) /\ Loose(r, o) /\ r.heap[o].body = b
  BY <1>2, <1>5, NewSound
<1> HIDE DEF r, o
<1>8. Storable(r, o, n)
  BY <1>7 DEF Storable, Loose
<1>9. Len(r.heap[o].body.ents) <= MaxHits
  BY <1>4, <1>5, <1>7
<1>10. StoredAs(r, s, o, n, yes)
  BY <1>6, <1>7, <1>8, <1>9, StoreSound
<1> HIDE DEF s
<1>11. /\ Sound(s) /\ s.tab[k] # NULL
       /\ SameBut(r, s, k)
       /\ s.heap[s.tab[k].ptr].body = b
       /\ n # EmptyName /\ Filed(r) => Filed(s)
  BY <1>7, <1>10 DEF StoredAs, yes
<1>12. Sound(c) /\ Kept(s, c)
  BY <1>11, ClearSound
<1> HIDE DEF c
<1>13. Sound(st') /\ Kept(c, st')
  BY <1>1, <1>12, CollectSound
<1>14. Kept(s, st')
  BY <1>12, <1>13, KeptTwice
<1>15. Kept(st, r)
  BY <1>2, <1>7, KeptTwice
<1>16. k \in Keys
  BY Constants
<1>17. ASSUME NEW j \in Keys, j # k PROVE SameSet(st, st', j)
  <2>1. SameSet(r, s, j)
    BY <1>7, <1>11, <1>17, SameAtSet DEF SameBut
  <2>2. SameSet(st, s, j)
    BY <1>15, <2>1, SameSetTwice DEF Kept
  <2> QED
    BY <1>14, <2>2, SameSetTwice DEF Kept
<1>18. Filed(r) /\ n # EmptyName => Filed(st')
  BY <1>11, <1>14, KeptFiled
<1>19. st'.tab = s.tab
  BY <1>14 DEF Kept
<1>20. s.tab[k].hits = Len(e)
  BY <1>5, <1>11, <1>16, HomeFacts
<1>21. ASSUME "sort_over" \notin Client, cur # EmptyName, k = Key[cur]
       PROVE  st.tab[k] # NULL /\ st.tab[k].hits <= s.tab[k].hits
  <2>1. \A i \in DOMAIN ins : Key[ins[i]] = k
    BY <1>21 DEF SortsOver
  <2>2. Key[ins[1]] = k
    BY <2>1, InputNames
  <2>3. st.tab[k].hits <= Len(m.st.heap[m.set].body.ents)
    BY <2>1, <2>2 DEF Gathered
  <2> QED
    BY <1>2, <1>4, <1>20, <2>2, <2>3
<1>22. Filed(st) => Filed(r)
  BY <1>15, KeptFiled
<1>23. resp'.op = "sort" /\ resp'.name = n
  BY <1>1
<1> QED
  BY <1>11, <1>13, <1>17, <1>18, <1>19, <1>21, <1>22, <1>23 DEF Sorted

\* A sort fails or stores its set.
LEMMA SortEffect ==
  ASSUME Sound(st), HandleSortRequest
  PROVE  /\ conn = "open" /\ UNCHANGED <<names, cur, cnt, conn>>
         /\ resp'.op = "sort"
         /\ \E n \in Name : /\ resp'.name = n
                            /\ (Sound(st') /\ Kept(st, st')) \/ Sorted(n)
<1>1. PICK ins \in [1..1 -> Name] \cup [1..2 -> Name], n \in Name,
           fails \in {"no", "spec", "key"} :
        /\ conn = "open" /\ Room
        /\ SortsOver(ins, n) => "sort_over" \in Client
        /\ SortResults(ins, n, fails)
        /\ UNCHANGED <<names, cur, cnt, conn>>
  BY DEF HandleSortRequest
<1> DEFINE i == Inputs(ins)
           same_name == Contains(SubSeq(ins, 1, Len(i.sets)), n)
           Done == /\ resp'.op = "sort" /\ resp'.name = n
                   /\ (Sound(st') /\ Kept(st, st')) \/ Sorted(n)
<1>2. Roomy(st)
  BY <1>1, RoomFree
<1>3. GotInputs(ins, i)
  BY InputsSound
<1>4. Sound(i.st) /\ Kept(st, i.st)
  BY <1>3 DEF GotInputs
<1>5. ASSUME NEW s, Sound(s), Kept(st, s), SortFailed(s, n, same_name) PROVE Done
  <2> DEFINE c == diagnostic_clear(s)
  <2>1. st' = Collect(c) /\ resp'.op = "sort" /\ resp'.name = n
    BY <1>5 DEF SortFailed
  <2>2. Sound(c) /\ Kept(s, c)
    BY <1>5, ClearSound
  <2> HIDE DEF c
  <2>3. Sound(st') /\ Kept(c, st')
    BY <2>1, <2>2, CollectSound
  <2>4. Kept(st, st')
    BY <1>5, <2>2, <2>3, KeptTwice
  <2> QED
    BY <2>1, <2>3, <2>4
<1>6. IF NULL \in ToSet(i.sets) \/ fails = "spec" THEN SortFailed(i.st, n, same_name)
      ELSE \E m \in ToSort(i) :
             /\ Len(m.st.heap[m.set].body.ents) <= MaxHits
             /\ \/ SortFailed(m.st, n, same_name)
                \/ \E e \in Orders(m.st.heap[m.set].body.ents) : StoreSorted(m, e, n)
  BY <1>1 DEF SortResults
<1> HIDE DEF i, same_name
<1> SUFFICES Done
  BY <1>1
<1>7. CASE NULL \in ToSet(i.sets) \/ fails = "spec"
  BY <1>4, <1>5, <1>6, <1>7
<1>8. CASE ~(NULL \in ToSet(i.sets) \/ fails = "spec")
  <2>1. PICK m \in ToSort(i) :
          /\ Len(m.st.heap[m.set].body.ents) <= MaxHits
          /\ \/ SortFailed(m.st, n, same_name)
             \/ \E e \in Orders(m.st.heap[m.set].body.ents) : StoreSorted(m, e, n)
    BY <1>6, <1>8
  <2>2. Gathered(ins, m)
    BY <1>2, <1>3, <1>8, GatherSound
  <2>3. CASE SortFailed(m.st, n, same_name)
    <3>1. Sound(m.st) /\ Kept(st, m.st)
      BY <2>2 DEF Gathered
    <3> QED
      BY <1>5, <2>3, <3>1
  <2>4. ASSUME NEW e \in Orders(m.st.heap[m.set].body.ents), StoreSorted(m, e, n)
        PROVE  Done
    BY <1>1, <2>1, <2>2, <2>4, StoreSortedSound
  <2> QED
    BY <2>1, <2>3, <2>4
<1> QED
  BY <1>1, <1>7, <1>8

-----------------------------------------------------------------------------
(* The end of a session.                                                   *)

\* se_delete_all_result_sets leaves no entry, and no file if all are filed.
LEMMA CloseEffect ==
  ASSUME Sound(st), CloseSearchEngine
  PROVE  /\ Sound(st') /\ \A k \in Keys : st'.tab[k] = NULL
         /\ Filed(st) => Filed(st')
         /\ conn' = "closed" /\ resp' = NoResp /\ UNCHANGED <<names, cur, cnt>>
<1>1. /\ st' = se_delete_all_result_sets(st)
      /\ conn' = "closed" /\ resp' = NoResp /\ UNCHANGED <<names, cur, cnt>>
  BY DEF CloseSearchEngine
<1>2. st \in AnyStore
  BY DEF Sound, AnyStore
<1>3. /\ st' \in AnyStore
      /\ st'.tab = [k \in Keys |-> NULL]
      /\ st'.orphan <=> \/ st.orphan
                        \/ \E k \in Keys : /\ st.tab[k] # NULL
                                           /\ st.tab[k].disk # NULL
                                           /\ ~st.tab[k].really_stored
  BY <1>1, <1>2, DeleteAllFields
<1>4. \A k \in Keys : st'.tab[k] = NULL
  BY <1>3
<1>5. Sound(st')
  BY <1>3, <1>4, NoEntriesSound
<1>6. Filed(st) => Filed(st')
  BY <1>3, <1>4 DEF Filed
<1> QED
  BY <1>1, <1>4, <1>5, <1>6

-----------------------------------------------------------------------------
(* The invariant.                                                          *)

\* The list of names has no name twice.
LEMMA ListedNames ==
  ASSUME Listed
  PROVE  names \in Seq(Name) /\ NoTwice(names)
BY DEF Listed, NoTwice

\* The names of the list are the names it contains.
LEMMA StoredNames ==
  ASSUME NEW l \in Seq(Name), NEW s
  PROVE  AllStored(s, l) <=> \A i \in 1..Len(l) : s.tab[Key[l[i]]] # NULL
<1>1. \A i \in 1..Len(l) : l[i] \in Name
  BY ElementOfSeq
<1> QED
  BY <1>1 DEF AllStored, Contains

\* In an open session, what is listed is stored.
LEMMA OpenStored ==
  ASSUME IInv, conn = "open", OneSpelling
  PROVE  AllStored(st, names)
<1>1. names \in Seq(Name) /\ ListedAreStored
  BY DEF IInv, Listed
<1> QED
  BY <1>1, StoredNames DEF ListedAreStored

\* The hits of an entry are a number.
LEMMA HitsType ==
  ASSUME NEW s, Sound(s), NEW k \in Keys, s.tab[k] # NULL
  PROVE  s.tab[k].hits \in Nat
BY HomeFacts, EntryFields

\* The parts of the invariant that are about one session.
LEMMA InvFrom ==
  ASSUME Sound(st'), names' \in Seq(Name), NoTwice(names'),
         conn' = "open" /\ names' # <<>> => st'.up,
         cur' \in Name \cup {EmptyName}, cnt' \in 0..MaxHits,
         conn' \in {"open", "closed", "crashed"}, conn' # "open" => resp' = NoResp,
         EmptyName \notin Name /\ conn' # "crashed" => Filed(st'),
         OneSpelling /\ conn' = "open" => AllStored(st', names'),
         PlainClient => CountCovers'
  PROVE  IInv'
<1>1. Listed'
  BY DEF Listed, NoTwice
<1>2. OneSpelling => ListedAreStored'
  BY StoredNames DEF ListedAreStored
<1> QED
  BY <1>1, <1>2 DEF IInv, OneSpelling, PlainClient

\* A request that changes no entry keeps the invariant.
LEMMA KeptInv ==
  ASSUME IInv, conn = "open", Sound(st'), Kept(st, st'), names' = names, conn' = conn,
         cur' \in Name \cup {EmptyName}, cnt' \in 0..MaxHits,
         PlainClient => CountCovers'
  PROVE  IInv'
<1>1. names \in Seq(Name) /\ NoTwice(names)
  BY ListedNames DEF IInv
<1>2. st'.tab = st.tab /\ (st.up => st'.up)
  BY DEF Kept
<1>3. names' # <<>> => st'.up
  BY <1>2 DEF IInv, Listed
<1>4. EmptyName \notin Name => Filed(st')
  BY KeptFiled DEF IInv
<1>5. OneSpelling => AllStored(st', names')
  BY <1>2, OpenStored DEF AllStored
<1> QED
  BY <1>1, <1>3, <1>4, <1>5, InvFrom

\* Searches keep the invariant.
LEMMA SearchInv ==
  ASSUME IInv, "rename" \notin Client, HandleSearchRequest
  PROVE  IInv'
<1>1. Sound(st) /\ cur \in Name \cup {EmptyName} /\ cnt \in 0..MaxHits
  BY DEF IInv
<1>2. conn = "open" /\ \E n \in Name : SearchFailed(n) \/ SearchStored(n) \/ Crashed(n)
  BY <1>1, SearchEffect
<1>3. names \in Seq(Name) /\ NoTwice(names)
  BY ListedNames DEF IInv
<1>4. 0 \in 0..MaxHits
  BY ClientAssumption
<1>5. ASSUME NEW n \in Name, SearchFailed(n) PROVE IInv'
  <2>1. /\ Sound(st') /\ Kept(st, st') /\ cur' \in Name \cup {EmptyName} /\ cnt' = 0
        /\ names' = names /\ conn' = conn
    BY <1>1, <1>5 DEF SearchFailed
  <2>2. CountCovers'
    BY <2>1, HitsType, Constants DEF CountCovers
  <2> QED
    BY <1>2, <1>4, <2>1, <2>2, KeptInv
<1>6. ASSUME NEW n \in Name, SearchStored(n) PROVE IInv'
  <2> DEFINE k == Key[n]
  <2>1. /\ Sound(st') /\ st'.tab[k] # NULL
        /\ \A j \in Keys \ {k} : SameSet(st, st', j)
        /\ n # EmptyName /\ Filed(st) => Filed(st')
        /\ names' = names \/ (~Contains(names, n) /\ names' = Append(names, n))
        /\ cur' = n /\ conn' = conn
    BY <1>6 DEF SearchStored
  <2>2. PICK replace \in BOOLEAN, ok \in BOOLEAN, count \in 0..MaxHits, inside \in BOOLEAN :
          SearchAnswer(n, replace, ok, count, inside)
    BY <1>6 DEF SearchStored
  <2>3. k \in Keys
    BY Constants
  <2>4. st'.up /\ st'.tab[k].hits \in Nat
    BY <2>1, <2>3, HomeFacts, HitsType
  <2>5. cnt' \in 0..MaxHits /\ cnt' = count
    BY <2>2 DEF SearchAnswer
  <2>6. /\ names' \in Seq(Name) /\ NoTwice(names')
        /\ \A m \in Name : Contains(names', m) => Contains(names, m) \/ m = n
    <3>1. CASE names' = names
      BY <1>3, <3>1
    <3>2. CASE ~Contains(names, n) /\ names' = Append(names, n)
      <4> DEFINE r == Append(names, n)
      <4>1. /\ r \in Seq(Name) /\ NoTwice(r)
            /\ \A m \in Name : Contains(r, m) <=> Contains(names, m) \/ m = n
        BY <1>3, <3>2, AddName
      <4> HIDE DEF r
      <4>2. names' = r
        BY <3>2 DEF r
      <4> QED
        BY <4>1, <4>2
    <3> QED
      BY <2>1, <3>1, <3>2
  <2>7. OneSpelling => AllStored(st', names')
    <3> SUFFICES ASSUME OneSpelling, NEW m \in Name, Contains(names', m)
                 PROVE  st'.tab[Key[m]] # NULL
      BY DEF AllStored
    <3>1. CASE Key[m] = k
      BY <2>1, <3>1
    <3>2. CASE Key[m] # k
      <4>1. Contains(names, m) /\ Key[m] \in Keys
        BY <2>6, <3>2, Constants
      <4>2. st.tab[Key[m]] # NULL
        BY <1>2, <4>1, OpenStored DEF AllStored
      <4> QED
        BY <2>1, <3>2, <4>1, <4>2 DEF SameSet
    <3> QED
      BY <3>1, <3>2
  <2>8. PlainClient => CountCovers'
    <3> SUFFICES ASSUME PlainClient PROVE count <= st'.tab[k].hits
      BY <2>1, <2>5 DEF CountCovers
    <3>1. "keep" \notin Client
      BY DEF PlainClient
    <3>2. replace
      BY <2>2, <3>1 DEF SearchAnswer
    <3>3. CASE ok
      BY <2>2, <2>4, <3>2, <3>3 DEF SearchAnswer
    <3>4. CASE ~ok
      BY <2>2, <2>4, <3>4 DEF SearchAnswer
    <3> QED
      BY <3>3, <3>4
  <2>9. EmptyName \notin Name => Filed(st')
    BY <1>2, <2>1 DEF IInv
  <2> QED
    BY <1>2, <2>1, <2>4, <2>5, <2>6, <2>7, <2>8, <2>9, InvFrom
<1>7. ASSUME NEW n \in Name, Crashed(n) PROVE IInv'
  <2>1. /\ Sound(st') /\ \A k \in Keys : st'.tab[k] = NULL
        /\ conn' = "crashed" /\ resp' = NoResp /\ cur' = n /\ names' = names /\ cnt' = cnt
    BY <1>7 DEF Crashed
  <2>2. CountCovers'
    BY <2>1, Constants DEF CountCovers
  <2> QED
    BY <1>1, <1>3, <2>1, <2>2, InvFrom
<1> QED
  BY <1>2, <1>5, <1>6, <1>7

\* Presents keep the invariant.
LEMMA PresentInv ==
  ASSUME IInv, HandlePresentRequest
  PROVE  IInv'
<1>1. Sound(st) /\ cur \in Name \cup {EmptyName} /\ cnt \in 0..MaxHits
  BY DEF IInv
<1>2. conn = "open" /\ Presented
  BY <1>1, PresentEffect
<1>3. /\ Sound(st') /\ Kept(st, st') /\ cur' \in Name \cup {EmptyName}
      /\ names' = names /\ cnt' = cnt /\ conn' = conn /\ st'.tab = st.tab
  BY <1>1, <1>2 DEF Presented, Kept
<1>4. PlainClient => CountCovers'
  <2> SUFFICES ASSUME PlainClient PROVE CountCovers'
    OBVIOUS
  <2>1. CountCovers /\ "other" \notin Client
    BY DEF IInv, PlainClient
  <2>2. cur' = cur
    BY <1>2, <2>1 DEF Presented
  <2> QED
    BY <1>3, <2>1, <2>2 DEF CountCovers
<1> QED
  BY <1>1, <1>2, <1>3, <1>4, KeptInv

\* Scans keep the invariant.
LEMMA ScanInv ==
  ASSUME IInv, HandleScanRequest
  PROVE  IInv'
<1>1. Sound(st) /\ cur \in Name \cup {EmptyName} /\ cnt \in 0..MaxHits
  BY DEF IInv
<1>2. /\ conn = "open" /\ names' = names /\ cur' = cur /\ cnt' = cnt /\ conn' = conn
      /\ Sound(st') /\ Kept(st, st')
  BY <1>1, ScanEffect
<1>3. PlainClient => CountCovers'
  BY <1>2 DEF IInv, CountCovers, Kept
<1> QED
  BY <1>1, <1>2, <1>3, KeptInv

\* Deletions keep the invariant.
LEMMA DeleteInv ==
  ASSUME IInv, HandleDeleteResultSetRequest
  PROVE  IInv'
<1>1. Sound(st) /\ Listed /\ cur \in Name \cup {EmptyName} /\ cnt \in 0..MaxHits
  BY DEF IInv
<1>2. /\ conn = "open" /\ cur' = cur /\ cnt' = cnt /\ conn' = conn
      /\ \E list : SetsDeleted(list)
  BY <1>1, DeleteEffect
<1>3. PICK list : SetsDeleted(list)
  BY <1>2
<1>4. /\ Sound(st') /\ st'.up = st.up
      /\ Filed(st) => Filed(st')
      /\ names' \in Seq(Name) /\ NoTwice(names')
      /\ \A m \in Name : Contains(names', m) => Contains(names, m)
      /\ OneSpelling /\ AllStored(st, names) => AllStored(st', names')
      /\ \A k \in Keys : st'.tab[k] = NULL \/ SameSet(st, st', k)
  BY <1>3 DEF SetsDeleted
<1>5. names' # <<>> => st'.up
  <2> SUFFICES ASSUME names' # <<>> PROVE st'.up
    OBVIOUS
  <2>1. 1 \in 1..Len(names') /\ names'[1] \in Name
    BY <1>4
  <2>2. Contains(names, names'[1])
    BY <1>4, <2>1 DEF Contains
  <2>3. names # <<>>
    BY <2>2 DEF Contains
  <2> QED
    BY <1>1, <1>2, <1>4, <2>3 DEF Listed
<1>6. OneSpelling => AllStored(st', names')
  BY <1>2, <1>4, OpenStored
<1>7. CountCovers => CountCovers'
  BY <1>2, <1>4, Constants DEF CountCovers, SameSet
<1>8. EmptyName \notin Name => Filed(st')
  BY <1>2, <1>4 DEF IInv
<1>9. PlainClient => CountCovers'
  BY <1>7 DEF IInv
<1> QED
  BY <1>1, <1>2, <1>4, <1>5, <1>6, <1>8, <1>9, InvFrom

\* Sorts keep the invariant.
LEMMA SortInv ==
  ASSUME IInv, HandleSortRequest
  PROVE  IInv'
<1>1. Sound(st) /\ cur \in Name \cup {EmptyName} /\ cnt \in 0..MaxHits
  BY DEF IInv
<1>2. /\ conn = "open" /\ names' = names /\ cur' = cur /\ cnt' = cnt /\ conn' = conn
      /\ \E n \in Name : (Sound(st') /\ Kept(st, st')) \/ Sorted(n)
  BY <1>1, SortEffect
<1>3. CASE Sound(st') /\ Kept(st, st')
  <2>1. PlainClient => CountCovers'
    BY <1>2, <1>3 DEF IInv, CountCovers, Kept
  <2> QED
    BY <1>1, <1>2, <1>3, <2>1, KeptInv
<1>4. ASSUME NEW n \in Name, Sorted(n) PROVE IInv'
  <2> DEFINE k == Key[n]
  <2>1. /\ Sound(st') /\ st'.tab[k] # NULL
        /\ \A j \in Keys \ {k} : SameSet(st, st', j)
        /\ n # EmptyName /\ Filed(st) => Filed(st')
        /\ "sort_over" \notin Client /\ cur # EmptyName /\ k = Key[cur] =>
             st.tab[k] # NULL /\ st.tab[k].hits <= st'.tab[k].hits
    BY <1>4 DEF Sorted
  <2>2. k \in Keys
    BY Constants
  <2>3. st'.up
    BY <2>1, <2>2, HomeFacts
  <2>4. names \in Seq(Name) /\ NoTwice(names)
    BY ListedNames DEF IInv
  <2>5. OneSpelling => AllStored(st', names')
    <3> SUFFICES ASSUME OneSpelling, NEW m \in Name, Contains(names, m)
                 PROVE  st'.tab[Key[m]] # NULL
      BY <1>2 DEF AllStored
    <3>1. st.tab[Key[m]] # NULL /\ Key[m] \in Keys
      BY <1>2, OpenStored, Constants DEF AllStored
    <3> QED
      BY <2>1, <3>1 DEF SameSet
  <2>6. PlainClient => CountCovers'
    <3> SUFFICES ASSUME PlainClient, cur \in Name, st'.tab[Key[cur]] # NULL
                 PROVE  cnt <= st'.tab[Key[cur]].hits
      BY <1>2 DEF CountCovers
    <3>1. CountCovers /\ "sort_over" \notin Client /\ cur # EmptyName /\ Key[cur] \in Keys
      BY Constants DEF IInv, PlainClient
    <3>2. CASE Key[cur] = k
      <4>1. st.tab[k] # NULL /\ st.tab[k].hits <= st'.tab[k].hits
        BY <2>1, <3>1, <3>2
      <4>2. cnt <= st.tab[k].hits
        BY <3>1, <3>2, <4>1 DEF CountCovers
      <4>3. st.tab[k].hits \in Nat /\ st'.tab[k].hits \in Nat
        BY <1>1, <2>1, <2>2, <4>1, HitsType
      <4>4. cnt <= st'.tab[k].hits
        BY <1>1, <4>1, <4>2, <4>3
      <4> QED
        BY <3>2, <4>4
    <3>3. CASE Key[cur] # k
      <4>1. st'.tab[Key[cur]] = st.tab[Key[cur]]
        BY <2>1, <3>1, <3>3 DEF SameSet
      <4> QED
        BY <3>1, <4>1 DEF CountCovers
    <3> QED
      BY <3>2, <3>3
  <2>7. EmptyName \notin Name => Filed(st')
    BY <1>2, <2>1 DEF IInv
  <2> QED
    BY <1>1, <1>2, <2>1, <2>3, <2>4, <2>5, <2>6, <2>7, InvFrom
<1> QED
  BY <1>2, <1>3, <1>4

\* The end of a session keeps the invariant.
LEMMA CloseInv ==
  ASSUME IInv, CloseSearchEngine
  PROVE  IInv'
<1>1. Sound(st) /\ cur \in Name \cup {EmptyName} /\ cnt \in 0..MaxHits
  BY DEF IInv
<1>2. /\ Sound(st') /\ \A k \in Keys : st'.tab[k] = NULL
      /\ Filed(st) => Filed(st')
      /\ conn' = "closed" /\ resp' = NoResp /\ names' = names /\ cur' = cur /\ cnt' = cnt
  BY <1>1, CloseEffect
<1>3. names \in Seq(Name) /\ NoTwice(names)
  BY ListedNames DEF IInv
<1>4. CountCovers'
  BY <1>2, Constants DEF CountCovers
<1>5. EmptyName \notin Name => Filed(st')
  BY <1>2 DEF IInv, CloseSearchEngine
<1> QED
  BY <1>1, <1>2, <1>3, <1>4, <1>5, InvFrom

\* So does the start of the next one.
LEMMA NewInv ==
  ASSUME NewSession
  PROVE  IInv'
<1>1. /\ conn' = "open" /\ st' = EmptyStore /\ names' = <<>> /\ cur' = EmptyName /\ cnt' = 0
  BY DEF NewSession
<1>2. Sound(st') /\ Filed(st') /\ \A k \in Keys : st'.tab[k] = NULL
  BY <1>1, StartSound
<1>3. names' \in Seq(Name) /\ Len(names') = 0
  BY <1>1
<1>4. NoTwice(names') /\ AllStored(st', names')
  BY <1>3 DEF NoTwice, AllStored, Contains
<1>5. CountCovers'
  BY <1>2, Constants DEF CountCovers
<1>6. cnt' \in 0..MaxHits
  BY <1>1, ClientAssumption
<1> QED
  BY <1>1, <1>2, <1>3, <1>4, <1>5, <1>6, InvFrom

\* The invariant holds when a process starts.
LEMMA InitInv ==
  ASSUME Init
  PROVE  IInv
<1>1. /\ conn = "open" /\ st = EmptyStore /\ names = <<>> /\ cur = EmptyName /\ cnt = 0
  BY DEF Init
<1>2. Sound(st) /\ Filed(st) /\ \A k \in Keys : st.tab[k] = NULL
  BY <1>1, StartSound
<1>3. names \in Seq(Name) /\ Len(names) = 0
  BY <1>1
<1>4. Listed /\ ListedAreStored
  BY <1>1, <1>3 DEF Listed, ListedAreStored
<1>5. CountCovers
  BY <1>2, Constants DEF CountCovers
<1>6. cnt \in 0..MaxHits
  BY <1>1, ClientAssumption
<1> QED
  BY <1>1, <1>2, <1>4, <1>5, <1>6 DEF IInv

\* Every step keeps the invariant, for a client that does not store a stored
\* set again over another name in use.
LEMMA StepInv ==
  ASSUME IInv, "rename" \notin Client, [Next]_vars
  PROVE  IInv'
<1>1. CASE Next
  BY <1>1, SearchInv, PresentInv, ScanInv, DeleteInv, SortInv, CloseInv, NewInv DEF Next
<1>2. CASE UNCHANGED vars
  BY <1>2 DEF vars, IInv, Listed, ListedAreStored, CountCovers, OneSpelling, PlainClient
<1> QED
  BY <1>1, <1>2

-----------------------------------------------------------------------------
(* The theorems.                                                           *)

\* Whatever requests come in whatever order, every entry has a set in core
\* that is its own and is counted, and the list of names is one of names.
THEOREM SessionInvariance ==
  ASSUME "rename" \notin Client
  PROVE  Spec => []IInv
<1>1. Init => IInv
  BY InitInv
<1>2. IInv /\ [Next]_vars => IInv'
  BY StepInv
<1> QED
  BY <1>1, <1>2, PTL DEF Spec

\* The session and the sets it stores have their shapes.
THEOREM SessionTypes ==
  ASSUME "rename" \notin Client
  PROVE  Spec => []TypeOK
<1>1. ASSUME IInv PROVE TypeOK
  <2>1. /\ Sound(st) /\ names \in Seq(Name) /\ cur \in Name \cup {EmptyName}
        /\ cnt \in 0..MaxHits /\ conn \in {"open", "closed", "crashed"}
    BY <1>1 DEF IInv, Listed
  <2>2. ASSUME NEW k \in Keys, Contents(st, k) # NULL
        PROVE  /\ Len(Contents(st, k).ents) <= MaxHits
               /\ Contents(st, k).type \in {"Boolean", "ranked"}
    <3>1. st.tab[k] # NULL /\ Contents(st, k) = st.heap[st.tab[k].ptr].body
      BY <2>1, <2>2, HomeContents
    <3>2. /\ st.heap[st.tab[k].ptr].body \in Bodies
          /\ Len(st.heap[st.tab[k].ptr].body.ents) <= MaxHits
      BY <2>1, <3>1, HomeFacts
    <3> QED
      BY <3>1, <3>2, BodyFields
  <2> QED
    BY <2>1, <2>2 DEF TypeOK
<1>2. IInv => TypeOK
  BY <1>1
<1> QED
  BY <1>2, SessionInvariance, PTL

\* No request leaves an entry with a pointer to a set that was freed, with
\* merges, sorts and deletions that pass the same pointers around.
THEOREM SessionNoDangling ==
  ASSUME "rename" \notin Client
  PROVE  Spec => []NoDangling
<1>1. IInv => NoDangling
  BY HomeFacts DEF IInv, NoDangling
<1> QED
  BY <1>1, SessionInvariance, PTL

\* A session that ends in order leaves no result file, whatever was searched,
\* sorted, replaced and deleted, if the client does not use the empty name.
THEOREM SessionFilesRemoved ==
  ASSUME "rename" \notin Client, EmptyName \notin Name
  PROVE  Spec => []FilesRemoved
<1>1. IInv => FilesRemoved
  BY DEF IInv, FilesRemoved, Filed
<1> QED
  BY <1>1, SessionInvariance, PTL

\* A name in the session's list has a set, if no two spellings of a name are
\* in use: the list is compared with strcmp, the table ignores case.
THEOREM SessionListedAreStored ==
  ASSUME "rename" \notin Client, OneSpelling
  PROVE  Spec => []ListedAreStored
<1>1. IInv => ListedAreStored
  BY DEF IInv
<1> QED
  BY <1>1, SessionInvariance, PTL

\* The answer that stands for no request.
LEMMA NoRespOp == NoResp.op = "none"
BY DEF NoResp

\* No record is fetched from beyond the end of a set, by a search or by a
\* present, for a client that searches with replace on, presents its latest
\* set and does not sort another one over it.
THEOREM SessionFetchInRange ==
  ASSUME PlainClient
  PROVE  Spec => FetchInRange
<1> DEFINE A == resp'.op \in {"search", "present"} => resp'.inside
<1>1. /\ "rename" \notin Client /\ "keep" \notin Client
      /\ "medium" \notin Client /\ "other" \notin Client
  BY DEF PlainClient
<1>2. ASSUME IInv, Next PROVE A
  <2>1. Sound(st) /\ Listed /\ cnt \in 0..MaxHits /\ CountCovers
    BY <1>2 DEF IInv
  <2>2. CASE HandleSearchRequest
    <3>1. \E n \in Name : SearchFailed(n) \/ SearchStored(n) \/ Crashed(n)
      BY <1>1, <2>1, <2>2, SearchEffect
    <3>2. ASSUME NEW n \in Name, SearchFailed(n) PROVE A
      BY <3>2 DEF SearchFailed, SearchReply
    <3>3. ASSUME NEW n \in Name, SearchStored(n) PROVE A
      <4>1. PICK replace \in BOOLEAN, ok \in BOOLEAN, count \in 0..MaxHits, inside \in BOOLEAN :
              SearchAnswer(n, replace, ok, count, inside)
        BY <3>3 DEF SearchStored
      <4>2. inside /\ resp' = SearchReply(n, replace, ok, count, inside)
        BY <1>1, <4>1 DEF SearchAnswer
      <4> QED
        BY <4>2 DEF SearchReply
    <3>4. ASSUME NEW n \in Name, Crashed(n) PROVE A
      BY <3>4, NoRespOp DEF Crashed
    <3> QED
      BY <3>1, <3>2, <3>3, <3>4
  <2>3. CASE HandlePresentRequest
    BY <1>1, <2>1, <2>3, PresentEffect DEF Presented
  <2>4. CASE HandleScanRequest
    BY <2>1, <2>4, ScanEffect
  <2>5. CASE HandleDeleteResultSetRequest
    BY <2>1, <2>5, DeleteEffect DEF SetsDeleted
  <2>6. CASE HandleSortRequest
    BY <2>1, <2>6, SortEffect
  <2>7. CASE CloseSearchEngine
    BY <2>1, <2>7, CloseEffect, NoRespOp
  <2>8. CASE NewSession
    BY <1>2, <2>8, NoRespOp DEF NewSession, IInv
  <2> QED
    BY <1>2, <2>2, <2>3, <2>4, <2>5, <2>6, <2>7, <2>8 DEF Next
<1>3. IInv /\ [Next]_vars => [A]_vars
  BY <1>2
<1>4. Spec => []IInv
  BY <1>1, SessionInvariance
<1> QED
  BY <1>3, <1>4, PTL DEF Spec, FetchInRange

\* A search that succeeds tells the number of hits of the set that its name
\* stands for from then on, for a client that searches with replace on.
THEOREM SessionCountIsHits ==
  ASSUME "rename" \notin Client, "keep" \notin Client
  PROVE  Spec => CountIsHits
<1> DEFINE Counted == LET k == Key[resp'.name]
                      IN  /\ Contents(st', k) # NULL
                          /\ resp'.count = st'.tab[k].hits
                          /\ resp'.count = Len(Contents(st', k).ents)
           A == resp'.op = "search" /\ resp'.ok => Counted
<1>1. ASSUME IInv, Next PROVE A
  <2>1. Sound(st) /\ Listed /\ cnt \in 0..MaxHits
    BY <1>1 DEF IInv
  <2>2. CASE HandleSearchRequest
    <3>1. \E n \in Name : SearchFailed(n) \/ SearchStored(n) \/ Crashed(n)
      BY <2>1, <2>2, SearchEffect
    <3>2. ASSUME NEW n \in Name, SearchFailed(n) PROVE A
      <4>1. resp'.ok = FALSE
        BY <3>2 DEF SearchFailed, SearchReply
      <4> QED
        BY <4>1
    <3>3. ASSUME NEW n \in Name, SearchStored(n), resp'.ok PROVE Counted
      <4> DEFINE k == Key[n]
                 b == st'.heap[st'.tab[k].ptr].body
      <4>1. PICK replace \in BOOLEAN, ok \in BOOLEAN, count \in 0..MaxHits, inside \in BOOLEAN :
              SearchAnswer(n, replace, ok, count, inside)
        BY <3>3 DEF SearchStored
      <4>2. replace /\ resp' = SearchReply(n, replace, ok, count, inside)
        BY <4>1 DEF SearchAnswer
      <4>3. resp'.name = n /\ resp'.count = count /\ resp'.ok = ok
        BY <4>2 DEF SearchReply
      <4>4. st'.tab[k].hits = count
        BY <3>3, <4>1, <4>2, <4>3 DEF SearchAnswer
      <4>5. Sound(st') /\ st'.tab[k] # NULL /\ k \in Keys
        BY <3>3, Constants DEF SearchStored
      <4>6. b \in Bodies /\ st'.tab[k].hits = Len(b.ents)
        BY <4>5, HomeFacts
      <4>7. Contents(st', k) = b
        BY <4>5, HomeContents
      <4> HIDE DEF b
      <4>8. /\ Contents(st', k) # NULL /\ count = st'.tab[k].hits
            /\ count = Len(Contents(st', k).ents)
        BY <4>4, <4>6, <4>7, BodyFields
      <4> QED
        BY <4>3, <4>8
    <3>4. ASSUME NEW n \in Name, Crashed(n) PROVE A
      BY <3>4, NoRespOp DEF Crashed
    <3> QED
      BY <3>1, <3>2, <3>3, <3>4
  <2> HIDE DEF Counted
  <2>3. CASE HandlePresentRequest
    BY <2>1, <2>3, PresentEffect DEF Presented
  <2>4. CASE HandleScanRequest
    BY <2>1, <2>4, ScanEffect
  <2>5. CASE HandleDeleteResultSetRequest
    BY <2>1, <2>5, DeleteEffect DEF SetsDeleted
  <2>6. CASE HandleSortRequest
    BY <2>1, <2>6, SortEffect
  <2>7. CASE CloseSearchEngine
    BY <2>1, <2>7, CloseEffect, NoRespOp
  <2>8. CASE NewSession
    BY <1>1, <2>8, NoRespOp DEF NewSession, IInv
  <2> QED
    BY <1>1, <2>2, <2>3, <2>4, <2>5, <2>6, <2>7, <2>8 DEF Next
<1>2. IInv /\ [Next]_vars => [A]_vars
  BY <1>1
<1> QED
  BY <1>2, SessionInvariance, PTL DEF Spec, CountIsHits

\* An entry with the same records has the same set of records.
LEMMA SameRecords ==
  ASSUME NEW s, Sound(s), NEW r, Sound(r), NEW k \in Keys, SameSet(s, r, k)
  PROVE  Records(r, k) = Records(s, k)
<1>1. r.tab[k] = s.tab[k]
  BY DEF SameSet
<1>2. CASE s.tab[k] = NULL
  <2>1. Contents(s, k) = NULL /\ Contents(r, k) = NULL
    BY <1>1, <1>2, HomeContents
  <2> QED
    BY <2>1 DEF Records
<1>3. CASE s.tab[k] # NULL
  <2> DEFINE p == s.tab[k].ptr
             b == s.heap[p].body
             c == r.heap[p].body
  <2>1. Contents(s, k) = b /\ Contents(r, k) = c
    BY <1>1, <1>3, HomeContents
  <2>2. b \in Bodies
    BY <1>3, HomeFacts
  <2>3. c \in Bodies
    BY <1>1, <1>3, HomeFacts
  <2>4. ToSet(c.ents) = ToSet(b.ents)
    BY <1>3 DEF SameSet
  <2>5. b # NULL /\ c # NULL
    BY <2>2, <2>3, BodyFields
  <2> HIDE DEF b, c
  <2> QED
    BY <2>1, <2>4, <2>5 DEF Records
<1> QED
  BY <1>2, <1>3

\* A request leaves the records of every set that it does not name as its
\* target, with merges that reorder stored operands in place and results
\* that are stored without a copy.
THEOREM SessionOthersKeepRecords ==
  ASSUME "rename" \notin Client
  PROVE  Spec => OthersKeepRecords
<1> DEFINE A == conn = "open" /\ conn' = "open" =>
                  \A k \in Keys \ Targets(resp') : Records(st', k) = Records(st, k)
<1>1. ASSUME IInv, Next PROVE A
  <2> SUFFICES ASSUME conn = "open", conn' = "open", NEW k \in Keys, k \notin Targets(resp')
               PROVE  Sound(st') /\ SameSet(st, st', k)
    BY <1>1, SameRecords DEF IInv
  <2>1. Sound(st) /\ Listed /\ cnt \in 0..MaxHits
    BY <1>1 DEF IInv
  <2>2. CASE HandleSearchRequest
    <3>1. \E n \in Name : SearchFailed(n) \/ SearchStored(n) \/ Crashed(n)
      BY <2>1, <2>2, SearchEffect
    <3>2. ASSUME NEW n \in Name, SearchFailed(n) PROVE Sound(st') /\ SameSet(st, st', k)
      BY <3>2 DEF SearchFailed, Kept
    <3>3. ASSUME NEW n \in Name, SearchStored(n) PROVE Sound(st') /\ SameSet(st, st', k)
      <4>1. resp'.op = "search" /\ resp'.name = n
        BY <3>3 DEF SearchStored, SearchAnswer, SearchReply
      <4>2. k # Key[n]
        BY <4>1 DEF Targets
      <4> QED
        BY <3>3, <4>2 DEF SearchStored
    <3>4. ASSUME NEW n \in Name PROVE ~Crashed(n)
      BY DEF Crashed
    <3> QED
      BY <3>1, <3>2, <3>3, <3>4
  <2>3. CASE HandlePresentRequest
    BY <2>1, <2>3, PresentEffect DEF Presented, Kept
  <2>4. CASE HandleScanRequest
    BY <2>1, <2>4, ScanEffect DEF Kept
  <2>5. CASE HandleDeleteResultSetRequest
    <3>1. PICK list : SetsDeleted(list)
      BY <2>1, <2>5, DeleteEffect
    <3>2. resp'.op = "delete" /\ resp'.list = list
      BY <3>1 DEF SetsDeleted
    <3>3. Targets(resp') = {Key[list[i]] : i \in 1..Len(list)}
      BY <3>2 DEF Targets
    <3>4. \A j \in 1..Len(list) : Key[list[j]] # k
      BY <3>3
    <3> QED
      BY <3>1, <3>4 DEF SetsDeleted
  <2>6. CASE HandleSortRequest
    <3>1. PICK n \in Name : /\ resp'.name = n
                            /\ (Sound(st') /\ Kept(st, st')) \/ Sorted(n)
      BY <2>1, <2>6, SortEffect
    <3>2. resp'.op = "sort"
      BY <2>1, <2>6, SortEffect
    <3>3. k # Key[n]
      BY <3>1, <3>2 DEF Targets
    <3> QED
      BY <3>1, <3>3 DEF Sorted, Kept
  <2>7. CASE CloseSearchEngine
    BY <2>7 DEF CloseSearchEngine
  <2>8. CASE NewSession
    BY <2>8 DEF NewSession
  <2> QED
    BY <1>1, <2>2, <2>3, <2>4, <2>5, <2>6, <2>7, <2>8 DEF Next
<1>2. IInv /\ [Next]_vars => [A]_vars
  BY <1>1
<1> QED
  BY <1>2, SessionInvariance, PTL DEF Spec, OthersKeepRecords

\* A deletion that reports success has removed every set it was asked for.
THEOREM SessionDeleteSucceeds ==
  ASSUME "rename" \notin Client
  PROVE  Spec => DeleteSucceeds
<1> DEFINE A == resp'.op = "delete" /\ resp'.overall = 0 =>
                  \A i \in 1..Len(resp'.list) :
                    /\ st.tab[Key[resp'.list[i]]] # NULL
                    /\ st'.tab[Key[resp'.list[i]]] = NULL
<1>1. ASSUME IInv, Next PROVE A
  <2>1. Sound(st) /\ Listed /\ cnt \in 0..MaxHits
    BY <1>1 DEF IInv
  <2>2. CASE HandleSearchRequest
    <3>1. PICK n \in Name : SearchFailed(n) \/ SearchStored(n) \/ Crashed(n)
      BY <2>1, <2>2, SearchEffect
    <3>2. resp'.op \in {"search", "none"}
      BY <3>1, NoRespOp
      DEF SearchFailed, SearchStored, SearchAnswer, SearchReply, Crashed
    <3> QED
      BY <3>2
  <2>3. CASE HandlePresentRequest
    BY <2>1, <2>3, PresentEffect DEF Presented
  <2>4. CASE HandleScanRequest
    BY <2>1, <2>4, ScanEffect
  <2>5. CASE HandleDeleteResultSetRequest
    BY <2>1, <2>5, DeleteEffect DEF SetsDeleted
  <2>6. CASE HandleSortRequest
    BY <2>1, <2>6, SortEffect
  <2>7. CASE CloseSearchEngine
    BY <2>1, <2>7, CloseEffect, NoRespOp
  <2>8. CASE NewSession
    BY <1>1, <2>8, NoRespOp DEF NewSession, IInv
  <2> QED
    BY <1>1, <2>2, <2>3, <2>4, <2>5, <2>6, <2>7, <2>8 DEF Next
<1>2. IInv /\ [Next]_vars => [A]_vars
  BY <1>1
<1> QED
  BY <1>2, SessionInvariance, PTL DEF Spec, DeleteSucceeds
=============================================================================
