---------------------------- MODULE MergeProofs ----------------------------
(***************************************************************************)
(* Proofs of the properties of Merge, for operands of any length and over  *)
(* any record numbers.  MergeCorrect, WithinAllocation and ResultIsOperand *)
(* follow from the inductive invariant IInv of Merge: while the loops run, *)
(* everything passed in one operand lies below everything ahead in the     *)
(* other (Frontier), and newset is the merge of what has been passed.      *)
(***************************************************************************)
EXTENDS Merge, TLAPS

-----------------------------------------------------------------------------
(* Sequences of entries. *)

\* qsort permutes: length, kind of entry, records and distinctness are kept.
LEMMA RearrangedFacts ==
  ASSUME NEW s \in Seq(Entry), NEW t \in Rearranged(s)
  PROVE  /\ t \in Seq(Entry)
         /\ Len(t) = Len(s)
         /\ Recs(t) = Recs(s)
         /\ Distinct(s) => Distinct(t)
<1>1. PICK p \in Bijection(1..Len(s), 1..Len(s)) :
             t = [i \in 1..Len(s) |-> s[p[i]]]
  BY DEF Rearranged
<1>2. /\ p \in [1..Len(s) -> 1..Len(s)]
      /\ \A i, j \in 1..Len(s) : p[i] = p[j] => i = j
      /\ \A j \in 1..Len(s) : \E i \in 1..Len(s) : p[i] = j
  BY DEF Bijection, Injection, Surjection, IsInjective
<1>3. t \in [1..Len(s) -> Entry]
  BY <1>1, <1>2
<1>4. t \in Seq(Entry) /\ Len(t) = Len(s)
  BY <1>3
<1>5. ASSUME NEW r \in Recs(t) PROVE r \in Recs(s)
  <2>1. PICK i \in 1..Len(s) : r = t[i].record_num
    BY <1>4 DEF Recs
  <2>2. p[i] \in 1..Len(s) /\ r = s[p[i]].record_num
    BY <1>1, <1>2, <2>1
  <2> QED BY <2>2 DEF Recs
<1>6. ASSUME NEW r \in Recs(s) PROVE r \in Recs(t)
  <2>1. PICK j \in 1..Len(s) : r = s[j].record_num
    BY DEF Recs
  <2>2. PICK i \in 1..Len(s) : p[i] = j
    BY <1>2
  <2>3. r = t[i].record_num
    BY <1>1, <2>1, <2>2
  <2> QED BY <1>4, <2>3 DEF Recs
<1>7. ASSUME Distinct(s) PROVE Distinct(t)
  <2> SUFFICES ASSUME NEW i \in 1..Len(s), NEW j \in 1..Len(s), i # j
               PROVE  t[i].record_num # t[j].record_num
    BY <1>4 DEF Distinct
  <2>1. p[i] \in 1..Len(s) /\ p[j] \in 1..Len(s) /\ p[i] # p[j]
    BY <1>2
  <2>2. s[p[i]].record_num # s[p[j]].record_num
    BY <1>7, <2>1 DEF Distinct
  <2> QED BY <1>1, <2>2
<1> QED BY <1>4, <1>5, <1>6, <1>7

\* The records of a set with one more entry at its end.
LEMMA RecsAppend ==
  ASSUME NEW s \in Seq(Entry), NEW e \in Entry
  PROVE  Recs(Append(s, e)) = Recs(s) \cup {e.record_num}
<1>1. /\ Len(Append(s, e)) = Len(s) + 1
      /\ Append(s, e)[Len(s) + 1] = e
      /\ \A i \in 1..Len(s) : Append(s, e)[i] = s[i]
  OBVIOUS
<1>2. 1..(Len(s) + 1) = (1..Len(s)) \cup {Len(s) + 1}
  OBVIOUS
<1> QED BY <1>1, <1>2 DEF Recs

\* An entry above all others may be written at the end.
LEMMA AscendingAppend ==
  ASSUME NEW s \in Seq(Entry), NEW e \in Entry, Ascending(s),
         \A r \in Recs(s) : r < e.record_num
  PROVE  Ascending(Append(s, e))
<1>1. /\ Len(Append(s, e)) = Len(s) + 1
      /\ Append(s, e)[Len(s) + 1] = e
      /\ \A i \in 1..Len(s) : Append(s, e)[i] = s[i]
  OBVIOUS
<1>2. \A i \in 1..Len(s) : s[i].record_num < e.record_num
  BY DEF Recs
<1> QED BY <1>1, <1>2 DEF Ascending

\* A set in record order has no record twice.
LEMMA AscendingDistinct ==
  ASSUME NEW s \in Seq(Entry), Ascending(s)
  PROVE  Distinct(s)
<1> SUFFICES ASSUME NEW i \in 1..Len(s), NEW j \in 1..Len(s), i < j
             PROVE  s[i].record_num # s[j].record_num
  BY DEF Distinct
<1>1. s[i].record_num < s[j].record_num
  BY DEF Ascending
<1>2. s[i] \in Entry /\ s[j] \in Entry
  OBVIOUS
<1> QED BY <1>1, <1>2 DEF Entry

\* Passing one entry adds its record to the records passed.
LEMMA PrefixNext ==
  ASSUME NEW s \in Seq(Entry), NEW n \in Nat, n < Len(s)
  PROVE  Prefix(s, n + 1) = Prefix(s, n) \cup {s[n + 1].record_num}
<1>1. 1..(n + 1) = (1..n) \cup {n + 1}
  OBVIOUS
<1> QED BY <1>1 DEF Prefix

-----------------------------------------------------------------------------
(* Types. *)

\* The heads of the operands, and the entry for a record in both, are entries.
LEMMA HeadEntry ==
  ASSUME TypeOK
  PROVE  /\ i1 < Len(set1) => Head1 \in Entry
         /\ i2 < Len(set2) => Head2 \in Entry
         /\ i1 < Len(set1) /\ i2 < Len(set2) => Both \in Entry
<1>1. i1 < Len(set1) => Head1 \in Entry
  BY DEF TypeOK, Head1
<1>2. i2 < Len(set2) => Head2 \in Entry
  BY DEF TypeOK, Head2
<1>3. ASSUME Head1 \in Entry, Head2 \in Entry PROVE Both \in Entry
  BY <1>3 DEF Both, Entry
<1> QED BY <1>1, <1>2, <1>3

\* A branch of the loops leaves newset a sequence of entries.
LEMMA WriteType ==
  ASSUME newset \in Seq(Entry), NEW b, NEW e \in Entry, Write(b, e)
  PROVE  newset' \in Seq(Entry)
BY DEF Write

\* No step of a merge takes a variable out of its type.
LEMMA TypeStep == TypeOK /\ [Next]_vars => TypeOK'
<1> SUFFICES ASSUME TypeOK, [Next]_vars PROVE TypeOK'
  OBVIOUS
<1>1. CASE NullOperand
  BY <1>1 DEF NullOperand, TypeOK, call
<1>2. CASE Prepare
  <2>1. type1 = "ranked" => set1' \in Seq(Entry) /\ Len(set1') = Len(set1)
    BY <1>2, RearrangedFacts DEF Prepare, TypeOK, se_sortwtset
  <2>2. type2 = "ranked" => set2' \in Seq(Entry) /\ Len(set2') = Len(set2)
    BY <1>2, RearrangedFacts DEF Prepare, TypeOK, se_sortwtset
  <2> QED BY <1>2, <2>1, <2>2 DEF Prepare, TypeOK, call
<1>3. CASE Less
  <2>1. newset' \in Seq(Entry)
    BY <1>3, HeadEntry, WriteType DEF Less, Walking, TypeOK
  <2> QED BY <1>3, <2>1 DEF Less, Walking, TypeOK, call
<1>4. CASE Greater
  <2>1. newset' \in Seq(Entry)
    BY <1>4, HeadEntry, WriteType DEF Greater, Walking, TypeOK
  <2> QED BY <1>4, <2>1 DEF Greater, Walking, TypeOK, call
<1>5. CASE Equal
  <2>1. newset' \in Seq(Entry)
    BY <1>5, HeadEntry, WriteType DEF Equal, Walking, TypeOK
  <2> QED BY <1>5, <2>1 DEF Equal, Walking, TypeOK, call
<1>6. CASE LoopEnds
  BY <1>6 DEF LoopEnds, TypeOK, call
<1>7. CASE Tail1
  <2>1. newset' \in Seq(Entry)
    BY <1>7, HeadEntry, WriteType DEF Tail1, TypeOK
  <2> QED BY <1>7, <2>1 DEF Tail1, TypeOK, call
<1>8. CASE Tail2
  <2>1. newset' \in Seq(Entry)
    BY <1>8, HeadEntry, WriteType DEF Tail2, TypeOK
  <2> QED BY <1>8, <2>1 DEF Tail2, TypeOK, call
<1>9. CASE Finish
  <2>1. newset' \in Seq(Entry)
    BY <1>9, RearrangedFacts DEF Finish, TypeOK, se_rank_docs
  <2> QED BY <1>9, <2>1 DEF Finish, TypeOK, call
<1>10. CASE UNCHANGED vars
  BY <1>10 DEF vars, TypeOK
<1> QED
  BY <1>1, <1>2, <1>3, <1>4, <1>5, <1>6, <1>7, <1>8, <1>9, <1>10 DEF Next

\* The variables of the merges keep their types, whatever order the operands
\* are in.
THEOREM TypeCorrect == Spec => []TypeOK
<1>1. Init => TypeOK
  BY SetsAssumption DEF Init, TypeOK
<1> QED BY <1>1, TypeStep, PTL DEF Spec

-----------------------------------------------------------------------------
(* The loops. *)

\* The heads lie above everything passed in either operand.
LEMMA HeadAbove ==
  ASSUME TypeOK, Looping
  PROVE  /\ i1 < Len(set1) =>
              \A r \in Prefix(set1, i1) \cup Prefix(set2, i2) : r < Head1.record_num
         /\ i2 < Len(set2) =>
              \A r \in Prefix(set1, i1) \cup Prefix(set2, i2) : r < Head2.record_num
<1>1. ASSUME i1 < Len(set1), NEW r \in Prefix(set1, i1) PROVE r < Head1.record_num
  <2>1. PICK a \in 1..i1 : r = set1[a].record_num
    BY <1>1 DEF Prefix
  <2>2. a \in 1..Len(set1) /\ i1 + 1 \in 1..Len(set1) /\ a < i1 + 1
    BY <1>1 DEF TypeOK
  <2> QED BY <2>1, <2>2 DEF Looping, Ascending, Head1
<1>2. ASSUME i1 < Len(set1), NEW r \in Prefix(set2, i2) PROVE r < Head1.record_num
  BY <1>2 DEF TypeOK, Looping, Frontier, Prefix, Head1
<1>3. ASSUME i2 < Len(set2), NEW r \in Prefix(set1, i1) PROVE r < Head2.record_num
  BY <1>3 DEF TypeOK, Looping, Frontier, Prefix, Head2
<1>4. ASSUME i2 < Len(set2), NEW r \in Prefix(set2, i2) PROVE r < Head2.record_num
  <2>1. PICK a \in 1..i2 : r = set2[a].record_num
    BY <1>4 DEF Prefix
  <2>2. a \in 1..Len(set2) /\ i2 + 1 \in 1..Len(set2) /\ a < i2 + 1
    BY <1>4 DEF TypeOK
  <2> QED BY <2>1, <2>2 DEF Looping, Ascending, Head2
<1> QED BY <1>1, <1>2, <1>3, <1>4

\* Nothing is written that has not been passed.
LEMMA WrittenPassed ==
  ASSUME Looping
  PROVE  Recs(newset) \subseteq Prefix(set1, i1) \cup Prefix(set2, i2)
BY DEF Looping, MergedSoFar

\* A branch that writes an entry above everything passed keeps newset in
\* record order, one entry longer, with the record of that entry added.
LEMMA WriteFacts ==
  ASSUME TypeOK, Looping, NEW b, NEW e \in Entry, Write(b, e),
         \A r \in Prefix(set1, i1) \cup Prefix(set2, i2) : r < e.record_num
  PROVE  /\ Ascending(newset')
         /\ b \in Writes => /\ Recs(newset') = Recs(newset) \cup {e.record_num}
                           /\ Len(newset') = Len(newset) + 1
         /\ b \notin Writes => newset' = newset
<1>1. newset \in Seq(Entry) /\ Ascending(newset)
  BY DEF TypeOK, Looping
<1>2. \A r \in Recs(newset) : r < e.record_num
  BY WrittenPassed
<1>3. CASE b \in Writes
  <2>1. newset' = Append(newset, e)
    BY <1>3 DEF Write
  <2> QED BY <1>1, <1>2, <1>3, <2>1, RecsAppend, AscendingAppend
<1>4. CASE b \notin Writes
  BY <1>1, <1>4 DEF Write
<1> QED BY <1>3, <1>4

\* The walk passes the head of set1.
LEMMA LessStep ==
  ASSUME TypeOK, Looping, Less
  PROVE  Looping'
<1> DEFINE h == Head1.record_num
           P1 == Prefix(set1, i1)
           P2 == Prefix(set2, i2)
<1>1. /\ set1 \in Seq(Entry) /\ set2 \in Seq(Entry)
      /\ i1 \in Nat /\ i2 \in Nat
      /\ i1 < Len(set1) /\ i2 < Len(set2)
      /\ newset \in Seq(Entry)
      /\ Head1 \in Entry /\ Head2 \in Entry
      /\ op \in Op
  BY HeadEntry DEF TypeOK, Less, Walking
<1>2. UNCHANGED <<op, null, set1, set2, i2, ret, pc>> /\ i1' = i1 + 1
  BY DEF Less, call
<1>3. \A r \in P1 \cup P2 : r < h
  BY <1>1, HeadAbove
<1>4. h \notin P1 /\ h \notin P2
  <2>1. h \in Nat
    BY <1>1 DEF Entry
  <2> HIDE DEF h, P1, P2
  <2> QED BY <1>3, <2>1
<1>5. Prefix(set1, i1)' = P1 \cup {h} /\ Prefix(set2, i2)' = P2
  BY <1>1, <1>2, PrefixNext DEF Head1
<1>6. /\ Ascending(newset')
      /\ "less" \in Writes => /\ Recs(newset') = Recs(newset) \cup {h}
                             /\ Len(newset') = Len(newset) + 1
      /\ "less" \notin Writes => newset' = newset
  BY <1>1, <1>3, WriteFacts DEF Less
<1>7. Frontier'
  <2>1. ASSUME NEW a \in 1..(i1 + 1), NEW b \in (i2 + 1)..Len(set2)
        PROVE  set1[a].record_num < set2[b].record_num
    <3>1. CASE a = i1 + 1
      <4>1. set1[a].record_num < set2[i2 + 1].record_num
        BY <3>1 DEF Less, Head1, Head2
      <4>2. b = i2 + 1 \/ set2[i2 + 1].record_num < set2[b].record_num
        BY <1>1 DEF Looping, Ascending
      <4>3. set1[a] \in Entry /\ set2[i2 + 1] \in Entry /\ set2[b] \in Entry
        BY <1>1
      <4> QED BY <4>1, <4>2, <4>3 DEF Entry
    <3>2. CASE a # i1 + 1
      BY <1>1, <3>2 DEF Looping, Frontier
    <3> QED BY <3>1, <3>2
  <2>2. ASSUME NEW a \in (i1 + 2)..Len(set1), NEW b \in 1..i2
        PROVE  set2[b].record_num < set1[a].record_num
    BY <1>1 DEF Looping, Frontier
  <2> QED BY <1>1, <1>2, <2>1, <2>2 DEF Frontier
<1>8. MergedSoFar'
  BY <1>1, <1>2, <1>4, <1>5, <1>6
     DEF Looping, MergedSoFar, Writes, Op, se_andmerge, se_ormerge, se_notmerge
<1>9. WrittenBound'
  BY <1>1, <1>2, <1>6
     DEF Looping, WrittenBound, Writes, Op, se_andmerge, se_ormerge, se_notmerge
<1> QED BY <1>1, <1>2, <1>6, <1>7, <1>8, <1>9 DEF Looping, InLoops, Less, Walking

\* The walk passes the head of set2.
LEMMA GreaterStep ==
  ASSUME TypeOK, Looping, Greater
  PROVE  Looping'
<1> DEFINE h == Head2.record_num
           P1 == Prefix(set1, i1)
           P2 == Prefix(set2, i2)
<1>1. /\ set1 \in Seq(Entry) /\ set2 \in Seq(Entry)
      /\ i1 \in Nat /\ i2 \in Nat
      /\ i1 < Len(set1) /\ i2 < Len(set2)
      /\ newset \in Seq(Entry)
      /\ Head1 \in Entry /\ Head2 \in Entry
      /\ op \in Op
  BY HeadEntry DEF TypeOK, Greater, Walking
<1>2. UNCHANGED <<op, null, set1, set2, i1, ret, pc>> /\ i2' = i2 + 1
  BY DEF Greater, call
<1>3. \A r \in P1 \cup P2 : r < h
  BY <1>1, HeadAbove
<1>4. h \notin P1 /\ h \notin P2
  <2>1. h \in Nat
    BY <1>1 DEF Entry
  <2> HIDE DEF h, P1, P2
  <2> QED BY <1>3, <2>1
<1>5. Prefix(set1, i1)' = P1 /\ Prefix(set2, i2)' = P2 \cup {h}
  BY <1>1, <1>2, PrefixNext DEF Head2
<1>6. /\ Ascending(newset')
      /\ "greater" \in Writes => /\ Recs(newset') = Recs(newset) \cup {h}
                                /\ Len(newset') = Len(newset) + 1
      /\ "greater" \notin Writes => newset' = newset
  BY <1>1, <1>3, WriteFacts DEF Greater
<1>7. Frontier'
  <2>1. ASSUME NEW a \in 1..i1, NEW b \in (i2 + 2)..Len(set2)
        PROVE  set1[a].record_num < set2[b].record_num
    BY <1>1 DEF Looping, Frontier
  <2>2. ASSUME NEW a \in (i1 + 1)..Len(set1), NEW b \in 1..(i2 + 1)
        PROVE  set2[b].record_num < set1[a].record_num
    <3>1. CASE b = i2 + 1
      <4>1. set1[i1 + 1].record_num > set2[b].record_num
        BY <3>1 DEF Greater, Head1, Head2
      <4>2. a = i1 + 1 \/ set1[i1 + 1].record_num < set1[a].record_num
        BY <1>1 DEF Looping, Ascending
      <4>3. set1[a] \in Entry /\ set1[i1 + 1] \in Entry /\ set2[b] \in Entry
        BY <1>1
      <4> QED BY <4>1, <4>2, <4>3 DEF Entry
    <3>2. CASE b # i2 + 1
      BY <1>1, <3>2 DEF Looping, Frontier
    <3> QED BY <3>1, <3>2
  <2> QED BY <1>1, <1>2, <2>1, <2>2 DEF Frontier
<1>8. MergedSoFar'
  BY <1>1, <1>2, <1>4, <1>5, <1>6
     DEF Looping, MergedSoFar, Writes, Op, se_andmerge, se_ormerge, se_notmerge
<1>9. WrittenBound'
  BY <1>1, <1>2, <1>6
     DEF Looping, WrittenBound, Writes, Op, se_andmerge, se_ormerge, se_notmerge
<1> QED BY <1>1, <1>2, <1>6, <1>7, <1>8, <1>9 DEF Looping, InLoops, Greater, Walking

\* The walk passes both heads.
LEMMA EqualStep ==
  ASSUME TypeOK, Looping, Equal
  PROVE  Looping'
<1> DEFINE h == Head1.record_num
           P1 == Prefix(set1, i1)
           P2 == Prefix(set2, i2)
<1>1. /\ set1 \in Seq(Entry) /\ set2 \in Seq(Entry)
      /\ i1 \in Nat /\ i2 \in Nat
      /\ i1 < Len(set1) /\ i2 < Len(set2)
      /\ newset \in Seq(Entry)
      /\ Head1 \in Entry /\ Head2 \in Entry /\ Both \in Entry
      /\ op \in Op
  BY HeadEntry DEF TypeOK, Equal, Walking
<1>2. /\ UNCHANGED <<op, null, set1, set2, ret, pc>>
      /\ i1' = i1 + 1 /\ i2' = i2 + 1
      /\ h = Head2.record_num
  BY DEF Equal, call
<1>3. \A r \in P1 \cup P2 : r < h
  BY <1>1, HeadAbove
<1>4. h \notin P1 /\ h \notin P2
  <2>1. h \in Nat
    BY <1>1 DEF Entry
  <2> HIDE DEF h, P1, P2
  <2> QED BY <1>3, <2>1
<1>5. Prefix(set1, i1)' = P1 \cup {h} /\ Prefix(set2, i2)' = P2 \cup {h}
  BY <1>1, <1>2, PrefixNext DEF Head1, Head2
<1>6. /\ Ascending(newset')
      /\ "equal" \in Writes => /\ Recs(newset') = Recs(newset) \cup {h}
                              /\ Len(newset') = Len(newset) + 1
      /\ "equal" \notin Writes => newset' = newset
  <2>1. Both.record_num = h
    BY DEF Both
  <2> QED BY <1>1, <1>3, <2>1, WriteFacts DEF Equal
<1>7. Frontier'
  <2>1. ASSUME NEW a \in 1..(i1 + 1), NEW b \in (i2 + 2)..Len(set2)
        PROVE  set1[a].record_num < set2[b].record_num
    <3>1. CASE a = i1 + 1
      <4>1. set2[i2 + 1].record_num < set2[b].record_num
        BY <1>1 DEF Looping, Ascending
      <4>2. set1[a].record_num = set2[i2 + 1].record_num
        BY <3>1 DEF Equal, Head1, Head2
      <4> QED BY <4>1, <4>2
    <3>2. CASE a # i1 + 1
      BY <1>1, <3>2 DEF Looping, Frontier
    <3> QED BY <3>1, <3>2
  <2>2. ASSUME NEW a \in (i1 + 2)..Len(set1), NEW b \in 1..(i2 + 1)
        PROVE  set2[b].record_num < set1[a].record_num
    <3>1. CASE b = i2 + 1
      <4>1. set1[i1 + 1].record_num < set1[a].record_num
        BY <1>1 DEF Looping, Ascending
      <4>2. set2[b].record_num = set1[i1 + 1].record_num
        BY <3>1 DEF Equal, Head1, Head2
      <4> QED BY <4>1, <4>2
    <3>2. CASE b # i2 + 1
      BY <1>1, <3>2 DEF Looping, Frontier
    <3> QED BY <3>1, <3>2
  <2>3. (i1 + 1) + 1 = i1 + 2 /\ (i2 + 1) + 1 = i2 + 2
    BY <1>1
  <2>4. \A a \in 1..i1', b \in (i2' + 1)..Len(set2') :
              set1'[a].record_num < set2'[b].record_num
    BY <1>2, <2>1, <2>3
  <2>5. \A a \in (i1' + 1)..Len(set1'), b \in 1..i2' :
              set2'[b].record_num < set1'[a].record_num
    BY <1>2, <2>2, <2>3
  <2> QED BY <2>4, <2>5 DEF Frontier
<1>8. MergedSoFar'
  BY <1>1, <1>2, <1>4, <1>5, <1>6
     DEF Looping, MergedSoFar, Writes, Op, se_andmerge, se_ormerge, se_notmerge
<1>9. WrittenBound'
  BY <1>1, <1>2, <1>6
     DEF Looping, WrittenBound, Writes, Op, se_andmerge, se_ormerge, se_notmerge
<1> QED BY <1>1, <1>2, <1>6, <1>7, <1>8, <1>9 DEF Looping, InLoops, Equal, Walking

\* What is left of set1 is copied once set2 has been passed.
LEMMA Tail1Step ==
  ASSUME TypeOK, Looping, Tail1
  PROVE  Looping'
<1> DEFINE h == Head1.record_num
           P1 == Prefix(set1, i1)
           P2 == Prefix(set2, i2)
<1>1. /\ set1 \in Seq(Entry) /\ set2 \in Seq(Entry)
      /\ i1 \in Nat /\ i2 \in Nat
      /\ i1 < Len(set1) /\ i2 = Len(set2)
      /\ newset \in Seq(Entry)
      /\ Head1 \in Entry
      /\ op \in Op
      /\ "rest1" \in Writes
  BY HeadEntry DEF TypeOK, Tail1, Looping
<1>2. UNCHANGED <<op, null, set1, set2, i2, ret, pc>> /\ i1' = i1 + 1
  BY DEF Tail1, call
<1>3. \A r \in P1 \cup P2 : r < h
  BY <1>1, HeadAbove
<1>4. h \notin P1 /\ h \notin P2
  <2>1. h \in Nat
    BY <1>1 DEF Entry
  <2> HIDE DEF h, P1, P2
  <2> QED BY <1>3, <2>1
<1>5. Prefix(set1, i1)' = P1 \cup {h} /\ Prefix(set2, i2)' = P2
  BY <1>1, <1>2, PrefixNext DEF Head1
<1>6. /\ Ascending(newset')
      /\ Recs(newset') = Recs(newset) \cup {h}
      /\ Len(newset') = Len(newset) + 1
  BY <1>1, <1>3, WriteFacts DEF Tail1
<1>7. Frontier'
  <2>1. ASSUME NEW a \in (i1 + 2)..Len(set1), NEW b \in 1..i2
        PROVE  set2[b].record_num < set1[a].record_num
    BY <1>1 DEF Looping, Frontier
  <2>2. (i2 + 1)..Len(set2) = {}
    BY <1>1
  <2> QED BY <1>1, <1>2, <2>1, <2>2 DEF Frontier
<1>8. MergedSoFar'
  BY <1>1, <1>2, <1>4, <1>5, <1>6
     DEF Looping, MergedSoFar, Writes, Op, se_andmerge, se_ormerge, se_notmerge
<1>9. WrittenBound'
  BY <1>1, <1>2, <1>6
     DEF Looping, WrittenBound, Writes, Op, se_andmerge, se_ormerge, se_notmerge
<1> QED BY <1>1, <1>2, <1>6, <1>7, <1>8, <1>9 DEF Looping, InLoops, Tail1

\* What is left of set2 is copied once set1 has been passed.
LEMMA Tail2Step ==
  ASSUME TypeOK, Looping, Tail2
  PROVE  Looping'
<1> DEFINE h == Head2.record_num
           P1 == Prefix(set1, i1)
           P2 == Prefix(set2, i2)
<1>1. /\ set1 \in Seq(Entry) /\ set2 \in Seq(Entry)
      /\ i1 \in Nat /\ i2 \in Nat
      /\ i1 = Len(set1) /\ i2 < Len(set2)
      /\ newset \in Seq(Entry)
      /\ Head2 \in Entry
      /\ op \in Op
      /\ "rest2" \in Writes
  BY HeadEntry DEF TypeOK, Tail2, Looping
<1>2. UNCHANGED <<op, null, set1, set2, i1, ret, pc>> /\ i2' = i2 + 1
  BY DEF Tail2, call
<1>3. \A r \in P1 \cup P2 : r < h
  BY <1>1, HeadAbove
<1>4. h \notin P1 /\ h \notin P2
  <2>1. h \in Nat
    BY <1>1 DEF Entry
  <2> HIDE DEF h, P1, P2
  <2> QED BY <1>3, <2>1
<1>5. Prefix(set1, i1)' = P1 /\ Prefix(set2, i2)' = P2 \cup {h}
  BY <1>1, <1>2, PrefixNext DEF Head2
<1>6. /\ Ascending(newset')
      /\ Recs(newset') = Recs(newset) \cup {h}
      /\ Len(newset') = Len(newset) + 1
  BY <1>1, <1>3, WriteFacts DEF Tail2
<1>7. Frontier'
  <2>1. ASSUME NEW a \in 1..i1, NEW b \in (i2 + 2)..Len(set2)
        PROVE  set1[a].record_num < set2[b].record_num
    BY <1>1 DEF Looping, Frontier
  <2>2. (i1 + 1)..Len(set1) = {}
    BY <1>1
  <2> QED BY <1>1, <1>2, <2>1, <2>2 DEF Frontier
<1>8. MergedSoFar'
  BY <1>1, <1>2, <1>4, <1>5, <1>6
     DEF Looping, MergedSoFar, Writes, Op, se_andmerge, se_ormerge, se_notmerge
<1>9. WrittenBound'
  BY <1>1, <1>2, <1>6
     DEF Looping, WrittenBound, Writes, Op, se_andmerge, se_ormerge, se_notmerge
<1> QED BY <1>1, <1>2, <1>6, <1>7, <1>8, <1>9 DEF Looping, InLoops, Tail2

\* Sorting ranked operands brings both into record order.
LEMMA PrepareStep ==
  ASSUME TypeOK, Started, Prepare
  PROVE  Looping' /\ OperandsKept'
<1>1. /\ Ascending(set1') /\ Recs(set1') = Recs(in1)
      /\ set1' \in Seq(Entry)
  BY RearrangedFacts DEF TypeOK, Started, Prepare, se_sortwtset
<1>2. /\ Ascending(set2') /\ Recs(set2') = Recs(in2)
      /\ set2' \in Seq(Entry)
  BY RearrangedFacts DEF TypeOK, Started, Prepare, se_sortwtset
<1>3. /\ UNCHANGED <<op, in1, in2>>
      /\ null' = {} /\ ret' = "set" /\ pc' = "loop"
      /\ i1' = 0 /\ i2' = 0 /\ newset' = <<>>
  BY DEF Started, Prepare, call
<1>4. Prefix(set1', 0) = {} /\ Prefix(set2', 0) = {} /\ Recs(<<>>) = {}
  BY DEF Prefix, Recs
<1>5. MergedSoFar'
  BY <1>3, <1>4 DEF MergedSoFar
<1>6. Ascending(<<>>)
  BY DEF Ascending
<1>7. Frontier' /\ WrittenBound'
  BY <1>1, <1>2, <1>3 DEF Frontier, WrittenBound
<1> QED
  BY <1>1, <1>2, <1>3, <1>5, <1>6, <1>7 DEF Looping, InLoops, OperandsKept

\* Once the walk is over, no record ahead in one operand is in the other
\* one's passed part, so that newset is the merge of the whole operands.
LEMMA FinishStep ==
  ASSUME TypeOK, OperandsKept, Looping, Finish
  PROVE  Done'
<1> DEFINE P1 == Prefix(set1, i1)
           P2 == Prefix(set2, i2)
<1>1. /\ set1 \in Seq(Entry) /\ set2 \in Seq(Entry) /\ newset \in Seq(Entry)
      /\ i1 \in 0..Len(set1) /\ i2 \in 0..Len(set2)
      /\ op \in Op
      /\ null = {} /\ ret = "set"
      /\ i1 = Len(set1) \/ i2 = Len(set2)
      /\ op \in {"or", "not"} => i1 = Len(set1)
      /\ op = "or" => i2 = Len(set2)
  BY DEF TypeOK, Looping, Finish, Writes, se_ormerge, se_notmerge, Op
<1>2. UNCHANGED <<op, in1, in2, null, type1, type2, set1, set2, i1, i2, ret>>
  BY DEF Finish, call
<1>3. /\ newset' \in Seq(Entry) /\ Len(newset') = Len(newset)
      /\ Recs(newset') = Recs(newset)
      /\ Distinct(newset')
      /\ prob_flag => Ranked(newset')
      /\ ~prob_flag => Ascending(newset')
  <2>1. Ascending(newset) /\ Distinct(newset)
    BY <1>1, AscendingDistinct DEF Looping
  <2>2. CASE prob_flag
    BY <1>1, <2>1, <2>2, RearrangedFacts DEF Finish, se_rank_docs
  <2>3. CASE ~prob_flag
    BY <1>1, <2>1, <2>3 DEF Finish
  <2> QED BY <2>2, <2>3
<1>4. /\ i1 = Len(set1) => P1 = Recs(in1)
      /\ i2 = Len(set2) => P2 = Recs(in2)
  BY DEF Prefix, Recs, OperandsKept
<1>5. P1 \subseteq Recs(in1) /\ P2 \subseteq Recs(in2)
  <2>1. P1 \subseteq Recs(set1) /\ P2 \subseteq Recs(set2)
    BY <1>1 DEF Prefix, Recs
  <2> QED BY <2>1 DEF OperandsKept
<1>6. ASSUME NEW r \in P1 PROVE r \in Recs(in2) => r \in P2
  <2> SUFFICES ASSUME r \in Recs(set2), r \notin P2 PROVE FALSE
    BY DEF OperandsKept
  <2>1. PICK b \in 1..Len(set2) : r = set2[b].record_num
    BY DEF Recs
  <2>2. PICK a \in 1..i1 : r = set1[a].record_num
    BY <1>6 DEF Prefix
  <2>3. b \in (i2 + 1)..Len(set2)
    BY <1>1, <2>1 DEF Prefix
  <2>4. set1[a].record_num < set2[b].record_num
    BY <2>3 DEF Looping, Frontier
  <2>5. set2[b] \in Entry
    BY <1>1
  <2>6. r \in Nat
    BY <2>1, <2>5 DEF Entry
  <2>7. r < r
    BY <2>1, <2>2, <2>4
  <2> QED BY <2>6, <2>7
<1>7. ASSUME NEW r \in P2 PROVE r \in Recs(in1) => r \in P1
  <2> SUFFICES ASSUME r \in Recs(set1), r \notin P1 PROVE FALSE
    BY DEF OperandsKept
  <2>1. PICK a \in 1..Len(set1) : r = set1[a].record_num
    BY DEF Recs
  <2>2. PICK b \in 1..i2 : r = set2[b].record_num
    BY <1>7 DEF Prefix
  <2>3. a \in (i1 + 1)..Len(set1)
    BY <1>1, <2>1 DEF Prefix
  <2>4. set2[b].record_num < set1[a].record_num
    BY <2>3 DEF Looping, Frontier
  <2>5. set1[a] \in Entry
    BY <1>1
  <2>6. r \in Nat
    BY <2>1, <2>5 DEF Entry
  <2>7. r < r
    BY <2>1, <2>2, <2>4
  <2> QED BY <2>6, <2>7
<1>8. Recs(newset) = Wanted
  <2>1. Operand1 = Recs(in1) /\ Operand2 = Recs(in2)
    BY <1>1 DEF Operand1, Operand2
  <2>2. CASE op = "and"
    <3>1. Recs(newset) = P1 \cap P2
      BY <2>2 DEF Looping, MergedSoFar
    <3>2. P1 \cap P2 = Recs(in1) \cap Recs(in2)
      BY <1>1, <1>4, <1>5, <1>6, <1>7
    <3> QED BY <2>1, <2>2, <3>1, <3>2 DEF Wanted
  <2>3. CASE op = "or"
    BY <1>1, <1>4, <2>1, <2>3 DEF Looping, MergedSoFar, Wanted
  <2>4. CASE op = "not"
    <3>1. Recs(newset) = P1 \ P2
      BY <2>4 DEF Looping, MergedSoFar
    <3>2. P1 \ P2 = Recs(in1) \ Recs(in2)
      BY <1>1, <1>4, <1>5, <1>6, <2>4
    <3> QED BY <2>1, <2>4, <3>1, <3>2 DEF Wanted
  <2> QED BY <1>1, <2>2, <2>3, <2>4 DEF Op
<1>9. Wanted' = Wanted /\ prob_flag' = prob_flag /\ total_postings' = total_postings
  BY <1>2 DEF Wanted, Operand1, Operand2, prob_flag, total_postings
<1>10. MergeCorrect'
  BY <1>1, <1>2, <1>3, <1>8, <1>9 DEF MergeCorrect
<1>11. ResultIsOperand'
  BY <1>3, <1>9 DEF ResultIsOperand
<1>12. Len(newset) <= total_postings
  BY <1>1 DEF Looping, WrittenBound, total_postings, Op
<1>13. WithinAllocation'
  BY <1>3, <1>9, <1>12 DEF WithinAllocation
<1> QED BY <1>10, <1>11, <1>13 DEF Done, Finish

\* With a NULL operand the result is NULL or a copy of the other operand.
LEMMA NullStep ==
  ASSUME TypeOK, Started, NullOperand
  PROVE  Done' /\ OperandsKept'
<1>1. UNCHANGED <<op, in1, in2, null, set1, set2>>
  BY DEF NullOperand, call
<1>2. op \in Op /\ null \in SUBSET {1, 2} /\ null # {} /\ set1 = in1 /\ set2 = in2
  BY DEF TypeOK, Started, NullOperand
<1>3. ret' = "NULL" => Wanted = {}
  BY <1>2 DEF NullOperand, ReturnsNull, Wanted, Operand1, Operand2, Op
<1>4. ret' # "NULL" => Recs(newset') = Wanted
  BY <1>2 DEF NullOperand, ReturnsNull, Wanted, Operand1, Operand2, Op
<1>5. Wanted' = Wanted
  BY <1>1 DEF Wanted, Operand1, Operand2
<1>6. MergeCorrect'
  BY <1>3, <1>4, <1>5 DEF MergeCorrect
<1>7. ResultIsOperand' /\ WithinAllocation' /\ OperandsKept'
  BY <1>1, <1>2 DEF ResultIsOperand, WithinAllocation, OperandsKept
<1> QED BY <1>6, <1>7 DEF Done, NullOperand

-----------------------------------------------------------------------------
(* The inductive invariant. *)

\* Every call starts in a state of the invariant.
LEMMA InitIInv == SortedSets = FALSE /\ Init => IInv
<1> SUFFICES ASSUME SortedSets = FALSE, Init PROVE IInv
  OBVIOUS
<1>1. TypeOK
  BY SetsAssumption DEF Init, TypeOK
<1>2. Started /\ OperandsKept
  BY DEF Init, Started, OperandsKept
<1> QED BY <1>1, <1>2 DEF IInv

\* Every step keeps the invariant.
LEMMA NextIInv == IInv /\ [Next]_vars => IInv'
<1> SUFFICES ASSUME IInv, [Next]_vars PROVE IInv'
  OBVIOUS
<1>1. TypeOK /\ TypeOK' /\ OperandsKept
  BY TypeStep DEF IInv
<1>2. CASE NullOperand
  <2>1. Started
    BY <1>2 DEF IInv, NullOperand, Looping, InLoops, Done
  <2> QED BY <1>1, <1>2, <2>1, NullStep DEF IInv
<1>3. CASE Prepare
  <2>1. Started
    BY <1>3 DEF IInv, Prepare, Looping, InLoops, Done
  <2> QED BY <1>1, <1>3, <2>1, PrepareStep DEF IInv
<1>4. CASE Less \/ Greater \/ Equal
  <2>1. Looping
    BY <1>4 DEF IInv, Less, Greater, Equal, Walking, Started, Done
  <2>2. OperandsKept'
    BY <1>1, <1>4 DEF OperandsKept, Less, Greater, Equal, call
  <2> QED
    BY <1>1, <1>4, <2>1, <2>2, LessStep, GreaterStep, EqualStep DEF IInv
<1>5. CASE LoopEnds
  <2>1. Looping
    BY <1>5 DEF IInv, LoopEnds, Started, Done
  <2>2. Looping' /\ OperandsKept'
    BY <1>1, <1>5, <2>1
       DEF LoopEnds, call, Looping, InLoops, OperandsKept, Frontier,
           MergedSoFar, WrittenBound
  <2> QED BY <1>1, <2>2 DEF IInv
<1>6. CASE Tail1 \/ Tail2
  <2>1. Looping
    BY <1>6 DEF IInv, Tail1, Tail2, Started, Done
  <2>2. OperandsKept'
    BY <1>1, <1>6 DEF OperandsKept, Tail1, Tail2, call
  <2> QED BY <1>1, <1>6, <2>1, <2>2, Tail1Step, Tail2Step DEF IInv
<1>7. CASE Finish
  <2>1. Looping
    BY <1>7 DEF IInv, Finish, Started, Done
  <2>2. OperandsKept'
    BY <1>1, <1>7 DEF OperandsKept, Finish, call
  <2> QED BY <1>1, <1>7, <2>1, <2>2, FinishStep DEF IInv
<1>8. CASE UNCHANGED vars
  <2>1. IInv' = IInv
    BY <1>8 DEF vars, IInv, TypeOK, OperandsKept, Started, Looping, InLoops, Done,
                Frontier, MergedSoFar, WrittenBound, MergeCorrect,
                ResultIsOperand, WithinAllocation, Wanted, Operand1, Operand2,
                prob_flag, total_postings
  <2> QED BY <2>1
<1> QED
  BY <1>2, <1>3, <1>4, <1>5, <1>6, <1>7, <1>8 DEF Next

\* In every state of the invariant the properties hold.
LEMMA IInvImplies == IInv => MergeCorrect /\ WithinAllocation /\ ResultIsOperand
<1> SUFFICES ASSUME IInv PROVE MergeCorrect /\ WithinAllocation /\ ResultIsOperand
  OBVIOUS
<1>1. CASE Started
  <2>1. Len(newset) = 0 /\ Len(set1) \in Nat /\ Len(set2) \in Nat /\ pc = "start"
    BY <1>1 DEF Started, IInv, TypeOK
  <2>2. WithinAllocation
    BY <2>1 DEF WithinAllocation, total_postings
  <2> QED BY <2>1, <2>2 DEF MergeCorrect, ResultIsOperand
<1>2. CASE Looping
  <2>1. pc # "done"
    BY <1>2 DEF Looping, InLoops
  <2>2. WithinAllocation
    BY <1>2 DEF IInv, TypeOK, Op, Looping, WrittenBound, WithinAllocation,
                total_postings
  <2> QED BY <2>1, <2>2 DEF MergeCorrect, ResultIsOperand
<1>3. CASE Done
  BY <1>3 DEF Done
<1> QED BY <1>1, <1>2, <1>3 DEF IInv

\* Given operands that are ranked or in record order, se_andmerge, se_ormerge
\* and se_notmerge return exactly the intersection, the union and the
\* difference of their records.
THEOREM Correct == SortedSets = FALSE /\ Spec => []MergeCorrect
BY InitIInv, NextIInv, IInvImplies, PTL DEF Spec

\* None of the three writes past the entries allocated for newset.
THEOREM NoOverrun == SortedSets = FALSE /\ Spec => []WithinAllocation
BY InitIInv, NextIInv, IInvImplies, PTL DEF Spec

\* What they return can be an operand of the next merge.
THEOREM ResultUsable == SortedSets = FALSE /\ Spec => []ResultIsOperand
BY InitIInv, NextIInv, IInvImplies, PTL DEF Spec
=============================================================================
