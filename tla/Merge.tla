------------------------------- MODULE Merge -------------------------------
(***************************************************************************)
(* The Boolean merges of two result sets, se_andmerge, se_ormerge (called  *)
(* with addweights = 0) and se_notmerge of search/, loop by loop.  Each is *)
(* a two-pointer walk over the entries of set1 and set2, which it takes to *)
(* be in ascending order of record_num.  Ranked operands are first sorted  *)
(* by record number, in place; the result is ranked again at the end.      *)
(*                                                                         *)
(* The operands are document sets of one file: virtual, bitmap, paged and  *)
(* component sets, which are dispatched elsewhere or converted first, and  *)
(* the fuzzy weights are not covered here.                                 *)
(***************************************************************************)
EXTENDS Integers, Sequences, Functions

CONSTANTS
  Sets,       \* operands: sequences of entries with distinct record numbers
  SortedSets  \* TRUE if an operand may come from the Sort service, which
              \* leaves an unranked set in an order of its own

Op == {"and", "or", "not"}

Type == {"Boolean", "ranked"}

Entry == [record_num : Nat, weight : Nat]

Distinct(s) ==
  \A i, j \in 1..Len(s) : i # j => s[i].record_num # s[j].record_num

Ascending(s) ==
  \A i, j \in 1..Len(s) : i < j => s[i].record_num < s[j].record_num

Ranked(s) == \A i, j \in 1..Len(s) : i < j => s[i].weight >= s[j].weight

\* The records of a set, and of its first n entries.
Recs(s) == {s[i].record_num : i \in 1..Len(s)}
Prefix(s, n) == {s[i].record_num : i \in 1..n}

ASSUME SetsAssumption ==
  /\ Sets \subseteq Seq(Entry)
  /\ \A s \in Sets : Distinct(s)
  /\ SortedSets \in BOOLEAN

VARIABLES
  op,          \* the operator being evaluated
  in1, in2,    \* the operands as they were passed
  null,        \* the operands that are NULL pointers, a subset of {1, 2}
  type1, type2,  \* result_type: "ranked" if a probabilistic bit is set
  set1, set2,  \* the operands in memory
  i1, i2,      \* entries of set1 and of set2 already passed
  newset,      \* the entries written so far
  ret,         \* what the call returns: "set" (newset) or "NULL"
  pc

vars == <<op, in1, in2, null, type1, type2, set1, set2, i1, i2, newset,
          ret, pc>>

call == <<op, in1, in2, null, type1, type2>>

\* A call can be made with any two sets.  A set that is not ranked is in
\* record order, as term lookup and the merges leave it, unless it was
\* sorted on request.
Init ==
  /\ op \in Op
  /\ in1 \in Sets /\ in2 \in Sets
  /\ null \in SUBSET {1, 2}
  /\ type1 \in Type /\ type2 \in Type
  /\ type1 = "ranked" \/ SortedSets \/ Ascending(in1)
  /\ type2 = "ranked" \/ SortedSets \/ Ascending(in2)
  /\ set1 = in1 /\ set2 = in2
  /\ i1 = 0 /\ i2 = 0
  /\ newset = <<>>
  /\ ret = "set"
  /\ pc = "start"

-----------------------------------------------------------------------------
\* What qsort with compare_wt_entries, with compare_weights, may leave.
Rearranged(s) ==
  {[i \in 1..Len(s) |-> s[p[i]]] : p \in Bijection(1..Len(s), 1..Len(s))}

se_sortwtset(s) == {t \in Rearranged(s) : Ascending(t)}

se_rank_docs(s) == {t \in Rearranged(s) : Ranked(t)}

\* The branches of its loops in which each merge writes an entry: "less",
\* "greater" and "equal" of the walk, and the copying of what is left.
se_andmerge == {"equal"}
se_ormerge == {"less", "greater", "equal", "rest1", "rest2"}
se_notmerge == {"less", "rest1"}

Writes == IF op = "and" THEN se_andmerge
          ELSE IF op = "or" THEN se_ormerge ELSE se_notmerge

\* NULL is returned, or a copy of the operand that is not NULL.
ReturnsNull == IF op = "and" THEN null # {}
               ELSE IF op = "or" THEN null = {1, 2} ELSE 1 \in null

NullOperand ==
  /\ pc = "start"
  /\ null # {}
  /\ ret' = IF ReturnsNull THEN "NULL" ELSE "set"
  /\ newset' = IF ReturnsNull THEN <<>>
               ELSE IF 2 \in null THEN set1 ELSE set2
  /\ pc' = "done"
  /\ UNCHANGED <<call, set1, set2, i1, i2>>

\* Mutated form of Prepare: only the first operand is sorted.
PrepareFirstOnly ==
  /\ pc = "start"
  /\ null = {}
  /\ IF type1 = "ranked" THEN set1' \in se_sortwtset(set1) ELSE UNCHANGED set1
  /\ pc' = "loop"
  /\ UNCHANGED <<call, set2, i1, i2, newset, ret>>

\* Ranked operands are brought into record order where they are.
Prepare ==
  /\ pc = "start"
  /\ null = {}
  /\ IF type1 = "ranked" THEN set1' \in se_sortwtset(set1) ELSE UNCHANGED set1
  /\ IF type2 = "ranked" THEN set2' \in se_sortwtset(set2) ELSE UNCHANGED set2
  /\ pc' = "loop"
  /\ UNCHANGED <<call, i1, i2, newset, ret>>

\* An operand is ranked, and so will be the result.
prob_flag == type1 = "ranked" \/ type2 = "ranked"

Head1 == set1[i1 + 1]
Head2 == set2[i2 + 1]

Walking == pc = "loop" /\ i1 < Len(set1) /\ i2 < Len(set2)

\* The entry for a record in both operands.
Both == [record_num |-> Head1.record_num,
         weight |-> IF op = "and" /\ ~prob_flag THEN 1
                    ELSE Head1.weight + Head2.weight]

\* The entry e is written by branch b, if the merge writes one there.
Write(b, e) == newset' = IF b \in Writes THEN Append(newset, e) ELSE newset

\* Mutated form of Less: the index is advanced twice.
LessSkips ==
  /\ Walking
  /\ Head1.record_num < Head2.record_num
  /\ Write("less", Head1)
  /\ i1' = i1 + 2
  /\ UNCHANGED <<call, set1, set2, i2, ret, pc>>

Less ==
  /\ Walking
  /\ Head1.record_num < Head2.record_num
  /\ Write("less", Head1)
  /\ i1' = i1 + 1
  /\ UNCHANGED <<call, set1, set2, i2, ret, pc>>

Greater ==
  /\ Walking
  /\ Head1.record_num > Head2.record_num
  /\ Write("greater", Head2)
  /\ i2' = i2 + 1
  /\ UNCHANGED <<call, set1, set2, i1, ret, pc>>

Equal ==
  /\ Walking
  /\ Head1.record_num = Head2.record_num
  /\ Write("equal", Both)
  /\ i1' = i1 + 1
  /\ i2' = i2 + 1
  /\ UNCHANGED <<call, set1, set2, ret, pc>>

\* Mutated form of LoopEnds: the loop is left once both sets are passed.
LoopEndsAfterBoth ==
  /\ pc = "loop"
  /\ i1 = Len(set1) /\ i2 = Len(set2)
  /\ pc' = "tail"
  /\ UNCHANGED <<call, set1, set2, i1, i2, newset, ret>>

LoopEnds ==
  /\ pc = "loop"
  /\ i1 = Len(set1) \/ i2 = Len(set2)
  /\ pc' = "tail"
  /\ UNCHANGED <<call, set1, set2, i1, i2, newset, ret>>

\* What is left of set1, and then of set2, is copied.
Tail1 ==
  /\ pc = "tail"
  /\ "rest1" \in Writes
  /\ i1 < Len(set1)
  /\ Write("rest1", Head1)
  /\ i1' = i1 + 1
  /\ UNCHANGED <<call, set1, set2, i2, ret, pc>>

Tail2 ==
  /\ pc = "tail"
  /\ "rest2" \in Writes
  /\ i1 = Len(set1)
  /\ i2 < Len(set2)
  /\ Write("rest2", Head2)
  /\ i2' = i2 + 1
  /\ UNCHANGED <<call, set1, set2, i1, ret, pc>>

\* Mutated form of Finish: the result is not ranked again.
FinishUnranked ==
  /\ pc = "tail"
  /\ "rest1" \in Writes => i1 = Len(set1)
  /\ "rest2" \in Writes => i2 = Len(set2)
  /\ pc' = "done"
  /\ UNCHANGED <<call, set1, set2, i1, i2, newset, ret>>

\* The result is ranked if an operand was.
Finish ==
  /\ pc = "tail"
  /\ "rest1" \in Writes => i1 = Len(set1)
  /\ "rest2" \in Writes => i2 = Len(set2)
  /\ IF prob_flag THEN newset' \in se_rank_docs(newset) ELSE UNCHANGED newset
  /\ pc' = "done"
  /\ UNCHANGED <<call, set1, set2, i1, i2, ret>>

Next == NullOperand \/ Prepare \/ Less \/ Greater \/ Equal \/ LoopEnds
          \/ Tail1 \/ Tail2 \/ Finish

Spec == Init /\ [][Next]_vars

\* The loops run to their end: nothing else shares the thread.
FairSpec == Spec /\ WF_vars(Next)

-----------------------------------------------------------------------------
\* Shapes of the variables of the merges.
TypeOK ==
  /\ op \in Op
  /\ in1 \in Sets /\ in2 \in Sets
  /\ null \in SUBSET {1, 2}
  /\ type1 \in Type /\ type2 \in Type
  /\ set1 \in Seq(Entry) /\ set2 \in Seq(Entry)
  /\ i1 \in 0..Len(set1) /\ i2 \in 0..Len(set2)
  /\ newset \in Seq(Entry)
  /\ ret \in {"set", "NULL"}
  /\ pc \in {"start", "loop", "tail", "done"}

\* The records a merge is for, a NULL operand having none.
Operand1 == IF 1 \in null THEN {} ELSE Recs(in1)
Operand2 == IF 2 \in null THEN {} ELSE Recs(in2)
Wanted == IF op = "and" THEN Operand1 \cap Operand2
          ELSE IF op = "or" THEN Operand1 \cup Operand2
          ELSE Operand1 \ Operand2

\* A merge returns exactly the records its operator stands for, and NULL
\* only where there are none to return.
MergeCorrect ==
  pc = "done" => IF ret = "NULL" THEN Wanted = {} ELSE Recs(newset) = Wanted

\* Mutated form of total_postings: the smaller count for and and not.
SmallerPostings ==
  LET n1 == Len(set1)
      n2 == Len(set2)
  IN  IF op = "or" THEN n1 + n2 ELSE IF n1 < n2 THEN n1 ELSE n2

\* newset was allocated for total_postings entries: the smaller count for
\* and, the sum for or, the larger for not.  No write is beyond it.
total_postings ==
  LET n1 == Len(set1)
      n2 == Len(set2)
  IN  IF op = "and" THEN IF n1 < n2 THEN n1 ELSE n2
      ELSE IF op = "or" THEN n1 + n2
      ELSE IF n1 > n2 THEN n1 ELSE n2

WithinAllocation == null = {} => Len(newset) <= total_postings

\* A result has no record twice, and is in record order unless ranked, so
\* that it can be an operand of the next merge.
ResultIsOperand ==
  pc = "done" /\ null = {} => /\ Distinct(newset)
                              /\ prob_flag \/ Ascending(newset)
                              /\ prob_flag => Ranked(newset)

-----------------------------------------------------------------------------
(***************************************************************************)
(* The inductive invariant behind the properties above, for operands in    *)
(* record order (SortedSets = FALSE).                                      *)
(***************************************************************************)
InLoops == pc \in {"loop", "tail"}

\* Sorting in place loses no record.
OperandsKept == Recs(set1) = Recs(in1) /\ Recs(set2) = Recs(in2)

\* Everything passed in one set lies below everything ahead in the other.
Frontier ==
  /\ \A a \in 1..i1, b \in (i2 + 1)..Len(set2) :
       set1[a].record_num < set2[b].record_num
  /\ \A a \in (i1 + 1)..Len(set1), b \in 1..i2 :
       set2[b].record_num < set1[a].record_num

\* newset is the merge of what has been passed.
MergedSoFar ==
  LET passed1 == Prefix(set1, i1)
      passed2 == Prefix(set2, i2)
  IN  Recs(newset) = IF op = "and" THEN passed1 \cap passed2
                     ELSE IF op = "or" THEN passed1 \cup passed2
                     ELSE passed1 \ passed2

\* No more entries written than passed.
WrittenBound ==
  /\ op = "and" => Len(newset) <= i1 /\ Len(newset) <= i2
  /\ op = "or" => Len(newset) <= i1 + i2
  /\ op = "not" => Len(newset) <= i1

Started == /\ pc = "start"
           /\ i1 = 0 /\ i2 = 0 /\ newset = <<>> /\ ret = "set"
           /\ set1 = in1 /\ set2 = in2
           /\ type1 = "ranked" \/ Ascending(in1)
           /\ type2 = "ranked" \/ Ascending(in2)

Looping == /\ InLoops
           /\ null = {} /\ ret = "set"
           /\ Ascending(set1) /\ Ascending(set2)
           /\ Frontier
           /\ MergedSoFar
           /\ Ascending(newset)
           /\ WrittenBound
           /\ pc = "tail" => i1 = Len(set1) \/ i2 = Len(set2)

Done == pc = "done" /\ MergeCorrect /\ ResultIsOperand /\ WithinAllocation

IInv == /\ TypeOK
        /\ OperandsKept
        /\ Started \/ Looping \/ Done

-----------------------------------------------------------------------------
\* Every merge returns.
Returns == <>(pc = "done")
=============================================================================
