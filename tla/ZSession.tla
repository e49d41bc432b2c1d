------------------------------ MODULE ZSession ------------------------------
(***************************************************************************)
(* One Z39.50 session: the request handlers of zserver/server_utils.c with *)
(* the search API of zserver/searchapi.c and zserver/sort_results.c, over  *)
(* the result set store of ResultSetOps.  zserver serves one client in one *)
(* thread, so a request and its response are one step.                     *)
(*                                                                         *)
(* A set is [ents, type]: its record numbers in order, and whether it is   *)
(* "ranked" or "Boolean".  Weights are left out: ranking may leave any     *)
(* order.  Databases are one local file: virtual, DBMS, METADATA and       *)
(* Explain searches and bitmap sets are not covered, and result files can  *)
(* be written.                                                             *)
(*                                                                         *)
(* Client says what this client does beyond searching with replace on and  *)
(* presenting its latest result set:                                       *)
(*   "keep"      searches with the replace indicator off                   *)
(*   "other"     presents a stored set that is not the latest one          *)
(*   "medium"    asks for the records of a medium set with the search      *)
(*   "rename"    stores a stored set again, over another name in use       *)
(*   "not"       subtracts a result set that does not exist                *)
(*   "sort_over" sorts other sets over the latest result set               *)
(***************************************************************************)
EXTENDS ResultSetOps, SequencesExt

CONSTANTS
  Body,            \* the sets that searching for terms finds
  namedResultSet,  \* server.init: FALSE if only "default" may be named
  nosave,          \* session->disable_saving_result_sets
  Medium,          \* mediumSetPresentNumber
  MaxHits,         \* bound on the size of a set
  Client

ASSUME ClientAssumption ==
  /\ Client \subseteq {"keep", "other", "medium", "rename", "not", "sort_over"}
  /\ namedResultSet \in BOOLEAN /\ nosave \in BOOLEAN
  /\ Medium \in Nat /\ MaxHits \in Nat

\* An entry is its record number.
ASSUME BodyAssumption == weighted_entry \subseteq Nat /\ Body \subseteq Bodies

VARIABLES
  st,     \* the store and the diagnostic
  names,  \* session->c_resultSetNames, an AC_LIST compared with strcmp
  cur,    \* session->resultSetName
  cnt,    \* session->resultCount
  resp,   \* the latest request with its response
  conn    \* "open", "closed" or "crashed"

vars == <<st, names, cur, cnt, resp, conn>>

NoResp == [op |-> "none"]

Init == /\ st = EmptyStore
        /\ names = <<>>
        /\ cur = EmptyName
        /\ cnt = 0
        /\ resp = NoResp
        /\ conn = "open"

\* A request needs at most this many fresh addresses; the bound on Obj.
Room == Cardinality(FreeAddrs(st)) >= 2

-----------------------------------------------------------------------------
(* Query processing: se_process_query and the merges. *)

Query ==
  [kind : {"term"}, body : Body] \cup [kind : {"set"}, set : Name]
    \cup [kind : {"and", "or", "not"}, left : Name, right : Name]
    \cup {[kind |-> "bad"]}

\* A set at a fresh address.
New(s, b) == [s EXCEPT !.heap[Alloc(s)] = [setid |-> Unnamed, body |-> b]]

\* The walk of the three merges over two sequences of record numbers, in
\* whatever order they are (see Merge): i and j are the positions reached, and
\* out is what the result holds so far.
WalkStep(op, s, t, w) ==
  LET Take(ok, e) == IF ok THEN Append(w.out, e) ELSE w.out
  IN  IF w.i > Len(s) \/ w.j > Len(t) THEN w
      ELSE IF s[w.i] < t[w.j]
      THEN [i |-> w.i + 1, j |-> w.j, out |-> Take(op # "and", s[w.i])]
      ELSE IF s[w.i] > t[w.j]
      THEN [i |-> w.i, j |-> w.j + 1, out |-> Take(op = "or", t[w.j])]
      ELSE [i |-> w.i + 1, j |-> w.j + 1, out |-> Take(op # "not", s[w.i])]

\* What is left of one operand when the other one is used up goes to the end.
Walk(op, s, t) ==
  LET w[n \in 0..(Len(s) + Len(t))] ==
        IF n = 0 THEN [i |-> 1, j |-> 1, out |-> <<>>]
        ELSE WalkStep(op, s, t, w[n - 1])
      end == w[Len(s) + Len(t)]
  IN  end.out \o (IF op # "and" THEN SubSeq(s, end.i, Len(s)) ELSE <<>>)
              \o (IF op = "or" THEN SubSeq(t, end.j, Len(t)) ELSE <<>>)

Orders(s) == {[i \in 1..Len(s) |-> s[p[i]]] : p \in Bijection(1..Len(s), 1..Len(s))}

\* The outcomes of se_sortwtset: a ranked operand is put into record order
\* where it is, and it may well be a stored set.
SortInPlace(s, o) ==
  IF s.heap[o].body.type = "ranked"
  THEN {[s EXCEPT !.heap[o].body.ents = e] :
          e \in {x \in Orders(s.heap[o].body.ents) :
                   \A i \in 1..(Len(x) - 1) : x[i] <= x[i + 1]}}
  ELSE {s}

\* The outcomes of merging the sets at o1 and o2, once they are sorted: the
\* state and the address of the new set.
MergeSorted(s, op, o1, o2) ==
  LET b1     == s.heap[o1].body
      b2     == s.heap[o2].body
      ents   == Walk(op, b1.ents, b2.ents)
      ranked == "ranked" \in {b1.type, b2.type}
  IN  {[st |-> New(s, [ents |-> e, type |-> IF ranked THEN "ranked" ELSE "Boolean"]),
        set |-> Alloc(s)] : e \in IF ranked THEN Orders(ents) ELSE {ents}}

Merged(s, op, o1, o2) ==
  UNION {MergeSorted(u, op, o1, o2) :
           u \in UNION {SortInPlace(v, o2) : v \in SortInPlace(s, o1)}}

\* The outcomes of a query: a state with the address of the set found, NULL
\* if there is none, and whether the process died (right_res->setid of
\* and-not is read even if right_res is NULL).
Outcome(s, o, dies) == [st |-> s, set |-> o, dies |-> dies]

MergeOutcomes(s, q) ==
  LET l == se_get_result_set(s, q.left)
      r == se_get_result_set(l.st, q.right)
  IN  IF l.set = NULL /\ q.kind \in {"and", "not"} THEN {Outcome(l.st, NULL, FALSE)}
      ELSE IF l.set # NULL /\ r.set # NULL
      THEN {Outcome(m.st, m.set, FALSE) : m \in Merged(r.st, q.kind, l.set, r.set)}
      ELSE {Outcome(r.st, NULL, q.kind = "not")}

se_process_query(s, q) ==
  CASE q.kind = "term" -> {Outcome(New(s, q.body), Alloc(s), FALSE)}
    [] q.kind = "set"  -> LET g == se_get_result_set(s, q.set)
                          IN  {Outcome(g.st, g.set, FALSE)}
    [] q.kind = "bad"  -> {Outcome(diagnostic_set(s, 114), NULL, FALSE)}
    [] OTHER           -> MergeOutcomes(s, q)

-----------------------------------------------------------------------------
(* Record retrieval: RetrieveRecords2 and CheshireFetchRecs. *)

\* number records from start are fetched, one by one; a record that cannot
\* be read (fails) ends the request with diagnostic 14.  What is kept of the
\* records is whether their positions all are inside the set.
RetrieveRecords2(s, n, start, number, fails) ==
  LET g == se_get_result_set(diagnostic_clear(s), n)
  IN  IF g.set = NULL THEN [st |-> g.st, ok |-> FALSE, inside |-> TRUE]
      ELSE [st     |-> IF fails THEN diagnostic_set(g.st, 14) ELSE g.st,
            ok     |-> ~fails,
            inside |-> start + number - 1 <= Len(g.st.heap[g.set].body.ents)]

-----------------------------------------------------------------------------
(* HandleSearchRequest. *)

SearchReply(n, replace, ok, count, inside) ==
  [op |-> "search", name |-> n, replace |-> replace, ok |-> ok,
   count |-> count, inside |-> inside]

\* Mutated form of SearchError: the count is set to -1.
SearchErrorNegative(s, n, replace) ==
  /\ st' = Collect(s)
  /\ cnt' = -1
  /\ resp' = SearchReply(n, replace, FALSE, 0, TRUE)
  /\ UNCHANGED conn

\* The error path of a search: the count of the session is lost.
SearchError(s, n, replace) ==
  /\ st' = Collect(s)
  /\ cnt' = 0
  /\ resp' = SearchReply(n, replace, FALSE, 0, TRUE)
  /\ UNCHANGED conn

\* Validation fails before the query is run: the name is in use and may not
\* be replaced (21), it may not be used at all (22), or a database, element
\* set or record syntax is unknown (109).
RefusedBy(n, replace, known) ==
  IF ~replace /\ Contains(names, n) THEN 21
  ELSE IF ~namedResultSet /\ Key[n] # "DEFAULT" THEN 22
  ELSE IF ~known THEN 109 ELSE 0

\* CheshireSearch stores what the query found, whether or not that succeeds.
Stored(out, n, replace) ==
  se_store_result_set(out.st, out.set, n, replace, nosave, TRUE).st

\* The number of records sent with the search response.
RecordsWithSearch(count, want) ==
  CASE want = "small" -> count
    [] want = "medium" /\ count > 0 -> Medium
    [] OTHER -> 0

\* The rest of the request once the query has found the set out.set.
SearchFound(n, replace, want, fails, out) ==
  LET count  == Len(out.st.heap[out.set].body.ents)
      stored == Stored(out, n, replace)
      number == RecordsWithSearch(count, want)
      r      == RetrieveRecords2(stored, n, 1, number, fails)
  IN  /\ count <= MaxHits
      /\ names' = IF count > 0 /\ ~Contains(names, n) THEN Append(names, n) ELSE names
      /\ IF number > 0 /\ ~r.ok THEN SearchError(r.st, n, replace)
         ELSE /\ st' = Collect(IF number > 0 THEN r.st ELSE stored)
              /\ cnt' = count
              /\ resp' = SearchReply(n, replace, TRUE, count, number > 0 => r.inside)
              /\ UNCHANGED conn

\* The process dies: its memory is gone, its result files stay.
Crash ==
  /\ conn' = "crashed"
  /\ st' = [EmptyStore EXCEPT
              !.orphan = \E k \in Keys : st.tab[k] # NULL /\ st.tab[k].disk # NULL]
  /\ resp' = NoResp
  /\ UNCHANGED <<names, cnt>>

SearchRefused(n, replace, known) ==
  LET code == RefusedBy(n, replace, known)
  IN  /\ code # 0
      /\ SearchError(diagnostic_set(st, code), n, replace)
      /\ UNCHANGED <<names, cur>>

SearchAccepted(n, replace, q, want, fails) ==
  /\ RefusedBy(n, replace, TRUE) = 0
  /\ cur' = n
  /\ \E out \in se_process_query(diagnostic_clear(st), q) :
       IF out.dies THEN Crash
       ELSE IF out.set # NULL /\ out.st.diag = 0
       THEN SearchFound(n, replace, want, fails, out)
       ELSE SearchError(out.st, n, replace) /\ UNCHANGED names

\* Searches of the clients the instance is about.
ClientSearches(n, replace, q, want) ==
  /\ ~replace => "keep" \in Client
  /\ want = "medium" => "medium" \in Client
  /\ q.kind = "set" /\ Key[q.set] # Key[n] /\ st.tab[Key[n]] # NULL
       => "rename" \in Client
  /\ q.kind = "not" /\ st.tab[Key[q.right]] = NULL => "not" \in Client

HandleSearchRequest ==
  \E n \in Name, replace \in BOOLEAN :
    /\ conn = "open" /\ Room
    /\ \/ \E known \in BOOLEAN : SearchRefused(n, replace, known)
       \/ \E q \in Query, want \in {"none", "small", "medium"}, fails \in BOOLEAN :
            /\ fails => want # "none"
            /\ ClientSearches(n, replace, q, want)
            /\ SearchAccepted(n, replace, q, want, fails)

-----------------------------------------------------------------------------
(* HandlePresentRequest. *)

PresentReply(s, n, ok, inside) ==
  /\ st' = s
  /\ resp' = [op |-> "present", name |-> n, ok |-> ok, inside |-> inside]

\* The count the range is checked against: the session's count if the set
\* named is the session's current one.
PresentCount(n) ==
  IF cur = n THEN [st |-> st, hits |-> cnt] ELSE se_get_result_hits(st, n)

\* Mutated form of OutOfRange: one record more is let through.
OneMoreInRange(start, number, hits) ==
  start < 1 \/ start > hits \/ number < 1 \/ start + number > hits + 2

OutOfRange(start, number, hits) ==
  start < 1 \/ start > hits \/ number < 1 \/ start + number > hits + 1

\* valid: element set and record syntax are known.
PresentRefused(n, start, number, valid) ==
  LET c == PresentCount(n)
      Error(s) == PresentReply(s, n, FALSE, TRUE)
  IN  /\ \/ ~valid /\ Error(diagnostic_set(st, 106))
         \/ valid /\ c.hits < 0 /\ Error(diagnostic_set(c.st, 30))
         \/ /\ valid /\ c.hits >= 0 /\ OutOfRange(start, number, c.hits)
            /\ Error(diagnostic_set(c.st, 13))
      /\ UNCHANGED cur

PresentAccepted(n, start, number, fails) ==
  LET c == PresentCount(n)
      r == RetrieveRecords2(c.st, n, start, number, fails)
  IN  /\ c.hits >= 0 /\ ~OutOfRange(start, number, c.hits)
      /\ cur' = n
      /\ PresentReply(r.st, n, r.ok, r.ok => r.inside)

HandlePresentRequest ==
  \E n \in Name, start, number \in 0..MaxHits :
    /\ conn = "open"
    /\ n # cur /\ st.tab[Key[n]] # NULL => "other" \in Client
    /\ \/ \E valid \in BOOLEAN : PresentRefused(n, start, number, valid)
       \/ \E fails \in BOOLEAN : PresentAccepted(n, start, number, fails)
    /\ UNCHANGED <<names, cnt, conn>>

\* HandleScanRequest reads an index.  It leaves a diagnostic if it fails: an
\* unknown database (109), or no index, which is reported as the diagnostic
\* that is current, if there is one (CheshireScan).
ScanDiagnostic(outcome) ==
  CASE outcome = "done" -> st.diag
    [] outcome = "no_index" -> IF st.diag = 0 THEN 114 ELSE st.diag
    [] outcome = "no_database" -> 109

HandleScanRequest ==
  /\ conn = "open"
  /\ \E outcome \in {"done", "no_index", "no_database"} :
       /\ st' = [st EXCEPT !.diag = ScanDiagnostic(outcome)]
       /\ resp' = [op |-> "scan", outcome |-> outcome, code |-> st'.diag]
  /\ UNCHANGED <<names, cur, cnt, conn>>

-----------------------------------------------------------------------------
(* HandleDeleteResultSetRequest. *)

\* The delete status for the diagnostic that is current after a deletion.
DeleteStatus(diag) ==
  CASE diag = 30 -> 1 [] diag = 27 -> 2 [] diag = 2 -> 3 [] OTHER -> 0

\* Mutated form of RemoveOne: the name stays in the list of names.
RemoveKeepsName(acc, id) ==
  LET d == se_delete_result_set(acc.st, id)
      s == DeleteStatus(d.st.diag)
  IN  IF ~Contains(acc.names, id)
      THEN [acc EXCEPT !.status = Append(@, 0)]
      ELSE [st      |-> diagnostic_clear(d.st),
            names   |-> acc.names,
            status  |-> Append(acc.status, s),
            deleted |-> acc.deleted + (IF d.st.diag = 0 THEN 1 ELSE 0),
            code    |-> IF d.st.diag = 0 \/ s # 0 THEN s ELSE acc.code]

\* Mutated form of RemoveOne: a name that is not listed counts as deleted.
RemoveCountsAll(acc, id) ==
  LET d == se_delete_result_set(acc.st, id)
      s == DeleteStatus(d.st.diag)
  IN  IF ~Contains(acc.names, id)
      THEN [acc EXCEPT !.status = Append(@, 0), !.deleted = @ + 1]
      ELSE [st      |-> diagnostic_clear(d.st),
            names   |-> RemoveFirst(acc.names, id),
            status  |-> Append(acc.status, s),
            deleted |-> acc.deleted + (IF d.st.diag = 0 THEN 1 ELSE 0),
            code    |-> IF d.st.diag = 0 \/ s # 0 THEN s ELSE acc.code]

\* One round of RemoveListOfResultSets: only listed names are deleted.
RemoveOne(acc, id) ==
  LET d == se_delete_result_set(acc.st, id)
      s == DeleteStatus(d.st.diag)
  IN  IF ~Contains(acc.names, id)
      THEN [acc EXCEPT !.status = Append(@, 0)]
      ELSE [st      |-> diagnostic_clear(d.st),
            names   |-> RemoveFirst(acc.names, id),
            status  |-> Append(acc.status, s),
            deleted |-> acc.deleted + (IF d.st.diag = 0 THEN 1 ELSE 0),
            code    |-> IF d.st.diag = 0 \/ s # 0 THEN s ELSE acc.code]

RemoveListOfResultSets(list) ==
  LET r[i \in 0..Len(list)] ==
        IF i = 0 THEN [st |-> st, names |-> names, status |-> <<>>,
                       deleted |-> 0, code |-> 0]
        ELSE RemoveOne(r[i - 1], list[i])
  IN  r[Len(list)]

\* all is the delete function: 1 to delete every listed set, 0 for a list.
DeleteSets(list, all) ==
  LET r    == RemoveListOfResultSets(list)
      code == IF all /\ list = <<>> THEN 1
              ELSE IF Len(list) > r.deleted THEN (IF all THEN 8 ELSE 9)
              ELSE r.code
  IN  /\ st' = Collect(r.st)
      /\ names' = r.names
      /\ resp' = [op |-> "delete", list |-> list, status |-> r.status, overall |-> code]

HandleDeleteResultSetRequest ==
  /\ conn = "open"
  /\ \/ DeleteSets(names, TRUE)
     \/ \E n, m \in Name : DeleteSets(<<n>>, FALSE) \/ DeleteSets(<<n, m>>, FALSE)
  /\ UNCHANGED <<cur, cnt, conn>>

-----------------------------------------------------------------------------
(* HandleSortRequest and SortResults. *)

SORT_SUCCESS == 0
SORT_FAILURE == 2

\* A sort that fails says that the output set is unchanged (3) if it is an
\* input too, and that there is none (4) otherwise.
SortFailed(s, n, same_name) ==
  /\ st' = Collect(diagnostic_clear(s))
  /\ resp' = [op |-> "sort", name |-> n, status |-> SORT_FAILURE,
              set_status |-> IF same_name THEN 3 ELSE 4]

\* Input sets are got one by one; the names behind a missing one are not read.
Inputs(ins) ==
  LET g == se_get_result_set(diagnostic_clear(st), ins[1])
      h == se_get_result_set(g.st, ins[2])
  IN  IF g.set = NULL \/ Len(ins) = 1 THEN [st |-> g.st, sets |-> <<g.set>>]
      ELSE [st |-> h.st, sets |-> <<g.set, h.set>>]

\* The states after merging the inputs, with the address of the set to sort.
ToSort(i) ==
  IF Len(i.sets) = 1 THEN {[st |-> i.st, set |-> i.sets[1]]}
  ELSE Merged(i.st, "or", i.sets[1], i.sets[2])

\* The sorted set is a new one, stored with the replace flag.
StoreSorted(m, ents, n) ==
  LET b == [ents |-> ents, type |-> m.st.heap[m.set].body.type]
      s == se_store_result_set(New(m.st, b), Alloc(m.st), n, TRUE, nosave, TRUE)
  IN  /\ st' = Collect(diagnostic_clear(s.st))
      /\ resp' = [op |-> "sort", name |-> n, status |-> SORT_SUCCESS, set_status |-> 0]

\* fails says what goes wrong: nothing, the sort specification is refused, or
\* the sort keys of some record cannot be had.
SortResults(ins, n, fails) ==
  LET i         == Inputs(ins)
      same_name == Contains(SubSeq(ins, 1, Len(i.sets)), n)
  IN  IF NULL \in ToSet(i.sets) \/ fails = "spec" THEN SortFailed(i.st, n, same_name)
      ELSE \E m \in ToSort(i) :
             LET ents == m.st.heap[m.set].body.ents
             IN  /\ Len(ents) <= MaxHits
                 /\ IF fails = "key" /\ ents # <<>> THEN SortFailed(m.st, n, same_name)
                    ELSE \E e \in Orders(ents) : StoreSorted(m, e, n)

\* The request stores another set than the one the session's count is of.
SortsOver(ins, n) ==
  cur # EmptyName /\ Key[n] = Key[cur] /\ \E i \in DOMAIN ins : Key[ins[i]] # Key[n]

HandleSortRequest ==
  \E ins \in [1..1 -> Name] \cup [1..2 -> Name], n \in Name,
     fails \in {"no", "spec", "key"} :
    /\ conn = "open" /\ Room
    /\ SortsOver(ins, n) => "sort_over" \in Client
    /\ SortResults(ins, n, fails)
    /\ UNCHANGED <<names, cur, cnt, conn>>

-----------------------------------------------------------------------------
\* The client closes the connection, goes away or is silent for too long.
CloseSearchEngine ==
  /\ conn = "open"
  /\ conn' = "closed"
  /\ st' = se_delete_all_result_sets(st)
  /\ resp' = NoResp
  /\ UNCHANGED <<names, cur, cnt>>

\* inetd starts a new server process for the next client.
NewSession ==
  /\ conn # "open"
  /\ conn' = "open"
  /\ st' = EmptyStore
  /\ names' = <<>>
  /\ cur' = EmptyName
  /\ cnt' = 0
  /\ UNCHANGED resp

Next == \/ HandleSearchRequest \/ HandlePresentRequest \/ HandleScanRequest
        \/ HandleDeleteResultSetRequest \/ HandleSortRequest
        \/ CloseSearchEngine \/ NewSession

Spec == Init /\ [][Next]_vars

-----------------------------------------------------------------------------
\* Every state of the session and of the sets it stores has the shape that
\* the ZSESSION structure and the merges give it.
TypeOK ==
  /\ names \in Seq(Name)
  /\ cur \in Name \cup {EmptyName}
  /\ cnt \in 0..MaxHits
  /\ conn \in {"open", "closed", "crashed"}
  /\ \A k \in Keys : Contents(st, k) # NULL =>
       /\ Len(Contents(st, k).ents) <= MaxHits
       /\ Contents(st, k).type \in {"Boolean", "ranked"}

\* No request leaves the store with a pointer to a set that was freed, with
\* queries, sorts and deletions that all pass the same pointers around.
NoDangling ==
  \A k \in Keys : st.tab[k] # NULL /\ st.tab[k].ptr # NULL
                    => st.heap[st.tab[k].ptr] # NULL

\* No record is fetched from beyond the end of a result set, neither for a
\* search nor for a present: CheshireFetchRecs does not check its record_id.
FetchInRange ==
  [][resp'.op \in {"search", "present"} => resp'.inside]_vars

\* A search that succeeds tells the client the number of hits of the set
\* that the name stands for from then on.
CountIsHits ==
  [][resp'.op = "search" /\ resp'.ok =>
       LET k == Key[resp'.name]
       IN  /\ Contents(st', k) # NULL
           /\ resp'.count = st'.tab[k].hits
           /\ resp'.count = Len(Contents(st', k).ents)]_vars

\* A name in the session's list has a set: what a client is told it may not
\* replace, and what a deletion of all sets goes through, exists.
ListedAreStored ==
  conn = "open" => \A i \in 1..Len(names) : st.tab[Key[names[i]]] # NULL

\* Every session that ends in order removes all result files of the session
\* ("free all the stored set info and remove the files").
FilesRemoved == conn = "closed" => ~st.orphan

Targets(r) ==
  CASE r.op \in {"search", "sort"} -> {Key[r.name]}
    [] r.op = "delete" -> {Key[r.list[i]] : i \in 1..Len(r.list)}
    [] OTHER -> {}

Records(s, k) ==
  IF Contents(s, k) = NULL THEN NULL ELSE ToSet(Contents(s, k).ents)

\* A request leaves the records of every set it does not name as its target,
\* although merges reorder stored operands in place and results are stored
\* without a copy.
OthersKeepRecords ==
  [][conn = "open" /\ conn' = "open" =>
       \A k \in Keys \ Targets(resp') : Records(st', k) = Records(st, k)]_vars

\* A deletion that reports success has removed every set it was asked for.
DeleteSucceeds ==
  [][resp'.op = "delete" /\ resp'.overall = 0 =>
       \A i \in 1..Len(resp'.list) :
         /\ st.tab[Key[resp'.list[i]]] # NULL
         /\ st'.tab[Key[resp'.list[i]]] = NULL]_vars

-----------------------------------------------------------------------------
(* What the requests preserve.                                             *)

\* Entry k has a set in core that is its own, is counted, and is no larger
\* than the bound.
AtHome(s, k) ==
  s.tab[k] # NULL =>
    /\ s.up
    /\ s.tab[k].ptr \in Obj
    /\ s.heap[s.tab[k].ptr] # NULL
    /\ s.heap[s.tab[k].ptr].setid = k
    /\ s.tab[k].hits = Len(s.heap[s.tab[k].ptr].body.ents)
    /\ s.tab[k].hits <= MaxHits

Sound(s) == s \in Store_t(weighted_result) /\ \A k \in Keys : AtHome(s, k)

\* Every result file belongs to an entry that will unlink it.
Filed(s) ==
  /\ ~s.orphan
  /\ \A k \in Keys : s.tab[k] # NULL /\ s.tab[k].disk # NULL => s.tab[k].really_stored

\* The list of names has no name twice, and the table is there if it has any.
Listed ==
  /\ names \in Seq(Name)
  /\ \A i, j \in 1..Len(names) : names[i] = names[j] => i = j
  /\ conn = "open" /\ names # <<>> => st.up

\* No two spellings of one name are in use.
OneSpelling == \A n, m \in Name : Key[n] = Key[m] => n = m

\* The session's count never exceeds the size of the set it stands for.
CountCovers ==
  cur \in Name /\ st.tab[Key[cur]] # NULL => cnt <= st.tab[Key[cur]].hits

\* A client that only searches with replace on and presents its latest set.
PlainClient == Client \subseteq {"not"} /\ EmptyName \notin Name

IInv ==
  /\ Sound(st)
  /\ Listed
  /\ cur \in Name \cup {EmptyName}
  /\ cnt \in 0..MaxHits
  /\ conn \in {"open", "closed", "crashed"}
  /\ conn # "open" => resp = NoResp
  /\ EmptyName \notin Name /\ conn # "crashed" => Filed(st)
  /\ OneSpelling => ListedAreStored
  /\ PlainClient => CountCovers
=============================================================================
