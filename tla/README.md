# A TLA+ model of the Cheshire II search server

Cheshire II is an SGML/XML retrieval system in C. Documents are indexed into
Berkeley DB files; a Z39.50 server (`zserver/`) answers search, present, sort,
scan and delete requests of one client per process; results of searches are kept
as *named result sets* that later requests of the session use. This directory
models that core: the result set store, the merges that combine result sets, the
session that strings requests together, how the server reads its requests off the
network, the connections of the Tcl client on the other side, and the programs that
build and maintain the indexes.

## 1. Inventory

| component | state it keeps | operations | who uses it |
|---|---|---|---|
| result set store, `search/se_get_result.c` | hash table name -> entry (pointer, count, file, `really_stored`), heap blocks, result files | store / replace, get (from core or file), hits, free, delete, delete all | every query, present, sort and delete |
| diagnostics, `diagnostic/` | one diagnostic code for the process | set, clear, get | everything; read as the outcome of deletions, sorts, scans |
| Boolean merges, `search/se_{and,or,not}merge.c` | two indices and the set being written | one call per operator | query processing, sort service |
| query processing, `search/se_process_query.c` | none of its own, passes pointers to stored sets around | walks the query tree | CheshireSearch |
| session, `zserver/server_utils.c`, `zserver/searchapi.c` | current set name, its count, list of set names | one handler per request | the client's connection |
| sort service, `zserver/sort_results.c` | none | fetch inputs, OR them, sort, store | HandleSortRequest |
| name list, `ac_list/` | growing buffer and index | add, search, delete | session |
| index maintenance, `index/in_*.c` | postings, term ids and counts, primary keys, components, batch files | load (direct or batch), delete | `index_cheshire`, `delete_recs` |
| record store, `fileio/` | data file, associator of offsets | add, delete, replace, read | index programs, present |
| message transport, `zpdu/ber_decode.c`, `socket/conutils.c` | a recursive reader's local variables, `errno`, the descriptor | wait, read a tag, a length, data | server loop, client |
| Tcl client, `client/`, `cheshire2/zquery.c` | list of associations, current one, descriptors | select, close, switch, one command per request | scripts |
| other merges and ranking, `search/se_*` | floating point weights, bitmaps | per query | query processing |
| configuration, SGML parser, PDU structures, Python/Java/CGI front ends | tables built once; no state between documents or messages | | |
| Berkeley DB, Snowball, WordNet | third-party | | |

The server is one process and one thread per client, started by inetd, so requests
of one session do not interleave. What is hard is

* *sequences*: pointers to stored sets travel through queries, merges and sorts and
  are stored again; two tables say which sets exist; one count and one diagnostic
  are shared by all requests and outlive the request that set them; a request can
  fail after half of its effects;
* *pieces and silence*: messages arrive octet by octet, the peer stops, a signal
  interrupts a call, a time-out races a late answer;
* *names that are used again*: closed associations keep descriptor numbers that the
  kernel hands out again; component ids and record numbers share one type;
* *interruption*: loads are stopped by signals between any two writes and started
  again at the record that the log names.

`PROJECT.json` lists these hazards with their lines.

What makes each part correct:

* store: a name stands for the set last stored under it until it is replaced or
  deleted; no pointer to freed memory, no block with two owners; counts, sets and
  files agree; every file goes with its entry;
* merges: exactly the records of the operator, in the memory allocated, in a form
  that the next merge can take;
* session: what a response says (counts, records, statuses) is true of the store,
  and a request changes only the set it is about;
* indexes: a list holds exactly the records that contain its term, totals agree with
  lists, a record is marked as deleted after its entries are gone, term ids and primary keys are unique, whatever was deleted, replaced or
  interrupted before;
* transport: what is handled is what was sent; a process does not outlive its client;
* client: an open association leads to its server, a command uses the answer to its
  own request, and no command waits for ever.

## 2. Modules

| module | models | state and actions |
|---|---|---|
| `SetBodies` | what a set holds, and what sorting it where it is may do to that | |
| `ResultSetOps` | `se_get_result.c`, the diagnostic | the types of sets, entries and stores, and operators on one value `st`: table, heap, diagnostic, "initialised" flag, orphaned files |
| `ResultSets` | a process calling the store in any order | one action per call, and `SortOperand` for a merge of a stored set; `Calls` says what the host program does |
| `NamedSets` | abstract specification of the store | a map from keys to set bodies and the answer to the latest call; only the order of ranked sets is open to merges |
| `Merge` | the three merges, one step per loop iteration | operands, indices, written entries, `pc` |
| `StoreProofs` | lemmas on the operators of `ResultSetOps`, for the proofs about `ResultSets` and `ZSession` | |
| `ResultSetsProofs`, `MergeProofs`, `ZSessionProofs`, `IndexingProofs`, `ZClientProofs` | theorems about the module of that name | |
| `ExactProofs` | theorems about `Indexing` on top of `IndexingProofs`: what the lists hold | |
| `ZSession` | request handlers, search API, query processing, sort | `st` of `ResultSetOps` plus name list, current name, count, connection and the latest response |
| `IndexOps` | the associator, postings and counts | operators on one database value |
| `Indexing` | `index_cheshire` and `delete_recs`, one step per write to an index | databases, the running program, the loops it has ahead (`work`), batch lines; history variables `want`, `upto`, `torn`, `faults` |
| `PduStream` | `GetPDUFromStream` and the server loop, one step per octet or return | octets sent, arrived and read; both ends of the connection; the recursive calls (`stack`) and the node they build |
| `ZClient` | associations and commands of the Tcl client | open descriptors with their connections, associations, current one, the session that `zset` has made, running command |
| `MCResultSets`, `MCMerge`, `MCZSession`, `MCIndexing`, `MCPduStream`, `MCZClient` | instances for TLC | |

`Indexing` composes the operators of `IndexOps` into programs; the loops of
`in_kwadd`, `in_kwdel`, `in_components` and `in_comp_del` are records of the list
`work`, so that a signal can come between any two writes. `PduStream` ends where a
message is handled, which is where `ZSession` begins; `ZClient` takes from it that
reading gives a response or NULL.

`ZSession` composes the store (the operators of `ResultSetOps`) with the merges (the
result of `Merge`'s walk, as the function `Walk`) and the handlers. Names follow the
source; `map` in `PROJECT.json` gives the lines. Definitions introduced as "mutated
form of X" are never used by the specification: they are plausible mistakes in the
code of X that show what a property is able to catch.

Abstractions. A set body is its sequence of records; weights are kept in `Merge`
(as numbers, for ranking) and dropped in `ZSession`, where ranking may leave any
order. In `ResultSets` the entries of a set are opaque, and a merge that sorts a stored
ranked set (`se_sortset.c:83`) leaves any order of them; its file keeps the old one.
Looking up terms finds an arbitrary set out of `Body`. A heap address is a
value; freed blocks become `NULL`, and blocks no entry points to are collected after
a call, so leaks are not tracked but dangling and shared pointers are. The keys
under which names are stored (upper case plus user id) are the constant `Key`. A
fetched record is reduced to whether its position is inside the set. In `Indexing`
what `in_extract` finds in a document is the constant `Words`; batch lines are a set
and sorting is the order in which they are taken. In `PduStream` the tree of nodes
is its sequence of tokens, and handling a request is one step. In `ZClient` a
response is its kind and whether it belongs to the running command. `zset` is modelled
as far as associations go: `zset session`, and the preliminary session that any `zset`
without a current session makes (`tmp`). The first `zselect` takes that session;
`tk_connect` does not reset the pointer, and the model stops (a guard of `SelectCmd`)
where it would take a session that is in the list or freed.

## 3. Runs

| run | question | bounds |
|---|---|---|
| `store_server` | is the store, as the server uses it, the abstract map (`ImplementsNamedSets`) without dangling (`NoDangling`) or shared (`NoSharing`) sets, wrong names (`NameIsHome`), wrong counts (`HitsAgree`) or lost files (`NoOrphanFile`), while merges sort stored sets? | 3 spellings of 2 names, 2 bodies, 4 addresses |
| `store_driver` | can a host that does not replace drop sets and read them back (`FileIsCurrent`), with no change but the order of ranked sets that were merged? | same |
| `merge` | do merges compute their operator (`MergeCorrect`), stay in bounds (`WithinAllocation`), give usable results (`ResultIsOperand`) and return (`Returns`)? | all operands of up to 3 entries over 4 records, ranked or not, NULL or not |
| `merge_sorted` | violation: an operand left in key order by the sort service | 2 entries, 3 records |
| `session` | do responses and store agree over any sequence of requests (`FetchInRange`, `CountIsHits`, `DeleteSucceeds`, `ListedAreStored`), and do requests leave other sets alone (`OthersKeepRecords`)? | names A and B, sets of 0 to 2 hits, Boolean or ranked |
| `session_default` | with files saved and one allowed name: are all files removed (`FilesRemoved`), whatever requests fail, miss or crash? | names default and A, two disjoint sets |
| `index` | do lists hold exactly what they should (`IndexExact`, `PostingsTrue`), are term ids and primary keys unique (`TermidsUnique`, `KeysUnique`), do totals agree with lists (`TotalsAgree`), and does a record stay listed until it is marked as deleted, never the other way round (`DeletedUnlisted`)? | 2 records out of 4 documents (two with the same key but different frequencies, one that does not parse), 4 terms, 1 interruption or other fault, all three primary key options |
| `index_components` | violation: entries of deleted components | 3 records |
| `pdu` | is what is handled what was sent (`Framed`, `SizesAgree`), and does the process end (`ServerExits`)? | 2 messages out of 4 (definite, indefinite, long tag, long length), every fault, no memory for a decoded message included |
| `pdu_truncated` | violation: a message without its end | same |
| `client` | do open associations lead to their servers (`OpenIsMine`), do commands use their own answers (`OwnAnswer`) and end (`CommandsEnd`)? | 2 servers, 2 associations, 2 descriptors; servers that stop before a request is written |
| `client_switch` | violation: switching by descriptor number | same |

Why the bounds are enough. Pointer errors need two names and one set passed between
them; two names with a second spelling, and addresses for two stored sets plus the
two fresh ones a call can need, contain them. The merges compare neighbours only, so
three entries over four records contain every relative order of heads and tails, and
the theorems of section 4 lift the bound. In a session the interesting histories are
at most a handful of requests; the state graphs are explored completely, whatever
the number of requests. Addresses in `MCZSession` are permuted by symmetry (nothing
but equality tells them apart), and the view leaves out `resp`, which no action reads
and which only action properties, checked on every step, speak about. Two records
are enough for a list to have one entry, two, and lose either; the messages of `pdu`
contain every form of tag and length and an element inside another of each kind; two
descriptors and two associations are enough for a number to be used again by the
other server, and for descriptors to run out.

`Client`, `Calls`, `Operator` and `Faults` say what surrounds an instance: which
requests a client makes, what the person at the console does, what goes wrong. Each
value is explained in the head of its module. A passing run leaves out the values
whose consequences the violations below describe, and says what holds otherwise.

Fairness. `Merge`: a call runs to its end in a thread nobody else shares. `PduStream`: the server process runs, the clock too (a select
whose time is up returns), and TCP delivers what was sent while both hosts are up;
the client owes nothing. `ZClient`: the client process and its clock run; servers owe
nothing. `ResultSets`, `ZSession` and `Indexing` need none: a client may stop sending
requests at any time, and the loops of the indexing programs are bounded by their
input, so that nothing is to be learnt from a model about their end. Deadlock checking is off where the system may really stop: a merge that has
returned, a server process that has exited, a client and an indexer whose bounds are
used up.

### What the violations show

Runs:

1. `merge_sorted`: the result of a sort request is unranked but not in record order,
   and a merge of it loses records.
2. `index_components`: `in_comp_del` compares component ids with the record number.
   A component's entry stays in a list that has others, and its id is not mapped to a
   record any more.
3. `pdu_truncated`: a failed read inside a length or data is not noticed; the message
   is completed with zeros and handled. `Framed` says that this ends there: the next
   read fails.
4. `client_switch`: a closed association keeps its descriptor's number and is found
   first.

Other disagreements that the models show when the value in parentheses is added to an
instance:

* `ResultSets`, storing a stored set over a name in use (`"rename"` in `ZSession`):
  the replace branch of `se_store_result_set` does not copy a set that has a name, and
  `NoSharing` and `NoDangling` fail;
* `ResultSets`, a set dropped from memory after a merge has sorted it (`"merge"` and
  `"free"`, in `store_driver`): it comes back in the order it was stored with, which
  `NamedSets` allows (`Free`); a stored ranked set is shown in another order afterwards;
* `ResultSets`, replacing and dropping from memory: `flags & X != X` is `flags & 0`,
  replaced sets are never written to their file, and `FileIsCurrent` fails;
* `ZSession`, replace indicator off (`"keep"`): the check for names in use misses sets
  without hits and other spellings; the search succeeds and is not stored;
* `ZSession`, deletions: the status of a deletion is a diagnostic left over from an
  earlier request, so that a set that was deleted may be reported as not deleted;
* `ZSession`, presenting another set (`"other"`), sorting into the current one
  (`"sort_over"`), a medium set (`"medium"`): `FetchInRange` fails, since
  `resultCount` belongs to the latest search and `resultSetName` to the latest present;
* `ZSession`, two spellings of one name (`Name = {"default", "DEFAULT"}`): the session's
  list compares names with `strcmp`, the table ignores case, so that deleting one
  spelling leaves the other in the list (`ListedAreStored`); the empty name as the name
  of a set: its file stays (`FilesRemoved`), and `FetchInRange` fails;
* `ZSession`, and-not with a set that does not exist (`"not"`): `Crash`;
* `Indexing`, interrupting a load with `PRIMARYKEY=REPLACE` (`"interrupt_replace"`):
  the resumed load deletes the replaced record again, and with it single entries of
  others (`IndexExact`); loading records twice (`"reload"`) and batch loads with a key
  that is in use (`"batch_key"`) break `IndexExact` as well;
* `Indexing`, totals: a batch load that replaces the entry of a primary key leaves the
  list's `tot_freq` that of the replaced record (`in_batch_load.c:373`); `TotalsAgree`
  states it. `tot_occur`, which the ranking divides by, is not lowered when a list
  loses its last entry (`in_kwdel.c:225`) and nothing is said of it;
* `PduStream`, octets that never arrive (`"silent"`), and EINTR left in `errno`: the
  process stays;
* `ZClient`, `zselect` after the preliminary session of `zset` was used (`tmp` is
  `"stale"`): without the guard of `SelectCmd` the session would be written to while it
  is in the list, or after it was freed;
* `ZClient`, a refused reconnection of an unused association (`"stale_open"`) and a
  deletion without answer (`"delete"`) break `OpenIsMine`; commands that do not ask
  whether their association is closed (`"stale_use"`) break `OwnAnswer`.

## 4. Proofs

Six modules hold theorems that TLAPS checks, a seventh (`StoreProofs`) lemmas that two
of them share. Where a theorem states a property that a
run checks, the run shows it on a small instance, the theorem for every value of the
constants. The inductive invariant of each component is `IInv`, a conjunction of named
parts at the end of the component's module, where TLC can
check it as well; `Indexing` has a second one, `EInv`.

### The merges (`MergeProofs`)

For operands of any length over any record numbers:

* `TypeCorrect`: `Spec => []TypeOK`, without any assumption on the order of operands;
* `Correct`, `NoOverrun`, `ResultUsable`: `MergeCorrect`, `WithinAllocation` and
  `ResultIsOperand` are invariants if no operand comes from the sort service
  (`SortedSets = FALSE`; `merge_sorted` shows that the premise is needed).

Assumption: `SetsAssumption` (operands are sequences of entries without duplicate
records), which TLC evaluates in the runs.

The argument. `MergeCorrect` speaks of the end of a call only. `IInv` says in the
loops: both operands are in ascending order with the records they were passed with
(`OperandsKept`: sorting is a permutation); everything passed in one operand lies
below everything ahead in the other (`Frontier`); what has been written is the
operator applied to what has been passed (`MergedSoFar`), in order, and no longer than
what was passed (`WrittenBound`). `Frontier` makes the step work: when the head of set1
is smaller than the head of set2 it is smaller than all that is ahead in set2 and, by
`Frontier`, larger than all that was passed in set2, so it is in no other place; the
cases greater and equal are symmetric. At the end the rest of an operand lies above all
that was passed, which makes skipping it (and) or copying it (or, not) right. Lemmas
state what appending, rearranging and passing one more entry do to the records of a
sequence; there is one lemma per action.

### The result set store (`ResultSetsProofs`)

For any names, spellings, sets and addresses:

| theorem | what | host programs it is about |
|---|---|---|
| `TypeCorrect` | `TypeOK` | all |
| `NeverDangling`, `NeverShared`, `NamedSetIsHome` | `NoDangling`, `NoSharing`, `NameIsHome` | do not store a stored set over a name in use (`"restore_replace"`) |
| `HitsAlwaysAgree` | `HitsAgree` | nor both replace sets and free them |
| `FileAlwaysCurrent` | `FileIsCurrent`: the same entries, and without `"merge"` in the same order | nor replace at all |
| `NeverOrphaned` | `NoOrphanFile` | nor free at all, nor use the empty name |
| `Refinement` | `Spec => ImplementsNamedSets` | `PlainHost`: do not free; or save every set and do not replace |

None of these premises can be dropped: the TLC instance with the call added violates
the property. The server never frees a set by name, and replaces: all but
`FileAlwaysCurrent` are about it, for clients that do not store a stored set over another
name in use ("rename" in section 3). `FileAlwaysCurrent` and the second disjunct of
`PlainHost` are about drivers that free sets and read them back (`store_driver`).

Assumptions: `StoreAssumption`, `CallsAssumption` and `SetAssumption` (memory is
finite, a null pointer is none of the structures, a set has a number of entries).

The argument. Each call is a composition of the operators of `ResultSetOps`, and the
store is in a state that `IInv` does not describe between them: there is a fresh set
without a name, or an entry whose set has just gone. The proof therefore states what
each operator does to the table and to the heap (`NewEntryIs`, `ReplaceEntryIs`,
`SameBut`: one entry and at most two addresses change), and that the address a call
allocates is no entry's. `IInv` is `WellFormed` for every host; and, for hosts without
`"restore_replace"`, that each entry has a set of its own that carries its name
(`OwnSet`), a file that carries it (`OwnFile`), and what the host's calls can and cannot
spoil (`SameAsFile`, `really_stored`). The lemmas that do not depend on the host are in
`StoreProofs`. That names differ makes `NoSharing` a
consequence: two entries with one set would have one name.

Merges change no more than the order of the entries of a ranked set (`SortedIs`,
`SortedOK`), so that a count, and the records of the file, stay those of the set.

The refinement maps an entry to the body of its set, or of its file if the set was
dropped. Every call maps to the step of `NamedSets` of the same kind: for a set that
is read back the file must be current (or `Get` would change the map), for `Free` there
must be a file, and a set that was sorted since gets back the order of its file. These are the disjuncts of `PlainHost`.

### The session (`ZSessionProofs`)

For any names, keys, record numbers, result sets and addresses, and any sequence of
requests, `SessionInvariance` (`IInv`) and with it every property of the runs `session`
and `session_default`:

| theorem | property | premises |
|---|---|---|
| `SessionTypes` | `TypeOK` | no `"rename"` |
| `SessionNoDangling` | `NoDangling` | no `"rename"` |
| `SessionOthersKeepRecords` | `OthersKeepRecords` | no `"rename"` |
| `SessionDeleteSucceeds` | `DeleteSucceeds` | no `"rename"` |
| `SessionFilesRemoved` | `FilesRemoved` | no `"rename"`, no empty name |
| `SessionListedAreStored` | `ListedAreStored` | no `"rename"`, `OneSpelling` |
| `SessionCountIsHits` | `CountIsHits` | neither `"rename"` nor `"keep"` |
| `SessionFetchInRange` | `FetchInRange` | `PlainClient`: no request but `"not"` added, no empty name |

Premises are about what clients ask for (section 3), not about what the server does.
None can be dropped: with the request, the name or the spelling added to an instance
TLC finds the property violated, or, for `"rename"`, a set that is freed and used.
`FetchInRange` needs most, since one count and one name stand for whatever was searched,
sorted or presented last.

Assumptions: `StoreAssumption` and `SetAssumption` as for the store; `ClientAssumption`
(what requests there are); `BodyAssumption` (record numbers are naturals, look-ups find
sequences of entries). Requests start while two addresses are free (`Room`), the bound
of the model on stored sets.

The argument. `IInv` says that every entry has in core a set of its own, with the
entry's key, counted in the entry and within `MaxHits` (`Sound`, of `AtHome`). The store
never reads a set back from its file, then, and no set has two entries, which would need
two keys. Further parts are that no name is listed twice (`Listed`), that
a file belongs to an entry that will unlink it (`Filed`), that listed names have sets,
and that the session's count is no larger than the set it stands for (`CountCovers`).
`ListedAreStored`, `Filed` and `CountCovers` hold under the premises of their theorems
only and appear in `IInv` as implications, so that one induction serves all theorems.

A request is a long composition, and between its calls there are sets that no entry has
yet. The lemmas follow the composition: a merge leaves a set that nobody else has
(`Loose`), a query one that may be stored under the name of the request (`Storable`:
loose, or the set of an entry, if that is the same name; `"rename"` is what this
excludes); storing it changes that entry only. Merges sort stored operands in
place, hence a call leaves the records of an entry, not their order (`SameSet`, `Kept`).
`SearchEffect`, `PresentEffect`, `ScanEffect`, `DeleteEffect`, `SortEffect` and
`CloseEffect` say what each request does to the store, the list, the count and the
answer, and the theorems follow from these.

The merges' loop and the loops that delete a list are recursive functions over a number
of rounds. They are finite and bounded, so that induction over a set of numbers
(`UpTo`, from the well-foundedness of `<`) goes through where induction over an
operator does not: the functions exist (`WalkExists`, `RemovalExists`), and what holds
of a round holds of the next. One fact about the merges is needed: the union of a set
with itself is no smaller than the set (`WalkSelf`), without which sorting the current
set into itself could leave fewer records than the session's count.

### The indexing programs (`IndexingProofs`)

`TypeCorrect`, `EntriesTrue` and `TermidsAreUnique`: `TypeOK`, `PostingsTrue` and
`TermidsUnique` are invariants of `Spec`, for any databases, documents, terms and
components and every `Operator`: signals between any two writes, reloads, batch loads
over existing keys, a `maxrec` that is too large, a history file that is not there.

Assumptions: `RecnoAssumption`, `WordsAssumption`, `IndexingAssumption` and
`ProgramAssumption` (a null pointer is none of a program's variables, lists and return
codes).

The argument. An entry is true when it is written if the loop that writes it is about
the record and the terms it contains (`LoopOK`), or if the batch line is (`LineOK`), and
it stays so since the associator only grows and `in_kwdel` moves entries without
changing them (`Migrated`). A term id is unique if every id in use is below `recptr`
(`Termids`) and if `newinfo`, a list which a batch load holds outside of the index while
other lists get ids, has one that no *other* term has (`NewInfoOK`; its own may be in the
index with the same id). The component loops need that ids and components go in step, or
`Parts` would be read beyond its end (`Ranges`, the last conjuncts of `LoopOK`). One part
was found by the proof: without `Idle \/ Direct => lines = {} /\ cur = NULL` the
invariant is not inductive, as `delete_recs` could run with lines of an earlier batch.

### What the lists hold (`ExactProofs`)

* `IndexesExact` and `PrimaryKeysUnique`: `IndexExact` and `KeysUnique` are invariants of
  `Spec` for any documents, terms and components and all three primary key options, if
  `Manual` holds;
* `ExactInvariance`: so is `EInv`, from which both follow.

`Manual` is what the run `index` assumes as well: one database (with several, a load
starts in each at the record number that fits the first); no record is loaded a second
time, a batch load with a primary key starts with no key in use, and no load that
replaces records is interrupted (the operators `"reload"`, `"batch_key"` and
`"interrupt_replace"` of section 3, with which TLC finds `IndexExact` violated); with a
primary key, every document that parses has one (`KeysUnique` takes two records without
a key for two with the same). Signals may come between any two writes of the other
loads and of deletions, `maxrec` may be too large and the history file missing.

The argument. A list is not what it should be while a program is at it, so `EInv` speaks
of what is *due*: the records that are wanted, or were gone through by the load that is
running, without those whose entry is still ahead in a loop that adds or in a line of a
batch file, and with those whose entry is still ahead in a loop that deletes (`Due`).
The list of a term together with `newinfo` (`Held`) is exact with respect to `Due`
(`ListsExact`), but for records at which an earlier signal came (`torn`). Every step
moves an entry from what is ahead into the list, or out of both. Three parts make this
inductive:

* `in_kwdel` drops a single entry without a look at whose it is. It is the right one since
  the record of a loop that deletes has an entry for every term ahead (`Due` again), or,
  where `in_batch_load` deletes a record that it replaces, since the only list that could
  be hit is the key's and is not in the index yet (`LoopFor`);
* a batch load that is interrupted leaves `newinfo` behind; the list in the index is then
  the one from before the load (`NotYet`), and nothing has been put into the keyword
  index before the primary key index is done, so that no record that `hash_tab`
  supersedes later has an entry there;
* a key has one entry (`OneEntry`), and a replacement adds its entry only where the old
  one is gone or ahead in a loop that comes first (`Ordered`).

`KeysUnique` follows: two wanted records with one key would both be in the key's list,
which has one entry. `EInv` was checked with TLC on the instance of the run `index`
before it was proved.

### The client (`ZClientProofs`)

For any servers and descriptors and any number of associations:

* `TypeInvariance` and `TypeCorrect`: whatever goes wrong, the current association is in
  the list (`TKZ_User_Session` is NULL, never a session that `zselect` has freed), and a
  command that waits does so at an open descriptor;
* `Invariance`, `LinesAreOwn`, `AnswersAreOwn`: `IInv`, `OpenIsMine` and `OwnAnswer` are
  invariants if the faults are the servers' alone (`Polite`: down, late, reject and
  control in any combination; with any one of the four other faults TLC finds
  `OpenIsMine` or `OwnAnswer` violated).

Assumption: `FdAssumption` (descriptors are numbers; the kernel gives the least free
one).

The argument. `OwnAnswer` is about the moment at which a response is taken from the
connection, but nothing in a response tells to which request it belongs. `IInv` therefore
says what is on its way: nothing over the line of an open association that is not waited
for (`Silent`), and over the other one the request, then a control request at most and one
answer at most (`Outstanding`, in `InStep`). A command that gives up disconnects, so that
its late answer dies with the connection; this is the step that fails for zdelete. A new
connection gets a descriptor that no open association has, since those of open ones are
open (`OpenIsMine`), and keeps it until it is answered (`Selecting`). The predicate `Lines`
collects this per association, and every action is one that rests (`Rests`), waits
(`Awaits`) or leaves the messages of one line in order (`ServerMoves`).

### Model-checked only

* Liveness (`Returns`, `ServerExits`, `CommandsEnd`) is out of the prover's
  reach.
* `DeletedUnlisted` is not proved; `TotalsAgree` is about sums over sets, `Framed` and `SizesAgree` about what a
  recursive descent over octets computes: induction over data.
* `IndexExact` with several databases, and without a key in some documents, is not
  proved.

## 5. Not modelled

Session and search: virtual, DBMS, METADATA and Explain databases; bitmap, paged and
component result sets; proximity, fuzzy operators and relevance feedback; feedback
subsets of stored sets; the weights of the ranking methods (floating point).
Indexing: bitmapped, paged, proximity and vector indexes, clusters, extraction of
terms. Transport and client: encoding of messages, the translation between ASN.1
nodes and C structures, records and their display, the parameters that `zset` sets.
Configuration and the SGML parser build tables once; the Java, Python and CGI front
ends translate arguments.

Places outside of the models that a reader of the code should know of: the arrays of
100 input sets of a sort (`sort_results.c:189`); the temporary set of a bitmap fetch
that stays stored when a record cannot be fetched (`searchapi.c:1371`); a sorted batch
file of the same second that is taken for the new one (`in_batch_load.c:177`); lengths
of more than four octets, read as 0 (`ber_decode.c:298`); the freed response that
follows a request that the server does not expect (`server_utils.c:1320`, a step to `"undefined"` in
`PduStream`); the session that `zset` makes when there is none and that
`tk_connect` takes again and again (`client.c:388`, where `ZClient` stops); `zclose` with an
unknown number (`zquery.c:505`); `last_rec_proc`, which is not reset for the second
file of a configuration (`in_load.c:273`; `LoadExits` with `NFiles = 2`).

Most of the repository's lines are of these kinds and have no state that outlives a
call: generated ASN.1 code (`zpdu/z3_*.c`), regular expression libraries and their
copies, stemmers, DTD-driven formatting (`zserver/displayrec.c`), CGI drivers
(`cheshire2/web_driver*.c`), header files, copies of one program with small changes
(`in_load_*.c`, `*_grid.c`) and third-party sources. The models cover the parts that
keep state between calls.

## 6. Plan

In this order:

1. `AcList`: the growth of the list buffers (`ac_list/list_append.c`) with a proof
   that no write is outside of them;
2. feedback subsets and virtual databases in the store and the session (pointers from
   an entry into the sets of the single databases);
3. bitmap sets and their temporary result set in `RetrieveRecords2`; `se_bitmap_merge`
   and bitmapped indexes;
4. clusters (`in_cluster.c`, `in_clusmerg.c`) on top of `Indexing`;
5. the Java gateway's request loop.
