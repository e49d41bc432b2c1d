------------------------------ MODULE Indexing ------------------------------
(***************************************************************************)
(* The programs that maintain the indexes of the databases of one          *)
(* configuration file: index_cheshire (index/in_load.c), with and without  *)
(* -b, and delete_recs (index/in_testdel.c).  One of them runs at a time.  *)
(* A signal may end it between any two writes: scram closes the files,     *)
(* which puts them on disk, and logs the last record that was processed.   *)
(*                                                                         *)
(* in_kwadd, in_kwdel, in_components and in_comp_del are loops of          *)
(* independent writes; work is the list of loops ahead of the program.     *)
(*                                                                         *)
(* Operator says what the person at the console does beyond the manual     *)
(* (load new records, once; delete records that are indexed):              *)
(*   "reload"     starts a load at a record that is indexed already        *)
(*   "batch_key"  loads in batch mode into indexes that are not empty      *)
(*                although there is a primary key                          *)
(*   "interrupt"  stops a program                                          *)
(*   "interrupt_replace"  does so although a primary key replaces          *)
(*   "interrupt_batch"    does so in a batch load                          *)
(*   "past_end"   gives a maxrec beyond the last record                    *)
(*   "no_history" runs without access to the history file                  *)
(***************************************************************************)
EXTENDS IndexOps, FiniteSetsExt

CONSTANTS NFiles,     \* the number of databases of the configuration file
          MaxRecs,    \* bound: records per database
          Primaries,  \* the primary key options: "none", "ignore", "replace"
          MaxFaults,  \* bound: interruptions, wrong arguments, failed writes
          Operator

ASSUME IndexingAssumption ==
  /\ NFiles \in Nat \ {0}
  /\ MaxRecs \in Nat /\ MaxFaults \in Nat
  /\ Primaries \subseteq {"none", "ignore", "replace"}
  /\ 1..MaxRecs \subseteq Recno
  /\ \A c \in Doc : \A t, u \in Term : \* a record has one primary key
       Words[c]["pk"][t] > 0 /\ Words[c]["pk"][u] > 0 => t = u

VARIABLES
  primary,        \* the PRIMARYKEY option, fixed by the configuration
  db,             \* file -> database, see IndexOps
  cmd,            \* the program that runs, or NULL
  work,           \* the loops it has ahead
  lines,          \* batch: the lines of the BATCHTEMP files
  cur,            \* batch: last_key and newinfo, or NULL
  hash_tab,       \* batch: the records that are superseded
  ended,          \* how the latest program ended
  \* For the properties only:
  want,           \* file -> the records that searches should find
  upto,           \* file -> how many records in_kwadd has been through
  faults,         \* what has gone wrong so far, up to MaxFaults
  torn            \* file -> the records being worked on when a signal came

vars == <<primary, db, cmd, work, lines, cur, hash_tab, ended, faults,
          want, upto, torn>>

batch == <<lines, cur, hash_tab>>

ghosts == <<want, upto, torn>>

File == 1..NFiles

\* The database the program is at.
D == db[cmd.file]

SetD(d) == db' = [db EXCEPT ![cmd.file] = d]

Init ==
  /\ primary \in Primaries
  /\ db = [f \in File |-> NewDatabase]
  /\ cmd = NULL
  /\ work = <<>>
  /\ lines = {} /\ cur = NULL /\ hash_tab = {}
  /\ ended = "done"
  /\ faults = 0
  /\ want = [f \in File |-> {}]
  /\ upto = [f \in File |-> 0]
  /\ torn = [f \in File |-> {}]

\* Between programs.  After an exit without cf_closeall the files hold
\* whatever Berkeley DB had written by then, and the model stops.
Idle == cmd = NULL /\ ended # "error"

\* A step that goes wrong counts against the bound.
Fault(wrong) == /\ wrong => faults < MaxFaults
                /\ faults' = IF wrong THEN faults + 1 ELSE faults

\* A record is added to the data file and the associator.
AddRecord(f, doc) ==
  /\ Idle
  /\ Len(db[f].assoc) < MaxRecs
  /\ db' = [db EXCEPT ![f] = fil_add(@, doc)]
  /\ UNCHANGED <<primary, cmd, work, batch, ended, ghosts, faults>>

-----------------------------------------------------------------------------
(* The loops of in_kwadd, in_kwdel and their component parts.              *)

Loop(kind, x, r, id, k, terms) ==
  [kind |-> kind, x |-> x, rec |-> r, id |-> id, part |-> k, terms |-> terms,
   last |-> 0, touched |-> FALSE]

Occurring(words) == {t \in Term : words[t] > 0}

RecLoop(d, kind, x, r) ==
  Loop(kind, x, r, r, 0, Occurring(in_extract(d, x, r, 0)))

Task(kind, r, id, k) == Loop(kind, "ck", r, id, k, {})

in_kwadd(d, r) ==
  <<RecLoop(d, "add", "pk", r), RecLoop(d, "add", "kw", r),
    Task("components", r, d.maxcomp + 1, 1)>>

\* The loops of in_kwdel; nothing for a record that cannot be read.
in_kwdel(d, r) ==
  IF GetSGML(d, r) = {"doc"}
  THEN <<RecLoop(d, "del", "pk", r), RecLoop(d, "del", "kw", r)>>
  ELSE <<>>

\* Mutated form of Replace: the record is marked before its entries go.
ReplaceMarksFirst(d, old) == <<Task("fil_del", old, old, 0)>> \o in_kwdel(d, old)

\* What replaces old by a newer record.
Replace(d, old) == in_kwdel(d, old) \o <<Task("fil_del", old, old, 0)>>

h == Head(work)

At(kind) == cmd # NULL /\ work # <<>> /\ h.kind = kind

Rest == UNCHANGED <<primary, cmd, ended, faults, ghosts>>

\* Mutated form of AddTerm: every entry is written for record 1.
AddTermFirst(t) ==
  /\ At("add")
  /\ t \in h.terms
  /\ LET n == in_extract(D, h.x, h.rec, h.part)[t]
     IN  SetD(AddPosting(D, h.x, t, 1, n))
  /\ work' = [work EXCEPT ![1].terms = @ \ {t}, ![1].touched = TRUE]
  /\ Rest /\ UNCHANGED batch

\* A term of the hash table goes into the index, or into the batch file.
AddTerm(t) ==
  /\ At("add")
  /\ t \in h.terms
  /\ LET n == in_extract(D, h.x, h.rec, h.part)[t]
     IN  IF cmd.batch
         THEN /\ lines' = lines \cup {[x |-> h.x, t |-> t, id |-> h.id, n |-> n]}
              /\ UNCHANGED db
         ELSE /\ SetD(AddPosting(D, h.x, t, h.id, n))
              /\ UNCHANGED lines
  /\ work' = [work EXCEPT ![1].terms = @ \ {t}, ![1].touched = ~cmd.batch]
  /\ Rest /\ UNCHANGED <<cur, hash_tab>>

\* End of one index: items_output counts in direct mode only.  The entry of
\* a component is written when its indexes are done.
AddDone ==
  /\ At("add") /\ h.terms = {}
  /\ SetD([D EXCEPT !.g[h.x].tot_numrecs = IF h.touched THEN @ + 1 ELSE @,
                    !.comp = IF h.x = "ck" THEN [@ EXCEPT ![h.id] = h.rec]
                             ELSE @])
  /\ work' = Tail(work)
  /\ Rest /\ UNCHANGED batch

DelTerm(t) ==
  /\ At("del")
  /\ t \in h.terms
  /\ SetD(DelPosting(D, h.x, t, h.rec, in_extract(D, h.x, h.rec, h.part)[t]))
  /\ work' = [work EXCEPT ![1].terms = @ \ {t},
                          ![1].touched = @ \/ Reduces(D.ix[h.x][t], h.rec)]
  /\ Rest /\ UNCHANGED batch

\* End of one index: the record is no longer counted if some list shrank.
DelDone ==
  /\ At("del") /\ h.terms = {}
  /\ SetD([D EXCEPT !.g[h.x].tot_numrecs = IF h.touched THEN @ - 1 ELSE @,
                    !.comp = IF h.x = "ck" THEN [@ EXCEPT ![h.id] = NULL]
                             ELSE @])
  /\ work' = Tail(work)
  /\ Rest /\ UNCHANGED batch

FilDel(hist) ==
  /\ At("fil_del")
  /\ ~hist => "no_history" \in Operator
  /\ Fault(~hist)
  /\ SetD(fil_del(D, h.rec, hist))
  /\ work' = Tail(work)
  /\ UNCHANGED <<primary, cmd, batch, ended, ghosts>>

\* in_components: the next component gets an id and its terms are indexed.
NextComponent ==
  /\ At("components")
  /\ LET words == Parts[D.assoc[h.rec].doc]
         new == D.maxcomp + 1
     IN  /\ h.part <= Len(words)
         /\ new \in Recno
         /\ SetD([D EXCEPT !.maxcomp = new])
         /\ work' = <<Loop("add", "ck", h.rec, new, h.part,
                           Occurring(words[h.part])),
                      [h EXCEPT !.part = @ + 1]>> \o Tail(work)
  /\ Rest /\ UNCHANGED batch

\* After the last one the record's range of ids is written, if it has any.
ComponentsDone ==
  /\ At("components")
  /\ h.part > Len(Parts[D.assoc[h.rec].doc])
  /\ SetD(IF h.part > 1
          THEN [D EXCEPT !.compdoc[h.rec] = <<h.id, D.maxcomp>>] ELSE D)
  /\ work' = Tail(work)
  /\ Rest /\ UNCHANGED batch

\* Whether current_sgml_document is record r when in_kwdel has tried to read
\* it: a record that was deleted before is not parsed, and what a parse error
\* leaves there is freed memory.
IsCurrentDocument(d, r) ==
  CASE GetSGML(d, r) = {"doc"} -> {TRUE}
    [] GetSGML(d, r) = {"parse_error"} -> BOOLEAN
    [] OTHER -> {FALSE}

\* in_comp_del: the range of the record's component ids is taken out ...
CompDel ==
  /\ At("comp_del")
  /\ \E current \in IsCurrentDocument(D, h.rec) :
     LET range == IF current THEN D.compdoc[h.rec] ELSE NULL
     IN  IF range = NULL
         THEN /\ work' = Tail(work)
              /\ UNCHANGED db
         ELSE /\ SetD([D EXCEPT !.compdoc[h.rec] = NULL])
              /\ work' = <<[Task("del_components", h.rec, range[1], 1)
                             EXCEPT !.last = range[2]]>> \o Tail(work)
  /\ Rest /\ UNCHANGED batch

\* ... and for each id the terms of the component are taken out of the
\* index, where entries of the record number are looked for.
DelComponent ==
  /\ At("del_components")
  /\ work' = IF h.id > h.last THEN Tail(work)
             ELSE <<Loop("del", "ck", h.rec, h.id, h.part,
                         Occurring(in_extract(D, "ck", h.rec, h.part))),
                    [h EXCEPT !.id = @ + 1, !.part = @ + 1]>> \o Tail(work)
  /\ Rest /\ UNCHANGED <<db, batch>>

Step == \/ AddDone \/ DelDone
        \/ NextComponent \/ ComponentsDone \/ CompDel \/ DelComponent
        \/ \E t \in Term : AddTerm(t) \/ DelTerm(t)
        \/ \E hist \in BOOLEAN : FilDel(hist)

-----------------------------------------------------------------------------
(* index_cheshire.                                                         *)

\* A load of all files from record start on; extra is by how much maxrec
\* exceeds the records there are.
Load(start, extra, b) ==
  /\ Idle
  /\ start = upto[1] + 1 \/ "reload" \in Operator
  /\ extra = 0 \/ "past_end" \in Operator
  /\ Fault(extra # 0)
  /\ b => \/ primary = "none"
          \/ \A f \in File, t \in Term : db[f].ix["pk"][t] = NULL
          \/ "batch_key" \in Operator
  /\ cmd' = [prog |-> "load", file |-> 1, start |-> start, i |-> start,
             max |-> Len(db[1].assoc) + extra, extra |-> extra, batch |-> b,
             rc |-> NULL, indexed |-> FALSE, read |-> {},
             last_rec_proc |-> start - 1]
  /\ UNCHANGED <<primary, db, work, batch, ended, ghosts>>

Loading == /\ cmd # NULL
           /\ cmd.prog = "load"
           /\ work = <<>>

\* in_kwadd returns rc without indexing the record.
Returned(rc) ==
  /\ cmd' = [cmd EXCEPT !.rc = rc]
  /\ UNCHANGED <<work, want>>

\* Mutated form of PrimaryEntry: the key is not looked up.
PrimaryEntryMissed(d, r) == {}

\* The primary key of the record has an entry in the index.
PrimaryEntry(d, r) ==
  {d.ix["pk"][t] : t \in {u \in Occurring(in_extract(d, "pk", r, 0)) :
                            d.ix["pk"][u] # NULL}}

\* in_kwadd goes on to index record i, first taking out the records old.
Indexes(old) ==
  /\ cmd' = [cmd EXCEPT !.rc = 1, !.indexed = TRUE]
  /\ work' = (IF old = {} THEN <<>>
              ELSE Replace(D, CHOOSE r \in old : TRUE)) \o in_kwadd(D, cmd.i)
  /\ want' = [want EXCEPT ![cmd.file] = @ \ old]

\* in_kwadd up to its loops: reading, and the pass over the primary key.
KwAdd ==
  /\ Loading
  /\ cmd.rc = NULL
  /\ cmd.i <= cmd.max
  /\ \E got \in GetSGML(D, cmd.i) :
       IF got # "doc"
       THEN Returned(CASE got = "parse_error" -> -2
                       [] got = "deleted" -> 1
                       [] got = "error" -> -1)
       ELSE LET found == IF cmd.batch \/ primary = "none" THEN {}
                         ELSE PrimaryEntry(D, cmd.i)
            IN  IF primary = "ignore" /\ found # {} THEN Returned(1)
                ELSE LET old == {p.entries[1].rec :
                                 p \in {q \in found : Len(q.entries) = 1}}
                     IN  IF \E r \in old : r > cmd.i THEN Returned(0)
                         ELSE Indexes(old)
  /\ UNCHANGED <<primary, db, batch, ended, upto, torn, faults>>

Serious == cmd.i # cmd.last_rec_proc + 1 \/ cmd.rc \in {0, -1}

\* in_kwadd has returned and the load goes on with the next record.
NextRecord ==
  /\ Loading
  /\ cmd.rc # NULL
  /\ ~Serious
  /\ cmd' = [cmd EXCEPT !.last_rec_proc = cmd.i, !.i = @ + 1, !.rc = NULL,
                        !.indexed = FALSE,
                        !.read = IF cmd.indexed /\ cmd.batch
                                 THEN @ \cup {cmd.i} ELSE @]
  /\ want' = IF cmd.indexed /\ ~cmd.batch
             THEN [want EXCEPT ![cmd.file] = @ \cup {cmd.i}] ELSE want
  /\ upto' = IF cmd.i = upto[cmd.file] + 1 /\ cmd.i <= Len(D.assoc)
             THEN [upto EXCEPT ![cmd.file] = cmd.i] ELSE upto
  /\ UNCHANGED <<primary, db, work, batch, ended, torn, faults>>

\* in_kwadd has returned and the program exits as it is.
LoadExits ==
  /\ Loading
  /\ cmd.rc # NULL
  /\ Serious
  /\ cmd' = NULL
  /\ ended' = "error"
  /\ UNCHANGED <<primary, db, work, batch, ghosts, faults>>

-----------------------------------------------------------------------------
(* in_batch_load: the lines sorted by term and record number, the primary  *)
(* key index first.                                                        *)

InBatch == /\ Loading
           /\ cmd.batch
           /\ cmd.rc = NULL
           /\ cmd.i > cmd.max

Of(x) == {l \in lines : l.x = x}

\* The terms of an index come in some order, the lines of a term together
\* and by record number.
IsNextLine(l) ==
  /\ l \in lines
  /\ \A m \in lines : m.x = l.x /\ m.t = l.t => l.id <= m.id
  /\ IF cur = NULL THEN primary = "none" \/ Of("pk") = {} \/ l.x = "pk"
     ELSE /\ l.x = cur.x
          /\ l.t = cur.t \/ \A m \in Of(cur.x) : m.t # cur.t

IsPrimary(x) == x = "pk" /\ primary # "none"

Skipped(l) == primary # "none" /\ l.id \in hash_tab

SameKey(l) == IF cur = NULL THEN FALSE ELSE cur.t = l.t

BatchSkip(l) ==
  /\ IsNextLine(l) /\ Skipped(l)
  /\ lines' = lines \ {l}
  /\ Rest /\ UNCHANGED <<db, work, cur, hash_tab>>

\* The same key as the line before.
BatchSame(l) ==
  /\ IsNextLine(l) /\ ~Skipped(l)
  /\ SameKey(l)
  /\ lines' = lines \ {l}
  /\ IF ~IsPrimary(l.x)
     THEN /\ cur' = [cur EXCEPT !.p = Extended(@, l.id, l.n)]
          /\ SetD(Counted(D, l.x, l.n, FALSE))
          /\ UNCHANGED <<work, hash_tab>>
     ELSE IF primary = "replace"
     THEN LET old == cur.p.entries[1].rec
          IN  /\ cur' = [cur EXCEPT !.p.entries[1] = Entry(l.id, l.n)]
              /\ hash_tab' = hash_tab \cup {old}
              /\ work' = Replace(D, old)
              /\ UNCHANGED db
     ELSE /\ hash_tab' = hash_tab \cup {l.id}
          /\ UNCHANGED <<cur, work, db>>
  /\ Rest

\* The information accumulated for the key before goes into the index.
Flushed == IF cur = NULL THEN D ELSE PutPosting(D, cur.x, cur.t, cur.p)

\* Another key than the line before.  An entry that the primary key index
\* has for it is replaced whatever the option says.
BatchNewKey(l) ==
  /\ IsNextLine(l) /\ ~Skipped(l)
  /\ ~SameKey(l)
  /\ lines' = lines \ {l}
  /\ LET d == Flushed
         p == d.ix[l.x][l.t]
         new == p = NULL \/ IsPrimary(l.x)
     IN  /\ cur' = [x |-> l.x, t |-> l.t,
                    p |-> IF new THEN NewInfo(d, l.x, l.id, l.n)
                          ELSE Extended(p, l.id, l.n)]
         /\ SetD(Counted(d, l.x, l.n, new))
         /\ work' = IF /\ IsPrimary(l.x) /\ primary = "replace"
                       /\ p # NULL /\ Len(p.entries) = 1
                    THEN Replace(d, p.entries[1].rec) ELSE <<>>
  /\ Rest /\ UNCHANGED hash_tab

\* The last line of an index.
BatchFlush ==
  /\ cur # NULL /\ Of(cur.x) = {}
  /\ SetD(Flushed)
  /\ cur' = NULL
  /\ Rest /\ UNCHANGED <<work, lines, hash_tab>>

BatchStep == /\ InBatch
             /\ \/ BatchFlush
                \/ \E l \in lines : BatchSkip(l) \/ BatchSame(l) \/ BatchNewKey(l)

-----------------------------------------------------------------------------
\* A file is done, and on disk; the next one follows, or the program ends.
FileDone ==
  /\ Loading
  /\ cmd.rc = NULL
  /\ cmd.i > cmd.max
  /\ lines = {} /\ cur = NULL
  /\ want' = [want EXCEPT ![cmd.file] = @ \cup (cmd.read \ hash_tab)]
  /\ hash_tab' = {}
  /\ IF cmd.file < NFiles
     THEN /\ cmd' = [cmd EXCEPT !.file = @ + 1, !.i = cmd.start, !.read = {},
                      !.max = Len(db[cmd.file + 1].assoc) + cmd.extra]
          /\ UNCHANGED ended
     ELSE /\ cmd' = NULL
          /\ ended' = "done"
  /\ UNCHANGED <<primary, db, work, lines, cur, upto, torn, faults>>

\* delete_recs for one record number.
Delete(f, r) ==
  /\ Idle
  /\ r \in DOMAIN db[f].assoc
  /\ GetSGML(db[f], r) = {"doc"} => r \in want[f]
  /\ cmd' = [prog |-> "delete", file |-> f, i |-> r, batch |-> FALSE]
  /\ work' = in_kwdel(db[f], r) \o <<Task("comp_del", r, r, 0),
                                     Task("fil_del", r, r, 0)>>
  /\ want' = [want EXCEPT ![f] = @ \ {r}]
  /\ UNCHANGED <<primary, db, batch, ended, upto, torn, faults>>

DeleteDone ==
  /\ cmd # NULL /\ cmd.prog = "delete"
  /\ work = <<>>
  /\ cmd' = NULL
  /\ ended' = "done"
  /\ UNCHANGED <<primary, db, work, batch, ghosts, faults>>

\* The records a program is at: those of the loops ahead, the one whose
\* in_kwadd has not returned to main, and those whose lines are not in the
\* indexes yet.
Busy ==
  IF cmd = NULL THEN {}
  ELSE {work[i].rec : i \in DOMAIN work}
         \cup IF cmd.prog = "delete" THEN {cmd.i}
              ELSE cmd.read \cup IF cmd.rc = NULL THEN {} ELSE {cmd.i}

\* scram: a signal ends the program.
Interrupt ==
  /\ cmd # NULL
  /\ "interrupt" \in Operator
  /\ primary = "replace" => "interrupt_replace" \in Operator
  /\ cmd.batch => "interrupt_batch" \in Operator
  /\ Fault(TRUE)
  /\ torn' = [torn EXCEPT ![cmd.file] = @ \cup Busy]
  /\ cmd' = NULL
  /\ work' = <<>>
  /\ lines' = {} /\ cur' = NULL /\ hash_tab' = {}
  /\ ended' = "interrupted"
  /\ UNCHANGED <<primary, db, want, upto>>

Program == \/ Step \/ KwAdd \/ NextRecord \/ LoadExits
           \/ BatchStep \/ FileDone \/ DeleteDone

Next == \/ Program
        \/ Interrupt
        \/ \E f \in File : \/ \E c \in Doc : AddRecord(f, c)
                          \/ \E r \in Recno : Delete(f, r)
        \/ \E s \in 1..MaxRecs + 1, e \in 0..1, b \in BOOLEAN : Load(s, e, b)

Spec == Init /\ [][Next]_vars

-----------------------------------------------------------------------------
LoopType == [kind : {"add", "del", "fil_del", "components", "comp_del",
                     "del_components"},
             x : Index, rec : Recno, id : Nat, part : Nat, terms : SUBSET Term,
             last : Nat, touched : BOOLEAN]

Line == [x : Index, t : Term, id : Recno, n : Nat \ {0}]

NewInfo_t == [x : Index, t : Term, p : Posting]

\* The local variables of main, in in_load.c and in in_testdel.c.
Load_t ==
  [prog : {"load"}, file : File, start : Nat, i : Nat, max : Nat, extra : Nat,
   batch : BOOLEAN, rc : -2..1 \cup {NULL}, indexed : BOOLEAN, read : SUBSET Nat,
   last_rec_proc : Int]

Delete_t == [prog : {"delete"}, file : File, i : Nat, batch : {FALSE}]

Program_t == Load_t \cup Delete_t

\* A null pointer is no program, no list and no return code.
ASSUME ProgramAssumption ==
  NULL \notin Program_t /\ NULL \notin Posting /\ NULL \notin NewInfo_t /\ NULL \notin -2..1

\* Every variable has the shape its declaration in in_kwadd.c, in_load.c and
\* in_batch_load.c gives it, and every index entry is a posting.
TypeOK ==
  /\ primary \in Primaries
  /\ \A f \in File : \A x \in Index : \A t \in Term :
       db[f].ix[x][t] # NULL =>
         LET p == db[f].ix[x][t]
         IN  /\ DOMAIN p = {"termid", "tot_freq", "entries"}
             /\ p.entries # <<>>
             /\ \A i \in DOMAIN p.entries :
                  p.entries[i] \in [rec : Recno, freq : Nat \ {0}]
  /\ \A i \in DOMAIN work : work[i] \in LoopType
  /\ lines \subseteq Line
  /\ hash_tab \subseteq Recno
  /\ ended \in {"done", "interrupted", "error"}

\* An index never says of a record what is not so, whatever was interrupted,
\* loaded again, replaced or deleted: each entry of a list of in_kwadd is
\* about a record of the associator that contains the term that often.
PostingsTrue ==
  \A f \in File : \A x \in RecIndex : \A t \in Term :
    db[f].ix[x][t] # NULL =>
      \A i \in DOMAIN db[f].ix[x][t].entries :
        LET e == db[f].ix[x][t].entries[i]
        IN  /\ e.rec \in DOMAIN db[f].assoc
            /\ e.freq = Words[db[f].assoc[e.rec].doc][x][t]
            /\ e.freq > 0

\* No two terms of an index share a term id (the key of their proximity
\* data), deleted and re-added terms included: recptr++ hands them out.
TermidsUnique ==
  \A f \in File : \A x \in Index : \A t, u \in Term :
    /\ db[f].ix[x][t] # NULL
    /\ db[f].ix[x][u] # NULL
    /\ db[f].ix[x][t].termid = db[f].ix[x][u].termid
    => t = u

Affected(f) == torn[f] \cup IF cmd # NULL /\ cmd.file = f THEN Busy ELSE {}

\* A list holds exactly the records that were indexed and not deleted or
\* replaced since and contain the term, each once.  Only the record a
\* program is at, or was at when a signal came, may be missing or be there
\* twice: in_kwdel, which drops single entries unseen, must not take away
\* another record's.
IndexExact ==
  \A f \in File : \A x \in RecIndex : \A t \in Term :
    LET p == db[f].ix[x][t]
        out == Affected(f)
    IN  /\ Recs(p) \ out
             = {r \in want[f] \ out : Words[db[f].assoc[r].doc][x][t] > 0}
        /\ p # NULL => \A i, j \in DOMAIN p.entries :
             p.entries[i].rec = p.entries[j].rec /\ i # j
               => p.entries[i].rec \in torn[f]

\* tot_freq, which in_kwadd, in_batch_load and in_kwdel keep apart from the
\* entries and in_kwdel lowers by what it finds in the record, is the sum of
\* their frequencies, duplicates of interrupted loads included.  Only a batch
\* load that replaces the entry of a primary key leaves the total of another
\* record that has the key.
TotalsAgree ==
  \A f \in File : \A x \in RecIndex : \A t \in Term :
    LET p == db[f].ix[x][t]
    IN  p # NULL =>
          \/ p.tot_freq = MapThenSumSet(LAMBDA i : p.entries[i].freq, DOMAIN p.entries)
          \/ /\ x = "pk" /\ primary = "replace"
             /\ \E r \in DOMAIN db[f].assoc :
                  p.tot_freq = Words[db[f].assoc[r].doc]["pk"][t]

\* A record is marked as deleted when no list has an entry of it any more,
\* never before: in_kwdel reads the record to find its terms and would find a
\* marked one no longer, so that a signal between the two writes would leave
\* entries that nothing can take out.  (A record at which an earlier signal
\* came may have entries twice.)
DeletedUnlisted ==
  \A f \in File : \A r \in DOMAIN db[f].assoc \ torn[f] :
    db[f].assoc[r].deleted =>
      \A x \in RecIndex : \A t \in Term : r \notin Recs(db[f].ix[x][t])

\* What searches should find is in the record store, and a primary key names
\* one record at most: replaced records are deleted, ignored ones are not
\* indexed (configfiles.html on PRIMARYKEY).
KeysUnique ==
  \A f \in File : \A r \in want[f] \ Affected(f) :
    /\ r \in DOMAIN db[f].assoc
    /\ ~db[f].assoc[r].deleted
    /\ primary # "none" =>
         \A q \in want[f] \ Affected(f) : \A t \in Term :
           /\ Words[db[f].assoc[q].doc]["pk"][t] > 0
           /\ Words[db[f].assoc[r].doc]["pk"][t] > 0
           => q = r

-----------------------------------------------------------------------------
(* What the steps preserve.                                                *)

Parted(a, r) == Len(Parts[a[r].doc])

\* An entry for term t of a record index says what record e.rec contains.
TrueEntry(a, x, t, e) ==
  x \in RecIndex => /\ e.rec \in DOMAIN a
                    /\ e.freq = Words[a[e.rec].doc][x][t]

TruePosting(a, x, t, p) ==
  /\ p.entries # <<>>
  /\ \A i \in DOMAIN p.entries : TrueEntry(a, x, t, p.entries[i])

Lists(d) ==
  \A x \in Index, t \in Term :
    d.ix[x][t] # NULL => TruePosting(d.assoc, x, t, d.ix[x][t])

\* Term ids are handed out in order, each to one term.
Termids(d) ==
  \A x \in Index, t \in Term :
    d.ix[x][t] # NULL =>
      /\ d.ix[x][t].termid < d.g[x].recptr
      /\ \A u \in Term \ {t} :
           d.ix[x][u] # NULL => d.ix[x][u].termid # d.ix[x][t].termid

\* The component ids of a record are as many as it has components, or less.
Ranges(d) ==
  \A r \in Recno :
    d.compdoc[r] # NULL => /\ r \in DOMAIN d.assoc
                           /\ d.compdoc[r][2] - d.compdoc[r][1] < Parted(d.assoc, r)

DatabaseOK(d) == /\ d \in Database
                 /\ Len(d.assoc) <= MaxRecs
                 /\ Lists(d) /\ Termids(d) /\ Ranges(d)

\* A loop is about a record of the associator and about terms it contains; a
\* component loop keeps the ids and the components in step.
LoopOK(d, l) ==
  /\ l.rec \in DOMAIN d.assoc
  /\ l.kind \in {"add", "del"} =>
       /\ l.x = "ck" => l.part \in 1..Parted(d.assoc, l.rec)
       /\ l.terms \subseteq Occurring(in_extract(d, l.x, l.rec, l.part))
  /\ l.kind = "add" => IF l.x = "ck" THEN l.id \in Recno ELSE l.id = l.rec
  /\ l.kind = "components" => /\ l.part \in 1..Parted(d.assoc, l.rec) + 1
                              /\ d.maxcomp = l.id + l.part - 2
  /\ l.kind = "del_components" => /\ l.part >= 1
                                  /\ l.last - l.id + l.part <= Parted(d.assoc, l.rec)

\* newinfo is a posting for last_key whose term id no other term has.
NewInfoOK(d, c) ==
  c # NULL =>
    /\ TruePosting(d.assoc, c.x, c.t, c.p)
    /\ c.p.termid < d.g[c.x].recptr
    /\ \A u \in Term \ {c.t} :
         d.ix[c.x][u] # NULL => d.ix[c.x][u].termid # c.p.termid

LineOK(d, l) == TrueEntry(d.assoc, l.x, l.t, Entry(l.id, l.n))

WorkOK(d, w) == \A i \in DOMAIN w : /\ LoopOK(d, w[i])
                                    /\ w[i].kind = "components" => i = Len(w)

ProgramOK == /\ WorkOK(D, work)
             /\ \A l \in lines : LineOK(D, l)
             /\ NewInfoOK(D, cur)

\* A program that does without the batch files.
Direct == cmd # NULL /\ ~cmd.batch

IInv ==
  /\ primary \in Primaries
  /\ db \in [File -> Database]
  /\ cmd \in Program_t \cup {NULL}
  /\ work \in Seq(LoopType)
  /\ lines \subseteq Line
  /\ cur \in NewInfo_t \cup {NULL}
  /\ hash_tab \subseteq Recno
  /\ ended \in {"done", "interrupted", "error"}
  /\ \A f \in File : DatabaseOK(db[f])
  /\ cmd # NULL => ProgramOK
  /\ cmd = NULL => work = <<>>
  /\ Idle \/ Direct => lines = {} /\ cur = NULL

-----------------------------------------------------------------------------
(* What the steps preserve if the operator follows the manual.             *)

\* There is one database; new records are loaded once, each has a primary
\* key if there is one, and batch loads start with no key in use; a load that
\* replaces records is not interrupted.
Manual ==
  /\ NFiles = 1
  /\ Operator \subseteq {"interrupt", "interrupt_batch", "past_end", "no_history"}
  /\ \/ Primaries \subseteq {"none"}
     \/ \A c \in Doc \ Bad : \E t \in Term : Words[c]["pk"][t] > 0

Occurs(d, r, x, t) == Words[d.assoc[r].doc][x][t] > 0

\* The list p of term t has an entry for each record of S that contains t,
\* and no other entry but those of the records out, which may have several.
Exact(d, out, x, t, p, S) ==
  /\ \A r \in S \cap DOMAIN d.assoc : Occurs(d, r, x, t) => r \in Recs(p)
  /\ Recs(p) \ out \subseteq S
  /\ p # NULL => \A i, j \in DOMAIN p.entries :
       p.entries[i].rec = p.entries[j].rec => i = j \/ p.entries[i].rec \in out

InLoad == cmd # NULL /\ cmd.prog = "load"

\* The records that the running load has gone through and that are not
\* wanted yet, and all records that are to have entries.
Loaded == IF InLoad THEN cmd.read \cup (IF cmd.indexed THEN {cmd.i} ELSE {}) ELSE {}

Live == want[1] \cup (Loaded \ hash_tab)

InWork(w, kind, r, x, t) ==
  \E i \in DOMAIN w : /\ w[i].kind = kind /\ w[i].rec = r
                      /\ w[i].x = x /\ t \in w[i].terms

InLines(ls, r, x, t) == \E l \in ls : l.x = x /\ l.t = t /\ l.id = r

\* The records that have their entry for t by now: what will be added is
\* ahead in work or in lines, what will be deleted in work.
Due(x, t) ==
  {r \in Live : ~InWork(work, "add", r, x, t) /\ ~InLines(lines, r, x, t)}
    \cup {r \in Recno : Direct /\ InWork(work, "del", r, x, t)}

AtCur(x, t) == cur # NULL /\ cur.x = x /\ cur.t = t

\* The list of t, with the entries that newinfo holds.
Held(x, t) == IF AtCur(x, t) THEN cur.p ELSE db[1].ix[x][t]

\* A load that still takes in records.
Gathering == InLoad /\ (cmd.i <= cmd.max \/ cmd.rc # NULL)

AtPrimary == Of("pk") # {} \/ (cur # NULL /\ cur.x = "pk")

\* A batch load that has put nothing into the list of t yet.
NotYet(x, t) ==
  /\ cmd # NULL /\ cmd.batch
  /\ \/ Gathering \/ AtCur(x, t)
     \/ \E l \in lines : l.x = x /\ l.t = t
     \/ x = "kw" /\ primary # "none" /\ AtPrimary

ListsExact ==
  \A x \in RecIndex, t \in Term :
    LET p == db[1].ix[x][t]
    IN  /\ cmd = NULL => Exact(db[1], torn[1], x, t, p, want[1])
        /\ cmd # NULL => Exact(db[1], torn[1], x, t, Held(x, t), Due(x, t))
        /\ NotYet(x, t) => /\ Exact(db[1], torn[1], x, t, p, want[1])
                           /\ x = "pk" /\ primary # "none" => p = NULL

\* A primary key has one entry, and gets it when the old one is gone.
OneEntry ==
  primary # "none" =>
    /\ \A t \in Term : db[1].ix["pk"][t] # NULL => Len(db[1].ix["pk"][t].entries) = 1
    /\ cur # NULL /\ cur.x = "pk" => Len(cur.p.entries) = 1
    /\ Direct => \A r \in Recno, t \in Term :
         InWork(work, "add", r, "pk", t) =>
           db[1].ix["pk"][t] = NULL \/ \E q \in Recno : InWork(work, "del", q, "pk", t)

WantOK ==
  /\ want \in [File -> SUBSET Nat] /\ upto \in [File -> Nat] /\ torn \in [File -> SUBSET Nat]
  /\ want[1] \subseteq 1..upto[1]
  /\ upto[1] \in 0..Len(db[1].assoc)
  /\ \A r \in Live : GetSGML(db[1], r) = {"doc"}
  /\ primary = "replace" => torn[1] = {}

BatchOK ==
  /\ \A r \in want[1] : r < cmd.start
  /\ primary = "replace" => want[1] = {}
  /\ \A l \in lines : l.x \in RecIndex => l.id \in Loaded
  /\ cur # NULL => ~Gathering
  /\ primary # "none" /\ cur # NULL /\ cur.x # "pk" => Of("pk") = {}

LoadOK ==
  InLoad =>
    /\ upto[1] = IF cmd.i - 1 <= Len(db[1].assoc) THEN cmd.i - 1 ELSE Len(db[1].assoc)
    /\ cmd.last_rec_proc = cmd.i - 1
    /\ cmd.indexed => cmd.rc = 1
    /\ cmd.read \subseteq cmd.start..cmd.i - 1 /\ cmd.start <= cmd.i
    /\ IF cmd.batch THEN BatchOK ELSE cmd.read = {}

\* A loop adds the entries of the record that is being loaded, or takes out
\* those of a record that is to have none; a batch load has only loops of
\* this kind that find nothing.
LoopFor(l) ==
  /\ l.rec \notin want[1]
  /\ l.kind \notin {"add", "del"} => l.x = "ck"
  /\ l.kind \in {"comp_del", "del_components"} => ~InLoad
  /\ l.kind = "add" /\ l.x \in RecIndex => InLoad /\ cmd.indexed /\ l.rec = cmd.i
  /\ l.kind \in {"fil_del", "del"} => l.rec \notin Live
  /\ l.kind = "del" /\ cmd.batch =>
       /\ primary = "replace" /\ cur # NULL /\ cur.x = "pk"
       /\ l.x = "pk" => l.terms \subseteq {cur.t}

\* An index has one loop of a kind, and what is deleted goes first.
Before(a, b) ==
  a.x \in RecIndex /\ b.x \in RecIndex =>
    <<a.kind, a.x>> # <<b.kind, b.x>> /\ ~(a.kind = "add" /\ b.kind = "del")

Ordered(w) == \A i, j \in DOMAIN w : i < j => Before(w[i], w[j])

EInv ==
  /\ ListsExact /\ OneEntry /\ WantOK /\ LoadOK
  /\ cmd # NULL => /\ \A i \in DOMAIN work : LoopFor(work[i])
                   /\ Ordered(work)
  /\ Idle \/ Direct \/ primary = "none" => hash_tab = {}

-----------------------------------------------------------------------------
\* "the program deletes all of the index and component entries for the
\* record" (delete_recs.html): when it has, no entry of the component index
\* is about a component of a deleted record.
ComponentsGone ==
  cmd = NULL /\ ended = "done" =>
    \A f \in File : \A t \in Term : \A id \in Recs(db[f].ix["ck"][t]) :
      db[f].comp[id] # NULL /\ ~db[f].assoc[db[f].comp[id]].deleted
=============================================================================
