---------------------------- MODULE ZClientProofs ----------------------------
(***************************************************************************)
(* Proofs of the properties of ZClient, for any servers, descriptors and   *)
(* number of associations.                                                 *)
(***************************************************************************)
EXTENDS ZClient, SequenceTheorems, WellFoundedInduction, TLAPS

-----------------------------------------------------------------------------
(* Sequences and descriptors.                                              *)

\* Every set of numbers that is not empty has a least one.
LEMMA Least ==
  ASSUME NEW S, S \subseteq Nat, S # {}
  PROVE  Min(S) \in S
<1> DEFINE R == OpToRel(<, Nat)
<1>1. IsWellFoundedOn(R, Nat)
  BY NatLessThanWellFounded
<1>2. \A j, k \in Nat : <<j, k>> \in R <=> j < k
  BY DEF OpToRel
<1> HIDE DEF R
<1>3. PICK k \in S : \A j \in S : ~(<<j, k>> \in R)
  BY <1>1, WFMin
<1>4. ASSUME NEW j \in S PROVE k <= j
  <2>1. j \in Nat /\ k \in Nat /\ ~(<<j, k>> \in R)
    BY <1>3
  <2> QED
    BY <1>2, <2>1
<1> QED
  BY <1>4 DEF Min

\* What the searches of zAssociations return.
LEMMA Lookups ==
  ASSUME assocs \in Seq(Session)
  PROVE  /\ \A h \in Host : LET i == SearchAssociation(h)
                            IN  i = 0 \/ (i \in DOMAIN assocs /\ assocs[i].host = h)
         /\ \A f \in Fd : LET i == LookupAssociation(f)
                          IN  i = 0 \/ (i \in DOMAIN assocs /\ assocs[i].fd = f)
<1>1. DOMAIN assocs = 1..Len(assocs) /\ Len(assocs) \in Nat
  OBVIOUS
<1>2. ASSUME NEW h \in Host
      PROVE  LET i == SearchAssociation(h)
             IN  i = 0 \/ (i \in DOMAIN assocs /\ assocs[i].host = h)
  <2> DEFINE I == {i \in 1..Len(assocs) : assocs[i].host = h}
  <2>1. SearchAssociation(h) = IF I # {} THEN Min(I) ELSE 0
    BY DEF SearchAssociation, SelectInSeq
  <2>2. I \subseteq Nat
    BY <1>1
  <2>3. \A i \in I : i \in DOMAIN assocs /\ assocs[i].host = h
    BY <1>1
  <2> HIDE DEF I
  <2>4. I # {} => Min(I) \in I
    BY <2>2, Least
  <2> QED
    BY <2>1, <2>3, <2>4
<1>3. ASSUME NEW f \in Fd
      PROVE  LET i == LookupAssociation(f)
             IN  i = 0 \/ (i \in DOMAIN assocs /\ assocs[i].fd = f)
  <2> DEFINE I == {i \in 1..Len(assocs) : assocs[i].fd = f}
  <2>1. LookupAssociation(f) = IF I # {} THEN Min(I) ELSE 0
    BY DEF LookupAssociation, SelectInSeq
  <2>2. I \subseteq Nat
    BY <1>1
  <2>3. \A i \in I : i \in DOMAIN assocs /\ assocs[i].fd = f
    BY <1>1
  <2> HIDE DEF I
  <2>4. I # {} => Min(I) \in I
    BY <2>2, Least
  <2> QED
    BY <2>1, <2>3, <2>4
<1> QED
  BY <1>2, <1>3

\* One element more.
LEMMA Appended ==
  ASSUME NEW S, NEW s \in Seq(S), NEW e \in S
  PROVE  /\ Append(s, e) \in Seq(S)
         /\ s = <<>> => Append(s, e) = <<e>>
         /\ \A a \in S : s = <<a>> => Append(s, e) = <<a, e>>
<1> DEFINE w == Append(s, e)
<1>1. /\ w \in Seq(S) /\ Len(w) = Len(s) + 1 /\ w[Len(s) + 1] = e
      /\ \A i \in 1..Len(s) : w[i] = s[i]
  BY AppendProperties
<1> HIDE DEF w
<1>2. s = <<>> => w = <<e>>
  BY <1>1
<1>3. ASSUME NEW a \in S, s = <<a>> PROVE w = <<a, e>>
  <2>1. Len(s) = 1 /\ s[1] = a
    BY <1>3
  <2>2. Len(w) = 2 /\ w[1] = a /\ w[2] = e
    BY <1>1, <2>1
  <2> DEFINE v == <<a, e>>
  <2>3. v \in Seq(S) /\ Len(v) = 2 /\ v[1] = a /\ v[2] = e
    OBVIOUS
  <2> HIDE DEF v
  <2>4. \A i \in 1..Len(w) : w[i] = v[i]
    BY <2>2, <2>3
  <2>5. w = v
    BY <1>1, <2>2, <2>3, <2>4, SeqEqual
  <2> QED
    BY <2>5 DEF v
<1> QED
  BY <1>1, <1>2, <1>3 DEF w

\* A session of the list is written.
LEMMA Edited ==
  ASSUME assocs \in Seq(Session), NEW i \in DOMAIN assocs, NEW s \in Session
  PROVE  LET a == [assocs EXCEPT ![i] = s]
         IN  /\ a \in Seq(Session) /\ Len(a) = Len(assocs)
             /\ DOMAIN a = DOMAIN assocs /\ a[i] = s
             /\ \A j \in DOMAIN assocs \ {i} : a[j] = assocs[j]
  OBVIOUS

\* The fields of sessions, connections and messages.
LEMMA Fields ==
  /\ \A s \in Session : /\ s.host \in Host /\ s.fd \in Fd
                        /\ s.open \in BOOLEAN /\ s.state \in BOOLEAN
  /\ \A c \in Connection : /\ c.host \in Host /\ c.up \in BOOLEAN
                           /\ c.todo \in Seq(Message) /\ c.answers \in Seq(Message)
  BY DEF Session, Connection

\* The open descriptors of a process.
Conns(c) == DOMAIN c \subseteq Fd /\ \A f \in DOMAIN c : c[f] \in Connection

\* A descriptor is closed, or was not open.
LEMMA RestrictFields ==
  ASSUME NEW c, Conns(c), NEW f
  PROVE  LET r == Restrict(c, DOMAIN c \ {f})
         IN  /\ Conns(r) /\ DOMAIN r = DOMAIN c \ {f}
             /\ \A g \in DOMAIN r : r[g] = c[g]
  BY DEF Restrict, Conns

\* A connection is written.
LEMMA Replaced ==
  ASSUME NEW c, Conns(c), NEW f \in DOMAIN c, NEW k \in Connection
  PROVE  LET r == [c EXCEPT ![f] = k]
         IN  /\ Conns(r) /\ DOMAIN r = DOMAIN c /\ r[f] = k
             /\ \A g \in DOMAIN c \ {f} : r[g] = c[g]
  BY DEF Conns

\* A request goes out: the messages that were on their way are no longer the
\* running command's.
SentIs(c, r, f, kind) ==
  /\ Conns(r) /\ DOMAIN r = DOMAIN c
  /\ \A g \in DOMAIN c : r[g].host = c[g].host
  /\ \A g \in DOMAIN c \ {f} : Silent(c[g]) => Silent(r[g])
  /\ Silent(c[f]) => r[f].todo = <<Own(kind)>> /\ r[f].answers = <<>>

\* PutPDU does what SentIs says.
LEMMA SentFields ==
  ASSUME NEW c, Conns(c), NEW f \in DOMAIN c, NEW kind \in Kind \union {"init"}
  PROVE  SentIs(c, Sent(c, f, kind), f, kind)
<1> DEFINE Old(s) == [i \in DOMAIN s |-> [s[i] EXCEPT !.own = FALSE]]
           k(g) == [c[g] EXCEPT !.todo = Old(@), !.answers = Old(@)]
           old == [g \in DOMAIN c |-> k(g)]
           m == Own(kind)
           r == Sent(c, f, kind)
<1>1. ASSUME NEW s \in Seq(Message)
      PROVE  Old(s) \in Seq(Message) /\ (s = <<>> => Old(s) = <<>>)
  <2> DEFINE no == FALSE
  <2>1. no \in BOOLEAN
    OBVIOUS
  <2> HIDE DEF no
  <2>2. \A e \in Message : [e EXCEPT !.own = no] \in Message
    BY <2>1 DEF Message
  <2>3. \A i \in DOMAIN s : [s[i] EXCEPT !.own = no] \in Message
    BY <1>1, <2>2
  <2>4. \A i \in DOMAIN s : [s[i] EXCEPT !.own = FALSE] \in Message
    BY <2>3 DEF no
  <2>5. DOMAIN s = 1..Len(s) /\ Len(s) \in Nat
    BY <1>1
  <2> QED
    BY <2>4, <2>5
<1>2. ASSUME NEW g \in DOMAIN c
      PROVE  /\ k(g) \in Connection /\ k(g).host = c[g].host
             /\ k(g).todo = Old(c[g].todo) /\ k(g).answers = Old(c[g].answers)
             /\ Silent(c[g]) => Silent(k(g))
  <2>1. c[g] \in Connection
    BY DEF Conns
  <2>2. c[g].todo \in Seq(Message) /\ c[g].answers \in Seq(Message)
    BY <2>1, Fields
  <2> DEFINE a == Old(c[g].todo)
             b == Old(c[g].answers)
  <2>3. a \in Seq(Message) /\ b \in Seq(Message)
    BY <1>1, <2>2
  <2>4. Silent(c[g]) => a = <<>> /\ b = <<>>
    BY <1>1, <2>2 DEF Silent
  <2>5. k(g) = [c[g] EXCEPT !.todo = a, !.answers = b]
    BY <2>1 DEF Connection
  <2> HIDE DEF a, b, k
  <2>6. k(g) \in Connection /\ k(g).host = c[g].host /\ k(g).todo = a /\ k(g).answers = b
    BY <2>1, <2>3, <2>5 DEF Connection
  <2>7. Silent(c[g]) => Silent(k(g))
    BY <2>4, <2>6 DEF Silent
  <2> QED
    BY <2>6, <2>7 DEF a, b
<1>3. m \in Message
  BY DEF Own, Message
<1>4. r = [old EXCEPT ![f].todo = Append(@, m)]
  BY DEF Sent, Own
<1> HIDE DEF k, m, r
<1>5. DOMAIN old = DOMAIN c /\ \A g \in DOMAIN c : old[g] = k(g)
  OBVIOUS
<1>6. Conns(old)
  BY <1>2, <1>5 DEF Conns
<1> HIDE DEF old
<1> DEFINE t == Append(old[f].todo, m)
           n == [old[f] EXCEPT !.todo = t]
<1>7. old[f] \in Connection /\ old[f].todo \in Seq(Message)
  BY <1>5, <1>6, Fields DEF Conns
<1>8. t \in Seq(Message) /\ (old[f].todo = <<>> => t = <<m>>)
  BY <1>3, <1>7, Appended
<1>9. r = [old EXCEPT ![f] = n]
  BY <1>4
<1> HIDE DEF t
<1>10. n \in Connection /\ n.host = old[f].host /\ n.todo = t /\ n.answers = old[f].answers
  BY <1>7, <1>8 DEF Connection
<1> HIDE DEF n
<1>11. /\ Conns(r) /\ DOMAIN r = DOMAIN c /\ r[f] = n
       /\ \A g \in DOMAIN c \ {f} : r[g] = k(g)
  BY <1>5, <1>6, <1>9, <1>10, Replaced
<1>12. \A g \in DOMAIN c : r[g].host = c[g].host
  BY <1>2, <1>5, <1>10, <1>11
<1>13. \A g \in DOMAIN c \ {f} : Silent(c[g]) => Silent(r[g])
  BY <1>2, <1>11
<1>14. Silent(c[f]) => r[f].todo = <<m>> /\ r[f].answers = <<>>
  BY <1>2, <1>5, <1>8, <1>10, <1>11 DEF Silent
<1> QED
  BY <1>11, <1>12, <1>13, <1>14 DEF SentIs, r, m

-----------------------------------------------------------------------------
(* The parts of the invariant.                                             *)

\* TypeInv without the preliminary session, which nothing else depends on.
Typing ==
  /\ DOMAIN conn \subseteq Fd
  /\ \A f \in DOMAIN conn : conn[f] \in Connection
  /\ assocs \in Seq(Session)
  /\ user \in 0..Len(assocs)
  /\ cmd \in Command_t
  /\ WaitsAtConnection

\* What Typing says of the variables but cmd.
LEMMA Typed ==
  ASSUME Typing
  PROVE  /\ Conns(conn) /\ assocs \in Seq(Session)
         /\ DOMAIN assocs = 1..Len(assocs) /\ Len(assocs) \in Nat
         /\ user \in 0..Len(assocs)
         /\ \A i \in DOMAIN assocs : assocs[i] \in Session
         /\ Waits => CmdFd \in DOMAIN conn
  BY DEF Typing, Conns, WaitsAtConnection

\* What it says of the command that runs.
LEMMA CommandIs ==
  ASSUME Typing
  PROVE  /\ cmd.op \in Kind \union {"idle", "connecting", "reconnecting",
                                   "connect", "reconnect"}
         /\ cmd.op \in {"connecting", "connect"} => cmd.host \in Host
         /\ cmd.op = "connect" => cmd.fd \in Fd
         /\ cmd.op \in Kind \union {"reconnecting", "reconnect"}
              => cmd.who \in DOMAIN assocs
         /\ cmd.op = "idle" => cmd = Idle
<1>1. cmd \in Command_t
  BY DEF Typing
<1>2. CASE cmd \in [op : {"idle"}]
  BY <1>2 DEF Kind, Idle
<1>3. CASE cmd \in [op : {"connecting"}, host : Host]
  BY <1>3 DEF Kind
<1>4. CASE cmd \in [op : {"reconnecting"}, who : DOMAIN assocs]
  BY <1>4 DEF Kind
<1>5. CASE cmd \in [op : {"connect"}, host : Host, fd : Fd]
  BY <1>5 DEF Kind
<1>6. CASE cmd \in [op : Kind \union {"reconnect"}, who : DOMAIN assocs]
  BY <1>6 DEF Kind
<1> QED
  BY <1>1, <1>2, <1>3, <1>4, <1>5, <1>6 DEF Command_t

\* The commands that a step leaves.
LEMMA NextCommand ==
  /\ cmd' = Idle => cmd' \in Command_t' /\ cmd'.op = "idle" /\ ~Waits'
  /\ \A h \in Host : cmd' = [op |-> "connecting", host |-> h] =>
       cmd' \in Command_t' /\ cmd'.op = "connecting" /\ ~Waits'
  /\ \A i \in DOMAIN assocs' : cmd' = [op |-> "reconnecting", who |-> i] =>
       /\ cmd' \in Command_t' /\ cmd'.op = "reconnecting" /\ cmd'.who = i
       /\ ~Waits'
  /\ \A h \in Host, f \in Fd : cmd' = [op |-> "connect", host |-> h, fd |-> f] =>
       /\ cmd' \in Command_t' /\ cmd'.op = "connect" /\ cmd'.host = h
       /\ cmd'.fd = f /\ Waits' /\ CmdFd' = f
  /\ \A i \in DOMAIN assocs', k \in Kind \union {"reconnect"} :
       cmd' = [op |-> k, who |-> i] =>
         /\ cmd' \in Command_t' /\ cmd'.op = k /\ cmd'.who = i
         /\ Waits' /\ CmdFd' = assocs'[i].fd
  BY DEF Idle, Command_t, Waits, CmdFd, Kind

\* The associations that say they are open, as OpenIsMine has it, and silent
\* but for the one of index who.
Lines(a, c, who) ==
  \A i \in DOMAIN a : a[i].open =>
    /\ a[i].fd \in DOMAIN c
    /\ c[a[i].fd].host = a[i].host
    /\ \A j \in DOMAIN a : a[j].open /\ a[j].fd = a[i].fd => i = j
    /\ i # who => Silent(c[a[i].fd])

\* The association whose connection a request waits at, or none.
At == IF cmd.op \in Kind THEN cmd.who ELSE 0

\* What is proved of a client whose faults are the servers' alone.
Mine == OpenIsMine /\ Selecting /\ InStep

\* Between commands, or before a connection: no line is waited at.
LEMMA Resting ==
  ASSUME Typing, Mine, ~Waits
  PROVE  Lines(assocs, conn, 0)
<1>1. \A i \in DOMAIN assocs : ~Requesting(i)
  BY DEF Waits, Requesting, Kind
<1> QED
  BY <1>1 DEF Mine, OpenIsMine, InStep, Lines

\* While a command waits, its line has its request.
LEMMA Waiting ==
  ASSUME Typing, Mine, Waits
  PROVE  /\ Lines(assocs, conn, At)
         /\ Outstanding(conn[CmdFd], IF cmd.op \in Kind THEN cmd.op ELSE "init")
         /\ conn[CmdFd].host = IF cmd.op = "connect" THEN cmd.host
                               ELSE assocs[cmd.who].host
         /\ \A i \in DOMAIN assocs :
              assocs[i].open /\ i # At => assocs[i].fd # CmdFd
<1>1. \A i \in DOMAIN assocs : Requesting(i) => i = At
  BY DEF Requesting, At
<1>2. Lines(assocs, conn, At)
  BY <1>1 DEF Mine, OpenIsMine, InStep, Lines
<1>3. ASSUME NEW i \in DOMAIN assocs, assocs[i].open, i # At
      PROVE  assocs[i].fd # CmdFd
  <2>1. CASE cmd.op \in {"connect", "reconnect"}
    BY <1>3, <2>1 DEF Mine, Selecting
  <2>2. CASE cmd.op \in Kind
    <3>1. cmd.who \in DOMAIN assocs /\ assocs[cmd.who].open /\ At = cmd.who
      BY <2>2, CommandIs DEF Mine, Selecting, At
    <3>2. CmdFd = assocs[cmd.who].fd
      BY <2>2 DEF CmdFd, Kind
    <3> QED
      BY <1>3, <3>1, <3>2 DEF Mine, OpenIsMine
  <2> QED
    BY <2>1, <2>2, CommandIs DEF Waits
<1> QED
  BY <1>2, <1>3 DEF Mine, InStep

\* A step that ends a command, or leaves a connection to be made.
LEMMA Rests ==
  ASSUME assocs' \in Seq(Session), cmd'.op \in {"idle", "connecting"},
         Lines(assocs', conn', 0)
  PROVE  Mine'
<1>1. ~Waits' /\ \A i : ~Requesting(i)'
  BY DEF Waits, Requesting, Kind
<1>2. Selecting'
  BY DEF Selecting, Kind
<1>3. \A i \in DOMAIN assocs' : i # 0
  OBVIOUS
<1> QED
  BY <1>1, <1>2, <1>3 DEF Mine, OpenIsMine, InStep, Lines

\* A step that leaves a command at a connection of its own.
LEMMA Awaits ==
  ASSUME assocs' \in Seq(Session), NEW who, NEW f, NEW kind \in Kind \union {"init"},
         Waits', CmdFd' = f,
         Outstanding(conn'[f], kind), Lines(assocs', conn', who),
         \/ /\ kind \in Kind /\ cmd'.op = kind /\ cmd'.who = who
            /\ who \in DOMAIN assocs' /\ assocs'[who].open
            /\ conn'[f].host = assocs'[who].host
         \/ /\ kind = "init" /\ cmd'.op \in {"connect", "reconnect"} /\ who = 0
            /\ \A i \in DOMAIN assocs' : assocs'[i].open => assocs'[i].fd # f
            /\ cmd'.op = "connect" => conn'[f].host = cmd'.host
            /\ cmd'.op = "reconnect" => /\ conn'[f].host = assocs'[cmd'.who].host
                                       /\ ~assocs'[cmd'.who].open
  PROVE  Mine'
<1>1. \A i \in DOMAIN assocs' : i # 0
  OBVIOUS
<1>2. OpenIsMine'
  BY DEF OpenIsMine, Lines
<1>3. Selecting'
  BY DEF Selecting, Kind
<1>4. kind = IF cmd'.op \in Kind THEN cmd'.op ELSE "init"
  BY DEF Kind
<1>5. \A i \in DOMAIN assocs' : ~Requesting(i)' => i # who
  BY <1>1 DEF Requesting, Kind
<1>6. InStep'
  BY <1>4, <1>5 DEF InStep, Lines, Kind
<1> QED
  BY <1>2, <1>3, <1>6 DEF Mine

-----------------------------------------------------------------------------
(* The servers.                                                            *)

\* A server writes to one connection: the request that waits there stays the
\* only one, and where there is none nothing comes.
LEMMA ServerMoves ==
  ASSUME Typing, NEW f \in DOMAIN conn, UNCHANGED <<assocs, user, cmd>>,
         NEW c \in Connection, conn' = [conn EXCEPT ![f] = c], c.host = conn[f].host,
         Silent(conn[f]) => Silent(c),
         \A k \in Kind \union {"init"} : Outstanding(conn[f], k) => Outstanding(c, k)
  PROVE  Typing' /\ (Mine => Mine')
<1>1. /\ Conns(conn') /\ DOMAIN conn' = DOMAIN conn /\ conn'[f] = c
      /\ \A g \in DOMAIN conn \ {f} : conn'[g] = conn[g]
  BY Typed, Replaced
<1>2. Typing'
  BY <1>1 DEF Typing, Conns, Command_t, WaitsAtConnection, Waits, CmdFd
<1>3. /\ \A g \in DOMAIN conn : conn'[g].host = conn[g].host
      /\ \A g \in DOMAIN conn : Silent(conn[g]) => Silent(conn'[g])
      /\ \A g \in DOMAIN conn, k \in Kind \union {"init"} :
           Outstanding(conn[g], k) => Outstanding(conn'[g], k)
  BY <1>1
<1>4. ASSUME Mine PROVE Mine'
  <2>1. OpenIsMine'
    BY <1>1, <1>3, <1>4 DEF Mine, OpenIsMine
  <2>2. Selecting'
    BY <1>4 DEF Mine, Selecting, CmdFd
  <2>3. InStep'
    <3>1. \A i \in DOMAIN assocs : assocs[i].open => assocs[i].fd \in DOMAIN conn
      BY <1>4 DEF Mine, OpenIsMine
    <3>2. \A i \in DOMAIN assocs' :
            assocs'[i].open /\ ~Requesting(i)' => Silent(conn'[assocs'[i].fd])
      BY <1>3, <1>4, <3>1 DEF Mine, InStep, Requesting
    <3>3. ASSUME Waits
          PROVE  /\ conn'[CmdFd].host = IF cmd.op = "connect" THEN cmd.host
                                        ELSE assocs[cmd.who].host
                 /\ Outstanding(conn'[CmdFd], IF cmd.op \in Kind THEN cmd.op ELSE "init")
      <4>1. CmdFd \in DOMAIN conn
        BY <3>3, Typed
      <4> QED
        BY <1>3, <1>4, <3>3, <4>1 DEF Mine, InStep
    <3>4. Waits' = Waits /\ CmdFd' = CmdFd
      BY DEF Waits, CmdFd
    <3> QED
      BY <3>2, <3>3, <3>4 DEF InStep
  <2> QED
    BY <2>1, <2>2, <2>3 DEF Mine
<1> QED
  BY <1>2, <1>4

\* The messages of a command.
LEMMA Messages ==
  /\ \A k \in Kind \union {"init", "reject", "control"} : Own(k) \in Message
  /\ \A k : Own(k).kind = k /\ Own(k).own
  /\ \A k, j : [Own(k) EXCEPT !.kind = j] = Own(j)
  /\ \A m \in Message : m.kind \in Kind \union {"init", "reject", "control"}
  /\ \A m \in Message, j \in Kind \union {"init", "reject", "control"} :
       [m EXCEPT !.kind = j] \in Message
<1>1. \A k \in Kind \union {"init", "reject", "control"} : Own(k) \in Message
  BY DEF Own, Message
<1>2. \A k : Own(k).kind = k /\ Own(k).own
  BY DEF Own
<1>3. ASSUME NEW k, NEW j PROVE [Own(k) EXCEPT !.kind = j] = Own(j)
  <2> DEFINE yes == TRUE
             v == [kind |-> k, own |-> yes]
             w == [v EXCEPT !.kind = j]
  <2> HIDE DEF yes
  <2>1. w = [kind |-> j, own |-> yes]
    OBVIOUS
  <2> QED
    BY <2>1 DEF Own, yes
<1>4. \A m \in Message : m.kind \in Kind \union {"init", "reject", "control"}
  BY DEF Message
<1>5. ASSUME NEW m \in Message, NEW j \in Kind \union {"init", "reject", "control"}
      PROVE  [m EXCEPT !.kind = j] \in Message
  BY DEF Message
<1> QED
  BY <1>1, <1>2, <1>3, <1>4, <1>5

\* A message follows what there is.
LEMMA Follows ==
  ASSUME NEW s \in Seq(Message), NEW m \in Message
  PROVE  /\ Append(s, m) \in Seq(Message)
         /\ s = <<>> => Append(s, m) = <<m>>
         /\ s = <<Own("control")>> => Append(s, m) = <<Own("control"), m>>
<1>1. Own("control") \in Message
  BY Messages
<1> QED
  BY <1>1, Appended

\* A list of one.
LEMMA Single ==
  ASSUME NEW m
  PROVE  Head(<<m>>) = m /\ Tail(<<m>>) = <<>> /\ <<m>> # <<>>
  OBVIOUS

\* The server answers the request, or rejects an init request.
LEMMA AnswerStep ==
  ASSUME Typing, NEW f \in DOMAIN conn, NEW kind \in Kind \union {"init", "reject"},
         Answer(f, kind)
  PROVE  Typing' /\ (Mine => Mine')
<1> DEFINE m == Head(conn[f].todo)
           r == [m EXCEPT !.kind = kind]
           t == Tail(conn[f].todo)
           a == Append(conn[f].answers, r)
           c == [conn[f] EXCEPT !.todo = t, !.answers = a]
<1>1. /\ conn[f].todo # <<>> /\ UNCHANGED <<assocs, user, cmd>>
      /\ kind = m.kind \/ (kind = "reject" /\ m.kind = "init")
      /\ conn' = [conn EXCEPT ![f].todo = Tail(@),
                              ![f].answers = Append(@, [m EXCEPT !.kind = kind])]
  BY DEF Answer
<1>2. conn[f] \in Connection
  BY Typed DEF Conns
<1>3. conn[f].todo \in Seq(Message) /\ conn[f].answers \in Seq(Message)
  BY <1>2, Fields
<1>4. conn' = [conn EXCEPT ![f] = c]
  BY <1>1, <1>2 DEF Connection
<1>5. m \in Message /\ t \in Seq(Message)
  BY <1>1, <1>3
<1>6. r \in Message
  BY <1>5, Messages
<1>7. \A k : conn[f].todo = <<Own(k)>> => t = <<>> /\ r = Own(kind) /\ m.kind = k
  BY Single, Messages
<1> HIDE DEF t, r
<1>8. /\ a \in Seq(Message)
      /\ conn[f].answers = <<>> => a = <<r>>
      /\ conn[f].answers = <<Own("control")>> => a = <<Own("control"), r>>
  BY <1>3, <1>6, Follows
<1> HIDE DEF a, m
<1>9. c \in Connection /\ c.host = conn[f].host /\ c.todo = t /\ c.answers = a
  BY <1>2, <1>5, <1>8 DEF Connection
<1> HIDE DEF c
<1>10. Silent(conn[f]) => Silent(c)
  BY <1>1 DEF Silent
<1>11. ASSUME NEW k \in Kind \union {"init"}, Outstanding(conn[f], k)
       PROVE  Outstanding(c, k)
  <2>1. /\ conn[f].todo = <<Own(k)>>
        /\ conn[f].answers = <<>> \/ conn[f].answers = <<Own("control")>>
    BY <1>1, <1>11 DEF Outstanding
  <2>2. t = <<>> /\ r = Own(kind) /\ m.kind = k
    BY <1>7, <2>1
  <2>3. kind \in AnswerKinds(k)
    BY <1>1, <2>2 DEF AnswerKinds
  <2>4. a = <<Own(kind)>> \/ a = <<Own("control"), Own(kind)>>
    BY <1>8, <2>1, <2>2
  <2> QED
    BY <1>9, <2>2, <2>3, <2>4 DEF Outstanding
<1> QED
  BY <1>1, <1>4, <1>9, <1>10, <1>11, ServerMoves

\* A control request before the answer.
LEMMA SendControlStep ==
  ASSUME Typing, NEW f \in DOMAIN conn, SendControl(f)
  PROVE  Typing' /\ (Mine => Mine')
<1> DEFINE r == Own("control")
           a == Append(conn[f].answers, r)
           c == [conn[f] EXCEPT !.answers = a]
<1>1. /\ conn[f].todo # <<>> /\ UNCHANGED <<assocs, user, cmd>>
      /\ \A i \in DOMAIN conn[f].answers : conn[f].answers[i].kind # "control"
      /\ conn' = [conn EXCEPT ![f].answers = Append(@, r)]
  BY DEF SendControl, Own
<1>2. conn[f] \in Connection
  BY Typed DEF Conns
<1>3. conn[f].todo \in Seq(Message) /\ conn[f].answers \in Seq(Message)
  BY <1>2, Fields
<1>4. conn' = [conn EXCEPT ![f] = c]
  BY <1>1, <1>2 DEF Connection
<1>5. r \in Message /\ r.kind = "control"
  BY Messages
<1> HIDE DEF r
<1>6. a \in Seq(Message) /\ (conn[f].answers = <<>> => a = <<r>>)
  BY <1>3, <1>5, Follows
<1>7. conn[f].answers # <<r>>
  BY <1>1, <1>5
<1> HIDE DEF a
<1>8. /\ c \in Connection /\ c.host = conn[f].host /\ c.todo = conn[f].todo
      /\ c.answers = a
  BY <1>2, <1>6 DEF Connection
<1> HIDE DEF c
<1>9. Silent(conn[f]) => Silent(c)
  BY <1>1 DEF Silent
<1>10. ASSUME NEW k \in Kind \union {"init"}, Outstanding(conn[f], k)
       PROVE  Outstanding(c, k)
  <2>1. conn[f].todo = <<Own(k)>> /\ conn[f].answers = <<>>
    BY <1>1, <1>7, <1>10 DEF Outstanding, r
  <2> QED
    BY <1>6, <1>8, <2>1 DEF Outstanding, r
<1> QED
  BY <1>1, <1>4, <1>8, <1>9, <1>10, ServerMoves

\* A server stops.
LEMMA GoDownStep ==
  ASSUME Typing, NEW f \in DOMAIN conn, GoDown(f)
  PROVE  Typing' /\ (Mine => Mine')
<1> DEFINE no == FALSE
           t == <<>>
           c == [conn[f] EXCEPT !.up = no, !.todo = t]
<1>1. /\ UNCHANGED <<assocs, user, cmd>>
      /\ conn' = [conn EXCEPT ![f].up = no, ![f].todo = t]
  BY DEF GoDown
<1>2. conn[f] \in Connection
  BY Typed DEF Conns
<1>3. conn' = [conn EXCEPT ![f] = c]
  BY <1>1, <1>2 DEF Connection
<1>4. no \in BOOLEAN /\ t \in Seq(Message)
  OBVIOUS
<1> HIDE DEF no, t
<1>5. /\ c \in Connection /\ c.host = conn[f].host /\ c.todo = t
      /\ c.answers = conn[f].answers
  BY <1>2, <1>4 DEF Connection
<1> HIDE DEF c
<1>6. Silent(conn[f]) => Silent(c)
  BY <1>5 DEF Silent, t
<1>7. \A k \in Kind \union {"init"} : Outstanding(conn[f], k) => Outstanding(c, k)
  BY <1>5 DEF Outstanding, t
<1> QED
  BY <1>1, <1>3, <1>5, <1>6, <1>7, ServerMoves

-----------------------------------------------------------------------------
(* zselect.                                                                *)

\* The operator, and a zdelete without an answer, do not leave a descriptor
\* to two associations.
Polite == Faults \cap {"stale_open", "stale_id", "stale_use", "delete"} = {}

\* Typing of the next state, put together.
LEMMA TypedNext ==
  ASSUME Conns(conn'), assocs' \in Seq(Session), user' \in 0..Len(assocs'),
         cmd' \in Command_t', Waits' => CmdFd' \in DOMAIN conn'
  PROVE  Typing'
  BY DEF Typing, Conns, WaitsAtConnection

\* Nothing runs.
LEMMA Idles ==
  ASSUME cmd = Idle
  PROVE  ~Waits /\ cmd.op = "idle"
  BY DEF Idle, Waits

\* A step from one rest to another that leaves the associations alone.
LEMMA StaysAtRest ==
  ASSUME Typing, ~Waits, UNCHANGED <<conn, assocs>>, user' \in 0..Len(assocs),
         cmd' \in Command_t', cmd'.op \in {"idle", "connecting"}
  PROVE  Typing' /\ (Mine => Mine')
<1>1. ~Waits'
  BY DEF Waits
<1>2. Typing'
  BY <1>1, Typed, TypedNext DEF Conns
<1>3. Mine => Mine'
  BY Typed, Resting, Rests
<1> QED
  BY <1>2, <1>3

\* zselect makes an association the current one, or sets out to connect it.
LEMMA SelectStep ==
  ASSUME Typing, NEW h \in Host, SelectCmd(h)
  PROVE  Typing' /\ (Mine => Mine')
<1> DEFINE i == SearchAssociation(h)
<1>1. /\ cmd = Idle /\ UNCHANGED <<conn, assocs>> /\ user' = i
      /\ cmd' = IF i = 0 THEN [op |-> "connecting", host |-> h]
                ELSE IF assocs[i].open THEN Idle
                ELSE [op |-> "reconnecting", who |-> i]
  BY DEF SelectCmd
<1>2. i = 0 \/ i \in DOMAIN assocs
  BY Typed, Lookups
<1>3. ~Waits
  BY <1>1, Idles
<1> HIDE DEF i
<1>4. user' \in 0..Len(assocs)
  BY <1>1, <1>2, Typed
<1>5. CASE i = 0 \/ assocs[i].open
  <2>1. cmd' \in Command_t' /\ cmd'.op \in {"idle", "connecting"}
    BY <1>1, <1>5, NextCommand
  <2> QED
    BY <1>1, <1>3, <1>4, <2>1, StaysAtRest
<1>6. CASE i # 0 /\ ~assocs[i].open
  <2>1. i \in DOMAIN assocs' /\ cmd' = [op |-> "reconnecting", who |-> i]
    BY <1>1, <1>2, <1>6
  <2>2. cmd' \in Command_t' /\ cmd'.op = "reconnecting" /\ cmd'.who = i /\ ~Waits'
    BY <2>1, NextCommand
  <2>3. Typing'
    BY <1>1, <1>4, <2>2, Typed, TypedNext DEF Conns
  <2>4. ASSUME Mine PROVE Mine'
    <3>1. Lines(assocs, conn, 0)
      BY <1>3, <2>4, Resting
    <3>2. \A j \in DOMAIN assocs : j # 0
      BY Typed
    <3>3. OpenIsMine' /\ InStep'
      BY <1>1, <2>2, <3>1, <3>2 DEF Lines, OpenIsMine, InStep
    <3>4. Selecting'
      BY <1>1, <1>6, <2>2 DEF Selecting, Kind
    <3> QED
      BY <3>3, <3>4 DEF Mine
  <2> QED
    BY <2>3, <2>4
<1> QED
  BY <1>2, <1>5, <1>6

\* ConnectToServer fails.
LEMMA RefusedStep ==
  ASSUME Typing, ConnectRefused
  PROVE  Typing' /\ (Mine => Mine')
<1>1. /\ cmd.op = "connecting" /\ user' = 0 /\ cmd' = Idle
      /\ UNCHANGED <<conn, assocs>>
  BY DEF ConnectRefused, FreeSession
<1>2. ~Waits /\ user' \in 0..Len(assocs)
  BY <1>1, Typed DEF Waits
<1>3. cmd' \in Command_t' /\ cmd'.op \in {"idle", "connecting"}
  BY <1>1, NextCommand
<1> QED
  BY <1>1, <1>2, <1>3, StaysAtRest

\* A descriptor that is not open.
LEMMA Fresh ==
  ASSUME Conns(conn), Fd # DOMAIN conn
  PROVE  NewFd \in Fd \ DOMAIN conn
<1> DEFINE S == Fd \ DOMAIN conn
<1>1. S # {} /\ S \subseteq Nat
  BY FdAssumption DEF Conns
<1> HIDE DEF S
<1>2. Min(S) \in S
  BY <1>1, Least
<1> QED
  BY <1>2 DEF S, NewFd

\* The new connection.
LEMMA OpenedIs ==
  ASSUME Conns(conn), NewFd \in Fd \ DOMAIN conn, ConnectHost \in Host,
         NEW up \in BOOLEAN
  PROVE  LET c == Opened(up)
         IN  /\ Conns(c) /\ DOMAIN c = DOMAIN conn \union {NewFd}
             /\ c[NewFd].host = ConnectHost /\ Silent(c[NewFd])
             /\ \A g \in DOMAIN conn : c[g] = conn[g]
<1> DEFINE none == <<>>
           new == [host |-> ConnectHost, up |-> up, todo |-> none, answers |-> none]
           c == [g \in DOMAIN conn \union {NewFd} |-> IF g = NewFd THEN new ELSE conn[g]]
<1>1. c = Opened(up) /\ none \in Seq(Message)
  BY DEF Opened
<1>2. Silent(new)
  BY DEF Silent
<1> HIDE DEF none
<1>3. new \in Connection /\ new.host = ConnectHost
  BY <1>1 DEF Connection
<1> HIDE DEF new
<1>4. /\ DOMAIN c = DOMAIN conn \union {NewFd} /\ c[NewFd] = new
      /\ \A g \in DOMAIN conn : c[g] = conn[g]
  OBVIOUS
<1> HIDE DEF c
<1>5. Conns(c)
  BY <1>3, <1>4 DEF Conns
<1> QED
  BY <1>1, <1>2, <1>3, <1>4, <1>5

\* The new connection with its init request.
LEMMA Connected ==
  ASSUME Conns(conn), NewFd \in Fd \ DOMAIN conn, ConnectHost \in Host
  PROVE  LET r == Sent(Opened(TRUE), NewFd, "init")
         IN  /\ Conns(r) /\ DOMAIN r = DOMAIN conn \union {NewFd}
             /\ r[NewFd].host = ConnectHost /\ Outstanding(r[NewFd], "init")
             /\ \A g \in DOMAIN conn : r[g].host = conn[g].host
             /\ \A g \in DOMAIN conn : Silent(conn[g]) => Silent(r[g])
<1> DEFINE yes == TRUE
           c == Opened(yes)
           f == NewFd
           r == Sent(c, f, "init")
<1>1. yes \in BOOLEAN
  OBVIOUS
<1> HIDE DEF yes
<1>2. /\ Conns(c) /\ DOMAIN c = DOMAIN conn \union {f}
      /\ c[f].host = ConnectHost /\ Silent(c[f])
      /\ \A g \in DOMAIN conn : c[g] = conn[g]
  BY <1>1, OpenedIs
<1>3. f \notin DOMAIN conn
  OBVIOUS
<1> HIDE DEF c, f
<1>4. SentIs(c, r, f, "init")
  BY <1>2, SentFields
<1> HIDE DEF r
<1>5. /\ Conns(r) /\ DOMAIN r = DOMAIN conn \union {f}
      /\ \A g \in DOMAIN c : r[g].host = c[g].host
      /\ \A g \in DOMAIN c \ {f} : Silent(c[g]) => Silent(r[g])
      /\ r[f].todo = <<Own("init")>> /\ r[f].answers = <<>>
  BY <1>2, <1>4 DEF SentIs
<1>6. Outstanding(r[f], "init")
  BY <1>5 DEF Outstanding
<1>7. /\ r[f].host = ConnectHost
      /\ \A g \in DOMAIN conn : r[g].host = conn[g].host
      /\ \A g \in DOMAIN conn : Silent(conn[g]) => Silent(r[g])
  BY <1>2, <1>3, <1>5
<1> QED
  BY <1>5, <1>6, <1>7 DEF r, c, f, yes

\* The server to connect.
LEMMA ConnectHosts ==
  ASSUME Typing, cmd.op \in {"connecting", "reconnecting"}
  PROVE  ConnectHost \in Host
<1>1. cmd.op = "reconnecting" => cmd.who \in DOMAIN assocs /\ assocs[cmd.who] \in Session
  BY CommandIs, Typed
<1> QED
  BY <1>1, CommandIs, Fields DEF ConnectHost

\* tk_connect and tk_reconnect get a descriptor that no open association has.
LEMMA ConnectStep ==
  ASSUME Typing, Connect
  PROVE  Typing' /\ (Mine => Mine')
<1> DEFINE f == NewFd
           h == ConnectHost
<1>1. /\ cmd.op \in {"connecting", "reconnecting"} /\ Fd # DOMAIN conn
      /\ conn' = Sent(Opened(TRUE), NewFd, "init")
      /\ user' = user
      /\ \/ /\ cmd.op = "connecting"
            /\ cmd' = [op |-> "connect", host |-> h, fd |-> f]
            /\ UNCHANGED assocs
         \/ /\ cmd.op = "reconnecting"
            /\ cmd' = [op |-> "reconnect", who |-> cmd.who]
            /\ assocs' = [assocs EXCEPT ![cmd.who].fd = f]
  BY DEF Connect, CanConnect, ConnectHost
<1>2. Conns(conn) /\ assocs \in Seq(Session) /\ user \in 0..Len(assocs)
  BY Typed
<1>3. f \in Fd \ DOMAIN conn
  BY <1>1, <1>2, Fresh
<1>4. cmd.op = "reconnecting" => cmd.who \in DOMAIN assocs
  BY CommandIs
<1>5. h \in Host
  BY <1>1, <1>4, ConnectHosts
<1>6. /\ Conns(conn') /\ DOMAIN conn' = DOMAIN conn \union {f}
      /\ conn'[f].host = h /\ Outstanding(conn'[f], "init")
      /\ \A g \in DOMAIN conn : conn'[g].host = conn[g].host
      /\ \A g \in DOMAIN conn : Silent(conn[g]) => Silent(conn'[g])
  BY <1>1, <1>2, <1>3, <1>5, Connected
<1> HIDE DEF f
<1>7. ~Waits
  BY <1>1 DEF Waits
<1>8. Mine => /\ Lines(assocs, conn, 0)
              /\ \A i \in DOMAIN assocs : assocs[i].open => assocs[i].fd # f
  <2>1. Mine => Lines(assocs, conn, 0)
    BY <1>7, Resting
  <2> QED
    BY <1>3, <2>1 DEF Lines
<1>9. CASE cmd.op = "connecting"
  <2>1. cmd' = [op |-> "connect", host |-> h, fd |-> f] /\ assocs' = assocs
    BY <1>1, <1>9
  <2> HIDE DEF h
  <2>2. /\ cmd' \in Command_t' /\ cmd'.op = "connect" /\ cmd'.host = h
        /\ Waits' /\ CmdFd' = f
    BY <1>3, <1>5, <2>1, NextCommand
  <2>3. Typing'
    BY <1>1, <1>2, <1>6, <2>1, <2>2, TypedNext
  <2>4. ASSUME Mine PROVE Mine'
    <3>1. Lines(assocs', conn', 0)
      BY <1>6, <1>8, <2>1, <2>4 DEF Lines
    <3>2. \A i \in DOMAIN assocs' : assocs'[i].open => assocs'[i].fd # f
      BY <1>8, <2>1, <2>4
    <3> QED
      BY <1>2, <1>6, <2>1, <2>2, <3>1, <3>2, Awaits
  <2> QED
    BY <2>3, <2>4
<1>10. CASE cmd.op = "reconnecting"
  <2> DEFINE i == cmd.who
             s == [assocs[i] EXCEPT !.fd = f]
  <2>1. /\ cmd' = [op |-> "reconnect", who |-> i]
        /\ assocs' = [assocs EXCEPT ![i].fd = f] /\ h = assocs[i].host
    BY <1>1, <1>10 DEF ConnectHost
  <2>2. i \in DOMAIN assocs /\ assocs[i] \in Session
    BY <1>4, <1>10, Typed
  <2>3. /\ s \in Session /\ s.fd = f /\ s.host = assocs[i].host /\ s.open = assocs[i].open
    BY <1>3, <2>2 DEF Session
  <2>4. assocs' = [assocs EXCEPT ![i] = s]
    BY <2>1
  <2>5. Mine => ~assocs[i].open
    BY <1>10 DEF Mine, Selecting
  <2> HIDE DEF h, s, i
  <2>6. /\ assocs' \in Seq(Session) /\ Len(assocs') = Len(assocs)
        /\ DOMAIN assocs' = DOMAIN assocs /\ assocs'[i] = s
        /\ \A j \in DOMAIN assocs \ {i} : assocs'[j] = assocs[j]
    BY <1>2, <2>2, <2>3, <2>4, Edited
  <2>7. /\ cmd' \in Command_t' /\ cmd'.op = "reconnect" /\ cmd'.who = i
        /\ Waits' /\ CmdFd' = f
    BY <2>1, <2>2, <2>3, <2>6, NextCommand
  <2>8. Typing'
    BY <1>1, <1>2, <1>6, <2>6, <2>7, TypedNext
  <2>9. ASSUME Mine PROVE Mine'
    <3>1. /\ ~assocs'[i].open
          /\ \A j \in DOMAIN assocs' : assocs'[j].open =>
               j \in DOMAIN assocs /\ assocs[j].open /\ assocs'[j] = assocs[j]
      BY <2>3, <2>5, <2>6, <2>9
    <3>2. Lines(assocs', conn', 0)
      BY <1>6, <1>8, <2>9, <3>1 DEF Lines
    <3>3. \A j \in DOMAIN assocs' : assocs'[j].open => assocs'[j].fd # f
      BY <1>8, <2>9, <3>1
    <3>4. conn'[f].host = assocs'[i].host
      BY <1>6, <2>1, <2>3, <2>6
    <3> QED
      BY <1>6, <2>6, <2>7, <3>1, <3>2, <3>3, <3>4, Awaits
  <2> QED
    BY <2>8, <2>9
<1> QED
  BY <1>1, <1>9, <1>10

\* A session that stops being open, or is not, leaves the others as they are.
LEMMA ShutOK ==
  ASSUME assocs \in Seq(Session), NEW i \in DOMAIN assocs, NEW s \in Session,
         assocs' = [assocs EXCEPT ![i] = s], ~s.open,
         NEW who, Lines(assocs, conn, who), who = i \/ who = 0,
         \A g \in DOMAIN conn \ {assocs[i].fd} :
           g \in DOMAIN conn' /\ conn'[g] = conn[g],
         \A j \in DOMAIN assocs \ {i} : assocs[j].open => assocs[j].fd # assocs[i].fd
  PROVE  Lines(assocs', conn', 0)
<1>1. /\ DOMAIN assocs' = DOMAIN assocs /\ assocs'[i] = s
      /\ \A j \in DOMAIN assocs \ {i} : assocs'[j] = assocs[j]
  BY Edited
<1>2. \A j \in DOMAIN assocs' : assocs'[j].open =>
        /\ j \in DOMAIN assocs \ {i} /\ assocs[j].open /\ assocs'[j] = assocs[j]
        /\ assocs[j].fd # assocs[i].fd
  BY <1>1
<1>3. \A j \in DOMAIN assocs \ {i} : assocs[j].open =>
        /\ assocs[j].fd \in DOMAIN conn /\ conn[assocs[j].fd].host = assocs[j].host
        /\ \A k \in DOMAIN assocs : assocs[k].open /\ assocs[k].fd = assocs[j].fd => j = k
        /\ Silent(conn[assocs[j].fd])
  <2>1. \A j \in DOMAIN assocs \ {i} : j # who
    BY DEF Lines
  <2> QED
    BY <2>1 DEF Lines
<1> QED
  BY <1>1, <1>2, <1>3 DEF Lines

\* The init request is not sent: the descriptor stays open, and is no
\* association's or that of one that is closed.
LEMMA InitUnsentStep ==
  ASSUME Typing, InitUnsent
  PROVE  Typing' /\ (Mine => Mine')
<1> DEFINE f == NewFd
           h == ConnectHost
           no == FALSE
           i == cmd.who
<1>1. /\ cmd.op \in {"connecting", "reconnecting"} /\ Fd # DOMAIN conn
      /\ conn' = Opened(no)
      /\ \/ /\ cmd.op = "connecting" /\ user' = 0 /\ cmd' = Idle
            /\ UNCHANGED assocs
         \/ /\ cmd.op = "reconnecting" /\ user' = user
            /\ cmd' = [op |-> "connecting", host |-> h]
            /\ assocs' = [assocs EXCEPT ![i].fd = f, ![i].state = no]
  BY DEF InitUnsent, CanConnect, FreeSession
<1>2. /\ Conns(conn) /\ assocs \in Seq(Session) /\ user \in 0..Len(assocs)
      /\ 0 \in 0..Len(assocs)
  BY Typed
<1>3. f \in Fd \ DOMAIN conn /\ h \in Host /\ no \in BOOLEAN
  BY <1>1, <1>2, Fresh, ConnectHosts
<1>4. /\ Conns(conn') /\ \A g \in DOMAIN conn : g \in DOMAIN conn' /\ conn'[g] = conn[g]
  <2> HIDE DEF no
  <2> QED
    BY <1>1, <1>2, <1>3, OpenedIs
<1>5. ~Waits
  BY <1>1 DEF Waits
<1>6. Mine => Lines(assocs, conn', 0)
  BY <1>4, <1>5, Resting DEF Lines
<1>7. CASE cmd.op = "connecting" /\ user' = 0 /\ cmd' = Idle /\ UNCHANGED assocs
  <2>1. cmd' \in Command_t' /\ cmd'.op = "idle" /\ ~Waits'
    BY <1>7, NextCommand
  <2>2. Typing'
    BY <1>2, <1>4, <1>7, <2>1, TypedNext
  <2> QED
    BY <1>2, <1>6, <1>7, <2>1, <2>2, Rests
<1>8. CASE /\ cmd.op = "reconnecting" /\ user' = user
           /\ cmd' = [op |-> "connecting", host |-> h]
           /\ assocs' = [assocs EXCEPT ![i].fd = f, ![i].state = no]
  <2> DEFINE s == [assocs[i] EXCEPT !.fd = f, !.state = no]
  <2>1. i \in DOMAIN assocs /\ assocs[i] \in Session
    BY <1>8, CommandIs, Typed
  <2> HIDE DEF f, h, no, i
  <2>2. assocs' = [assocs EXCEPT ![i] = s]
    BY <1>8, <2>1 DEF Session
  <2>3. s \in Session /\ s.open = assocs[i].open
    BY <1>3, <2>1 DEF Session
  <2>4. Mine => ~assocs[i].open
    BY <1>8 DEF Mine, Selecting, i
  <2> HIDE DEF s
  <2>5. /\ assocs' \in Seq(Session) /\ Len(assocs') = Len(assocs)
        /\ DOMAIN assocs' = DOMAIN assocs /\ assocs'[i] = s
        /\ \A j \in DOMAIN assocs \ {i} : assocs'[j] = assocs[j]
    BY <1>2, <2>1, <2>2, <2>3, Edited
  <2>6. cmd' \in Command_t' /\ cmd'.op = "connecting" /\ ~Waits'
    BY <1>3, <1>8, NextCommand
  <2>7. Typing'
    BY <1>2, <1>4, <1>8, <2>5, <2>6, TypedNext
  <2>8. ASSUME Mine PROVE Lines(assocs', conn', 0)
    <3>1. \A j \in DOMAIN assocs' : assocs'[j].open =>
            j \in DOMAIN assocs /\ assocs[j].open /\ assocs'[j] = assocs[j]
      BY <2>3, <2>4, <2>5, <2>8
    <3> QED
      BY <1>6, <2>8, <3>1 DEF Lines
  <2> QED
    BY <2>5, <2>6, <2>7, <2>8, Rests
<1> QED
  BY <1>1, <1>7, <1>8

\* tk_reconnect fails and zselect goes on with tk_connect.
LEMMA ReconnectRefusedStep ==
  ASSUME Typing, ReconnectRefused
  PROVE  Typing' /\ (Polite /\ Mine => Mine')
<1> DEFINE i == cmd.who
<1>1. /\ cmd.op = "reconnecting" /\ UNCHANGED <<conn, user>>
      /\ \/ /\ "stale_open" \in Faults /\ assocs' = [assocs EXCEPT ![i].open = TRUE]
            /\ cmd' = Idle
         \/ /\ cmd' = [op |-> "connecting", host |-> assocs[i].host]
            /\ UNCHANGED assocs
  BY DEF ReconnectRefused
<1>2. i \in DOMAIN assocs /\ assocs[i] \in Session /\ ~Waits
  BY <1>1, CommandIs, Typed DEF Waits
<1>3. /\ Conns(conn') /\ assocs \in Seq(Session) /\ user' \in 0..Len(assocs)
      /\ assocs[i].host \in Host
  BY <1>1, <1>2, Typed, Fields
<1> HIDE DEF i
<1>4. CASE "stale_open" \in Faults /\ assocs' = [assocs EXCEPT ![i].open = TRUE] /\ cmd' = Idle
  <2> DEFINE yes == TRUE
             s == [assocs[i] EXCEPT !.open = yes]
  <2>1. yes \in BOOLEAN /\ assocs' = [assocs EXCEPT ![i] = s]
    BY <1>4
  <2> HIDE DEF yes
  <2>2. s \in Session
    BY <1>2, <2>1 DEF Session
  <2> HIDE DEF s
  <2>3. assocs' \in Seq(Session) /\ Len(assocs') = Len(assocs)
    BY <1>2, <1>3, <2>1, <2>2, Edited
  <2>4. cmd' \in Command_t' /\ ~Waits'
    BY <1>4, NextCommand
  <2>5. Typing' /\ ~Polite
    BY <1>3, <1>4, <2>3, <2>4, TypedNext DEF Polite
  <2> QED
    BY <2>5
<1>5. CASE cmd' = [op |-> "connecting", host |-> assocs[i].host] /\ UNCHANGED assocs
  <2>1. cmd' \in Command_t' /\ cmd'.op \in {"idle", "connecting"}
    BY <1>3, <1>5, NextCommand
  <2> QED
    BY <1>1, <1>2, <1>3, <1>5, <2>1, StaysAtRest
<1> QED
  BY <1>1, <1>4, <1>5

-----------------------------------------------------------------------------
(* Requests.                                                               *)

\* A request goes out over the connection of an open association.
LEMMA RequestStep ==
  ASSUME Typing, NEW i \in DOMAIN assocs, NEW kind \in Kind, Request(i, kind)
  PROVE  Typing' /\ (Polite /\ Mine => Mine')
<1> DEFINE f == assocs[i].fd
<1>1. PICK st \in BOOLEAN :
        /\ cmd = Idle /\ Allowed(i, kind) /\ user' = user
        /\ assocs' = [assocs EXCEPT ![i].state = st]
        /\ \/ f \in DOMAIN conn /\ conn' = Sent(conn, f, kind) /\ cmd' = [op |-> kind, who |-> i]
           \/ conn' = conn /\ cmd' = cmd
  <2> DEFINE sent == assocs[i].state /\ kind \in {"sort", "delete"}
             kept == assocs[i].state /\ kind # "present"
  <2>1. sent \in BOOLEAN /\ kept \in BOOLEAN
    OBVIOUS
  <2>2. /\ cmd = Idle /\ Allowed(i, kind) /\ user' = user
        /\ \/ /\ assocs' = [assocs EXCEPT ![i].state = sent]
              /\ f \in DOMAIN conn /\ conn' = Sent(conn, f, kind)
              /\ cmd' = [op |-> kind, who |-> i]
           \/ /\ assocs' = [assocs EXCEPT ![i].state = kept]
              /\ conn' = conn /\ cmd' = cmd
    BY DEF Request
  <2> HIDE DEF sent, kept, f
  <2> QED
    BY <2>1, <2>2
<1> DEFINE s == [assocs[i] EXCEPT !.state = st]
<1>2. /\ Conns(conn) /\ assocs \in Seq(Session) /\ user \in 0..Len(assocs)
      /\ assocs[i] \in Session /\ ~Waits
  BY <1>1, Typed, Idles
<1>3. assocs' = [assocs EXCEPT ![i] = s]
  BY <1>1
<1>5. /\ s \in Session /\ s.fd = f /\ s.host = assocs[i].host /\ s.open = assocs[i].open
  BY <1>2 DEF Session
<1> HIDE DEF s
<1>6. /\ assocs' \in Seq(Session) /\ Len(assocs') = Len(assocs)
      /\ DOMAIN assocs' = DOMAIN assocs /\ assocs'[i] = s
      /\ \A j \in DOMAIN assocs \ {i} : assocs'[j] = assocs[j]
  BY <1>2, <1>3, <1>5, Edited
<1>7. \A j \in DOMAIN assocs : /\ assocs'[j].fd = assocs[j].fd
                               /\ assocs'[j].host = assocs[j].host
                               /\ assocs'[j].open = assocs[j].open
  BY <1>5, <1>6
<1>8. Mine => Lines(assocs, conn, 0)
  BY <1>2, Resting
<1>9. CASE f \in DOMAIN conn /\ conn' = Sent(conn, f, kind) /\ cmd' = [op |-> kind, who |-> i]
  <2>1. SentIs(conn, conn', f, kind)
    BY <1>2, <1>9, SentFields
  <2>2. /\ Conns(conn') /\ DOMAIN conn' = DOMAIN conn
        /\ \A g \in DOMAIN conn : conn'[g].host = conn[g].host
        /\ \A g \in DOMAIN conn \ {f} : Silent(conn[g]) => Silent(conn'[g])
        /\ Silent(conn[f]) => conn'[f].todo = <<Own(kind)>> /\ conn'[f].answers = <<>>
    BY <2>1 DEF SentIs
  <2>3. /\ cmd' \in Command_t' /\ cmd'.op = kind /\ cmd'.who = i
        /\ Waits' /\ CmdFd' = f
    BY <1>6, <1>7, <1>9, NextCommand
  <2>4. Typing'
    BY <1>1, <1>2, <1>6, <1>9, <2>2, <2>3, TypedNext
  <2>5. ASSUME Polite, Mine PROVE Mine'
    <3>1. assocs[i].open
      BY <1>1, <1>9, <2>5 DEF Allowed, Polite
    <3>2. i # 0
      BY <1>2
    <3>3. Silent(conn[f]) /\ conn[f].host = assocs[i].host
      BY <1>8, <2>5, <3>1, <3>2 DEF Lines
    <3>4. Outstanding(conn'[f], kind)
      BY <2>2, <3>3 DEF Outstanding
    <3>5. \A j \in DOMAIN assocs : j # 0
      BY <1>2
    <3>6. Lines(assocs', conn', i)
      BY <1>6, <1>7, <1>8, <2>2, <2>5, <3>1, <3>5 DEF Lines
    <3>7. i \in DOMAIN assocs' /\ assocs'[i].open /\ conn'[f].host = assocs'[i].host
      BY <1>6, <1>7, <1>9, <2>2, <3>1, <3>3
    <3> QED
      BY <1>6, <2>3, <3>4, <3>6, <3>7, Awaits
  <2> QED
    BY <2>4, <2>5
<1>10. CASE conn' = conn /\ cmd' = cmd
  <2>1. cmd' \in Command_t' /\ cmd'.op = "idle" /\ ~Waits'
    BY <1>1, <1>10, NextCommand
  <2>2. Typing'
    BY <1>1, <1>2, <1>6, <1>10, <2>1, TypedNext
  <2>3. ASSUME Mine PROVE Mine'
    <3>1. Lines(assocs', conn', 0)
      BY <1>6, <1>7, <1>8, <1>10, <2>3 DEF Lines
    <3> QED
      BY <1>6, <2>1, <3>1, Rests
  <2> QED
    BY <2>2, <2>3
<1> QED
  BY <1>1, <1>9, <1>10

\* The commands that send one, over the current association or over one that
\* is named.
LEMMA RequestCmdStep ==
  ASSUME Typing, NEW kind \in Kind, RequestCmd(kind)
  PROVE  Typing' /\ (Polite /\ Mine => Mine')
<1>1. user \in DOMAIN assocs
  BY Typed DEF RequestCmd
<1> QED
  BY <1>1, RequestStep DEF RequestCmd

\* zdelete sends one over the association that a number means.
LEMMA DeleteCmdStep ==
  ASSUME Typing, NEW f \in Fd, DeleteCmd(f)
  PROVE  Typing' /\ (Polite /\ Mine => Mine')
<1> DEFINE i == LookupAssociation(f)
<1>1. i \in DOMAIN assocs /\ Request(i, "delete") /\ "delete" \in Kind
  BY Typed, Lookups DEF DeleteCmd, Names, Kind
<1> HIDE DEF i
<1> QED
  BY <1>1, RequestStep

-----------------------------------------------------------------------------
(* Responses.                                                              *)

\* What the head of the answers of a command may be.
LEMMA Heads ==
  ASSUME NEW c, NEW kind \in Kind \union {"init"}, Outstanding(c, kind), c.answers # <<>>
  PROVE  \/ Head(c.answers) = Own("control")
         \/ /\ \E k \in AnswerKinds(kind) : Head(c.answers) = Own(k)
            /\ c.todo = <<>> /\ Tail(c.answers) = <<>>
<1>1. \/ c.answers = <<Own("control")>>
      \/ c.todo = <<>> /\ \E k \in AnswerKinds(kind) : c.answers = <<Own(k)>>
      \/ \E k \in AnswerKinds(kind) : c.answers = <<Own("control"), Own(k)>>
  BY DEF Outstanding
<1>2. \A a, b : Head(<<a, b>>) = a
  OBVIOUS
<1> QED
  BY <1>1, <1>2, Single

\* An association that opens joins the others.
LEMMA Joins ==
  ASSUME Lines(assocs, conn', 0), NEW n, NEW f \in DOMAIN conn',
         DOMAIN assocs' = DOMAIN assocs \union {n},
         \A j \in DOMAIN assocs \ {n} : assocs'[j] = assocs[j],
         \A j \in DOMAIN assocs : assocs[j].open => assocs[j].fd # f,
         assocs'[n].fd = f, conn'[f].host = assocs'[n].host, Silent(conn'[f])
  PROVE  Lines(assocs', conn', 0)
  BY DEF Lines

\* A response was read: the line is silent, and the command may use it.
LEMMA Consumed ==
  ASSUME Typing, Mine, Waits, conn[CmdFd].answers # <<>>,
         Head(conn[CmdFd].answers).kind # "control",
         NEW c \in Connection, conn' = [conn EXCEPT ![CmdFd] = c],
         c.host = conn[CmdFd].host, c.todo = conn[CmdFd].todo,
         c.answers = Tail(conn[CmdFd].answers)
  PROVE  /\ Lines(assocs, conn', 0)
         /\ conn'[CmdFd] = c /\ Silent(c)
<1> DEFINE f == CmdFd
           kind == IF cmd.op \in Kind THEN cmd.op ELSE "init"
<1>1. /\ Lines(assocs, conn, At) /\ Outstanding(conn[f], kind)
      /\ \A i \in DOMAIN assocs : assocs[i].open /\ i # At => assocs[i].fd # f
  BY Waiting
<1>2. kind \in Kind \union {"init"}
  OBVIOUS
<1>3. Conns(conn) /\ f \in DOMAIN conn
  BY Typed
<1>4. DOMAIN conn' = DOMAIN conn /\ conn'[f] = c /\ \A g \in DOMAIN conn \ {f} : conn'[g] = conn[g]
  BY <1>3, Replaced
<1> HIDE DEF kind
<1>5. \/ Head(conn[f].answers) = Own("control")
      \/ conn[f].todo = <<>> /\ Tail(conn[f].answers) = <<>>
  BY <1>1, <1>2, Heads
<1>6. Silent(c)
  BY <1>5, Messages DEF Silent
<1>7. \A g \in DOMAIN conn : conn'[g].host = conn[g].host
  BY <1>4
<1>8. ASSUME NEW i \in DOMAIN assocs, assocs[i].open
      PROVE  Silent(conn'[assocs[i].fd])
  <2>1. CASE assocs[i].fd = f
    BY <1>4, <1>6, <2>1
  <2>2. CASE assocs[i].fd # f
    <3>1. i # At
      <4>1. ASSUME i = At PROVE assocs[i].fd = f
        <5>1. i # 0
          BY Typed
        <5>2. cmd.op \in Kind /\ cmd.who = i
          BY <4>1, <5>1 DEF At
        <5> QED
          BY <5>2 DEF CmdFd, Kind
      <4> QED
        BY <2>2, <4>1
    <3>2. assocs[i].fd \in DOMAIN conn /\ Silent(conn[assocs[i].fd])
      BY <1>1, <1>8, <3>1 DEF Lines
    <3> QED
      BY <1>4, <2>2, <3>2
  <2> QED
    BY <2>1, <2>2
<1>9. Lines(assocs, conn', 0)
  BY <1>1, <1>4, <1>7, <1>8 DEF Lines
<1> QED
  BY <1>4, <1>6, <1>9

\* The commands with the response they expect.
LEMMA UseStep ==
  ASSUME Typing, Waits, Conns(conn'), DOMAIN conn' = DOMAIN conn,
         NEW m \in Message, Use(m)
  PROVE  /\ Typing'
         /\ /\ Lines(assocs, conn', 0) /\ Silent(conn'[CmdFd])
            /\ conn'[CmdFd].host = IF cmd.op = "connect" THEN cmd.host
                                   ELSE assocs[cmd.who].host
            /\ cmd.op \in {"connect", "reconnect"} =>
                 \A i \in DOMAIN assocs : assocs[i].open => assocs[i].fd # CmdFd
            => Mine'
<1> DEFINE i == cmd.who
           yes == TRUE
           no == FALSE
<1>1. /\ assocs \in Seq(Session) /\ user \in 0..Len(assocs) /\ Len(assocs) \in Nat
      /\ DOMAIN assocs = 1..Len(assocs) /\ CmdFd \in DOMAIN conn'
  BY Typed
<1>2. 0 \in 0..Len(assocs) /\ yes \in BOOLEAN /\ no \in BOOLEAN
  BY <1>1
<1>3. CASE cmd.op = "connect" /\ m.kind = "init"
  <2> DEFINE s == [host |-> cmd.host, fd |-> cmd.fd, open |-> yes, state |-> yes]
             n == Len(assocs) + 1
  <2>1. assocs' = Append(assocs, s) /\ user' = Len(assocs') /\ cmd' = Idle
    BY <1>3 DEF Use, Kind
  <2>2. cmd.host \in Host /\ cmd.fd \in Fd /\ cmd.fd = CmdFd
    BY <1>3, CommandIs DEF CmdFd
  <2> HIDE DEF yes
  <2>3. s \in Session /\ s.host = cmd.host /\ s.fd = CmdFd
    BY <1>2, <2>2 DEF Session
  <2> HIDE DEF s
  <2>4. /\ assocs' \in Seq(Session) /\ Len(assocs') = n /\ assocs'[n] = s
        /\ \A j \in 1..Len(assocs) : assocs'[j] = assocs[j]
    BY <1>1, <2>1, <2>3, AppendProperties
  <2>5. /\ DOMAIN assocs' = DOMAIN assocs \union {n}
        /\ \A j \in DOMAIN assocs \ {n} : assocs'[j] = assocs[j]
        /\ user' \in 0..Len(assocs')
    BY <1>1, <2>1, <2>4
  <2>6. cmd' \in Command_t' /\ cmd'.op = "idle" /\ ~Waits'
    BY <2>1, NextCommand
  <2>7. Typing'
    BY <2>4, <2>5, <2>6, TypedNext
  <2> HIDE DEF n
  <2>8. /\ Lines(assocs, conn', 0) /\ Silent(conn'[CmdFd])
        /\ conn'[CmdFd].host = cmd.host
        /\ \A j \in DOMAIN assocs : assocs[j].open => assocs[j].fd # CmdFd
        => Lines(assocs', conn', 0)
    BY <1>1, <2>3, <2>4, <2>5, Joins
  <2> QED
    BY <1>3, <2>4, <2>6, <2>7, <2>8, Rests
<1>4. CASE cmd.op = "reconnect" /\ m.kind = "init"
  <2> DEFINE s == [assocs[i] EXCEPT !.open = yes, !.state = yes]
  <2>1. /\ assocs' = [assocs EXCEPT ![i].open = yes, ![i].state = yes]
        /\ user' = user /\ cmd' = Idle
    BY <1>4 DEF Use, Kind
  <2>2. i \in DOMAIN assocs /\ assocs[i].fd = CmdFd /\ assocs[i] \in Session
    BY <1>4, CommandIs, Typed DEF CmdFd
  <2> HIDE DEF yes, i
  <2>3. assocs' = [assocs EXCEPT ![i] = s]
    BY <2>1, <2>2 DEF Session
  <2>4. s \in Session /\ s.host = assocs[i].host /\ s.fd = CmdFd
    BY <1>2, <2>2 DEF Session
  <2> HIDE DEF s
  <2>5. /\ assocs' \in Seq(Session) /\ Len(assocs') = Len(assocs)
        /\ DOMAIN assocs' = DOMAIN assocs /\ assocs'[i] = s
        /\ \A j \in DOMAIN assocs \ {i} : assocs'[j] = assocs[j]
    BY <1>1, <2>2, <2>3, <2>4, Edited
  <2>6. cmd' \in Command_t' /\ cmd'.op = "idle" /\ ~Waits'
    BY <2>1, NextCommand
  <2>7. Typing'
    BY <1>1, <2>1, <2>5, <2>6, TypedNext
  <2>8. DOMAIN assocs' = DOMAIN assocs \union {i}
    BY <2>2, <2>5
  <2>9. /\ Lines(assocs, conn', 0) /\ Silent(conn'[CmdFd])
        /\ conn'[CmdFd].host = assocs[i].host
        /\ \A j \in DOMAIN assocs : assocs[j].open => assocs[j].fd # CmdFd
        => Lines(assocs', conn', 0)
    BY <1>1, <2>4, <2>5, <2>8, Joins
  <2> QED
    BY <1>4, <2>5, <2>6, <2>7, <2>9, Rests DEF i
<1>5. CASE cmd.op = "reconnect" /\ m.kind = "reject"
  <2> DEFINE s == [assocs[i] EXCEPT !.state = no]
  <2>1. /\ assocs' = [assocs EXCEPT ![i].state = no] /\ user' = user
        /\ cmd' = [op |-> "connecting", host |-> assocs[i].host]
    BY <1>5 DEF Use, Kind
  <2>2. i \in DOMAIN assocs /\ assocs[i] \in Session /\ assocs[i].host \in Host
    BY <1>5, CommandIs, Typed, Fields
  <2> HIDE DEF no, i
  <2>3. assocs' = [assocs EXCEPT ![i] = s]
    BY <2>1
  <2>4. /\ s \in Session /\ s.host = assocs[i].host /\ s.fd = assocs[i].fd
        /\ s.open = assocs[i].open
    BY <1>2, <2>2 DEF Session
  <2> HIDE DEF s
  <2>5. /\ assocs' \in Seq(Session) /\ Len(assocs') = Len(assocs)
        /\ DOMAIN assocs' = DOMAIN assocs /\ assocs'[i] = s
        /\ \A j \in DOMAIN assocs \ {i} : assocs'[j] = assocs[j]
    BY <1>1, <2>2, <2>3, <2>4, Edited
  <2>6. cmd' \in Command_t' /\ cmd'.op = "connecting" /\ ~Waits'
    BY <2>1, <2>2, NextCommand
  <2>7. Typing'
    BY <1>1, <2>1, <2>5, <2>6, TypedNext
  <2>8. \A j \in DOMAIN assocs : /\ assocs'[j].fd = assocs[j].fd
                                 /\ assocs'[j].host = assocs[j].host
                                 /\ assocs'[j].open = assocs[j].open
    BY <2>4, <2>5
  <2>9. Lines(assocs, conn', 0) => Lines(assocs', conn', 0)
    BY <2>5, <2>8 DEF Lines
  <2> QED
    BY <2>5, <2>6, <2>7, <2>9, Rests
<1>6. CASE \/ cmd.op = "connect" /\ m.kind = "reject"
           \/ cmd.op \in Kind
  <2>1. /\ cmd' = Idle /\ assocs' = assocs /\ user' \in 0..Len(assocs)
    BY <1>1, <1>2, <1>6 DEF Use, Kind, FreeSession
  <2>2. cmd' \in Command_t' /\ cmd'.op = "idle" /\ ~Waits'
    BY <2>1, NextCommand
  <2>3. Typing'
    BY <1>1, <2>1, <2>2, TypedNext
  <2> QED
    BY <1>1, <2>1, <2>2, <2>3, Rests
<1> QED
  BY <1>3, <1>4, <1>5, <1>6 DEF Use

\* ClientGetPDU returns a response, which is used or discarded.
LEMMA GetResponseStep ==
  ASSUME Typing, GetResponse
  PROVE  Typing' /\ (Mine => Mine')
<1> DEFINE f == CmdFd
           m == Head(conn[f].answers)
           t == Tail(conn[f].answers)
           c == [conn[f] EXCEPT !.answers = t]
<1>1. /\ Waits /\ conn[f].answers # <<>> /\ m.kind # "control"
      /\ conn' = [conn EXCEPT ![f].answers = Tail(@)]
      /\ \/ Use(m)
         \/ UNCHANGED <<assocs, user, cmd>>
  BY DEF GetResponse
<1>2. Conns(conn) /\ f \in DOMAIN conn /\ conn[f] \in Connection
  BY <1>1, Typed DEF Conns
<1>3. conn[f].answers \in Seq(Message)
  BY <1>2, Fields
<1>4. m \in Message /\ t \in Seq(Message)
  BY <1>1, <1>3
<1>5. conn' = [conn EXCEPT ![f] = c]
  BY <1>1, <1>2
<1> HIDE DEF t
<1>6. /\ c \in Connection /\ c.host = conn[f].host /\ c.todo = conn[f].todo
      /\ c.answers = t
  BY <1>2, <1>4 DEF Connection
<1> HIDE DEF c, f
<1>7. Conns(conn') /\ DOMAIN conn' = DOMAIN conn /\ conn'[f] = c
  BY <1>2, <1>5, <1>6, Replaced
<1>8. CASE Use(m)
  <2>1. Typing'
    BY <1>1, <1>4, <1>7, <1>8, UseStep
  <2>2. ASSUME Mine PROVE Mine'
    <3>1. Lines(assocs, conn', 0) /\ Silent(conn'[f])
      BY <1>1, <1>5, <1>6, <2>2, Consumed DEF f, t
    <3>2. /\ conn[f].host = IF cmd.op = "connect" THEN cmd.host
                            ELSE assocs[cmd.who].host
          /\ \A i \in DOMAIN assocs : assocs[i].open /\ i # At => assocs[i].fd # f
      BY <1>1, <2>2, Waiting DEF f
    <3>3. cmd.op \in {"connect", "reconnect"} =>
            \A i \in DOMAIN assocs : assocs[i].open => assocs[i].fd # f
      BY <3>2, Typed DEF At, Kind
    <3>4. conn'[f].host = conn[f].host
      BY <1>6, <1>7
    <3> QED
      BY <1>1, <1>4, <1>7, <1>8, <3>1, <3>2, <3>3, <3>4, UseStep DEF f
  <2> QED
    BY <2>1, <2>2
<1>9. CASE UNCHANGED <<assocs, user, cmd>>
  <2>1. Silent(conn[f]) => Silent(c)
    BY <1>1 DEF Silent
  <2>2. ASSUME NEW k \in Kind \union {"init"}, Outstanding(conn[f], k)
        PROVE  Outstanding(c, k)
    <3>1. m # Own("control")
      BY <1>1, Messages
    <3>2. conn[f].todo = <<>> /\ t = <<>>
      BY <1>1, <2>2, <3>1, Heads DEF t
    <3> QED
      BY <1>6, <3>2 DEF Outstanding
  <2> QED
    BY <1>2, <1>5, <1>6, <1>9, <2>1, <2>2, ServerMoves
<1> QED
  BY <1>1, <1>8, <1>9

\* When ClientGetPDU returns NULL the other connections are as they were.
LEMMA NullAnswers ==
  ASSUME Typing, Waits, NEW open \in NullAnswer
  PROVE  /\ Conns(open)
         /\ \A g \in DOMAIN conn \ {CmdFd} : g \in DOMAIN open /\ open[g] = conn[g]
<1> DEFINE f == CmdFd
           t == Tail(conn[f].answers)
           c == [conn[f] EXCEPT !.answers = t]
<1>1. \/ open = Closed(f)
      \/ conn[f].answers # <<>> /\ open = [conn EXCEPT ![f].answers = Tail(@)]
  BY DEF NullAnswer
<1>2. Conns(conn) /\ f \in DOMAIN conn /\ conn[f] \in Connection
  BY Typed DEF Conns
<1>3. conn[f].answers \in Seq(Message)
  BY <1>2, Fields
<1>4. CASE open = Closed(f)
  <2> HIDE DEF f
  <2> QED
    BY <1>2, <1>4, RestrictFields DEF Closed, f
<1>5. CASE conn[f].answers # <<>> /\ open = [conn EXCEPT ![f].answers = Tail(@)]
  <2>1. open = [conn EXCEPT ![f] = c] /\ t \in Seq(Message)
    BY <1>2, <1>3, <1>5
  <2> HIDE DEF t
  <2>2. c \in Connection
    BY <1>2, <2>1 DEF Connection
  <2> HIDE DEF c, f
  <2>3. /\ Conns(open) /\ DOMAIN open = DOMAIN conn
        /\ \A g \in DOMAIN conn \ {f} : open[g] = conn[g]
    BY <1>2, <2>1, <2>2, Replaced
  <2> QED
    BY <2>3 DEF f
<1> QED
  BY <1>1, <1>4, <1>5

\* The client disconnects when a request has no response.
LEMMA NoResponseStep ==
  ASSUME Typing, NoResponse
  PROVE  Typing' /\ (Polite /\ Mine => Mine')
<1> DEFINE i == cmd.who
           no == FALSE
<1>1. PICK open \in NullAnswer :
        \/ /\ conn' = Restrict(open, DOMAIN open \ {CmdFd})
           /\ assocs' = [assocs EXCEPT ![i].open = no]
        \/ "delete" \in Faults /\ conn' = open /\ assocs' = assocs
  BY DEF NoResponse
<1>2. Waits /\ cmd.op \in Kind /\ cmd' = Idle /\ user' = user
  BY CommandIs DEF NoResponse, Waits
<1>3. /\ Conns(open)
      /\ \A g \in DOMAIN conn \ {CmdFd} : g \in DOMAIN open /\ open[g] = conn[g]
  BY <1>2, NullAnswers
<1>4. /\ assocs \in Seq(Session) /\ user \in 0..Len(assocs)
      /\ i \in DOMAIN assocs /\ assocs[i] \in Session
  BY <1>2, CommandIs, Typed
<1>5. cmd' \in Command_t' /\ cmd'.op = "idle" /\ ~Waits'
  BY <1>2, NextCommand
<1>6. CASE /\ conn' = Restrict(open, DOMAIN open \ {CmdFd})
           /\ assocs' = [assocs EXCEPT ![i].open = no]
  <2> DEFINE s == [assocs[i] EXCEPT !.open = no]
             f == CmdFd
  <2>1. assocs' = [assocs EXCEPT ![i] = s] /\ no \in BOOLEAN
    BY <1>6
  <2>2. i = At /\ f = assocs[i].fd
    BY <1>2 DEF At, CmdFd, Kind
  <2>3. s.open = no
    BY <1>4 DEF Session
  <2>4. ~s.open
    BY <2>3
  <2> HIDE DEF no, i
  <2>5. s \in Session
    BY <1>4, <2>1 DEF Session
  <2> HIDE DEF s, f
  <2>6. assocs' \in Seq(Session) /\ Len(assocs') = Len(assocs)
    BY <1>4, <2>1, <2>5, Edited
  <2>7. /\ Conns(conn') /\ DOMAIN conn' = DOMAIN open \ {f}
        /\ \A g \in DOMAIN conn' : conn'[g] = open[g]
    BY <1>3, <1>6, RestrictFields DEF f
  <2>8. Typing'
    BY <1>2, <1>4, <1>5, <2>6, <2>7, TypedNext
  <2>9. ASSUME Mine PROVE Mine'
    <3>1. /\ Lines(assocs, conn, i)
          /\ \A j \in DOMAIN assocs \ {i} : assocs[j].open => assocs[j].fd # assocs[i].fd
      BY <1>2, <2>2, <2>9, Waiting DEF f
    <3>2. \A g \in DOMAIN conn \ {assocs[i].fd} : g \in DOMAIN conn' /\ conn'[g] = conn[g]
      BY <1>3, <2>2, <2>7 DEF f
    <3>3. Lines(assocs', conn', 0)
      BY <1>4, <2>1, <2>4, <2>5, <3>1, <3>2, ShutOK
    <3> QED
      BY <1>5, <2>6, <3>3, Rests
  <2> QED
    BY <2>8, <2>9
<1>7. CASE "delete" \in Faults /\ conn' = open /\ assocs' = assocs
  <2>1. Typing'
    BY <1>2, <1>3, <1>4, <1>5, <1>7, TypedNext
  <2> QED
    BY <1>7, <2>1 DEF Polite
<1> QED
  BY <1>1, <1>6, <1>7

\* The session of an init request without a response is freed or closed.
LEMMA NoInitResponseStep ==
  ASSUME Typing, NoInitResponse
  PROVE  Typing' /\ (Mine => Mine')
<1> DEFINE i == cmd.who
           no == FALSE
<1>1. /\ cmd.op \in {"connect", "reconnect"} /\ conn' \in NullAnswer
      /\ \/ cmd.op = "connect" /\ user' = 0 /\ cmd' = Idle /\ assocs' = assocs
         \/ /\ cmd.op = "reconnect" /\ assocs' = [assocs EXCEPT ![i].state = no]
            /\ cmd' = [op |-> "connecting", host |-> assocs[i].host] /\ user' = user
  BY DEF NoInitResponse, FreeSession
<1>2. Waits /\ At = 0
  BY <1>1 DEF Waits, At, Kind
<1>3. /\ Conns(conn')
      /\ \A g \in DOMAIN conn \ {CmdFd} : g \in DOMAIN conn' /\ conn'[g] = conn[g]
  BY <1>1, <1>2, NullAnswers
<1>4. assocs \in Seq(Session) /\ user \in 0..Len(assocs) /\ 0 \in 0..Len(assocs)
  BY Typed
<1>5. ASSUME Mine PROVE Lines(assocs, conn', 0)
  <2>1. /\ Lines(assocs, conn, 0)
        /\ \A j \in DOMAIN assocs : assocs[j].open => assocs[j].fd # CmdFd
    <3>1. \A j \in DOMAIN assocs : j # 0
      BY <1>4
    <3> QED
      BY <1>2, <1>5, <3>1, Waiting
  <2> QED
    BY <1>3, <2>1 DEF Lines
<1>6. CASE cmd.op = "connect" /\ user' = 0 /\ cmd' = Idle /\ assocs' = assocs
  <2>1. cmd' \in Command_t' /\ cmd'.op = "idle" /\ ~Waits'
    BY <1>6, NextCommand
  <2>2. Typing'
    BY <1>3, <1>4, <1>6, <2>1, TypedNext
  <2> QED
    BY <1>4, <1>5, <1>6, <2>1, <2>2, Rests
<1>7. CASE /\ cmd.op = "reconnect" /\ assocs' = [assocs EXCEPT ![i].state = no]
           /\ cmd' = [op |-> "connecting", host |-> assocs[i].host] /\ user' = user
  <2> DEFINE s == [assocs[i] EXCEPT !.state = no]
  <2>1. i \in DOMAIN assocs /\ assocs[i] \in Session /\ assocs[i].host \in Host
    BY <1>7, CommandIs, Typed, Fields
  <2>2. assocs' = [assocs EXCEPT ![i] = s] /\ no \in BOOLEAN
    BY <1>7
  <2> HIDE DEF no, i
  <2>3. /\ s \in Session /\ s.host = assocs[i].host /\ s.fd = assocs[i].fd
        /\ s.open = assocs[i].open
    BY <2>1, <2>2 DEF Session
  <2> HIDE DEF s
  <2>4. /\ assocs' \in Seq(Session) /\ Len(assocs') = Len(assocs)
        /\ DOMAIN assocs' = DOMAIN assocs /\ assocs'[i] = s
        /\ \A j \in DOMAIN assocs \ {i} : assocs'[j] = assocs[j]
    BY <1>4, <2>1, <2>2, <2>3, Edited
  <2>5. cmd' \in Command_t' /\ cmd'.op = "connecting" /\ ~Waits'
    BY <1>7, <2>1, NextCommand
  <2>6. Typing'
    BY <1>3, <1>4, <1>7, <2>4, <2>5, TypedNext
  <2>7. \A j \in DOMAIN assocs : /\ assocs'[j].fd = assocs[j].fd
                                 /\ assocs'[j].host = assocs[j].host
                                 /\ assocs'[j].open = assocs[j].open
    BY <2>3, <2>4
  <2>8. Lines(assocs, conn', 0) => Lines(assocs', conn', 0)
    BY <2>4, <2>7 DEF Lines
  <2> QED
    BY <1>5, <2>4, <2>5, <2>6, <2>8, Rests
<1> QED
  BY <1>1, <1>6, <1>7

-----------------------------------------------------------------------------
(* zclose and zset session.                                                *)

\* tk_disconnect closes the descriptor of one association: what that leaves
\* to the others depends on whether one of them has it, too.
LEMMA DisconnectStep ==
  ASSUME Typing, cmd = Idle, NEW i \in DOMAIN assocs, Disconnect(i),
         user' \in 0..Len(assocs), cmd' = cmd
  PROVE  /\ Typing'
         /\ /\ Mine
            /\ \A j \in DOMAIN assocs \ {i} : assocs[j].open => assocs[j].fd # assocs[i].fd
            => Mine'
<1> DEFINE f == assocs[i].fd
           no == FALSE
           s == [assocs[i] EXCEPT !.open = no]
<1>1. conn' = Restrict(conn, DOMAIN conn \ {f}) /\ assocs' = [assocs EXCEPT ![i].open = no]
  BY DEF Disconnect, Closed
<1>2. assocs \in Seq(Session) /\ assocs[i] \in Session /\ Conns(conn) /\ ~Waits
  BY Typed, Idles
<1>3. assocs' = [assocs EXCEPT ![i] = s] /\ no \in BOOLEAN
  BY <1>1
<1>4. s.open = no
  BY <1>2 DEF Session
<1>5. ~s.open
  BY <1>4
<1> HIDE DEF no, f
<1>6. s \in Session
  BY <1>2, <1>3 DEF Session
<1> HIDE DEF s
<1>7. assocs' \in Seq(Session) /\ Len(assocs') = Len(assocs)
  BY <1>2, <1>3, <1>6, Edited
<1>8. /\ Conns(conn') /\ DOMAIN conn' = DOMAIN conn \ {f}
      /\ \A g \in DOMAIN conn' : conn'[g] = conn[g]
  BY <1>1, <1>2, RestrictFields
<1>9. cmd' \in Command_t' /\ cmd'.op = "idle" /\ ~Waits'
  BY NextCommand
<1>10. Typing'
  BY <1>7, <1>8, <1>9, TypedNext
<1>11. ASSUME Mine,
              \A j \in DOMAIN assocs \ {i} : assocs[j].open => assocs[j].fd # assocs[i].fd
       PROVE  Mine'
  <2>1. Lines(assocs, conn, 0)
    BY <1>2, <1>11, Resting
  <2>2. \A g \in DOMAIN conn \ {assocs[i].fd} : g \in DOMAIN conn' /\ conn'[g] = conn[g]
    BY <1>8 DEF f
  <2>3. Lines(assocs', conn', 0)
    BY <1>2, <1>3, <1>5, <1>6, <1>11, <2>1, <2>2, ShutOK
  <2> QED
    BY <1>7, <1>9, <2>3, Rests
<1> QED
  BY <1>10, <1>11

\* zclose, of the current association.
LEMMA CloseStep ==
  ASSUME Typing, CloseCmd
  PROVE  Typing' /\ (Mine => Mine')
<1>1. /\ cmd = Idle /\ user # 0 /\ assocs[user].open /\ Disconnect(user)
      /\ user' = 0 /\ cmd' = cmd
  BY DEF CloseCmd
<1>2. user \in DOMAIN assocs /\ user' \in 0..Len(assocs)
  BY <1>1, Typed
<1>3. Mine => \A j \in DOMAIN assocs \ {user} : assocs[j].open => assocs[j].fd # assocs[user].fd
  BY <1>1, <1>2 DEF Mine, OpenIsMine
<1> QED
  BY <1>1, <1>2, <1>3, DisconnectStep

\* zclose of a number, which means one association.
LEMMA CloseIdStep ==
  ASSUME Typing, NEW f \in Fd, CloseIdCmd(f)
  PROVE  Typing' /\ (Polite /\ Mine => Mine')
<1> DEFINE i == LookupAssociation(f)
<1>1. /\ cmd = Idle /\ Disconnect(i) /\ user' = user /\ cmd' = cmd /\ Unambiguous(f)
      /\ i \in DOMAIN assocs /\ assocs[i].fd = f
  BY Typed, Lookups DEF CloseIdCmd, Names
<1> HIDE DEF i
<1>2. user' \in 0..Len(assocs)
  BY <1>1, Typed
<1>3. Polite => \A j \in DOMAIN assocs \ {i} : assocs[j].open => assocs[j].fd # assocs[i].fd
  BY <1>1 DEF Polite, Unambiguous
<1> QED
  BY <1>1, <1>2, <1>3, DisconnectStep

\* zclose of every association.
LEMMA CloseAllStep ==
  ASSUME Typing, CloseAllCmd
  PROVE  Typing' /\ (Mine => Mine')
<1> DEFINE no == FALSE
           s(i) == [assocs[i] EXCEPT !.open = no]
           S == {assocs[i].fd : i \in DOMAIN assocs}
<1>1. /\ cmd' = Idle /\ user' = user /\ conn' = Restrict(conn, DOMAIN conn \ S)
      /\ assocs' = [i \in DOMAIN assocs |-> s(i)]
  BY DEF CloseAllCmd
<1>2. /\ assocs \in Seq(Session) /\ Conns(conn) /\ user \in 0..Len(assocs)
      /\ Len(assocs) \in Nat /\ DOMAIN assocs = 1..Len(assocs)
      /\ \A i \in DOMAIN assocs : assocs[i] \in Session
  BY Typed
<1>3. no \in BOOLEAN
  OBVIOUS
<1> HIDE DEF no, S
<1>4. \A i \in DOMAIN assocs : s(i) \in Session /\ s(i).open = no
  BY <1>2, <1>3 DEF Session
<1> HIDE DEF s
<1>5. /\ assocs' \in Seq(Session) /\ Len(assocs') = Len(assocs)
      /\ \A i \in DOMAIN assocs' : assocs'[i].open = no
  BY <1>1, <1>2, <1>4
<1>6. Conns(conn')
  BY <1>1, <1>2 DEF Conns, Restrict
<1>7. cmd' \in Command_t' /\ cmd'.op = "idle" /\ ~Waits'
  BY <1>1, NextCommand
<1>8. Typing'
  BY <1>1, <1>2, <1>5, <1>6, <1>7, TypedNext
<1>9. Lines(assocs', conn', 0)
  BY <1>5 DEF Lines, no
<1> QED
  BY <1>5, <1>7, <1>8, <1>9, Rests

\* zset session makes another association the current one.
LEMMA SetSessionStep ==
  ASSUME Typing, NEW f \in Fd, SetSessionCmd(f)
  PROVE  Typing' /\ (Mine => Mine')
<1>1. /\ cmd = Idle /\ cmd' = Idle /\ UNCHANGED <<conn, assocs>>
      /\ user' = LookupAssociation(f)
  BY DEF SetSessionCmd
<1>2. user' \in 0..Len(assocs)
  BY <1>1, Typed, Lookups
<1>3. cmd' \in Command_t' /\ cmd'.op \in {"idle", "connecting"} /\ ~Waits
  BY <1>1, NextCommand, Idles
<1> QED
  BY <1>1, <1>2, <1>3, StaysAtRest

-----------------------------------------------------------------------------
(* The theorems.                                                           *)

\* Every step keeps the types, and, in a polite client, the lines apart.
LEMMA Steps ==
  ASSUME Typing, [Next]_vars
  PROVE  Typing' /\ (Polite /\ Mine => Mine')
<1>1. CASE Command
  BY <1>1, SelectStep, RequestCmdStep, CloseStep, CloseAllStep, DeleteCmdStep,
     CloseIdStep, SetSessionStep DEF Command
<1>2. CASE Client
  BY <1>2, ConnectStep, InitUnsentStep, RefusedStep, ReconnectRefusedStep, GetResponseStep,
     NoResponseStep, NoInitResponseStep DEF Client
<1>3. CASE Servers
  BY <1>3, AnswerStep, SendControlStep, GoDownStep DEF Servers
<1>4. CASE UNCHANGED vars
  <2>1. Typing'
    BY <1>4 DEF vars, Typing, Command_t, WaitsAtConnection, Waits, CmdFd
  <2>2. Mine => Mine'
    BY <1>4 DEF vars, Mine, OpenIsMine, Selecting, InStep, Requesting, Waits, CmdFd
  <2> QED
    BY <2>1, <2>2
<1> QED
  BY <1>1, <1>2, <1>3, <1>4 DEF Next

\* The preliminary session is made by zset and taken by zselect, whatever the
\* associations are.
LEMMA PreliminaryStep ==
  ASSUME tmp \in Preliminary, [Next]_vars
  PROVE  tmp' \in Preliminary
<1>1. Taken \in Preliminary /\ "none" \in Preliminary /\ "fresh" \in Preliminary
  BY DEF Taken, Preliminary
<1>2. CASE Command
  BY <1>1, <1>2 DEF Command, SelectCmd, RequestCmd, CloseCmd, CloseAllCmd, DeleteCmd,
     CloseIdCmd, SetSessionCmd, Request, Preliminary
<1>3. CASE Client
  BY <1>1, <1>3 DEF Client, Connect, InitUnsent, ConnectRefused, ReconnectRefused,
     GetResponse, NoResponse, NoInitResponse, Use, FreeSession
<1>4. CASE Servers
  BY <1>4 DEF Servers, Answer, SendControl, GoDown
<1>5. CASE UNCHANGED vars
  BY <1>5 DEF vars
<1> QED
  BY <1>2, <1>3, <1>4, <1>5 DEF Next

\* What the proof keeps is the type invariant.
LEMMA TypesTogether == TypeInv <=> Typing /\ tmp \in Preliminary
  BY DEF TypeInv, TypeOK, Typing

\* Init: no associations, nothing runs.
LEMMA Start ==
  ASSUME Init
  PROVE  TypeInv /\ Mine
<1>1. /\ assocs = <<>> /\ conn = <<>> /\ user = 0 /\ cmd = Idle
      /\ tmp \in Preliminary
  BY DEF Init, Preliminary
<1>2. /\ DOMAIN assocs = {} /\ DOMAIN conn = {} /\ assocs \in Seq(Session)
      /\ user \in 0..Len(assocs)
  BY <1>1
<1>3. cmd \in Command_t /\ cmd.op = "idle" /\ ~Waits
  BY <1>1 DEF Idle, Command_t, Waits
<1>4. TypeInv
  BY <1>1, <1>2, <1>3 DEF TypeInv, TypeOK, WaitsAtConnection
<1>5. Mine
  BY <1>2, <1>3 DEF Mine, OpenIsMine, Selecting, InStep, Kind
<1> QED
  BY <1>4, <1>5

\* Whatever goes wrong, a command that waits does so at a descriptor that is
\* open, for an association of the list.
THEOREM TypeInvariance == Spec => []TypeInv
<1>1. Init => TypeInv
  BY Start
<1>2. TypeInv /\ [Next]_vars => TypeInv'
  BY Steps, PreliminaryStep, TypesTogether DEF TypeInv, TypeOK, Typing
<1> QED
  BY <1>1, <1>2, PTL DEF Spec

\* Whatever goes wrong, TKZ_User_Session is NULL or points to a session of
\* zAssociations, and the descriptors that are open are in range.
THEOREM TypeCorrect == Spec => []TypeOK
<1>1. TypeInv => TypeOK
  BY DEF TypeInv
<1> QED
  BY <1>1, TypeInvariance, PTL

\* Servers that stop, reject, answer late or ask for control leave the client
\* in step: each open association has a line of its own, nothing is on its
\* way over a line that is not waited for, and the one request of the command
\* that runs over the one that is.
THEOREM Invariance ==
  ASSUME Polite
  PROVE  Spec => []IInv
<1>1. Init => IInv
  BY Start DEF IInv, Mine
<1>2. IInv /\ [Next]_vars => IInv'
  BY Steps, PreliminaryStep, TypesTogether DEF IInv, Mine, TypeInv, TypeOK, Typing
<1> QED
  BY <1>1, <1>2, PTL DEF Spec

\* An association that says it is open has a descriptor that is open, leads to
\* its own server and is no other's.
THEOREM LinesAreOwn ==
  ASSUME Polite
  PROVE  Spec => []OpenIsMine
<1>1. IInv => OpenIsMine
  BY DEF IInv
<1> QED
  BY <1>1, Invariance, PTL

\* A command uses the response to its own request, from its own server.
THEOREM AnswersAreOwn ==
  ASSUME Polite
  PROVE  Spec => []OwnAnswer
<1>1. ASSUME IInv PROVE OwnAnswer
  <2> DEFINE c == conn[CmdFd]
             m == Head(c.answers)
             kind == IF cmd.op \in Kind THEN cmd.op ELSE "init"
  <2>1. SUFFICES ASSUME Waits, c.answers # <<>>
                 PROVE  /\ m.own
                        /\ m.kind \in {cmd.op, "control"} \/ cmd.op \in {"connect", "reconnect"}
                        /\ c.host = IF cmd.op = "connect" THEN cmd.host
                                    ELSE assocs[cmd.who].host
    BY DEF OwnAnswer
  <2>2. Typing /\ Mine
    BY <1>1, TypesTogether DEF IInv, Mine
  <2>3. /\ Outstanding(c, kind)
        /\ c.host = IF cmd.op = "connect" THEN cmd.host ELSE assocs[cmd.who].host
    BY <2>1, <2>2, Waiting
  <2>4. kind \in Kind \union {"init"}
    OBVIOUS
  <2>5. cmd.op \in Kind \/ cmd.op \in {"connect", "reconnect"}
    BY <2>1, <2>2, CommandIs DEF Waits
  <2>6. cmd.op \in Kind => kind = cmd.op /\ kind # "init"
    BY DEF Kind
  <2> HIDE DEF c, kind
  <2>7. PICK k \in AnswerKinds(kind) \union {"control"} : m = Own(k)
    BY <2>1, <2>3, <2>4, Heads
  <2>8. m.own /\ m.kind = k
    BY <2>7, Messages
  <2>9. cmd.op \in Kind => k \in {cmd.op, "control"}
    BY <2>6, <2>7 DEF AnswerKinds
  <2> QED
    BY <2>3, <2>5, <2>8, <2>9
<1> QED
  BY <1>1, Invariance, PTL
=============================================================================
