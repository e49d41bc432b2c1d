------------------------------ MODULE ZClient ------------------------------
(***************************************************************************)
(* The associations of the Tcl client: zselect, zclose, zset session and   *)
(* the commands that send a request and wait for its response, of          *)
(* cheshire2/zquery.c, over tk_connect, tk_reconnect, tk_disconnect and    *)
(* ExecuteInitCommand of client/client.c and ClientGetPDU of               *)
(* zpdu/pdu_get.c.                                                         *)
(*                                                                         *)
(* The client has one thread: a command runs while it waits for an answer  *)
(* and no other command does.  An association names its connection by the  *)
(* number of a descriptor, which it keeps when the connection is closed    *)
(* and the kernel gives to the next one.  The servers are external.  What  *)
(* goes wrong while a response is read is the subject of PduStream; here   *)
(* ClientGetPDU returns a response or NULL.                                *)
(*                                                                         *)
(* Faults says what may go wrong:                                          *)
(*   "down"        a server stops, or refuses a connection                 *)
(*   "late"        a select times out                                      *)
(*   "reject"      a server rejects an init request                        *)
(*   "control"     a server asks for access or resource control            *)
(*   "stale_open"  a refused reconnection of an association that was not   *)
(*                 used                                                    *)
(*   "stale_id"    a command names a descriptor that two associations have *)
(*   "stale_use"   a command that does not ask if the association is       *)
(*                 closed uses one whose descriptor has another connection *)
(*   "delete"      zdelete gets no answer                                  *)
(***************************************************************************)
EXTENDS Integers, SequencesExt

CONSTANTS Host,        \* servers: a host, a port and a database
          Fd,          \* the descriptors that a process may have
          MaxAssocs,   \* bound: associations
          Faults

ASSUME FdAssumption == Fd \subseteq Nat /\ IsFiniteSet(Fd)

VARIABLES
  conn,     \* descriptor -> its connection, for the ones that are open
  assocs,   \* zAssociations: the sessions, in the order of the list
  user,     \* TKZ_User_Session: an index of assocs, or 0
  tmp,      \* TKZ_User_Session_TMP, a session that zset has made for zselect
  cmd       \* the command that waits, or Idle

vars == <<conn, assocs, user, tmp, cmd>>

Kind == {"search", "sql", "scan", "sort", "present", "delete"}

Idle == [op |-> "idle"]

\* The sessions: open is connectionStatus = Z_OPEN, state is TRUE for S_OPEN.
Session == [host : Host, fd : Fd, open : BOOLEAN, state : BOOLEAN]

\* What is on its way; own: it belongs to the command that runs.
Message == [kind : Kind \union {"init", "reject", "control"}, own : BOOLEAN]

Connection == [host : Host, up : BOOLEAN, todo : Seq(Message), answers : Seq(Message)]

\* TKZ_User_Session_TMP is NULL, a session with its defaults that tk_connect
\* may take, or one that is listed or freed already, or was never filled in.
Preliminary == {"none", "fresh", "stale"}

Init ==
  /\ conn = <<>>
  /\ assocs = <<>>
  /\ user = 0
  /\ tmp = "none"
  /\ cmd = Idle

\* The first association that matches, or 0.
SearchAssociation(h) == SelectInSeq(assocs, LAMBDA s : s.host = h)
LookupAssociation(f) == SelectInSeq(assocs, LAMBDA s : s.fd = f)

\* The open descriptors after close(fd), which may fail.
Closed(f) == Restrict(conn, DOMAIN conn \ {f})

\* The session that a running command uses; for tk_connect it is not yet
\* in the list.
CmdFd == IF cmd.op = "connect" THEN cmd.fd ELSE assocs[cmd.who].fd

-----------------------------------------------------------------------------
(* The servers.                                                            *)

Answer(f, kind) ==
  /\ conn[f].up /\ conn[f].todo # <<>>
  /\ LET m == Head(conn[f].todo)
     IN  /\ \/ kind = m.kind
            \/ kind = "reject" /\ m.kind = "init" /\ "reject" \in Faults
         /\ conn' = [conn EXCEPT ![f].todo = Tail(@),
                                 ![f].answers = Append(@, [m EXCEPT !.kind = kind])]
  /\ UNCHANGED <<assocs, user, tmp, cmd>>

SendControl(f) ==
  /\ "control" \in Faults
  /\ conn[f].up /\ conn[f].todo # <<>>
  /\ \A i \in DOMAIN conn[f].answers : conn[f].answers[i].kind # "control"
  /\ conn' = [conn EXCEPT ![f].answers = Append(@, [kind |-> "control", own |-> TRUE])]
  /\ UNCHANGED <<assocs, user, tmp, cmd>>

GoDown(f) ==
  /\ "down" \in Faults
  /\ conn[f].up
  /\ conn' = [conn EXCEPT ![f].up = FALSE, ![f].todo = <<>>]
  /\ UNCHANGED <<assocs, user, tmp, cmd>>

-----------------------------------------------------------------------------
(* zselect.                                                                *)

\* An association with the server that is open becomes the current one; a
\* closed one is connected again.  (What tk_connect does to zAssociations with
\* a preliminary session that is listed or freed is left out.)
SelectCmd(h) ==
  /\ cmd = Idle
  /\ LET i == SearchAssociation(h)
     IN  /\ tmp # "stale" \/ (i # 0 /\ assocs[i].open)
         /\ user' = i
         /\ cmd' = IF i = 0 THEN [op |-> "connecting", host |-> h]
                   ELSE IF assocs[i].open THEN Idle
                   ELSE [op |-> "reconnecting", who |-> i]
  /\ UNCHANGED <<conn, assocs, tmp>>

\* tk_connect takes the preliminary session and does not reset the pointer.
Taken == IF tmp = "none" THEN "none" ELSE "stale"

\* zselect fails and frees the session that tk_connect returned.
FreeSession ==
  /\ user' = 0
  /\ tmp' = Taken
  /\ cmd' = Idle
  /\ UNCHANGED assocs

\* PutPDU: the request follows whatever is still on its way.
Sent(c, f, kind) ==
  LET Old(s) == [i \in DOMAIN s |-> [s[i] EXCEPT !.own = FALSE]]
      old == [g \in DOMAIN c |-> [c[g] EXCEPT !.todo = Old(@), !.answers = Old(@)]]
  IN  [old EXCEPT ![f].todo = Append(@, [kind |-> kind, own |-> TRUE])]

\* The descriptors when ConnectToServer has got one more, to a server that
\* may have stopped since.
NewFd == Min(Fd \ DOMAIN conn)

ConnectHost == IF cmd.op = "connecting" THEN cmd.host ELSE assocs[cmd.who].host

Opened(up) ==
  [g \in DOMAIN conn \union {NewFd} |->
     IF g = NewFd THEN [host |-> ConnectHost, up |-> up, todo |-> <<>>, answers |-> <<>>]
     ELSE conn[g]]

CanConnect ==
  /\ cmd.op \in {"connecting", "reconnecting"}
  /\ cmd.op = "connecting" => Len(assocs) < MaxAssocs
  /\ Fd # DOMAIN conn

\* ConnectToServer succeeds, and ExecuteInitCommand sends an init request.
Connect ==
  /\ CanConnect
  /\ conn' = Sent(Opened(TRUE), NewFd, "init")
  /\ \/ /\ cmd.op = "connecting"
        /\ cmd' = [op |-> "connect", host |-> cmd.host, fd |-> NewFd]
        /\ UNCHANGED assocs
     \/ /\ cmd.op = "reconnecting"
        /\ cmd' = [op |-> "reconnect", who |-> cmd.who]
        /\ assocs' = [assocs EXCEPT ![cmd.who].fd = NewFd]
  /\ UNCHANGED <<user, tmp>>

\* Its PutPDU fails: the descriptor stays open.
InitUnsent ==
  /\ "down" \in Faults
  /\ CanConnect
  /\ conn' = Opened(FALSE)
  /\ \/ /\ cmd.op = "connecting"
        /\ FreeSession
     \/ /\ cmd.op = "reconnecting"
        /\ assocs' = [assocs EXCEPT ![cmd.who].fd = NewFd, ![cmd.who].state = FALSE]
        /\ cmd' = [op |-> "connecting", host |-> ConnectHost]
        /\ UNCHANGED <<user, tmp>>

\* ConnectToServer fails in tk_connect.
ConnectRefused ==
  /\ cmd.op = "connecting"
  /\ \/ "down" \in Faults
     \/ Fd = DOMAIN conn
     \/ Len(assocs) = MaxAssocs
  /\ FreeSession
  /\ UNCHANGED conn

\* ConnectToServer fails in tk_reconnect, which leaves the state: when it is
\* S_OPEN, the association is reported as open.  Otherwise a new one is made.
ReconnectRefused ==
  /\ cmd.op = "reconnecting"
  /\ "down" \in Faults \/ Fd = DOMAIN conn
  /\ IF assocs[cmd.who].state
     THEN /\ "stale_open" \in Faults
          /\ assocs' = [assocs EXCEPT ![cmd.who].open = TRUE]
          /\ cmd' = Idle
     ELSE /\ cmd' = [op |-> "connecting", host |-> assocs[cmd.who].host]
          /\ UNCHANGED assocs
  /\ UNCHANGED <<conn, user, tmp>>

-----------------------------------------------------------------------------
(* The commands that send a request.                                       *)

\* The number given to zset session, zclose or zdelete means one association
\* at most.
Unambiguous(f) ==
  \/ "stale_id" \in Faults
  \/ \A i, j \in DOMAIN assocs : assocs[i].fd = f /\ assocs[j].fd = f => i = j

Names(f) == LookupAssociation(f) # 0 /\ Unambiguous(f)

\* The checks that the commands make.  (That present follows a search that
\* found something is left to the script.)
Allowed(i, kind) ==
  /\ kind \in {"search", "present"} => assocs[i].open
  /\ \/ "stale_use" \in Faults
     \/ assocs[i].open
     \/ assocs[i].fd \notin DOMAIN conn

\* present sets the state before it sends, the others, except sort and
\* delete, after.  PutPDU may find that the server has stopped, and then the
\* command returns and leaves the association as it is.
Request(i, kind) ==
  /\ cmd = Idle
  /\ Allowed(i, kind)
  /\ LET f == assocs[i].fd
     IN  \/ /\ f \in DOMAIN conn
            /\ conn' = Sent(conn, f, kind)
            /\ assocs' = [assocs EXCEPT ![i].state = @ /\ kind \in {"sort", "delete"}]
            /\ cmd' = [op |-> kind, who |-> i]
         \/ /\ f \in DOMAIN conn => ~conn[f].up
            /\ assocs' = [assocs EXCEPT ![i].state = @ /\ kind # "present"]
            /\ UNCHANGED <<conn, cmd>>
  /\ UNCHANGED <<user, tmp>>

RequestCmd(kind) == user # 0 /\ Request(user, kind)

DeleteCmd(f) == Names(f) /\ Request(LookupAssociation(f), "delete")

-----------------------------------------------------------------------------
(* Their responses.                                                        *)

Waits == cmd.op \notin {"idle", "connecting", "reconnecting"}

\* present and delete use the response without looking at its kind.
Expected(op, kind) ==
  \/ op \in {"present", "delete"}
  \/ op \in {"connect", "reconnect"} /\ kind \in {"init", "reject"}
  \/ op = "sql" /\ kind \in {"sql", "search"}
  \/ op = "search" /\ kind \in {"sql", "search"}
  \/ op = kind

\* What the commands do with the response m; init is ExecuteInitCommand, and
\* a descriptor whose init request is rejected stays open.
Use(m) ==
  \/ /\ cmd.op = "connect" /\ m.kind = "init"
     /\ assocs' = Append(assocs, [host |-> cmd.host, fd |-> cmd.fd,
                                  open |-> TRUE, state |-> TRUE])
     /\ user' = Len(assocs')
     /\ tmp' = Taken
     /\ cmd' = Idle
  \/ /\ cmd.op = "connect" /\ m.kind = "reject"
     /\ FreeSession
  \/ /\ cmd.op = "reconnect" /\ m.kind = "init"
     /\ assocs' = [assocs EXCEPT ![cmd.who].open = TRUE, ![cmd.who].state = TRUE]
     /\ cmd' = Idle
     /\ UNCHANGED <<user, tmp>>
  \/ /\ cmd.op = "reconnect" /\ m.kind = "reject"
     /\ assocs' = [assocs EXCEPT ![cmd.who].state = FALSE]
     /\ cmd' = [op |-> "connecting", host |-> assocs[cmd.who].host]
     /\ UNCHANGED <<user, tmp>>
  \/ /\ cmd.op \in Kind
     /\ cmd' = Idle
     /\ UNCHANGED <<assocs, user, tmp>>

\* ClientGetPDU returns a response; the loops discard one of another kind.
GetResponse ==
  /\ Waits
  /\ LET f == CmdFd
         m == Head(conn[f].answers)
     IN  /\ conn[f].answers # <<>> /\ m.kind # "control"
         /\ conn' = [conn EXCEPT ![f].answers = Tail(@)]
         /\ IF Expected(cmd.op, m.kind)
            THEN Use(m)
            ELSE UNCHANGED <<assocs, user, tmp, cmd>>

\* Mutated form of NullAnswer: a select that times out is called again.
NullAnswerWaits ==
  LET f == CmdFd
      answers == conn[f].answers
  IN  IF answers = <<>>
      THEN IF ~conn[f].up THEN {Closed(f)} ELSE {}
      ELSE IF Head(answers).kind = "control"
           THEN {[conn EXCEPT ![f].answers = Tail(@)]} ELSE {}

\* The connections that ClientGetPDU leaves when it returns NULL: a control
\* request is taken for an error, and the descriptor stays open.
NullAnswer ==
  LET f == CmdFd
      answers == conn[f].answers
  IN  IF answers = <<>>
      THEN IF ~conn[f].up \/ "late" \in Faults THEN {Closed(f)} ELSE {}
      ELSE IF Head(answers).kind = "control"
           THEN {[conn EXCEPT ![f].answers = Tail(@)]} ELSE {}

\* Mutated form of NoResponse: the connection is closed only if it failed.
NoResponseKeeps ==
  /\ Waits
  /\ cmd.op \notin {"connect", "reconnect"}
  /\ \E open \in NullAnswer :
       /\ cmd.op # "delete"
       /\ conn' = open
       /\ assocs' = [assocs EXCEPT ![cmd.who].open = CmdFd \in DOMAIN open]
  /\ cmd' = Idle
  /\ UNCHANGED <<user, tmp>>

\* Mutated form of NoResponse: the association is not marked as closed.
NoResponseOpen ==
  /\ Waits
  /\ cmd.op \notin {"connect", "reconnect", "delete"}
  /\ conn' \in NullAnswer
  /\ cmd' = Idle
  /\ UNCHANGED <<assocs, user, tmp>>

\* A request has no response: the client disconnects, after zdelete it does
\* not.
NoResponse ==
  /\ Waits
  /\ cmd.op \notin {"connect", "reconnect"}
  /\ \E open \in NullAnswer :
       \/ /\ cmd.op # "delete"
          /\ conn' = Restrict(open, DOMAIN open \ {CmdFd})
          /\ assocs' = [assocs EXCEPT ![cmd.who].open = FALSE]
       \/ /\ cmd.op = "delete" /\ "delete" \in Faults
          /\ conn' = open
          /\ UNCHANGED assocs
  /\ cmd' = Idle
  /\ UNCHANGED <<user, tmp>>

\* Mutated form of NoInitResponse: the session that is freed stays the current
\* one.
NoInitResponseDangling ==
  /\ cmd.op \in {"connect", "reconnect"}
  /\ conn' \in NullAnswer
  /\ user' = Len(assocs) + 1
  /\ tmp' = Taken
  /\ cmd' = Idle
  /\ UNCHANGED assocs

\* An init request has none: tk_connect's session is freed, tk_reconnect's is
\* closed and zselect goes on with tk_connect.
NoInitResponse ==
  /\ cmd.op \in {"connect", "reconnect"}
  /\ conn' \in NullAnswer
  /\ \/ /\ cmd.op = "connect"
        /\ FreeSession
     \/ /\ cmd.op = "reconnect"
        /\ assocs' = [assocs EXCEPT ![cmd.who].state = FALSE]
        /\ cmd' = [op |-> "connecting", host |-> assocs[cmd.who].host]
        /\ UNCHANGED <<user, tmp>>

-----------------------------------------------------------------------------
(* zclose and zset session.                                                *)

\* tk_disconnect.
Disconnect(i) ==
  /\ conn' = Closed(assocs[i].fd)
  /\ assocs' = [assocs EXCEPT ![i].open = FALSE]

CloseCmd ==
  /\ cmd = Idle
  /\ user # 0 /\ assocs[user].open
  /\ Disconnect(user)
  /\ user' = 0
  /\ tmp' = "none"
  /\ UNCHANGED cmd

\* Every association, the ones that are closed included.
CloseAllCmd ==
  /\ cmd = Idle
  /\ conn' = Restrict(conn, DOMAIN conn \ {assocs[i].fd : i \in DOMAIN assocs})
  /\ assocs' = [i \in DOMAIN assocs |-> [assocs[i] EXCEPT !.open = FALSE]]
  /\ UNCHANGED <<user, tmp, cmd>>

CloseIdCmd(f) ==
  /\ cmd = Idle
  /\ Names(f)
  /\ Disconnect(LookupAssociation(f))
  /\ UNCHANGED <<user, tmp, cmd>>

\* Without a current session zset first makes a preliminary one, which is
\* filled in when there is none yet.  A number that no association has leaves
\* the client without a current one.  (The other parameters of zset, which are
\* set in the preliminary session, are not modelled.)
SetSessionCmd(f) ==
  /\ cmd = Idle
  /\ Unambiguous(f)
  /\ tmp' = IF user # 0 THEN tmp ELSE IF tmp = "none" THEN "fresh" ELSE "stale"
  /\ user' = LookupAssociation(f)
  /\ UNCHANGED <<conn, assocs, cmd>>

Command == \/ \E h \in Host : SelectCmd(h)
           \/ \E kind \in Kind : RequestCmd(kind)
           \/ CloseCmd \/ CloseAllCmd
           \/ \E f \in Fd : DeleteCmd(f) \/ CloseIdCmd(f) \/ SetSessionCmd(f)

Client == \/ Connect \/ InitUnsent \/ ConnectRefused \/ ReconnectRefused
          \/ GetResponse \/ NoResponse \/ NoInitResponse

Servers == \E f \in DOMAIN conn :
             \/ \E kind \in Kind \union {"init", "reject"} : Answer(f, kind)
             \/ SendControl(f)
             \/ GoDown(f)

Next == Command \/ Client \/ Servers

Spec == Init /\ [][Next]_vars

\* A command that was started runs; the clock, too.
FairSpec == Spec /\ WF_vars(Client)

-----------------------------------------------------------------------------
\* zAssociations is a list of sessions, TKZ_User_Session points into it or is
\* NULL, never to a session that zselect has freed, and descriptors are in
\* range.
TypeOK ==
  /\ DOMAIN conn \subseteq Fd
  /\ \A f \in DOMAIN conn : conn[f] \in Connection
  /\ assocs \in Seq(Session)
  /\ user \in 0..Len(assocs)
  /\ tmp \in Preliminary

\* What an association that says it is open is worth: its descriptor is
\* open, leads to its own server, and no other open association has it,
\* whatever connections were closed, and descriptors reused, before.
OpenIsMine ==
  \A i \in DOMAIN assocs : assocs[i].open =>
    /\ assocs[i].fd \in DOMAIN conn
    /\ conn[assocs[i].fd].host = assocs[i].host
    /\ \A j \in DOMAIN assocs : assocs[j].open /\ assocs[j].fd = assocs[i].fd => i = j

\* Protocol data units carry no identification that the client would check:
\* the response that a command uses is nevertheless the one to its own
\* request, from the server of its association.
OwnAnswer ==
  LET c == conn[CmdFd]
      m == Head(c.answers)
  IN  Waits /\ c.answers # <<>> /\ Expected(cmd.op, m.kind) =>
        /\ m.own
        /\ m.kind \in {cmd.op, "control"} \/ cmd.op \in {"connect", "reconnect"}
        /\ c.host = IF cmd.op = "connect" THEN cmd.host ELSE assocs[cmd.who].host

-----------------------------------------------------------------------------
(* What the steps preserve.                                                *)

\* The locals of the command that runs.
Command_t ==
  [op : {"idle"}]
    \union [op : {"connecting"}, host : Host]
    \union [op : {"reconnecting"}, who : DOMAIN assocs]
    \union [op : {"connect"}, host : Host, fd : Fd]
    \union [op : Kind \union {"reconnect"}, who : DOMAIN assocs]

\* A command that waits does so at a descriptor that is open.
WaitsAtConnection == Waits => CmdFd \in DOMAIN conn

TypeInv == TypeOK /\ cmd \in Command_t /\ WaitsAtConnection

\* A message of the request that the running command has sent.
Own(kind) == [kind |-> kind, own |-> TRUE]

\* The answers to an init request, and to another.
AnswerKinds(kind) == {kind} \union IF kind = "init" THEN {"reject"} ELSE {}

\* The request of the running command is all that is on its way: it gets a
\* control request at most, and then one answer at most.
Outstanding(c, kind) ==
  \/ /\ c.todo = <<Own(kind)>>
     /\ c.answers = <<>> \/ c.answers = <<Own("control")>>
  \/ /\ c.todo = <<>>
     /\ \/ c.answers = <<>> \/ c.answers = <<Own("control")>>
        \/ \E k \in AnswerKinds(kind) : \/ c.answers = <<Own(k)>>
                                       \/ c.answers = <<Own("control"), Own(k)>>

Silent(c) == c.todo = <<>> /\ c.answers = <<>>

Requesting(i) == cmd.op \in Kind /\ cmd.who = i

\* zselect connects an association that is closed, over a descriptor that no
\* open one has; the other commands use one that is open.
Selecting ==
  /\ cmd.op \in {"reconnecting", "reconnect"} => ~assocs[cmd.who].open
  /\ cmd.op \in {"connect", "reconnect"} =>
       \A i \in DOMAIN assocs : assocs[i].open => assocs[i].fd # CmdFd
  /\ cmd.op \in Kind => assocs[cmd.who].open

\* Nothing is on its way over the connection of an open association that is
\* not waited for, and the request alone over the one that is.
InStep ==
  /\ \A i \in DOMAIN assocs :
       assocs[i].open /\ ~Requesting(i) => Silent(conn[assocs[i].fd])
  /\ Waits => /\ conn[CmdFd].host = IF cmd.op = "connect" THEN cmd.host
                                     ELSE assocs[cmd.who].host
              /\ Outstanding(conn[CmdFd], IF cmd.op \in Kind THEN cmd.op ELSE "init")

IInv == TypeInv /\ OpenIsMine /\ Selecting /\ InStep

\* The client does not wait for ever for a server that does not answer, stops,
\* or asks for something: it can be given the next command.  (zdelete ends,
\* too, but breaks OpenIsMine when it has no answer; it is left out.)
CommandsEnd == cmd.op \notin {"idle", "reconnecting", "delete"} ~> cmd = Idle

\* "session {connectionIDnumber} : Switch to another connection currently
\* active" (doc/html/cheshire2.html): with the number of an open association
\* an open association becomes the current one.
SwitchesToActive ==
  [][\A f \in Fd :
       /\ SetSessionCmd(f)
       /\ \E i \in DOMAIN assocs : assocs[i].fd = f /\ assocs[i].open
       => assocs[user'].open]_vars
=============================================================================
