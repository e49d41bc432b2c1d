----------------------------- MODULE PduStream -----------------------------
(***************************************************************************)
(* How the server reads requests from its client: GetPDUFromStream of      *)
(* zpdu/ber_decode.c over ReadFromSocket and select of socket/conutils.c,  *)
(* inside the loop of HandleClientConnection.                              *)
(*                                                                         *)
(* A message is a sequence of octets in BER; they arrive one by one, and   *)
(* the client may be slow, fall silent, or close the connection.           *)
(* GetPDUFromStream calls itself for every element of a constructed one;   *)
(* stack holds the local variables of these calls, the innermost last.     *)
(* The node that is built is kept as its tokens in document order.         *)
(*                                                                         *)
(* Faults says what may go wrong:                                          *)
(*   "late"         a select times out                                     *)
(*   "late_indef"   it does so inside an element of indefinite length      *)
(*   "close"        the client closes the connection between two messages  *)
(*   "reset"        the connection breaks between two messages             *)
(*   "inside"       these happen inside a message, too                     *)
(*   "signal"       a signal interrupts a system call of the server        *)
(*   "silent"       octets that were sent need not arrive                  *)
(*   "memory"       there is none for the decoded message                  *)
(***************************************************************************)
EXTENDS Integers, SequencesExt

CONSTANTS Message,   \* name -> [octets, tokens]: what the client sends
          MaxSent,   \* bound: messages per connection
          Faults

ASSUME MessageAssumption ==
  \A m \in DOMAIN Message :
    Message[m].octets \in Seq(0..255)

VARIABLES
  sent,      \* the messages the client has sent
  avail,     \* how many of their octets have arrived
  pos,       \* how many of these the server has read
  peer,      \* the client's end: "open", "closed" or "reset"
  fd,        \* the server's end: "open" or "closed"
  errno,     \* "EINTR" after an interrupted call, else "other"
  pc,        \* where the innermost call is
  stack,
  got,       \* octets of a length, or of data, read so far
  node,      \* the tokens of the node under construction
  requests   \* the nodes passed to DecodePDU so far

vars == <<sent, avail, pos, peer, fd, errno, pc, stack, got, node, requests>>

reader == <<pc, stack, got, node>>

SumSeq(s) == FoldLeft(+, 0, s)

Stream == FlattenSeq([i \in DOMAIN sent |-> Message[sent[i]].octets])

\* A new call of GetPDUFromStream; at is where its tokens begin.
NewCall(tokens) == [class |-> 0, form |-> 0, tag |-> 0, len |-> 0, ltmp |-> 0, stmp |-> 0,
                    size |-> 0, at |-> Len(tokens)]

Init ==
  /\ sent = <<>> /\ avail = 0 /\ pos = 0 /\ peer = "open"
  /\ fd = "open" /\ errno = "other"
  /\ pc = "tag" /\ stack = <<NewCall(<<>>)>> /\ got = <<>> /\ node = <<>>
  /\ requests = <<>>

call == Last(stack)

SetCall(c) == stack' = [stack EXCEPT ![Len(stack)] = c]

-----------------------------------------------------------------------------
(* The client and the network.                                             *)

Send(m) ==
  /\ peer = "open"
  /\ Len(sent) < MaxSent
  /\ sent' = Append(sent, m)
  /\ UNCHANGED <<avail, pos, peer, fd, errno, reader, requests>>

Deliver ==
  /\ peer = "open"
  /\ avail < Len(Stream)
  /\ avail' = avail + 1
  /\ UNCHANGED <<sent, pos, peer, fd, errno, reader, requests>>

\* Octets that have not arrived by then are lost.
Close(how) ==
  /\ peer = "open"
  /\ \/ avail = Len(Stream)
     \/ "inside" \in Faults
  /\ how = "closed" => "close" \in Faults
  /\ how = "reset" => "reset" \in Faults
  /\ peer' = how
  /\ UNCHANGED <<sent, avail, pos, fd, errno, reader, requests>>

-----------------------------------------------------------------------------
(* ReadFromSocket, and the select before it.                               *)

Readable == fd = "open" /\ pos < avail

Octet == Stream[pos + 1]

\* The states in which WaitForData is called first; in the others read
\* blocks for as long as the client likes.
Selects == pc \in {"tag", "len"} \/ (pc = "data" /\ got = <<>>)

Reading == pc \in {"tag", "end", "longtag", "len", "longlen", "data"}

\* read returns 0 or -1, and ReadFromSocket does, unless errno says EINTR:
\* it then tries again, although read does not set errno when it returns 0.
Fails(code) ==
  /\ Reading
  /\ fd = "open" /\ pos = avail
  /\ \/ /\ peer = "reset" /\ code = -1
        /\ errno' = "other" /\ peer' = "closed"
     \/ /\ peer = "closed" /\ code = 0
        /\ errno # "EINTR" /\ UNCHANGED <<errno, peer>>

\* A signal interrupts read, which is called again.
Interrupted ==
  /\ "signal" \in Faults
  /\ Reading /\ ~Selects
  /\ fd = "open" /\ peer = "open" /\ pos = avail
  /\ errno' = "EINTR"
  /\ UNCHANGED <<sent, avail, pos, peer, fd, reader, requests>>

-----------------------------------------------------------------------------
(* GetPDUFromStream.                                                       *)

Read(n) == pos' = pos + n /\ UNCHANGED <<sent, avail, peer, fd, errno, requests>>

\* The call returns NULL; what it has built is dropped.
ReturnsNull == /\ pc' = "null"
               /\ node' = SubSeq(node, 1, call.at)
               /\ UNCHANGED got

\* Mutated form of WaitTimesOut: a select that times out is called again.
WaitTimesOutNever ==
  /\ Selects
  /\ fd = "open" /\ peer = "open" /\ pos = avail
  /\ "late" \in Faults
  /\ UNCHANGED vars

\* WaitForData closes the connection.  So does a signal during select.
WaitTimesOut ==
  /\ Selects
  /\ fd = "open" /\ peer = "open" /\ pos = avail
  /\ \/ "late" \in Faults /\ UNCHANGED errno
     \/ "signal" \in Faults /\ errno' = "EINTR"
  /\ "late_indef" \notin Faults => \A i \in DOMAIN stack : stack[i].len # -1
  /\ fd' = "closed"
  /\ ReturnsNull
  /\ UNCHANGED <<sent, avail, pos, peer, stack, requests>>

\* select fails, as the connection was closed earlier.
SelectFails ==
  /\ pc = "tag" /\ fd = "closed"
  /\ errno' = "other"
  /\ ReturnsNull
  /\ UNCHANGED <<sent, avail, pos, peer, fd, stack, requests>>

\* GetTAGFromStream.
ReadTag ==
  /\ pc = "tag" /\ Readable
  /\ SetCall([call EXCEPT !.class = Octet \div 64, !.form = (Octet \div 32) % 2,
                          !.tag = IF Octet % 32 = 31 THEN 0 ELSE Octet % 32,
                          !.stmp = 1, !.size = 1])
  /\ pc' = CASE Octet = 0 -> "end"
             [] Octet % 32 = 31 -> "longtag"
             [] OTHER -> "len"
  /\ Read(1)
  /\ UNCHANGED <<got, node>>

TagFails ==
  /\ pc \in {"tag", "end", "longtag"}
  /\ \E code \in {0, -1} : Fails(code)
  /\ fd' = "closed"
  /\ ReturnsNull
  /\ UNCHANGED <<sent, avail, pos, stack, requests>>

\* An octet of a tag in long form.
ReadLongTag ==
  /\ pc = "longtag" /\ Readable
  /\ LET tag == call.tag * 128 + (Octet % 128)
     IN  /\ SetCall([call EXCEPT !.stmp = @ + 1, !.size = @ + 1, !.tag = tag])
         /\ pc' = IF Octet >= 128 THEN "longtag"
                  ELSE IF tag = 0 /\ call.class = 0 /\ call.form = 0
                  THEN "end_of_contents" ELSE "len"
  /\ Read(1)
  /\ UNCHANGED <<got, node>>

\* End-of-contents octets: NULL, with the size that they have.
ReadEnd ==
  /\ pc = "end" /\ Readable
  /\ fd' = IF Octet = 0 THEN fd ELSE "closed"
  /\ pc' = IF Octet = 0 THEN "end_of_contents" ELSE "null"
  /\ SetCall([call EXCEPT !.size = 2])
  /\ pos' = pos + 1
  /\ UNCHANGED <<sent, avail, peer, errno, got, node, requests>>

\* The length is known, and how many octets it took unless reading failed.
HaveLength(len, took) ==
  LET stmp == IF took = 0 THEN call.stmp ELSE took
      c == [call EXCEPT !.len = len, !.ltmp = len, !.stmp = stmp,
                        !.size = @ + stmp]
      token == <<"constructed", call.tag>>
  IN  /\ got' = <<>>
      /\ IF c.form = 0
         THEN /\ stack' = [stack EXCEPT ![Len(stack)] =
                             IF len > 0 THEN c ELSE [c EXCEPT !.size = @ + len]]
              /\ pc' = IF len > 0 THEN "data" ELSE "node"
              /\ node' = IF len > 0 THEN node
                         ELSE Append(node, <<"primitive", c.tag, <<>>>>)
         ELSE /\ node' = Append(node, token)
              /\ stack' = [stack EXCEPT ![Len(stack)] = c]
                            \o IF len = 0 THEN <<>> ELSE <<NewCall(node')>>
              /\ pc' = IF len = 0 THEN "node" ELSE "tag"

\* Mutated form of ReadLongLen: the octet before the length is not counted.
ReadLongLenShort ==
  /\ pc = "longlen" /\ Readable
  /\ Read(1)
  /\ LET octets == Append(got, Octet)
     IN  IF Len(octets) = Head(octets) + 1
         THEN HaveLength(Octet, Len(octets) - 1)
         ELSE got' = octets /\ UNCHANGED <<pc, stack, node>>

\* GetLENFromStream.
ReadLen ==
  /\ pc = "len" /\ Readable
  /\ Read(1)
  /\ CASE Octet < 128 -> HaveLength(Octet, 1)
       [] Octet = 128 -> HaveLength(-1, 1)
       [] Octet > 128 + 4 -> HaveLength(0, 0)
       [] OTHER -> /\ pc' = "longlen"
                   /\ got' = <<Octet - 128>>
                   /\ UNCHANGED <<stack, node>>

\* len <<= 8; len += ch, in 32 bits.
Shifted(len, o) ==
  LET low == len % (2^24)
  IN  (IF low < 2^23 THEN low ELSE low - 2^24) * 256 + o

ReadLongLen ==
  /\ pc = "longlen" /\ Readable
  /\ Read(1)
  /\ LET octets == Append(got, Octet)
     IN  IF Len(octets) = Head(octets) + 1
         THEN HaveLength(FoldLeft(Shifted, 0, Tail(octets)), Len(octets))
         ELSE got' = octets /\ UNCHANGED <<pc, stack, node>>

\* What ReadFromSocket returned is taken for the length.
LenFails ==
  /\ pc \in {"len", "longlen"}
  /\ \E code \in {0, -1} : Fails(code) /\ HaveLength(code, 0)
  /\ UNCHANGED <<sent, avail, pos, fd, requests>>

HaveData(data) ==
  /\ SetCall([call EXCEPT !.size = @ + call.len])
  /\ node' = Append(node, <<"primitive", call.tag, data>>)
  /\ got' = <<>>
  /\ pc' = "node"

\* The data of a primitive element: as much as there is, until it is whole
\* or the connection fails; the rest of the buffer is zero.
ReadData ==
  /\ pc = "data" /\ Readable
  /\ LET n == IF call.len - Len(got) < avail - pos THEN call.len - Len(got)
              ELSE avail - pos
         data == got \o SubSeq(Stream, pos + 1, pos + n)
     IN  /\ Read(n)
         /\ IF Len(data) = call.len THEN HaveData(data)
            ELSE got' = data /\ UNCHANGED <<pc, stack, node>>

DataFails ==
  /\ pc = "data"
  /\ \E code \in {0, -1} : Fails(code)
  /\ HaveData(got \o [i \in 1..call.len - Len(got) |-> 0])
  /\ UNCHANGED <<sent, avail, pos, fd, requests>>

\* Mutated form of Passed: the first octet of the element is not counted.
PassedLate(c, size) ==
  [c EXCEPT !.stmp = size, !.size = @ + size,
            !.ltmp = IF c.len >= 0 THEN @ - (size - 1) ELSE @]

\* The caller c after an element of the given size.
Passed(c, size) ==
  [c EXCEPT !.stmp = size, !.size = @ + size,
            !.ltmp = IF c.len >= 0 THEN @ - size ELSE @]

\* The call returns its node, which is attached; the caller reads the next
\* element unless its own length is used up.
ReturnNode ==
  /\ pc = "node"
  /\ node' = IF call.form = 0 THEN node ELSE Append(node, <<"end">>)
  /\ IF Len(stack) = 1 THEN pc' = "decode" /\ UNCHANGED stack
     ELSE LET c == Passed(stack[Len(stack) - 1], call.size)
              done == c.len >= 0 /\ c.ltmp <= 0
          IN  /\ stack' = SubSeq(stack, 1, Len(stack) - 2)
                            \o IF done THEN <<c>> ELSE <<c, NewCall(node')>>
              /\ pc' = IF done THEN "node" ELSE "tag"
  /\ UNCHANGED <<sent, avail, pos, peer, fd, errno, got, requests>>

\* The call returns NULL: end-of-contents octets, or a failure, in which
\* case the caller's stmp is still that of what came before.
ReturnNull ==
  /\ pc \in {"null", "end_of_contents"}
  /\ IF Len(stack) = 1
     THEN pc' = "exit" /\ UNCHANGED <<stack, node>>
     ELSE LET up == stack[Len(stack) - 1]
              stmp == IF pc = "null" THEN up.stmp ELSE call.size
              done == stmp # 0 /\ up.len < 0
          IN  /\ stack' = Append(SubSeq(stack, 1, Len(stack) - 2),
                                [up EXCEPT !.stmp = stmp, !.size = @ + stmp])
              /\ pc' = IF done THEN "node" ELSE "null"
              /\ node' = IF done THEN node ELSE SubSeq(node, 1, up.at)
  /\ UNCHANGED <<sent, avail, pos, peer, fd, errno, got, requests>>

-----------------------------------------------------------------------------
(* HandleClientConnection: the message is decoded and dealt with.          *)

Answered == {20, 22, 24, 26, 33, 35, 43}

\* A trigger-resource-control request gets no answer; the loop ends with a
\* close or an extended-services request.  For the other tags that DecodePDU
\* knows out_pdu is what an earlier iteration freed, or was never set; one that
\* it does not know leaves an init request without contents, which is printed.
Handle ==
  /\ pc = "decode"
  /\ requests' = Append(requests, node)
  /\ pc' = CASE call.tag \in Answered -> "respond"
             [] call.tag = 32 -> "tag"
             [] call.tag \in {46, 48} -> "exit"
             [] OTHER -> "undefined"
  /\ node' = <<>>
  /\ stack' = <<[NewCall(<<>>) EXCEPT !.tag = IF pc' = "tag" THEN 0 ELSE call.tag]>>
  /\ UNCHANGED <<sent, avail, pos, peer, fd, errno, got>>

\* DecodePDU returns NULL, and so does GetPDU.
DecodeFails ==
  /\ "memory" \in Faults
  /\ pc = "decode"
  /\ pc' = "exit"
  /\ node' = <<>>
  /\ stack' = <<NewCall(<<>>)>>
  /\ UNCHANGED <<sent, avail, pos, peer, fd, errno, got, requests>>

\* PutPDU; when it cannot write all of the response the server stops.
Respond ==
  /\ pc = "respond"
  /\ \/ fd = "open" /\ pc' = "tag"
     \/ (fd = "closed" \/ peer # "open") /\ pc' = "exit"
  /\ stack' = <<NewCall(<<>>)>>
  /\ UNCHANGED <<sent, avail, pos, peer, fd, errno, got, node, requests>>

Server == \/ WaitTimesOut \/ SelectFails
          \/ ReadTag \/ ReadEnd \/ ReadLongTag \/ TagFails
          \/ ReadLen \/ ReadLongLen \/ LenFails
          \/ ReadData \/ DataFails
          \/ ReturnNode \/ ReturnNull
          \/ Handle \/ DecodeFails \/ Respond

Next == \/ Server \/ Interrupted
        \/ \E m \in DOMAIN Message : Send(m)
        \/ Deliver
        \/ \E how \in {"closed", "reset"} : Close(how)

Spec == Init /\ [][Next]_vars

\* The server process runs, the clock too, and TCP delivers what was sent
\* unless the client's host is gone.
FairSpec == /\ Spec
            /\ WF_vars(Server)
            /\ "silent" \notin Faults => WF_vars(Deliver)

-----------------------------------------------------------------------------
\* The connection was lost inside a message.
Lost == fd = "closed" \/ (peer # "open" /\ avail < Len(Stream))

Whole(i) == i <= Len(sent) /\ requests[i] = Message[sent[i]].tokens

\* What the server handles is what the client sent, whole and in order, in
\* whatever pieces it arrives.  Only the last message that is handled may be
\* another one, when the connection was lost in the middle of it: nothing
\* that is left of a message is ever taken for the beginning of the next.
Framed == \A i \in DOMAIN requests : Whole(i) \/ (i = Len(requests) /\ Lost)

\* The sizes that the nested calls keep add up to the octets read since the
\* message began: a length is never compared with a wrong count.
SizesAgree ==
  pc = "tag" /\ fd = "open" /\ peer = "open" =>
    pos = SumSeq([i \in DOMAIN requests |-> Len(Message[sent[i]].octets)])
            + SumSeq([i \in DOMAIN stack |-> stack[i].size])

\* "a server program waits for reading for at most ten minutes before close
\* the connection": a client that closes the connection, or sends no more,
\* does not keep its server process (there is one for each client), unless
\* a signal left EINTR in errno, which ReadFromSocket looks at when read has
\* returned 0.
ServerExits == <>(pc \in {"exit", "undefined"} \/ errno = "EINTR")

\* "GetPDUFromStream returns NULL if an error has occurred" (ber_decode.c):
\* a message that was not read to its end is not handled.
NullOnError == \A i \in DOMAIN requests : Whole(i)
=============================================================================
