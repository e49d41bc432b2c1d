---------------------------- MODULE MCPduStream ----------------------------
(* Instances of PduStream for TLC: a search request of definite length with   *)
(* a constructed element inside, an init request of indefinite length, a      *)
(* trigger-resource-control request, also of indefinite length, whose tag     *)
(* takes two octets, and a close request, whose length takes three.           *)
EXTENDS PduStream

Con(tag) == <<"constructed", tag>>
Prim(tag, data) == <<"primitive", tag, data>>
End == <<"end">>

MCMessage ==
  [search  |-> [octets |-> <<182, 8, 4, 2, 7, 8, 48, 2, 5, 0>>,
                tokens |-> <<Con(22), Prim(4, <<7, 8>>),
                             Con(16), Prim(5, <<>>), End, End>>],
   init    |-> [octets |-> <<180, 128, 4, 1, 7, 0, 0>>,
                tokens |-> <<Con(20), Prim(4, <<7>>), End>>],
   trigger |-> [octets |-> <<191, 32, 128, 5, 0, 0, 0>>,
                tokens |-> <<Con(32), Prim(5, <<>>), End>>],
   close   |-> [octets |-> <<191, 48, 130, 0, 3, 4, 1, 6>>,
                tokens |-> <<Con(48), Prim(4, <<6>>), End>>]]
=============================================================================
