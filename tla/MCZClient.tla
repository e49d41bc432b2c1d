----------------------------- MODULE MCZClient -----------------------------
(* Instances of ZClient for TLC: two servers, two descriptors above stderr. *)
EXTENDS ZClient

CONSTANTS h1, h2

MCFd == 3..4
=============================================================================
