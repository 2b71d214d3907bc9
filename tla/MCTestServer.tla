---------------------------- MODULE MCTestServer ----------------------------
(***************************************************************************)
(* More deletions and messages than the channels hold, one stream that     *)
(* stays and one that may leave.                                           *)
(***************************************************************************)
EXTENDS TestServer

CONSTANTS d1, d2, m1,   \* calls: two deletions and a message
          s1, s2        \* streams

MCOpOf == [c \in Calls |-> IF c \in {d1, d2} THEN "delete" ELSE "send"]
=============================================================================
