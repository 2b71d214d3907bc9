-------------------------- MODULE MCIntegrationTest --------------------------
(***************************************************************************)
(* A test with a put, two deletes of the same endpoint and a message, in   *)
(* any order; the channels hold one event and the test opens one stream.   *)
(***************************************************************************)
EXTENDS IntegrationTest

CONSTANTS p1, d1, d2, m1,   \* calls
          x, y,             \* data: of the endpoint, of the message
          s1                \* the stream

MCOpOf   == [c \in Calls |-> CASE c = p1 -> "put" [] c \in {d1, d2} -> "delete" [] c = m1 -> "send"]
MCDataOf == [c \in Calls |-> IF c = m1 THEN y ELSE x]
=============================================================================
