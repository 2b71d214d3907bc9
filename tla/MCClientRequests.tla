-------------------------- MODULE MCClientRequests --------------------------
(***************************************************************************)
(* Two SDK clients, one with every option given twice and a server URL     *)
(* with a path, one without any; each makes an API call and two streams.   *)
(***************************************************************************)
EXTENDS ClientRequests

CONSTANTS a, b,                              \* SDK clients
          h1, h2, p1, own, default,          \* HTTP clients
          e1, e2,                            \* request editors
          ga, ga1, ga2, gb, gb1              \* goroutines

MCClientOf == [g \in Goroutine |-> IF g \in {ga, ga1, ga2} THEN a ELSE b]
MCJob == [g \in Goroutine |-> IF g \in {ga, gb} THEN "api" ELSE "stream"]
MCOptions == [c \in {a, b} |->
  IF c = a THEN << [opt |-> "http", val |-> h1], [opt |-> "editor", val |-> e1],
                   [opt |-> "payloads", val |-> p1], [opt |-> "http", val |-> h2],
                   [opt |-> "editor", val |-> e2] >>
  ELSE <<>>]
MCBase == [c \in {a, b} |-> [segments |-> IF c = a THEN <<"dev-test">> ELSE <<>>,
                             slash |-> FALSE]]
MCOwnDoer == [c \in {a, b} |-> own]
=============================================================================
