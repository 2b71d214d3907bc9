--------------------------- MODULE IntegrationTest ---------------------------
(***************************************************************************)
(* One integration test: the set-up, the listener of the test events and   *)
(* the test itself (TestEvents) against the test server (TestServer).  The *)
(* loop of the server publishes a test event while, or after, the call it  *)
(* tells of returns, so that a test may expect what it has not been told.  *)
(***************************************************************************)
EXTENDS Naturals, Sequences, FiniteSets

CONSTANTS Calls, OpOf, Streams, Leavers, Capacity,   \* as in TestServer
          Data,     \* what test events carry
          DataOf    \* what the event of each call carries

ASSUME TestAssumption == /\ OpOf \in [Calls -> {"put", "confirm", "delete", "send"}]
                         /\ DataOf \in [Calls -> Data]
                         /\ IsFiniteSet(Calls)
                         /\ Capacity \in Nat \ {0}
                         /\ Calls \cap {"none", "idle"} = {}

VARIABLES pc, loop, channel, queued, stream, worker, payload, delivered, lost,
          made, onTheWay, list, expectations, expectationIndex, accepted,
          listener,   \* its request to /_testEvents
          ready,      \* the ready event: "none", "due", "sent", "lost" or "received"
          calling     \* the call the test is in, or "none"

Server == INSTANCE TestServer
Test   == INSTANCE TestEvents WITH MaxCalls <- Cardinality(Calls)

server == <<pc, loop, channel, queued, stream, worker, payload, delivered, lost>>
test   == <<made, onTheWay, list, expectations, expectationIndex, accepted>>
vars   == <<server, test, listener, ready, calling>>

TypeOK == /\ Server!TypeOK
          /\ Test!TypeOK
          /\ listener \in {"new", "connected", "subscribed"}
          /\ ready \in {"none", "due", "sent", "lost", "received"}
          /\ calling \in Calls \cup {"none"}

Init == /\ Server!Init
        /\ Test!Init
        /\ listener = "new"
        /\ ready = "none"
        /\ calling = "none"

EventOf(c) == [evType |-> CASE OpOf[c] = "put"     -> "putEndpoint"
                            [] OpOf[c] = "delete"  -> "deleteEndpoint"
                            [] OpOf[c] = "send"    -> "sendMessages"
                            [] OpOf[c] = "confirm" -> "confirmMessages",
               data |-> DataOf[c]]
-----------------------------------------------------------------------------
(***************************************************************************)
(* The set-up.  The handler of /_testEvents starts a goroutine that will   *)
(* publish "ready" after 100 ms, whoever is subscribed then.               *)
(***************************************************************************)
Connect == /\ listener = "new"
           /\ listener' = "connected"
           /\ ready' = "due"
           /\ UNCHANGED <<server, test, calling>>

Subscribe == /\ listener = "connected"
             /\ listener' = "subscribed"
             /\ UNCHANGED <<server, test, ready, calling>>

PublishReady == /\ ready = "due"
                /\ ready' = IF listener = "subscribed" THEN "sent" ELSE "lost"
                /\ UNCHANGED <<server, test, listener, calling>>

AddReady == /\ ready = "sent"
            /\ ready' = "received"
            /\ UNCHANGED <<server, test, listener, calling>>
-----------------------------------------------------------------------------
(***************************************************************************)
(* The test, and the server it runs against.                               *)
(***************************************************************************)

\* Fault: the test does not wait for the test events to be ready.
CallAtOnce(c) == /\ calling = "none" /\ Test!Checked
                 /\ calling' = c
                 /\ Server!Request(c)
                 /\ UNCHANGED <<test, listener, ready>>

\* A test whose set-up ran into its time limit has failed and is not followed.
Call(c) == /\ ready = "received"
           /\ calling = "none" /\ Test!Checked
           /\ calling' = c
           /\ Server!Request(c)
           /\ UNCHANGED <<test, listener, ready>>

\* The handler of the call; made is the history of what was told.
Handle(c) == /\ Server!Handler(c)
             /\ made' = IF loop' = loop THEN made ELSE Append(made, EventOf(c))
             /\ UNCHANGED <<onTheWay, list, expectations, expectationIndex, accepted>>
             /\ UNCHANGED <<listener, ready, calling>>

Publish == /\ Server!PublishTestEvent
           /\ onTheWay' = IF listener = "subscribed" THEN Append(onTheWay, EventOf(loop))
                                                     ELSE onTheWay
           /\ UNCHANGED <<made, list, expectations, expectationIndex, accepted>>
           /\ UNCHANGED <<listener, ready, calling>>

\* The call has returned without an error.
Returned == calling # "none" /\ pc[calling] = "done"

Expect == /\ Returned
          /\ Test!Expect
          /\ calling' = "none"
          /\ UNCHANGED <<server, listener, ready>>

Check == /\ Test!CheckExpectations
         /\ UNCHANGED <<server, listener, ready, calling>>

Add == /\ Test!Add
       /\ UNCHANGED <<server, listener, ready, calling>>

\* The streams the test opens, which stay until it ends.
Receive(s) == /\ Server!Serve(s) \/ Server!Worker(s)
              /\ UNCHANGED <<test, listener, ready, calling>>
-----------------------------------------------------------------------------
SetUp == Connect \/ Subscribe \/ PublishReady \/ AddReady

Next == \/ SetUp
        \/ \E c \in Calls : Call(c) \/ Handle(c)
        \/ Publish \/ Add \/ Expect \/ Check
        \/ \E s \in Streams : Receive(s)

Spec == Init /\ [][Next]_vars

FairSpec == /\ Spec
            /\ WF_vars(\E c \in Calls : Handle(c))
            /\ WF_vars(Publish)
            /\ WF_vars(Add)
            /\ WF_vars(Expect)
            /\ WF_vars(Check)
            /\ WF_vars(\E s \in Streams : Receive(s))
-----------------------------------------------------------------------------
\* The tests are told about their own calls: the k-th success stands for the event of
\* the k-th call, its type included, which the expectation never compares.
InStep == \A k \in DOMAIN accepted : accepted[k] = [wants |-> made[k], got |-> made[k]]

\* A test does not hang in a call or in its polling: what it has done is found in the
\* end, however late the server tells of it.
ExpectationsMet == \A k \in 1..Cardinality(Calls) : Len(made) >= k ~> Len(accepted) >= k

\* What the loop of the server holds is on its way as well.
Pending == IF loop = "idle" THEN <<>> ELSE <<EventOf(loop)>>

Abstract == INSTANCE TestEvents WITH MaxCalls <- Cardinality(Calls),
                                     onTheWay <- onTheWay \o Pending

\* With the server between, a call and its test event are still one step for the
\* test: none is lost, doubled or late enough to meet the expectation of another.
ImplementsTestEvents == Abstract!Spec
=============================================================================
