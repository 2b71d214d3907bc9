------------------------ MODULE IntegrationTestProofs ------------------------
(***************************************************************************)
(* Proofs about a test against the test server, for any calls, streams and *)
(* capacity: it implements TestEvents, and each expectation is met by the  *)
(* event of its own call.                                                  *)
(***************************************************************************)
EXTENDS IntegrationTest, FiniteSetTheorems, TLAPS

TestEvent == Test!TestEvent

PC == {"new", "tell", "enqueue", "reply", "done"}

TypeInv == /\ pc \in [Calls -> PC]
           /\ loop \in Calls \cup {"idle"}
           /\ calling \in Calls \cup {"none"}
           /\ made \in Seq(TestEvent)
           /\ accepted \in Seq([wants : TestEvent, got : TestEvent])

\* There are no calls before the ready event was received, so the listener is there.
SetUpInv == /\ ready \in {"sent", "received"} => listener = "subscribed"
            /\ ready # "received" => calling = "none" /\ made = <<>>

\* The calls the loop was told of.
Told == {d \in Calls : pc[d] \in {"reply", "done"} \cup
                                 (IF OpOf[d] = "delete" THEN {"enqueue"} ELSE {})}

\* One call at a time, each told of once.
CallInv == /\ \A d \in Calls : d # calling => pc[d] \in {"new", "done"}
           /\ calling # "none" => pc[calling] # "new"
           /\ \A d \in Calls : pc[d] = "enqueue" => OpOf[d] \in {"delete", "send"}
           /\ Len(made) = Cardinality(Told)

\* Nothing is left of the calls before, and the one the test is in was not told of yet.
Settled == /\ Len(made) = Len(accepted)
           /\ list = <<>> /\ onTheWay = <<>> /\ loop = "idle"
           /\ expectations = <<>> /\ expectationIndex = 0
           /\ calling \notin Told

LastMade == made[Len(made)]

\* One test event is somewhere on its way from the server to the check that takes it.
Open == /\ Len(made) = Len(accepted) + 1
        /\ \/ list = <<LastMade>> /\ onTheWay = <<>> /\ loop = "idle"
           \/ list = <<>> /\ onTheWay = <<LastMade>> /\ loop = "idle"
           \/ list = <<>> /\ onTheWay = <<>> /\ loop # "idle" /\ EventOf(loop) = LastMade
        /\ \/ calling \in Told /\ expectations = <<>> /\ expectationIndex = 0
           \/ /\ calling = "none"
              /\ expectations = <<[index |-> 0, wants |-> LastMade]>>
              /\ expectationIndex = 1

IInv == TypeInv /\ SetUpInv /\ CallInv /\ (Settled \/ Open) /\ InStep

-----------------------------------------------------------------------------
LEMMA Single ==
  ASSUME NEW e
  PROVE  /\ Append(<<>>, e) = <<e>> /\ <<e>> # <<>>
         /\ Head(<<e>>) = e /\ Tail(<<e>>) = <<>>
         /\ Len(<<e>>) = 1 /\ <<e>>[1] = e /\ DOMAIN <<e>> = {1}
         /\ <<e>> \o <<>> = <<e>> /\ <<>> \o <<e>> = <<e>> /\ <<>> \o <<>> = <<>>
  OBVIOUS

LEMMA Appended ==
  ASSUME NEW S, NEW q \in Seq(S), NEW e \in S
  PROVE  /\ Append(q, e) \in Seq(S) /\ q \o <<e>> = Append(q, e)
         /\ Len(q) \in Nat /\ DOMAIN q = 1..Len(q)
         /\ Len(Append(q, e)) = Len(q) + 1
         /\ DOMAIN Append(q, e) = 1..(Len(q) + 1)
         /\ Append(q, e)[Len(q) + 1] = e
         /\ \A i \in 1..Len(q) : Append(q, e)[i] = q[i]
  OBVIOUS

LEMMA EventType == \A c \in Calls : EventOf(c) \in TestEvent
  BY TestAssumption DEF EventOf, TestEvent, Test!TestEvent, Test!EvType

LEMMA InitIInv == Init => IInv
<1> SUFFICES ASSUME Init PROVE IInv
  OBVIOUS
<1>1. TypeInv
  BY DEF Init, Server!Init, Test!Init, TypeInv, PC
<1>2. SetUpInv
  BY DEF Init, Test!Init, SetUpInv
<1>3. Told = {}
  BY DEF Init, Server!Init, Told
<1>4. CallInv
  BY <1>3, FS_EmptySet DEF Init, Server!Init, Test!Init, CallInv
<1>5. Settled
  BY <1>3 DEF Init, Server!Init, Test!Init, Settled
<1>6. InStep
  BY DEF Init, Test!Init, InStep
<1> QED BY <1>1, <1>2, <1>4, <1>5, <1>6 DEF IInv

\* What none of the variables of the books notices.
LEMMA Unnoticed ==
  ASSUME IInv, UNCHANGED <<loop, made, onTheWay, list, expectations, expectationIndex, accepted>>,
         Told' = Told,
         \/ calling' = calling
         \/ Settled /\ calling' \notin Told
  PROVE  (Settled \/ Open)' /\ InStep'
<1>1. InStep'
  BY DEF IInv, InStep
<1>2. CASE Settled
  <2>1. calling' \notin Told'
    BY <1>2 DEF Settled
  <2> QED BY <1>1, <1>2, <2>1 DEF Settled
<1>3. CASE Open /\ calling' = calling
  <2>1. LastMade' = LastMade
    BY DEF LastMade
  <2>2. EventOf(loop)' = EventOf(loop)
    BY DEF EventOf
  <2>3. \/ list' = <<LastMade>>' /\ onTheWay' = <<>> /\ loop' = "idle"
        \/ list' = <<>> /\ onTheWay' = <<LastMade>>' /\ loop' = "idle"
        \/ list' = <<>> /\ onTheWay' = <<>> /\ loop' # "idle" /\ EventOf(loop)' = LastMade'
    BY <1>3, <2>1, <2>2 DEF Open
  <2> QED BY <1>1, <1>3, <2>1, <2>3 DEF Open
<1> QED BY <1>1, <1>2, <1>3 DEF IInv

LEMMA SetUpStep ==
  ASSUME IInv, SetUp
  PROVE  IInv'
<1>1. UNCHANGED <<server, test, calling>>
  BY DEF SetUp, Connect, Subscribe, PublishReady, AddReady
<1>2. TypeInv' /\ CallInv' /\ Told' = Told
  BY <1>1 DEF IInv, TypeInv, CallInv, Told, server, test
<1>3. SetUpInv'
  BY <1>1 DEF SetUp, Connect, Subscribe, PublishReady, AddReady, IInv, SetUpInv, test
<1>4. (Settled \/ Open)' /\ InStep'
  BY <1>1, <1>2, Unnoticed DEF server, test
<1> QED BY <1>2, <1>3, <1>4 DEF IInv

LEMMA CallStep ==
  ASSUME IInv, NEW c \in Calls, Call(c)
  PROVE  IInv'
<1>1. /\ ready = "received" /\ calling = "none" /\ calling' = c /\ Len(accepted) = Len(made)
      /\ pc[c] = "new"
      /\ pc' = [pc EXCEPT ![c] = IF OpOf[c] = "send" THEN "enqueue" ELSE "tell"]
      /\ UNCHANGED <<loop, test, listener, ready>>
  BY DEF Call, Test!Checked, Server!Request, Server!First
<1>2. pc' \in [Calls -> PC] /\ \A d \in Calls \ {c} : pc'[d] = pc[d]
  BY <1>1 DEF IInv, TypeInv, PC
<1>3. pc'[c] = IF OpOf[c] = "send" THEN "enqueue" ELSE "tell"
  BY <1>1 DEF IInv, TypeInv
<1>4. c \notin Told /\ c \notin Told'
  BY <1>1, <1>3 DEF Told
<1>5. Told' = Told
  BY <1>2, <1>4 DEF Told
<1>6. Settled
  <2>1. Len(accepted) \in Nat
    BY DEF IInv, TypeInv
  <2> QED BY <1>1, <2>1 DEF IInv, Open
<1>7. TypeInv'
  BY <1>1, <1>2 DEF IInv, TypeInv, test
<1>8. SetUpInv'
  BY <1>1 DEF IInv, SetUpInv
<1>9. CallInv'
  <2>1. \A d \in Calls \ {c} : pc[d] \in {"new", "done"}
    BY <1>1, TestAssumption DEF IInv, CallInv
  <2>2. \A d \in Calls : pc'[d] = "enqueue" => OpOf[d] \in {"delete", "send"}
    BY <1>2, <1>3 DEF IInv, CallInv
  <2>3. Len(made') = Cardinality(Told')
    BY <1>1, <1>5 DEF IInv, CallInv, test
  <2> QED BY <1>1, <1>2, <1>3, <2>1, <2>2, <2>3 DEF CallInv
<1>10. (Settled \/ Open)' /\ InStep'
  BY <1>1, <1>4, <1>5, <1>6, Unnoticed DEF test
<1> QED BY <1>7, <1>8, <1>9, <1>10 DEF IInv

\* The loop is told of the call the test is in.
LEMMA TellStep ==
  ASSUME IInv, NEW c \in Calls, Server!Tell(c), Handle(c)
  PROVE  /\ IInv'
         /\ Settled /\ loop' = c /\ made' = Append(made, EventOf(c))
         /\ Len(made) < Cardinality(Calls)
<1>1. /\ pc[c] = "tell" /\ loop = "idle" /\ loop' = c
      /\ pc' = [pc EXCEPT ![c] = Server!Second(c)]
      /\ made' = Append(made, EventOf(c))
      /\ UNCHANGED <<onTheWay, list, expectations, expectationIndex, accepted>>
      /\ UNCHANGED <<listener, ready, calling>>
  BY TestAssumption DEF Server!Tell, Handle
<1>2. Server!Second(c) = IF OpOf[c] = "delete" THEN "enqueue" ELSE "reply"
  BY <1>1 DEF Server!Second
<1>3. /\ pc' \in [Calls -> PC] /\ pc'[c] = Server!Second(c)
      /\ \A d \in Calls \ {c} : pc'[d] = pc[d]
  BY <1>1, <1>2 DEF IInv, TypeInv, PC
<1>4. calling = c
  BY <1>1 DEF IInv, CallInv
<1>5. c \notin Told /\ c \in Told'
  BY <1>1, <1>2, <1>3 DEF Told
<1>6. Told' = Told \cup {c}
  BY <1>3, <1>5 DEF Told
<1>7. Settled
  BY <1>4, <1>5, TestAssumption DEF IInv, Open
<1>8. /\ made' \in Seq(TestEvent) /\ Len(made') = Len(made) + 1 /\ Len(made) \in Nat
      /\ made'[Len(made')] = EventOf(c)
      /\ \A i \in 1..Len(made) : made'[i] = made[i]
  BY <1>1, EventType, Appended DEF IInv, TypeInv
<1>9. /\ Cardinality(Told') = Cardinality(Told) + 1
      /\ Cardinality(Told') <= Cardinality(Calls) /\ Cardinality(Calls) \in Nat
  <2>1. Told \in SUBSET Calls /\ Told' \in SUBSET Calls
    BY DEF Told
  <2>2. IsFiniteSet(Told)
    BY <2>1, FS_Subset, TestAssumption
  <2>3. Cardinality(Told') = Cardinality(Told) + 1
    BY <1>5, <1>6, <2>2, FS_AddElement
  <2> QED BY <2>1, <2>3, FS_Subset, FS_CardinalityType, TestAssumption
<1>10. Len(made) < Cardinality(Calls)
  BY <1>8, <1>9 DEF IInv, CallInv
<1>11. TypeInv'
  BY <1>1, <1>3, <1>8 DEF IInv, TypeInv
<1>12. SetUpInv'
  BY <1>1, <1>4, TestAssumption DEF IInv, SetUpInv
<1>13. CallInv'
  BY <1>1, <1>2, <1>3, <1>4, <1>8, <1>9 DEF IInv, CallInv
<1>14. Open'
  <2>1. Len(made') = Len(accepted') + 1
    BY <1>1, <1>7, <1>8 DEF Settled
  <2>2. list' = <<>> /\ onTheWay' = <<>> /\ loop' # "idle" /\ EventOf(loop') = LastMade'
    BY <1>1, <1>7, <1>8, TestAssumption DEF Settled, LastMade
  <2>3. calling' \in Told' /\ expectations' = <<>> /\ expectationIndex' = 0
    BY <1>1, <1>4, <1>5, <1>7 DEF Settled
  <2> QED BY <2>1, <2>2, <2>3 DEF Open, EventOf
<1>15. InStep'
  <2>1. DOMAIN accepted = 1..Len(made)
    BY <1>7 DEF IInv, TypeInv, Settled
  <2> QED BY <1>1, <1>8, <2>1 DEF IInv, InStep
<1> QED BY <1>1, <1>7, <1>10, <1>11, <1>12, <1>13, <1>14, <1>15 DEF IInv

LEMMA EnqueueReplyStep ==
  ASSUME IInv, NEW c \in Calls, Server!Enqueue(c) \/ Server!Reply(c), Handle(c)
  PROVE  IInv' /\ UNCHANGED <<loop, test>>
<1>1. /\ UNCHANGED <<loop, made, onTheWay, list, expectations, expectationIndex, accepted>>
      /\ UNCHANGED <<listener, ready, calling>>
  BY DEF Server!Enqueue, Server!Reply, Handle
<1>2. \/ pc[c] = "enqueue" /\ pc' = [pc EXCEPT ![c] = IF OpOf[c] = "send" THEN "tell" ELSE "reply"]
      \/ pc[c] = "reply" /\ pc' = [pc EXCEPT ![c] = "done"]
  BY DEF Server!Enqueue, Server!Reply, Server!Second
<1>3. /\ pc' \in [Calls -> PC] /\ \A d \in Calls \ {c} : pc'[d] = pc[d]
      /\ \/ pc[c] = "enqueue" /\ pc'[c] = IF OpOf[c] = "send" THEN "tell" ELSE "reply"
         \/ pc[c] = "reply" /\ pc'[c] = "done"
  BY <1>2 DEF IInv, TypeInv, PC
<1>4. c \in Told' <=> c \in Told
  <2>1. CASE pc[c] = "enqueue"
    <3>1. OpOf[c] \in {"delete", "send"}
      BY <2>1 DEF IInv, CallInv
    <3> QED BY <1>3, <2>1, <3>1 DEF Told
  <2>2. CASE pc[c] = "reply"
    BY <1>3, <2>2 DEF Told
  <2> QED BY <1>3, <2>1, <2>2
<1>5. Told' = Told
  BY <1>3, <1>4 DEF Told
<1>6. TypeInv' /\ SetUpInv'
  BY <1>1, <1>3 DEF IInv, TypeInv, SetUpInv
<1>7. calling = c
  BY <1>3 DEF IInv, CallInv
<1>8. CallInv'
  BY <1>1, <1>3, <1>5, <1>7 DEF IInv, CallInv
<1>9. (Settled \/ Open)' /\ InStep'
  BY <1>1, <1>5, Unnoticed
<1> QED BY <1>1, <1>6, <1>8, <1>9 DEF IInv, test

LEMMA ReceiveStep ==
  ASSUME IInv, NEW s \in Streams, Receive(s)
  PROVE  IInv' /\ UNCHANGED <<loop, test>>
<1>1. UNCHANGED <<pc, loop, test, listener, ready, calling>>
  BY DEF Receive, Server!Serve, Server!Worker, Server!Open, Server!Subscribe, Server!Take,
         Server!MakePayload, Server!Stop, Server!Publish
<1>2. TypeInv' /\ SetUpInv' /\ CallInv' /\ Told' = Told
  BY <1>1 DEF IInv, TypeInv, SetUpInv, CallInv, Told, test
<1>3. (Settled \/ Open)' /\ InStep'
  BY <1>1, <1>2, Unnoticed DEF test
<1> QED BY <1>1, <1>2, <1>3 DEF IInv

\* The test event of the last call moves on: from the loop to the listener, from there
\* to the list.
LEMMA MoveStep ==
  ASSUME IInv, Publish \/ Add
  PROVE  /\ IInv'
         /\ Publish => UNCHANGED Abstract!vars
         /\ Add => onTheWay = <<LastMade>> /\ list = <<>> /\ loop = "idle"
<1>1. UNCHANGED <<pc, made, expectations, expectationIndex, accepted, listener, ready, calling>>
  BY DEF Publish, Add, Server!PublishTestEvent, Test!Add, server
<1>2. Open
  <2>1. CASE Publish
    BY <2>1 DEF Publish, Server!PublishTestEvent, IInv, Settled
  <2>2. CASE Add
    BY <2>2 DEF Add, Test!Add, IInv, Settled
  <2> QED BY <2>1, <2>2
<1>3. listener = "subscribed"
  <2>1. made # <<>>
    BY <1>2 DEF IInv, TypeInv, Open
  <2> QED BY <2>1 DEF IInv, SetUpInv
<1>4. TypeInv' /\ SetUpInv' /\ CallInv' /\ Told' = Told /\ LastMade' = LastMade
  <2>1. loop' \in Calls \cup {"idle"}
    BY DEF Publish, Add, Server!PublishTestEvent, IInv, TypeInv, server
  <2> QED BY <1>1, <2>1 DEF IInv, TypeInv, SetUpInv, CallInv, Told, LastMade
<1>5. CASE Publish
  <2>1. /\ loop # "idle" /\ loop' = "idle" /\ UNCHANGED list
        /\ onTheWay' = Append(onTheWay, EventOf(loop))
    BY <1>3, <1>5 DEF Publish, Server!PublishTestEvent
  <2>2. list = <<>> /\ onTheWay = <<>> /\ EventOf(loop) = LastMade
    BY <1>2, <2>1 DEF Open
  <2>3. onTheWay' = <<LastMade>>
    BY <2>1, <2>2, Single
  <2>4. Open'
    BY <1>1, <1>2, <1>4, <2>1, <2>2, <2>3 DEF Open
  <2>5. onTheWay \o Pending = <<LastMade>> /\ (onTheWay \o Pending)' = <<LastMade>>
    BY <2>1, <2>2, <2>3, Single DEF Pending
  <2>6. UNCHANGED Abstract!vars
    BY <1>1, <2>1, <2>5 DEF Abstract!vars
  <2>7. ~Add
    BY <2>2 DEF Add, Test!Add
  <2> QED BY <1>1, <1>4, <2>4, <2>6, <2>7 DEF IInv, InStep
<1>6. CASE Add
  <2>1. /\ onTheWay # <<>> /\ UNCHANGED loop
        /\ list' = Append(list, Head(onTheWay)) /\ onTheWay' = Tail(onTheWay)
    BY <1>6 DEF Add, Test!Add, server
  <2>2. onTheWay = <<LastMade>> /\ list = <<>> /\ loop = "idle"
    BY <1>2, <2>1 DEF Open
  <2>3. list' = <<LastMade>> /\ onTheWay' = <<>>
    BY <2>1, <2>2, Single
  <2>4. Open'
    BY <1>1, <1>2, <1>4, <2>1, <2>2, <2>3 DEF Open
  <2>5. ~Publish
    BY <2>2 DEF Publish, Server!PublishTestEvent
  <2> QED BY <1>1, <1>4, <2>2, <2>4, <2>5 DEF IInv, InStep
<1> QED BY <1>5, <1>6

LEMMA ExpectStep ==
  ASSUME IInv, Expect
  PROVE  IInv'
<1>1. /\ calling # "none" /\ pc[calling] = "done" /\ calling' = "none"
      /\ Len(accepted) + Len(expectations) < Len(made)
      /\ expectations' = Append(expectations,
             [index |-> expectationIndex, wants |-> made[Len(accepted) + Len(expectations) + 1]])
      /\ expectationIndex' = expectationIndex + 1
      /\ UNCHANGED <<pc, loop, made, onTheWay, list, accepted, listener, ready>>
  BY DEF Expect, Returned, Test!Expect, Test!Noted, server
<1>2. Len(accepted) \in Nat
  BY DEF IInv, TypeInv
<1>3. Open /\ expectations = <<>> /\ expectationIndex = 0
  <2>1. expectations = <<>> => Len(expectations) = 0
    OBVIOUS
  <2> QED BY <1>1, <1>2, <2>1 DEF IInv, Settled, Open
<1>4. expectations' = <<[index |-> 0, wants |-> LastMade]>> /\ expectationIndex' = 1
  <2>1. Len(expectations) = 0 /\ Len(made) = Len(accepted) + 1
    BY <1>3 DEF Open
  <2>2. Len(accepted) + Len(expectations) + 1 = Len(made)
    BY <1>2, <2>1
  <2> QED BY <1>1, <1>3, <2>2, Single DEF LastMade
<1>5. TypeInv' /\ SetUpInv'
  BY <1>1 DEF IInv, TypeInv, SetUpInv
<1>6. CallInv' /\ Told' = Told
  <2>1. \A d \in Calls : pc[d] \in {"new", "done"}
    BY <1>1 DEF IInv, CallInv
  <2>2. Told' = Told
    BY <1>1 DEF Told
  <2> QED BY <1>1, <2>1, <2>2 DEF IInv, CallInv
<1>7. Open'
  <2>1. LastMade' = LastMade
    BY <1>1 DEF LastMade
  <2> QED BY <1>1, <1>3, <1>4, <2>1 DEF Open, EventOf
<1> QED BY <1>1, <1>5, <1>6, <1>7 DEF IInv, InStep

\* A check that succeeds has found the event of the last call.
LEMMA CheckStep ==
  ASSUME IInv, Check
  PROVE  IInv' /\ onTheWay = <<>> /\ loop = "idle"
<1>1. /\ expectations # <<>>
      /\ \A k \in DOMAIN expectations : Test!Met(expectations[k])
      /\ accepted' = accepted \o Test!Matched
      /\ list' = <<>> /\ expectations' = <<>> /\ expectationIndex' = 0
      /\ UNCHANGED <<pc, loop, made, onTheWay, listener, ready, calling>>
  BY DEF Check, Test!CheckExpectations, server
<1>2. /\ Open /\ calling = "none"
      /\ expectations = <<[index |-> 0, wants |-> LastMade]>>
  BY <1>1 DEF IInv, Settled, Open
<1>3. /\ DOMAIN expectations = {1}
      /\ expectations[1] = [index |-> 0, wants |-> LastMade]
  BY <1>2, Single
<1>4. list = <<LastMade>> /\ onTheWay = <<>> /\ loop = "idle"
  <2>1. 0 < Len(list)
    BY <1>1, <1>3 DEF Test!Met
  <2>2. list # <<>>
    BY <2>1
  <2> QED BY <1>2, <2>2 DEF Open
<1>5. Test!Matched = <<[wants |-> LastMade, got |-> LastMade]>>
  <2>1. Test!Matched = [k \in {1} |-> [wants |-> LastMade, got |-> list[1]]]
    BY <1>3 DEF Test!Matched
  <2> QED BY <1>4, <2>1, Single
<1>6. LastMade \in TestEvent /\ Len(made) = Len(accepted) + 1
  BY <1>2 DEF IInv, TypeInv, Open, LastMade
<1>7. /\ accepted' \in Seq([wants : TestEvent, got : TestEvent])
      /\ DOMAIN accepted' = 1..Len(made) /\ Len(accepted') = Len(made)
      /\ DOMAIN accepted = 1..Len(accepted) /\ Len(accepted) \in Nat
      /\ accepted'[Len(accepted) + 1] = [wants |-> LastMade, got |-> LastMade]
      /\ \A i \in 1..Len(accepted) : accepted'[i] = accepted[i]
  <2> DEFINE m == [wants |-> LastMade, got |-> LastMade]
  <2>1. accepted \in Seq([wants : TestEvent, got : TestEvent]) /\ m \in [wants : TestEvent, got : TestEvent]
    BY <1>6 DEF IInv, TypeInv
  <2>2. accepted' = accepted \o <<m>>
    BY <1>1, <1>5
  <2> HIDE DEF m
  <2>3. accepted' = Append(accepted, m)
    BY <2>1, <2>2, Appended
  <2> QED BY <1>6, <2>1, <2>3, Appended DEF m
<1>8. TypeInv' /\ SetUpInv' /\ CallInv' /\ Told' = Told
  BY <1>1, <1>7 DEF IInv, TypeInv, SetUpInv, CallInv, Told
<1>9. Settled'
  BY <1>1, <1>2, <1>4, <1>7, <1>8, TestAssumption DEF Settled, Told
<1>10. InStep'
  <2>1. \A k \in 1..Len(accepted) : accepted[k] = [wants |-> made[k], got |-> made[k]]
    BY <1>7 DEF IInv, InStep
  <2>2. ASSUME NEW k \in 1..(Len(accepted) + 1)
        PROVE  accepted'[k] = [wants |-> made[k], got |-> made[k]]
    <3>1. CASE k = Len(accepted) + 1
      BY <1>6, <1>7, <3>1 DEF LastMade
    <3>2. CASE k # Len(accepted) + 1
      <4>1. k \in 1..Len(accepted)
        BY <1>7, <2>2, <3>2
      <4> QED BY <1>7, <2>1, <4>1
    <3> QED BY <3>1, <3>2
  <2> QED BY <1>1, <1>6, <1>7, <2>2 DEF InStep
<1> QED BY <1>4, <1>8, <1>9, <1>10 DEF IInv

LEMMA NextIInv == IInv /\ [Next]_vars => IInv'
<1> SUFFICES ASSUME IInv, [Next]_vars PROVE IInv'
  OBVIOUS
<1>1. CASE UNCHANGED vars
  <2>1. UNCHANGED <<pc, loop, made, onTheWay, list, expectations, expectationIndex, accepted,
                    listener, ready, calling>>
    BY <1>1 DEF vars, server, test
  <2>2. TypeInv' /\ SetUpInv' /\ CallInv' /\ Told' = Told
    BY <2>1 DEF IInv, TypeInv, SetUpInv, CallInv, Told
  <2> QED BY <2>1, <2>2, Unnoticed DEF IInv
<1>2. ASSUME NEW c \in Calls, Handle(c) PROVE IInv'
  BY <1>2, TellStep, EnqueueReplyStep DEF Handle, Server!Handler
<1> QED BY <1>1, <1>2, SetUpStep, CallStep, ReceiveStep, MoveStep, ExpectStep, CheckStep DEF Next

\* Each expectation is met by the test event of its own call, the type included, though
\* the loop publishes it while or after the call returns.
THEOREM InStepCorrect == Spec => []InStep
<1>1. IInv => InStep
  BY DEF IInv
<1> QED BY <1>1, InitIInv, NextIInv, PTL DEF Spec

-----------------------------------------------------------------------------
(***************************************************************************)
(* Types.  What the test has is typed because it is nothing or the event   *)
(* of the last call, which IInv says; what the server has, because only    *)
(* handlers with an event to put into a channel get to do so.              *)
(***************************************************************************)
ServerInv == /\ Server!TypeOK
             /\ listener \in {"new", "connected", "subscribed"}
             /\ ready \in {"none", "due", "sent", "lost", "received"}

LEMMA TestTyped == IInv => Test!TypeOK
<1> SUFFICES ASSUME IInv PROVE Test!TypeOK
  OBVIOUS
<1>1. made \in Seq(Test!TestEvent) /\ accepted \in Seq([wants : Test!TestEvent, got : Test!TestEvent])
  BY DEF IInv, TypeInv, TestEvent
<1>2. CASE Settled
  BY <1>1, <1>2 DEF Settled, Test!TypeOK
<1>3. CASE Open
  <2> DEFINE x == [index |-> 0, wants |-> LastMade]
  <2>1. LastMade \in Test!TestEvent
    <3>1. Len(made) \in 1..Len(made)
      BY <1>1, <1>3 DEF Open
    <3> QED BY <1>1, <3>1 DEF LastMade
  <2>2. list \in Seq(Test!TestEvent) /\ onTheWay \in Seq(Test!TestEvent)
    <3>1. <<>> \in Seq(Test!TestEvent) /\ <<LastMade>> \in Seq(Test!TestEvent)
      BY <2>1
    <3> QED BY <1>3, <3>1 DEF Open
  <2>3. x \in Test!Expectation
    BY <2>1 DEF Test!Expectation
  <2>4. x.index = 0
    OBVIOUS
  <2> HIDE DEF x
  <2>5. /\ <<>> \in Seq(Test!Expectation) /\ <<x>> \in Seq(Test!Expectation)
        /\ Len(<<>>) = 0 /\ DOMAIN <<>> = {}
        /\ Len(<<x>>) = 1 /\ DOMAIN <<x>> = {1} /\ <<x>>[1] = x
    BY <2>3
  <2>6. \/ expectations = <<>> /\ expectationIndex = 0
        \/ expectations = <<x>> /\ expectationIndex = 1
    BY <1>3 DEF Open, x
  <2>7. /\ expectations \in Seq(Test!Expectation)
        /\ expectationIndex = Len(expectations)
        /\ \A k \in DOMAIN expectations : expectations[k].index = k - 1
    <3>1. CASE expectations = <<>> /\ expectationIndex = 0
      BY <2>5, <3>1
    <3>2. CASE expectations = <<x>> /\ expectationIndex = 1
      <4>1. \A k \in DOMAIN expectations : k = 1 /\ expectations[k] = x
        BY <2>5, <3>2
      <4>2. \A k \in DOMAIN expectations : expectations[k].index = k - 1
        BY <2>4, <4>1
      <4> QED BY <2>5, <3>2, <4>2
    <3> QED BY <2>6, <3>1, <3>2
  <2> QED BY <1>1, <2>2, <2>7 DEF Test!TypeOK
<1> QED BY <1>2, <1>3 DEF IInv

LEMMA ServerInit == Init => ServerInv
<1> SUFFICES ASSUME Init PROVE ServerInv
  OBVIOUS
<1>1. Server!TypeOK
  BY TestAssumption DEF Init, Server!Init, Server!TypeOK
<1> QED BY <1>1 DEF Init, ServerInv

LEMMA HandlerTyped ==
  ASSUME IInv, Server!TypeOK, NEW c \in Calls, Server!Request(c) \/ Server!Handler(c)
  PROVE  Server!TypeOK'
<1> DEFINE PCs == {"new", "tell", "enqueue", "reply", "done"}
<1>1. Server!First(c) \in PCs /\ Server!Second(c) \in PCs
  BY DEF Server!First, Server!Second
<1> HIDE DEF PCs
<1>2. pc \in [Calls -> PCs]
  BY DEF Server!TypeOK, PCs
<1>3. CASE Server!Request(c) \/ Server!Tell(c) \/ Server!Reply(c)
  <2>1. pc' \in [Calls -> PCs] /\ loop' \in Calls \cup {"idle"}
    BY <1>1, <1>2, <1>3 DEF Server!Request, Server!Tell, Server!Reply, Server!TypeOK, PCs
  <2>2. UNCHANGED <<channel, queued, stream, worker, payload, delivered, lost>>
    BY <1>3 DEF Server!Request, Server!Tell, Server!Reply
  <2> QED BY <2>1, <2>2 DEF Server!TypeOK, PCs
<1>4. CASE Server!Enqueue(c)
  <2> DEFINE k == OpOf[c]
  <2>1. /\ pc[c] = "enqueue" /\ Len(channel[k]) < Capacity
        /\ channel' = [channel EXCEPT ![k] = Append(channel[k], c)]
        /\ queued' = [queued EXCEPT ![k] = Append(queued[k], c)]
        /\ pc' = [pc EXCEPT ![c] = Server!Second(c)]
        /\ UNCHANGED <<loop, stream, worker, payload, delivered, lost>>
    BY <1>4 DEF Server!Enqueue
  <2>2. k \in Server!Kinds /\ c \in Server!Eventful
    BY <2>1 DEF IInv, CallInv, Server!Kinds, Server!Eventful
  <2>3. channel[k] \in Seq(Server!Eventful) /\ queued[k] \in Seq(Server!Eventful)
    BY <2>2 DEF Server!TypeOK
  <2>4. /\ Append(channel[k], c) \in Seq(Server!Eventful)
        /\ Append(queued[k], c) \in Seq(Server!Eventful)
        /\ Len(Append(channel[k], c)) = Len(channel[k]) + 1 /\ Len(channel[k]) \in Nat
    BY <2>2, <2>3, Appended
  <2>5. Len(Append(channel[k], c)) <= Capacity
    BY <2>1, <2>4, TestAssumption
  <2>6. /\ channel' \in [Server!Kinds -> Seq(Server!Eventful)]
        /\ queued' \in [Server!Kinds -> Seq(Server!Eventful)]
        /\ \A h \in Server!Kinds : Len(channel'[h]) <= Capacity
    BY <2>1, <2>2, <2>4, <2>5 DEF Server!TypeOK
  <2>7. pc' \in [Calls -> PCs]
    BY <1>1, <1>2, <2>1
  <2> QED BY <2>1, <2>6, <2>7 DEF Server!TypeOK, PCs
<1> QED BY <1>3, <1>4 DEF Server!Handler

LEMMA WorkerTyped ==
  ASSUME Server!TypeOK, NEW s \in Streams, Server!Serve(s) \/ Server!Worker(s)
  PROVE  Server!TypeOK'
<1>1. CASE Server!Serve(s) \/ Server!Stop(s)
  BY <1>1 DEF Server!Serve, Server!Open, Server!Subscribe, Server!Stop, Server!TypeOK
<1>2. CASE Server!MakePayload(s)
  BY <1>2 DEF Server!MakePayload, Server!TypeOK
<1>3. ASSUME NEW k \in Server!Kinds, Server!Take(s, k) PROVE Server!TypeOK'
  <2>1. /\ channel[k] # <<>>
        /\ worker' = [worker EXCEPT ![s] = Head(channel[k])]
        /\ channel' = [channel EXCEPT ![k] = Tail(channel[k])]
        /\ UNCHANGED <<pc, loop, queued, stream, payload, delivered, lost>>
    BY <1>3 DEF Server!Take
  <2>2. channel[k] \in Seq(Server!Eventful)
    BY DEF Server!TypeOK
  <2>3. /\ Head(channel[k]) \in Server!Eventful /\ Tail(channel[k]) \in Seq(Server!Eventful)
        /\ Len(Tail(channel[k])) = Len(channel[k]) - 1 /\ Len(channel[k]) \in Nat
    BY <2>1, <2>2
  <2>4. Len(Tail(channel[k])) <= Capacity
    BY <2>3, TestAssumption DEF Server!TypeOK
  <2>5. /\ channel' \in [Server!Kinds -> Seq(Server!Eventful)]
        /\ \A h \in Server!Kinds : Len(channel'[h]) <= Capacity
        /\ worker' \in [Streams -> Server!Eventful \cup {"none", "idle", "stopped"}]
    BY <2>1, <2>3, <2>4 DEF Server!TypeOK
  <2> QED BY <2>1, <2>5 DEF Server!TypeOK
<1>4. CASE Server!Publish(s)
  <2>1. /\ worker[s] \in Server!Eventful
        /\ worker' = [worker EXCEPT ![s] = "idle"]
        /\ UNCHANGED <<pc, loop, channel, queued, stream, payload>>
        /\ \/ /\ delivered' = [delivered EXCEPT ![s] = Append(delivered[s], worker[s])]
              /\ UNCHANGED lost
           \/ lost' = lost \cup {worker[s]} /\ UNCHANGED delivered
    BY <1>4 DEF Server!Publish, Server!Ready
  <2>2. Append(delivered[s], worker[s]) \in Seq(Server!Eventful)
    <3>1. delivered[s] \in Seq(Server!Eventful)
      BY DEF Server!TypeOK
    <3> QED BY <2>1, <3>1, Appended
  <2>3. /\ delivered' \in [Streams -> Seq(Server!Eventful)] /\ lost' \subseteq Server!Eventful
        /\ worker' \in [Streams -> Server!Eventful \cup {"none", "idle", "stopped"}]
    BY <2>1, <2>2 DEF Server!TypeOK
  <2> QED BY <2>1, <2>3 DEF Server!TypeOK
<1> QED BY <1>1, <1>2, <1>3, <1>4 DEF Server!Worker

LEMMA ServerNext == IInv /\ ServerInv /\ [Next]_vars => ServerInv'
<1> SUFFICES ASSUME IInv, ServerInv, [Next]_vars PROVE ServerInv'
  OBVIOUS
<1>1. ASSUME UNCHANGED server PROVE Server!TypeOK'
  BY <1>1 DEF ServerInv, Server!TypeOK, server
<1>2. CASE UNCHANGED vars
  BY <1>1, <1>2 DEF vars, ServerInv
<1>3. CASE SetUp
  <2>1. UNCHANGED server
    BY <1>3 DEF SetUp, Connect, Subscribe, PublishReady, AddReady
  <2> QED BY <1>1, <1>3, <2>1 DEF SetUp, Connect, Subscribe, PublishReady, AddReady, ServerInv
<1>4. ASSUME NEW c \in Calls, Call(c) \/ Handle(c) PROVE ServerInv'
  <2>1. UNCHANGED <<listener, ready>> /\ (Server!Request(c) \/ Server!Handler(c))
    BY <1>4 DEF Call, Handle
  <2> QED BY <2>1, HandlerTyped DEF ServerInv
<1>5. CASE Publish
  <2>1. /\ loop' = "idle" /\ UNCHANGED <<listener, ready>>
        /\ UNCHANGED <<pc, channel, queued, stream, worker, payload, delivered, lost>>
    BY <1>5 DEF Publish, Server!PublishTestEvent
  <2>2. Server!TypeOK'
    BY <2>1 DEF ServerInv, Server!TypeOK
  <2> QED BY <2>1, <2>2 DEF ServerInv
<1>6. CASE Add \/ Expect \/ Check
  BY <1>1, <1>6 DEF Add, Expect, Check, ServerInv
<1>7. ASSUME NEW s \in Streams, Receive(s) PROVE ServerInv'
  BY <1>7, WorkerTyped DEF Receive, ServerInv
<1> QED BY <1>2, <1>3, <1>4, <1>5, <1>6, <1>7 DEF Next

\* The test and the server are typed, the counters of the expectations included.
THEOREM TypeCorrect == Spec => []TypeOK
<1>1. IInv /\ ServerInv => TypeOK
  BY TestTyped DEF IInv, TypeInv, ServerInv, TypeOK
<1> QED BY <1>1, InitIInv, NextIInv, ServerInit, ServerNext, PTL DEF Spec
-----------------------------------------------------------------------------
LEMMA RefinementInit == Init => Abstract!Init
  BY Single DEF Init, Server!Init, Test!Init, Abstract!Init, Pending

LEMMA RefinementNext == IInv /\ [Next]_vars => [Abstract!Next]_(Abstract!vars)
<1> SUFFICES ASSUME IInv, [Next]_vars
             PROVE  Abstract!Next \/ UNCHANGED Abstract!vars
  OBVIOUS
<1>1. ASSUME UNCHANGED <<loop, test>>
      PROVE  UNCHANGED Abstract!vars
  BY <1>1 DEF test, Pending, EventOf, Abstract!vars
<1>2. CASE UNCHANGED vars
  BY <1>1, <1>2 DEF vars, server
<1>3. CASE SetUp
  BY <1>1, <1>3 DEF SetUp, Connect, Subscribe, PublishReady, AddReady, server
<1>4. ASSUME NEW c \in Calls, Call(c)
      PROVE  UNCHANGED Abstract!vars
  BY <1>1, <1>4 DEF Call, Server!Request
<1>5. ASSUME NEW c \in Calls, Handle(c)
      PROVE  Abstract!Next \/ UNCHANGED Abstract!vars
  <2>1. CASE Server!Tell(c)
    <3>1. /\ Settled /\ loop' = c /\ made' = Append(made, EventOf(c))
          /\ Len(made) < Cardinality(Calls)
      BY <1>5, <2>1, TellStep
    <3>2. UNCHANGED <<onTheWay, list, expectations, expectationIndex, accepted>>
      BY <1>5 DEF Handle
    <3>3. onTheWay \o Pending = <<>> /\ (onTheWay \o Pending)' = <<EventOf(c)>>
      BY <3>1, <3>2, Single, TestAssumption DEF Settled, Pending, EventOf
    <3>4. (onTheWay \o Pending)' = Append(onTheWay \o Pending, EventOf(c))
      BY <3>3, Single
    <3>5. EventOf(c) \in Abstract!TestEvent
      BY EventType DEF TestEvent, Test!TestEvent, Test!EvType, Abstract!TestEvent, Abstract!EvType
    <3> QED BY <3>1, <3>2, <3>4, <3>5 DEF Abstract!Next, Abstract!CallAPI, Abstract!Checked, Settled
  <2>2. CASE Server!Enqueue(c) \/ Server!Reply(c)
    BY <1>1, <1>5, <2>2, EnqueueReplyStep
  <2> QED BY <1>5, <2>1, <2>2 DEF Handle, Server!Handler
<1>6. CASE Publish
  BY <1>6, MoveStep
<1>7. CASE Add
  <2>1. onTheWay = <<LastMade>> /\ list = <<>> /\ loop = "idle"
    BY <1>7, MoveStep
  <2>2. /\ list' = Append(list, Head(onTheWay)) /\ onTheWay' = Tail(onTheWay)
        /\ UNCHANGED <<loop, made, expectations, expectationIndex, accepted>>
    BY <1>7 DEF Add, Test!Add, server
  <2>3. /\ onTheWay \o Pending = onTheWay /\ (onTheWay \o Pending)' = Tail(onTheWay)
        /\ onTheWay # <<>>
    BY <2>1, <2>2, Single DEF Pending
  <2> QED BY <2>2, <2>3 DEF Abstract!Next, Abstract!Add
<1>8. CASE Expect
  <2>1. /\ Test!Expect /\ UNCHANGED <<loop, onTheWay>>
        /\ (onTheWay \o Pending)' = onTheWay \o Pending
    BY <1>8 DEF Expect, Test!Expect, server, Pending, EventOf
  <2> QED BY <2>1 DEF Test!Expect, Test!Noted, Abstract!Next, Abstract!Expect, Abstract!Noted
<1>9. CASE Check
  <2>1. /\ Test!CheckExpectations /\ UNCHANGED <<loop, onTheWay>>
        /\ (onTheWay \o Pending)' = onTheWay \o Pending
    BY <1>9 DEF Check, Test!CheckExpectations, server, Pending, EventOf
  <2> QED BY <2>1 DEF Test!CheckExpectations, Test!Met, Test!Matched, Abstract!Next,
                     Abstract!CheckExpectations, Abstract!Met, Abstract!Matched
<1>10. ASSUME NEW s \in Streams, Receive(s)
       PROVE  UNCHANGED Abstract!vars
  BY <1>1, <1>10, ReceiveStep
<1> QED BY <1>2, <1>3, <1>4, <1>5, <1>6, <1>7, <1>8, <1>9, <1>10 DEF Next

\* With the server between a call and its test event, the two are still one step for
\* the test: none is lost, doubled, or late enough to meet the next expectation.
THEOREM ImplementsTestEventsCorrect == Spec => ImplementsTestEvents
<1>1. Init => Abstract!Init
  BY RefinementInit
<1>2. IInv /\ [Next]_vars => [Abstract!Next]_(Abstract!vars)
  BY RefinementNext
<1> QED BY <1>1, <1>2, InitIInv, NextIInv, PTL DEF Spec, ImplementsTestEvents, Abstract!Spec
=============================================================================
