----------------------------- MODULE TestEvents -----------------------------
(***************************************************************************)
(* The expectations of the integration tests (agriroutertestcontainer):    *)
(* the listener goroutine adds the test events of the server as they come  *)
(* in; the test goroutine calls the API, notes what it expects of the call *)
(* and polls CheckExpectations until that succeeds.  Here a call and its   *)
(* test event are one step; IntegrationTest has the server between them.   *)
(***************************************************************************)
EXTENDS Naturals, Sequences

CONSTANTS Data,      \* what test events carry
          MaxCalls   \* bound: API calls of one test

EvType    == {"putEndpoint", "deleteEndpoint", "sendMessages", "confirmMessages"}
TestEvent == [evType : EvType, data : Data]

VARIABLES made,              \* the test events of the API calls made so far
          onTheWay,          \* those published and not yet read by the listener
          list,              \* those received and not yet checked
          expectations,      \* each with the index it captured
          expectationIndex,
          accepted           \* what successful checks matched, in order

vars == <<made, onTheWay, list, expectations, expectationIndex, accepted>>

Expectation == [index : Nat, wants : TestEvent]

TypeOK == /\ made \in Seq(TestEvent)
          /\ onTheWay \in Seq(TestEvent)
          /\ list \in Seq(TestEvent)
          /\ expectations \in Seq(Expectation)
          /\ expectationIndex = Len(expectations)
          /\ \A k \in DOMAIN expectations : expectations[k].index = k - 1
          /\ accepted \in Seq([wants : TestEvent, got : TestEvent])

Init == /\ made = <<>>
        /\ onTheWay = <<>>
        /\ list = <<>>
        /\ expectations = <<>>
        /\ expectationIndex = 0
        /\ accepted = <<>>

Noted == Len(accepted) + Len(expectations)

\* The tests check each call before they make the next one.
Checked == Len(accepted) = Len(made)
-----------------------------------------------------------------------------
\* A call, with the test event it publishes.
CallAPI == /\ Checked
           /\ Len(made) < MaxCalls
           /\ \E e \in TestEvent : /\ made' = Append(made, e)
                                   /\ onTheWay' = Append(onTheWay, e)
           /\ UNCHANGED <<list, expectations, expectationIndex, accepted>>

\* add, called by listenForEvents.
Add == /\ onTheWay # <<>>
       /\ list' = Append(list, Head(onTheWay))
       /\ onTheWay' = Tail(onTheWay)
       /\ UNCHANGED <<made, expectations, expectationIndex, accepted>>

\* The test expects what its call has done.
Expect == /\ Noted < Len(made)
          /\ expectations' = Append(expectations,
                                    [index |-> expectationIndex, wants |-> made[Noted + 1]])
          /\ expectationIndex' = expectationIndex + 1
          /\ UNCHANGED <<made, onTheWay, list, accepted>>

\* The closure Expect makes: the data is compared, the type only logged.
Met(x) == /\ x.index < Len(list)
          /\ list[x.index + 1].data = x.wants.data

Matched == [k \in DOMAIN expectations |->
              [wants |-> expectations[k].wants, got |-> list[expectations[k].index + 1]]]

\* Fault: the index goes on where the cleared expectations ended.
CheckKeepingIndex == /\ expectations # <<>>
                     /\ \A k \in DOMAIN expectations : Met(expectations[k])
                     /\ accepted' = accepted \o Matched
                     /\ list' = <<>>
                     /\ expectations' = <<>>
                     /\ UNCHANGED <<made, onTheWay, expectationIndex>>

\* Fault: the events stay when the expectations are cleared.
CheckKeepingList == /\ expectations # <<>>
                    /\ \A k \in DOMAIN expectations : Met(expectations[k])
                    /\ accepted' = accepted \o Matched
                    /\ expectations' = <<>>
                    /\ expectationIndex' = 0
                    /\ UNCHANGED <<made, onTheWay, list>>

\* A check that fails changes nothing. One that succeeds clears all three, the
\* events no expectation was compared with included. Tests expect before they check.
CheckExpectations == /\ expectations # <<>>
                     /\ \A k \in DOMAIN expectations : Met(expectations[k])
                     /\ accepted' = accepted \o Matched
                     /\ list' = <<>>
                     /\ expectations' = <<>>
                     /\ expectationIndex' = 0
                     /\ UNCHANGED <<made, onTheWay>>
-----------------------------------------------------------------------------
Next == CallAPI \/ Add \/ Expect \/ CheckExpectations

Spec == Init /\ [][Next]_vars

\* The listener reads on, the test notes what it expects and keeps polling.
FairSpec == Spec /\ WF_vars(Add) /\ WF_vars(Expect) /\ WF_vars(CheckExpectations)
=============================================================================
