--------------------------- MODULE ApiCallsProofs ---------------------------
(***************************************************************************)
(* Proofs about the API calls, for any finite set of calls: ApiCalls       *)
(* implements AtomicCalls, and a lone successful write is visible.         *)
(***************************************************************************)
EXTENDS ApiCalls, TLAPS

\* What has been asked, sent and answered agree: only a request on its way can
\* take effect, and only the call whose request it is can have one.
RequestInv ==
  \A c \in Calls :
    /\ state[c] # "new" => op[c] \in Op
    /\ state[c] = "new" => op[c] = "none"
    /\ request[c] # "processed" => effect[c] = "none"
    /\ request[c] = "transit" => state[c] \in {"running", "error"}

\* An answer the SDK takes for a success is one of a request carried out.
AnswerInv ==
  \A c \in Calls :
    /\ response[c] # NoResponse /\ Success(op[c], response[c]) => effect[c] = "done"
    /\ state[c] = "ok" => effect[c] = "done"

\* A write that was carried out is what the endpoint shows, unless another may
\* have followed it that had not succeeded when this one was called.
Visible(c) ==
  /\ op[c] \in Writes /\ effect[c] = "done"
  /\ \A d \in Calls \ {c} : op[d] \in Writes => d \in before[c]
  => endpoint = Written(c)

VisibleInv == \A c \in Calls : before[c] \subseteq Succeeded /\ Visible(c)

IInv == TypeOK /\ RequestInv /\ AnswerInv /\ VisibleInv

-----------------------------------------------------------------------------
\* The statuses by which the agrirouter refuses are successes of no operation.
LEMMA RefusalsFail ==
  ASSUME NEW o \in Op, NEW r \in Response, r.status \in RefusalStatus(o)
  PROVE  ~Success(o, r)
  <1>1. r.status \notin {200, 201, 202, 204}
    BY DEF RefusalStatus
  <1>2. CASE o = "put"
    BY <1>1, <1>2 DEF Success
  <1>3. CASE o = "delete"
    BY <1>1, <1>3 DEF Success
  <1>4. CASE o = "send"
    BY <1>1, <1>4 DEF Success
  <1>5. CASE o = "confirm"
    BY <1>1, <1>5 DEF Success
  <1>6. CASE o = "list"
    BY <1>1, <1>6 DEF Success
  <1> QED BY <1>2, <1>3, <1>4, <1>5, <1>6 DEF Op

LEMMA InitIInv == Init => IInv
  BY CallsAssumption DEF Init, IInv, TypeOK, RequestInv, AnswerInv, VisibleInv, Visible, Succeeded,
                         Response, NoResponse

LEMMA StartStep ==
  ASSUME IInv, NEW c \in Calls, NEW o \in Op, Start(c, o)
  PROVE  IInv'
  <1> USE DEF IInv, Start
  <1>1. TypeOK'
    BY DEF TypeOK, RequestInv, Succeeded
  <1>2. RequestInv'
    BY DEF TypeOK, RequestInv
  <1>3. response[c] = NoResponse
    BY DEF TypeOK
  <1>4. AnswerInv'
    BY <1>3 DEF TypeOK, RequestInv, AnswerInv
  <1>5. Succeeded \subseteq Succeeded' /\ c \notin Succeeded
    BY DEF Succeeded, TypeOK
  <1>6. VisibleInv'
    <2> SUFFICES ASSUME NEW e \in Calls
                 PROVE  before'[e] \subseteq Succeeded' /\ Visible(e)'
      BY DEF VisibleInv
    <2>1. before'[e] \subseteq Succeeded'
      BY <1>5 DEF TypeOK, VisibleInv
    <2>2. ASSUME op'[e] \in Writes, effect'[e] = "done",
                 \A d \in Calls \ {e} : op'[d] \in Writes => d \in before'[e]
          PROVE  endpoint' = Written(e)'
      <3>1. e # c
        BY <2>2 DEF TypeOK, RequestInv
      <3>2. c \notin before[e] /\ before'[e] = before[e]
        BY <1>5, <3>1 DEF TypeOK, VisibleInv
      <3>3. op[c] \notin Writes
        BY DEF RequestInv, Writes
      <3>4. \A d \in Calls \ {e} : op[d] \in Writes => d \in before[e]
        BY <2>2, <3>2, <3>3 DEF TypeOK
      <3>5. op[e] \in Writes /\ effect[e] = "done" /\ op'[e] = op[e]
        BY <2>2, <3>1 DEF TypeOK
      <3> QED BY <3>4, <3>5 DEF VisibleInv, Visible, Written
    <2> QED BY <2>1, <2>2 DEF Visible
  <1> QED BY <1>1, <1>2, <1>4, <1>6

\* The answer to a call, or its end without one, touches nothing but its result.
LEMMA EndStep ==
  ASSUME IInv, NEW c \in Calls, GiveUp(c) \/ Receive(c)
  PROVE  IInv'
  <1> USE DEF IInv
  <1>1. PICK r \in {"ok", "error"} :
          /\ state' = [state EXCEPT ![c] = r]
          /\ r = "ok" => response[c] # NoResponse /\ Success(op[c], response[c])
    BY DEF GiveUp, Receive
  <1>2. /\ state[c] = "running"
        /\ UNCHANGED <<op, response, effect, endpoint, before>>
    BY DEF GiveUp, Receive
  <1>3. \/ UNCHANGED request
        \/ request[c] = "transit" /\ request' = [request EXCEPT ![c] = "lost"]
    BY DEF GiveUp, Receive
  <1>4. TypeOK'
    BY <1>1, <1>2, <1>3 DEF TypeOK
  <1>5. RequestInv'
    <2>1. r = "ok" => request[c] # "transit"
      BY <1>1 DEF TypeOK
    <2> QED BY <2>1, <1>1, <1>2, <1>3 DEF TypeOK, RequestInv
  <1>6. AnswerInv'
    BY <1>1, <1>2 DEF TypeOK, AnswerInv
  <1>7. VisibleInv'
    BY <1>1, <1>2 DEF TypeOK, VisibleInv, Visible, Written, Succeeded
  <1> QED BY <1>4, <1>5, <1>6, <1>7

LEMMA PerformStep ==
  ASSUME IInv, NEW c \in Calls, Perform(c)
  PROVE  IInv'
  <1> USE DEF IInv, Perform
  <1>1. PICK r \in Response : response' = [response EXCEPT ![c] = r]
    BY DEF Answer
  <1>2. TypeOK'
    BY <1>1 DEF TypeOK, RequestInv
  <1>3. RequestInv'
    BY DEF TypeOK, RequestInv
  <1>4. AnswerInv'
    BY <1>1 DEF TypeOK, AnswerInv
  <1>5. c \notin Succeeded
    BY DEF RequestInv, Succeeded
  <1>6. VisibleInv'
    <2> SUFFICES ASSUME NEW e \in Calls
                 PROVE  before'[e] \subseteq Succeeded' /\ Visible(e)'
      BY DEF VisibleInv
    <2>1. before'[e] \subseteq Succeeded'
      BY DEF VisibleInv, Succeeded
    <2>2. ASSUME op'[e] \in Writes, effect'[e] = "done",
                 \A d \in Calls \ {e} : op'[d] \in Writes => d \in before'[e]
          PROVE  endpoint' = Written(e)'
      <3>1. CASE e = c
        BY <3>1, <2>2 DEF Writes, Written
      <3>2. CASE e # c
        <4>1. op[c] \notin Writes
          BY <2>2, <3>2, <1>5 DEF VisibleInv
        <4> QED BY <4>1, <3>2, <2>2 DEF TypeOK, VisibleInv, Visible, Written
      <3> QED BY <3>1, <3>2
    <2> QED BY <2>1, <2>2 DEF Visible
  <1> QED BY <1>2, <1>3, <1>4, <1>6

LEMMA RefuseStep ==
  ASSUME IInv, NEW c \in Calls, Refuse(c)
  PROVE  IInv'
  <1> USE DEF IInv, Refuse
  <1>1. PICK r \in Response : /\ response' = [response EXCEPT ![c] = r]
                              /\ r.status \in RefusalStatus(op[c])
    BY DEF Answer
  <1>2. op[c] \in Op /\ effect[c] = "none"
    BY DEF RequestInv
  <1>3. ~Success(op[c], r)
    BY <1>1, <1>2, RefusalsFail
  <1>4. TypeOK'
    BY <1>1 DEF TypeOK, RequestInv
  <1>5. RequestInv'
    BY DEF TypeOK, RequestInv
  <1>6. AnswerInv'
    <2>1. state[c] # "ok"
      BY DEF RequestInv
    <2> QED BY <2>1, <1>1, <1>3 DEF TypeOK, AnswerInv
  <1>7. VisibleInv'
    BY DEF TypeOK, VisibleInv, Visible, Written, Succeeded
  <1> QED BY <1>4, <1>5, <1>6, <1>7

LEMMA NextIInv == IInv /\ [Next]_vars => IInv'
  <1> SUFFICES ASSUME IInv, [Next]_vars PROVE IInv'
    OBVIOUS
  <1>1. CASE UNCHANGED vars
    BY <1>1 DEF vars, IInv, TypeOK, RequestInv, AnswerInv, VisibleInv, Visible, Written, Succeeded
  <1>2. CASE Next
    BY <1>2, StartStep, EndStep, PerformStep, RefuseStep DEF Next
  <1> QED BY <1>1, <1>2

LEMMA Invariance == Spec => []IInv
  BY InitIInv, NextIInv, PTL DEF Spec

-----------------------------------------------------------------------------
\* The type invariant: an answer belongs to a processed request, a request to a
\* call that was started.
THEOREM TypeCorrect == Spec => []TypeOK
  <1>1. IInv => TypeOK
    BY DEF IInv
  <1> QED BY <1>1, Invariance, PTL

\* PutEndpoint or DeleteEndpoint that returned without an error has set or removed
\* the endpoint, if no other write was made since, even one that failed or timed out.
THEOREM WriteIsVisibleCorrect == Spec => []WriteIsVisible
  <1>1. IInv => WriteIsVisible
    BY DEF IInv, AnswerInv, VisibleInv, Visible, WriteIsVisible
  <1> QED BY <1>1, Invariance, PTL

LEMMA InitRefines == Init => Atomic!Init
  BY DEF Init, Atomic!Init

LEMMA StepRefines == IInv /\ [Next]_vars => [Atomic!Next]_(Atomic!vars)
  <1> SUFFICES ASSUME IInv, [Next]_vars PROVE [Atomic!Next]_(Atomic!vars)
    OBVIOUS
  <1>1. ASSUME NEW c \in Calls, NEW o \in Op, Start(c, o)
        PROVE  Atomic!Begin(c) \/ Atomic!BeginAndFail(c)
    BY <1>1 DEF Start, Atomic!Begin, Atomic!BeginAndFail
  <1>2. ASSUME NEW c \in Calls, GiveUp(c)
        PROVE  Atomic!Fail(c)
    BY <1>2 DEF GiveUp, Atomic!Fail
  <1>3. ASSUME NEW c \in Calls, Receive(c)
        PROVE  Atomic!Succeed(c) \/ Atomic!Fail(c)
    BY <1>3 DEF Receive, Atomic!Succeed, Atomic!Fail, IInv, AnswerInv
  <1>4. ASSUME NEW c \in Calls, Perform(c)
        PROVE  Atomic!Perform(c)
    <2>1. state[c] \in {"running", "error"} /\ effect[c] = "none"
      BY <1>4 DEF Perform, IInv, RequestInv
    <2>2. endpoint' = CASE op[c] = "put" -> c
                        [] op[c] = "delete" -> "absent"
                        [] op[c] \notin Writes -> endpoint
      BY <1>4 DEF Perform, Writes
    <2> QED BY <1>4, <2>1, <2>2 DEF Perform, Atomic!Perform
  <1>5. ASSUME NEW c \in Calls, Refuse(c)
        PROVE  Atomic!Refuse(c)
    BY <1>5 DEF Refuse, Atomic!Refuse, IInv, RequestInv
  <1>6. CASE UNCHANGED vars
    BY <1>6 DEF vars, Atomic!vars
  <1> QED BY <1>1, <1>2, <1>3, <1>4, <1>5, <1>6 DEF Next, Atomic!Next

\* A call takes effect at most once, also when its caller gave it up, and one
\* that returns without an error did take effect.
THEOREM AtomicCallsImplemented == Spec => ImplementsAtomicCalls
  BY InitRefines, StepRefines, Invariance, PTL DEF Spec, Atomic!Spec, ImplementsAtomicCalls
=============================================================================
