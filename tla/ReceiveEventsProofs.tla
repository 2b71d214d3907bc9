------------------------ MODULE ReceiveEventsProofs ------------------------
(***************************************************************************)
(* Proofs about ReceiveEvents, for any set of calls and frames and any     *)
(* bounds.                                                                 *)
(***************************************************************************)
EXTENDS ReceiveEvents, SequenceTheorems, TLAPS

-----------------------------------------------------------------------------
(***************************************************************************)
(* The inductive invariant.  OneFate and the others are not inductive: that*)
(* a callback is the last about its frame follows from where the goroutine *)
(* is, so each part ties the log, the bodies and the content of the frame  *)
(* in process to pc.                                                       *)
(***************************************************************************)

\* Callbacks are about frames taken off the stream; while one is in process and
\* not yet decided, no deciding callback about it was made.
LogInv ==
  /\ \A i \in DOMAIN log : log[i].frame \in 1..read
  /\ pc \in Processing \ {"handling"} =>
       \A i \in DOMAIN log : log[i].what \in Final => log[i].frame < read
  /\ pc = "handling" => Called(read, "handler")
  /\ pc \in Processing => read \in 1..Len(sent)
  /\ pc \in Setup => read = Len(sent)

\* What the frame in process must be like for the goroutine to be here.
CurrentInv ==
  /\ pc \in {"fetch", "readAll", "closeKeep", "closeDrop"} =>
       NeedsFetch(call, Current) /\ MayHandle(call, Current)
  /\ pc \in {"readAll", "closeKeep"} => IsMessage(call, Current)
  /\ pc \in {"deliver", "handling"} => MayHandle(call, Current)
  /\ pc = "report" => MayFail(call, Current)

BodyInv ==
  /\ \A k \in 1..MaxFrames : k > read => body[k] = "none"
  /\ pc \in {"dispatch", "fetch"} => body[read] = "none"
  /\ pc \in {"readAll", "closeKeep", "closeDrop"} => body[read] = "open"
  /\ pc = "deliver" /\ NeedsFetch(call, Current) =>
       body[read] = IF IsMessage(call, Current) THEN "closed" ELSE "handed"

\* The past: each decided frame was allowed its fate.
FateInv ==
  /\ \A i \in DOMAIN log :
       /\ log[i].what = "handler" => MayHandle(call, sent[log[i].frame])
       /\ log[i].what = "error" => MayFail(call, sent[log[i].frame])
  /\ \A k \in 1..Settled :
       Called(k, "handler") \/ Called(k, "error") \/ MayIgnore(call, sent[k])

IInv == /\ TypeOK
        /\ LogInv
        /\ OneFate
        /\ CurrentInv
        /\ BodyInv
        /\ BodiesAccounted
        /\ FateInv
-----------------------------------------------------------------------------
LEMMA TypeInit == Init => TypeOK
<1> SUFFICES ASSUME Init PROVE TypeOK
  OBVIOUS
<1>1. sent \in Seq(Frame) /\ Len(sent) = 0
  BY EmptySeq DEF Init
<1>2. log \in Seq(Entry)
  BY EmptySeq DEF Init
<1>3. body \in [1..MaxFrames -> BodyState] /\ got \in [1..MaxFrames -> SUBSET Outcome]
  BY DEF Init, BodyState
<1>4. Len(sent) <= MaxFrames /\ read \in 0..Len(sent) /\ retries \in 0..MaxRetries
  BY <1>1, ReceiveAssumption DEF Init
<1>5. call \in Calls /\ pc \in PC /\ canceled \in BOOLEAN /\ result \in Result
  BY DEF Init, PC, Setup, Result
<1> QED
  BY <1>1, <1>2, <1>3, <1>4, <1>5 DEF TypeOK

\* A callback added to the log is an entry of it.
LEMMA NoteType ==
  ASSUME TypeOK, NEW w \in Callback, Note(w), read \in Nat
  PROVE  /\ log' \in Seq(Entry)
         /\ Len(log') = Len(log) + 1
         /\ DOMAIN log' = 1..(Len(log) + 1)
         /\ \A i \in DOMAIN log : log'[i] = log[i] /\ i \in 1..Len(log)
         /\ log'[Len(log) + 1] = [frame |-> read, what |-> w]
<1> DEFINE e == [frame |-> read, what |-> w]
<1>1. e \in Entry
  BY DEF Entry
<1>2. log \in Seq(Entry)
  BY DEF TypeOK
<1> QED
  BY <1>1, <1>2, AppendProperties, LenProperties DEF Note

LEMMA TypeNext == TypeOK /\ [Next]_vars => TypeOK'
<1> SUFFICES ASSUME TypeOK, [Next]_vars
             PROVE  TypeOK'
  OBVIOUS
<1> USE DEF TypeOK
<1>0. read \in Nat /\ Len(sent) \in Nat /\ MaxFrames \in Nat /\ MaxRetries \in Nat
  BY ReceiveAssumption, LenProperties
<1>1. CASE UNCHANGED vars
  BY <1>1 DEF vars
<1>2. CASE Cancel
  BY <1>2 DEF Cancel
<1>3. CASE Arrive
  <2>1. PICK f \in Frame : sent' = Append(sent, f)
    BY <1>3, ReceiveAssumption DEF Arrive
  <2>2. sent' \in Seq(Frame) /\ Len(sent') = Len(sent) + 1
    BY <2>1, AppendProperties
  <2> QED
    BY <1>0, <1>3, <2>2 DEF Arrive
<1>4. CASE Interrupt
  <2>1. sent' \in Seq(Frame) /\ Len(sent') = read
    BY <1>0, <1>4, SubSeqProperties DEF Interrupt
  <2> QED
    BY <1>0, <1>4, <2>1 DEF Interrupt, PC, Setup, Processing, Result, Goto, Return
<1>5. CASE Stream
  BY <1>0, <1>5 DEF Stream, BuildRequest, Connect, RetryConnect, ReturnCanceled, Take,
     Goto, Return, PC, Setup, Processing, Result
<1>6. CASE Dispatch
  <2>1. CASE ReportError
    BY <1>0, <2>1, NoteType DEF ReportError, Goto, PC, Callback
  <2>2. CASE Drop \/ DecodeFails \/ Decode
    BY <2>2 DEF Drop, DecodeFails, Decode, PayloadStep, Goto, PC, Setup, Processing
  <2> QED
    BY <1>6, <2>1, <2>2 DEF Dispatch
<1>7. CASE Fetch
  <2>1. CASE CloseBody
    <3>1. log' \in Seq(Entry)
      BY <1>0, <2>1, NoteType DEF CloseBody, Callback
    <3> QED
      BY <2>1, <3>1 DEF CloseBody, Goto, PC, Processing, BodyState
  <2>2. CASE FetchFails \/ FetchRefused \/ FetchedMessage \/ FetchedFile
    BY <2>2 DEF FetchFails, FetchRefused, FetchedMessage, FetchedFile, Goto, PC, Processing,
       BodyState, Outcome
  <2>3. CASE ReadAll \/ ReadFails
    BY <2>3 DEF ReadAll, ReadFails, Goto, PC, Processing, Outcome
  <2> QED
    BY <1>7, <2>1, <2>2, <2>3 DEF Fetch
<1>8. CASE Handle
  <2>1. CASE Deliver
    BY <1>0, <2>1, NoteType DEF Deliver, Goto, PC, Processing, Callback
  <2>2. CASE HandlerReturns
    BY <2>2 DEF HandlerReturns, Goto, PC, BodyState
  <2> QED
    BY <1>8, <2>1, <2>2 DEF Handle
<1> QED
  BY <1>1, <1>2, <1>3, <1>4, <1>5, <1>6, <1>7, <1>8 DEF Next, Step

\* Type correctness of the receive call, for any calls, frames and bounds.
THEOREM TypeCorrect == Spec => []TypeOK
<1> QED
  BY TypeInit, TypeNext, PTL DEF Spec
-----------------------------------------------------------------------------
LEMMA InvInit == Init => IInv
<1> SUFFICES ASSUME Init PROVE IInv
  OBVIOUS
<1>1. TypeOK
  BY TypeInit
<1>2. log = <<>> /\ DOMAIN log = {} /\ Len(sent) = 0
  BY DEF Init
<1>3. LogInv /\ OneFate
  BY <1>2 DEF Init, LogInv, OneFate, Processing, Setup
<1>4. CurrentInv /\ BodyInv /\ BodiesAccounted /\ FateInv
  BY <1>2 DEF Init, CurrentInv, BodyInv, BodiesAccounted, FateInv, Settled, Processing
<1> QED
  BY <1>1, <1>3, <1>4 DEF IInv

\* What a callback adds to the history: one entry, about the current frame.
LEMMA NoteCalled ==
  ASSUME TypeOK, NEW w \in Callback, Note(w), read \in Nat
  PROVE  \A k, v : Called(k, v)' <=> Called(k, v) \/ (k = read /\ v = w)
<1>0. Len(log) \in Nat /\ DOMAIN log = 1..Len(log)
  BY LenProperties DEF TypeOK
<1>1. /\ DOMAIN log' = 1..(Len(log) + 1)
      /\ \A i \in DOMAIN log : log'[i] = log[i]
      /\ log'[Len(log) + 1] = [frame |-> read, what |-> w]
  BY NoteType
<1> TAKE k, v
<1>2. Called(k, v) => Called(k, v)'
  BY <1>0, <1>1 DEF Called
<1>3. k = read /\ v = w => Called(k, v)'
  BY <1>0, <1>1 DEF Called
<1>4. ASSUME Called(k, v)', ~Called(k, v)
      PROVE  k = read /\ v = w
  <2>1. PICK i \in DOMAIN log' : log'[i] = [frame |-> k, what |-> v]
    BY <1>4 DEF Called
  <2>2. i = Len(log) + 1
    BY <1>0, <1>1, <1>4, <2>1 DEF Called
  <2>3. [frame |-> k, what |-> v] = [frame |-> read, what |-> w]
    BY <1>1, <2>1, <2>2
  <2> QED
    BY <2>3
<1> QED
  BY <1>2, <1>3, <1>4

LEMMA CalledUnchanged ==
  ASSUME UNCHANGED log
  PROVE  \A k, v : Called(k, v)' <=> Called(k, v)
  BY DEF Called

\* A step that only moves the goroutine and is not about to decide a frame
\* disturbs nothing the properties say of the past.
LEMMA Moved ==
  ASSUME IInv, UNCHANGED <<call, sent, read, log>>, Settled' = Settled
  PROVE  OneFate' /\ FateInv'
  BY CalledUnchanged DEF IInv, OneFate, FateInv

LEMMA InvNext == IInv /\ [Next]_vars => IInv'
<1> SUFFICES ASSUME IInv, [Next]_vars
             PROVE  IInv'
  OBVIOUS
<1> USE DEF IInv
<1>0. /\ TypeOK /\ TypeOK'
      /\ read \in Nat /\ Len(sent) \in Nat /\ MaxFrames \in Nat
      /\ DOMAIN log = 1..Len(log) /\ Len(log) \in Nat
  <2>1. TypeOK'
    BY TypeNext
  <2> QED
    BY <2>1, ReceiveAssumption, LenProperties DEF TypeOK
<1>1. CASE UNCHANGED vars \/ Cancel
  <2>1. UNCHANGED <<pc, call, sent, read, body, log>>
    BY <1>1 DEF vars, Cancel
  <2>2. LogInv' /\ OneFate'
    BY <2>1 DEF LogInv, OneFate, Called
  <2>3. CurrentInv' /\ BodyInv'
    BY <2>1 DEF CurrentInv, BodyInv, Current
  <2>4. BodiesAccounted'
    BY <2>1 DEF BodiesAccounted, Called
  <2>5. FateInv'
    BY <2>1 DEF FateInv, Called, Settled
  <2> QED
    BY <1>0, <2>2, <2>3, <2>4, <2>5
<1>2. CASE Arrive
  <2>1. PICK f \in Frame : sent' = Append(sent, f)
    BY <1>2, ReceiveAssumption DEF Arrive
  <2>2. /\ \A k \in 1..read : sent'[k] = sent[k]
        /\ Len(sent') = Len(sent) + 1
    BY <1>0, <2>1, AppendProperties DEF TypeOK
  <2>3. UNCHANGED <<call, pc, read, body, log>>
    BY <1>2 DEF Arrive
  <2>4. LogInv' /\ OneFate' /\ BodyInv'
    <3>1. pc \notin Setup
      BY <1>2 DEF Arrive, Processing, Setup
    <3>2. LogInv' /\ OneFate'
      BY <1>0, <2>2, <2>3, <3>1, CalledUnchanged DEF LogInv, OneFate
    <3>3. pc \in Processing => read \in 1..read
      BY <1>0 DEF LogInv
    <3>4. BodyInv'
      BY <1>0, <2>2, <2>3, <3>3 DEF BodyInv, Current, Processing
    <3> QED
      BY <3>2, <3>4
  <2>5. CurrentInv'
    BY <1>0, <2>2, <2>3 DEF LogInv, CurrentInv, Current, Processing
  <2>6. BodiesAccounted'
    BY <1>0, <2>2, <2>3, CalledUnchanged DEF BodiesAccounted
  <2>7. FateInv'
    <3>1. Settled' = Settled /\ Settled \in Int /\ Settled <= read
      BY <1>0, <2>3 DEF Settled
    <3>2. /\ \A i \in DOMAIN log : log[i].frame \in 1..read
          /\ \A k \in 1..Settled : k \in 1..read
      BY <1>0, <3>1 DEF LogInv
    <3> QED
      BY <2>2, <2>3, <3>1, <3>2, CalledUnchanged DEF FateInv
  <2> QED
    BY <1>0, <2>4, <2>5, <2>6, <2>7
<1>3. CASE Interrupt
  <2>1. /\ \A k \in 1..read : sent'[k] = sent[k]
        /\ Len(sent') = read
    BY <1>0, <1>3, SubSeqProperties DEF Interrupt, TypeOK
  <2>2. /\ UNCHANGED <<call, read, body, log>>
        /\ pc \notin Processing /\ pc' \notin Processing
    BY <1>3 DEF Interrupt, Goto, Return, Processing
  <2>3. LogInv' /\ OneFate'
    BY <1>0, <2>1, <2>2 DEF LogInv, OneFate, Processing
  <2>4. CurrentInv' /\ BodyInv'
    BY <1>0, <2>2 DEF CurrentInv, BodyInv, Processing
  <2>5. BodiesAccounted'
    BY <1>0, <2>1, <2>2, CalledUnchanged DEF BodiesAccounted, Processing
  <2>6. FateInv'
    BY <1>0, <2>1, <2>2, CalledUnchanged DEF LogInv, FateInv, Settled
  <2> QED
    BY <1>0, <2>3, <2>4, <2>5, <2>6
<1>4. CASE BuildRequest \/ Connect \/ RetryConnect \/ ReturnCanceled
  <2>1. /\ UNCHANGED <<call, sent, read, body, log>>
        /\ pc \notin Processing /\ pc' \notin Processing
        /\ pc' \in Setup => pc \in Setup
    BY <1>4 DEF BuildRequest, Connect, RetryConnect, ReturnCanceled, Goto, Return,
       Setup, Processing
  <2>2. OneFate' /\ FateInv'
    BY <2>1, Moved DEF Settled
  <2>3. LogInv'
    BY <2>1 DEF LogInv, Processing
  <2>4. CurrentInv' /\ BodyInv'
    BY <2>1 DEF CurrentInv, BodyInv, Processing
  <2>5. BodiesAccounted'
    BY <2>1, CalledUnchanged DEF BodiesAccounted, Processing
  <2> QED
    BY <1>0, <2>2, <2>3, <2>4, <2>5
<1>5. CASE Take
  <2>1. /\ UNCHANGED <<call, sent, body, log>>
        /\ read' = read + 1 /\ read' <= Len(sent)
        /\ pc = "streaming" /\ pc' = "dispatch"
    BY <1>0, <1>5 DEF Take, Goto
  <2>2. LogInv' /\ OneFate'
    BY <1>0, <2>1 DEF LogInv, OneFate, Processing, Setup
  <2>3. CurrentInv' /\ BodyInv'
    BY <1>0, <2>1 DEF CurrentInv, BodyInv, TypeOK
  <2>4. BodiesAccounted'
    BY <1>0, <2>1, CalledUnchanged DEF BodiesAccounted
  <2>5. FateInv'
    BY <1>0, <2>1, CalledUnchanged DEF FateInv, Settled, Processing
  <2> QED
    BY <1>0, <2>2, <2>3, <2>4, <2>5
<1>6. CASE Drop
  <2>1. /\ UNCHANGED <<call, sent, read, body, log>>
        /\ pc = "dispatch" /\ pc' = "streaming"
        /\ MayIgnore(call, Current)
    BY <1>6 DEF Drop, Goto, Dropped, HasDiscriminator, MayIgnore
  <2>2. LogInv' /\ OneFate'
    BY <2>1, CalledUnchanged DEF LogInv, OneFate, Processing, Setup
  <2>3. CurrentInv' /\ BodyInv'
    BY <2>1 DEF CurrentInv, BodyInv
  <2>4. BodiesAccounted'
    BY <2>1, CalledUnchanged DEF BodiesAccounted
  <2>5. FateInv'
    BY <1>0, <2>1, CalledUnchanged DEF FateInv, Settled, Processing, Current
  <2> QED
    BY <1>0, <2>2, <2>3, <2>4, <2>5
<1>7. CASE DecodeFails
  <2>1. /\ UNCHANGED <<call, sent, read, body, log>>
        /\ pc = "dispatch" /\ pc' = "report"
        /\ MayFail(call, Current)
    BY <1>7 DEF DecodeFails, Goto, Dropped, HasDiscriminator, CanNotDecode, MayIgnore, MayFail
  <2>2. OneFate' /\ FateInv'
    BY <2>1, Moved DEF Settled, Processing
  <2>3. LogInv' /\ CurrentInv' /\ BodyInv'
    BY <2>1 DEF LogInv, CurrentInv, BodyInv, Processing, Setup, Current
  <2>4. BodiesAccounted'
    BY <2>1, CalledUnchanged DEF BodiesAccounted
  <2> QED
    BY <1>0, <2>2, <2>3, <2>4
<1>8. CASE Decode
  <2>1. /\ UNCHANGED <<call, sent, read, body, log>>
        /\ pc = "dispatch" /\ pc' = PayloadStep(Current)
        /\ pc' \in {"deliver", "fetch", "report"}
        /\ Current.shape = "sound"
        /\ ~MayIgnore(call, Current)
    BY <1>8 DEF Decode, Goto, Dropped, HasDiscriminator, CanDecode, MayIgnore, PayloadStep
  <2>2. Current.payload \in {"embedded", "uri", "badUri", "none"}
    <3>1. read \in 1..Len(sent)
      BY <2>1 DEF LogInv, Processing
    <3>2. Current \in Frame
      BY <1>0, <3>1, ElementOfSeq DEF TypeOK, Current
    <3> QED
      BY <3>2 DEF Frame
  <2>3. /\ pc' = "deliver" => ~NeedsFetch(call, Current) /\ MayHandle(call, Current)
        /\ pc' = "fetch" => NeedsFetch(call, Current) /\ MayHandle(call, Current)
        /\ pc' = "report" => MayFail(call, Current)
    BY <2>1, <2>2 DEF PayloadStep, NeedsFetch, MayHandle, MayFail, LacksPayload, IsMessage,
       IsFile
  <2>4. OneFate' /\ FateInv'
    BY <2>1, Moved DEF Settled, Processing
  <2>5. LogInv'
    BY <2>1 DEF LogInv, Processing, Setup
  <2>6. CurrentInv' /\ BodyInv'
    BY <2>1, <2>3 DEF CurrentInv, BodyInv, Current
  <2>7. BodiesAccounted'
    BY <2>1, CalledUnchanged DEF BodiesAccounted
  <2> QED
    BY <1>0, <2>4, <2>5, <2>6, <2>7
<1>9. CASE FetchFails
  <2>1. /\ UNCHANGED <<call, sent, read, body, log>>
        /\ pc = "fetch" /\ pc' = "report"
    BY <1>9 DEF FetchFails, Goto
  <2>2. OneFate' /\ FateInv'
    BY <2>1, Moved DEF Settled, Processing
  <2>3. LogInv' /\ CurrentInv' /\ BodyInv'
    BY <2>1 DEF LogInv, CurrentInv, BodyInv, Processing, Setup, Current, MayHandle, MayFail
  <2>4. BodiesAccounted'
    BY <2>1, CalledUnchanged DEF BodiesAccounted
  <2> QED
    BY <1>0, <2>2, <2>3, <2>4
<1>10. CASE FetchRefused \/ FetchedMessage \/ FetchedFile
  <2>1. /\ UNCHANGED <<call, sent, read, log>>
        /\ pc = "fetch" /\ pc' \in {"closeDrop", "readAll", "deliver"}
        /\ pc' = "readAll" => IsMessage(call, Current)
        /\ pc' = "deliver" => IsFile(call, Current)
        /\ body' = [body EXCEPT ![read] = IF pc' = "deliver" THEN "handed" ELSE "open"]
    BY <1>10 DEF FetchRefused, FetchedMessage, FetchedFile, Goto
  <2>2. read \in 1..MaxFrames
    BY <1>0, <2>1 DEF TypeOK, LogInv, Processing
  <2>3. /\ \A k \in 1..MaxFrames : k # read => body'[k] = body[k]
        /\ body'[read] = IF pc' = "deliver" THEN "handed" ELSE "open"
    BY <1>0, <2>1, <2>2 DEF TypeOK
  <2>4. OneFate' /\ FateInv'
    BY <2>1, Moved DEF Settled, Processing
  <2>5. LogInv' /\ CurrentInv' /\ BodyInv'
    BY <1>0, <2>1, <2>2, <2>3 DEF LogInv, CurrentInv, BodyInv, Processing, Setup, Current,
       IsMessage, IsFile
  <2>6. BodiesAccounted'
    BY <1>0, <2>1, <2>2, <2>3, CalledUnchanged DEF BodiesAccounted, Current
  <2> QED
    BY <1>0, <2>4, <2>5, <2>6
<1>11. CASE ReadAll \/ ReadFails
  <2>1. /\ UNCHANGED <<call, sent, read, body, log>>
        /\ pc = "readAll" /\ pc' \in {"closeKeep", "closeDrop"}
    BY <1>11 DEF ReadAll, ReadFails, Goto
  <2>2. OneFate' /\ FateInv'
    BY <2>1, Moved DEF Settled, Processing
  <2>3. LogInv' /\ CurrentInv' /\ BodyInv'
    BY <2>1 DEF LogInv, CurrentInv, BodyInv, Processing, Setup, Current
  <2>4. BodiesAccounted'
    BY <2>1, CalledUnchanged DEF BodiesAccounted
  <2> QED
    BY <1>0, <2>2, <2>3, <2>4
<1>12. CASE CloseBody
  <2>1. /\ UNCHANGED <<call, sent, read>>
        /\ pc \in {"closeKeep", "closeDrop"}
        /\ pc' = IF pc = "closeKeep" THEN "deliver" ELSE "report"
        /\ body' = [body EXCEPT ![read] = "closed"]
        /\ Note("closeError") \/ UNCHANGED log
    BY <1>12 DEF CloseBody, Goto
  <2>2. read \in 1..MaxFrames
    BY <1>0, <2>1 DEF TypeOK, LogInv, Processing
  <2>3. /\ \A k \in 1..MaxFrames : k # read => body'[k] = body[k]
        /\ body'[read] = "closed"
    BY <1>0, <2>1, <2>2 DEF TypeOK
  <2>4. /\ DOMAIN log \subseteq DOMAIN log'
        /\ \A i \in DOMAIN log : log'[i] = log[i]
        /\ \A i \in DOMAIN log' \ DOMAIN log : /\ log'[i].frame = read
                                               /\ log'[i].what = "closeError"
    BY <1>0, <2>1, NoteType DEF Callback
  <2>5. \A k, v : Called(k, v)' <=> Called(k, v) \/ (v = "closeError" /\ Called(k, v)')
    BY <1>0, <2>1, NoteCalled, CalledUnchanged DEF Callback
  <2>6. LogInv'
    BY <1>0, <2>1, <2>2, <2>4 DEF LogInv, Processing, Setup, Final
  <2>7. OneFate'
    BY <1>0, <2>1, <2>2, <2>4, <2>6 DEF LogInv, OneFate, Processing, Setup, Final
  <2>8. CurrentInv' /\ BodyInv'
    BY <1>0, <2>1, <2>2, <2>3 DEF CurrentInv, BodyInv, Current, MayHandle, MayFail
  <2>9. BodiesAccounted'
    BY <1>0, <2>1, <2>2, <2>3, <2>5 DEF BodiesAccounted
  <2>10. FateInv'
    <3>1. Settled' = Settled
      BY <2>1 DEF Settled, Processing
    <3> QED
      BY <1>0, <2>1, <2>4, <2>5, <3>1 DEF FateInv
  <2> QED
    BY <1>0, <2>6, <2>7, <2>8, <2>9, <2>10
<1>13. CASE ReportError \/ Deliver
  <2> DEFINE w == IF pc = "report" THEN "error" ELSE "handler"
  <2>1. /\ UNCHANGED <<call, sent, read, body>>
        /\ \/ pc = "report" /\ pc' = "streaming"
           \/ pc = "deliver" /\ pc' = "handling"
        /\ w \in Callback /\ w \in Final
        /\ Note(w)
    BY <1>13 DEF ReportError, Deliver, Goto, Callback, Final
  <2>2. /\ DOMAIN log' = 1..(Len(log) + 1)
        /\ \A i \in DOMAIN log : log'[i] = log[i]
        /\ log'[Len(log) + 1] = [frame |-> read, what |-> w]
    BY <1>0, <2>1, NoteType
  <2>3. \A k, v : Called(k, v)' <=> Called(k, v) \/ (k = read /\ v = w)
    BY <1>0, <2>1, NoteCalled
  <2>4. /\ \A i \in DOMAIN log : log[i].frame \in 1..read
        /\ \A i \in DOMAIN log : log[i].what \in Final => log[i].frame < read
        /\ read \in 1..Len(sent)
    BY <2>1 DEF LogInv, Processing
  <2>5. LogInv'
    BY <1>0, <2>1, <2>2, <2>3, <2>4 DEF LogInv, Processing, Setup
  <2>6. OneFate'
    BY <1>0, <2>1, <2>2, <2>4 DEF OneFate
  <2>7. CurrentInv' /\ BodyInv'
    BY <1>0, <2>1 DEF CurrentInv, BodyInv, Current
  <2>8. BodiesAccounted'
    BY <1>0, <2>1, <2>3 DEF BodiesAccounted
  <2>9. FateInv'
    <3>1. /\ w = "error" => MayFail(call, sent[read])
          /\ w = "handler" => MayHandle(call, sent[read])
      BY <2>1 DEF CurrentInv, Current
    <3>2. Settled = read - 1 /\ Settled' \in {read - 1, read}
      BY <2>1 DEF Settled, Processing
    <3> QED
      BY <1>0, <2>1, <2>2, <2>3, <2>4, <3>1, <3>2 DEF FateInv
  <2> QED
    BY <1>0, <2>5, <2>6, <2>7, <2>8, <2>9
<1>14. CASE HandlerReturns
  <2>1. /\ UNCHANGED <<call, sent, read, log>>
        /\ pc = "handling" /\ pc' = "streaming"
        /\ \/ UNCHANGED body
           \/ body[read] = "handed" /\ body' = [body EXCEPT ![read] = "closed"]
    BY <1>14 DEF HandlerReturns, Goto
  <2>2. /\ \A k \in 1..MaxFrames : body'[k] # body[k] => body[k] = "handed" /\ body'[k] = "closed"
        /\ read \in 1..MaxFrames
    <3>1. read \in 1..Len(sent) /\ Len(sent) <= MaxFrames
      BY <1>0, <2>1 DEF TypeOK, LogInv, Processing
    <3>2. read \in 1..MaxFrames
      BY <1>0, <3>1
    <3>3. body \in [1..MaxFrames -> BodyState]
      BY DEF TypeOK
    <3> QED
      BY <2>1, <3>2, <3>3
  <2>3. LogInv' /\ OneFate'
    BY <2>1 DEF LogInv, OneFate, Processing, Setup
  <2>4. CurrentInv' /\ BodyInv'
    BY <1>0, <2>1, <2>2 DEF CurrentInv, BodyInv
  <2>5. BodiesAccounted'
    BY <1>0, <2>1, <2>2, CalledUnchanged DEF BodiesAccounted, LogInv, Processing
  <2>6. FateInv'
    BY <1>0, <2>1, CalledUnchanged DEF FateInv, LogInv, Settled, Processing
  <2> QED
    BY <1>0, <2>3, <2>4, <2>5, <2>6
<1> QED
  BY <1>1, <1>2, <1>3, <1>4, <1>5, <1>6, <1>7, <1>8, <1>9, <1>10, <1>11, <1>12,
     <1>13, <1>14 DEF Next, Step, Stream, Dispatch, Fetch, Handle

LEMMA Invariant == Spec => []IInv
<1> QED
  BY InvInit, InvNext, PTL DEF Spec

\* A frame is handled or failed once, and nothing is called about it afterwards.
THEOREM OneFateCorrect == Spec => []OneFate
<1>1. IInv => OneFate
  BY DEF IInv
<1> QED
  BY <1>1, Invariant, PTL

\* The SDK leaves no payload response open.
THEOREM BodiesCorrect == Spec => []BodiesAccounted
<1>1. IInv => BodiesAccounted
  BY DEF IInv
<1> QED
  BY <1>1, Invariant, PTL

-----------------------------------------------------------------------------
(***************************************************************************)
(* What the payload server gave.  FetchDecides speaks of the frames settled*)
(* long ago; for the frame in process it follows from where the goroutine  *)
(* is: every way to "report" has failed to fetch, every way to "deliver"   *)
(* has succeeded.                                                          *)
(***************************************************************************)
FetchInv ==
  /\ \A k \in 1..MaxFrames : k > read => got[k] = {}
  /\ pc \in {"dispatch", "fetch"} => got[read] = {}
  /\ pc = "readAll" => got[read] = {"accepted"}
  /\ pc = "closeKeep" => FetchSucceeded(read)
  /\ pc \in {"closeDrop", "report"} => ~FetchSucceeded(read)
  /\ pc = "deliver" /\ NeedsFetch(call, Current) => FetchSucceeded(read)
  /\ FetchDecides

LEMMA FetchInit == Init => FetchInv
<1> SUFFICES ASSUME Init PROVE FetchInv
  OBVIOUS
<1>1. pc = "start" /\ 1..read = {}
  BY DEF Init
<1>2. \A k \in 1..MaxFrames : got[k] = {}
  BY DEF Init
<1> QED
  BY <1>1, <1>2 DEF FetchInv, FetchDecides

\* The three outcomes the fetches tell apart.
LEMMA Outcomes == {"accepted"} # Outcome /\ {} # Outcome /\ {} # {"accepted"}
  BY DEF Outcome

\* A step that leaves the payloads, the callbacks and the frames taken off the
\* stream alone, and settles none of them.
LEMMA PastFetches ==
  ASSUME FetchDecides, read \in Nat, UNCHANGED <<call, read, body, got, log>>,
         \A k \in 1..read : sent'[k] = sent[k], Settled' = Settled
  PROVE  FetchDecides'
  BY CalledUnchanged DEF FetchDecides, FetchSucceeded

LEMMA FetchNext == IInv /\ IInv' /\ FetchInv /\ [Next]_vars => FetchInv'
<1> SUFFICES ASSUME IInv, IInv', FetchInv, [Next]_vars
             PROVE  FetchInv'
  OBVIOUS
<1>0. /\ TypeOK /\ read \in Nat /\ Len(sent) \in Nat /\ MaxFrames \in Nat
      /\ read <= Len(sent) /\ Len(sent) <= MaxFrames
      /\ pc \in Processing => read \in 1..Len(sent)
      /\ FetchDecides
  BY ReceiveAssumption, LenProperties DEF IInv, TypeOK, LogInv, FetchInv
<1>1. CASE UNCHANGED vars \/ Cancel
  <2>1. UNCHANGED <<call, pc, sent, read, body, got, log>>
    BY <1>1 DEF vars, Cancel
  <2>2. FetchDecides'
    BY <1>0, <2>1, PastFetches DEF Settled
  <2> QED
    BY <2>1, <2>2 DEF FetchInv, FetchSucceeded, Current
<1>2. CASE Arrive
  <2>1. PICK f \in Frame : sent' = Append(sent, f)
    BY <1>2, ReceiveAssumption DEF Arrive
  <2>2. \A k \in 1..read : sent'[k] = sent[k]
    BY <1>0, <2>1, AppendProperties DEF TypeOK
  <2>3. UNCHANGED <<call, pc, read, body, got, log>>
    BY <1>2 DEF Arrive
  <2>4. FetchDecides'
    BY <1>0, <2>2, <2>3, PastFetches DEF Settled
  <2> QED
    BY <1>0, <2>2, <2>3, <2>4 DEF FetchInv, FetchSucceeded, Current, Processing
<1>3. CASE Interrupt \/ BuildRequest \/ Connect \/ RetryConnect \/ ReturnCanceled
  <2>1. /\ UNCHANGED <<call, read, body, got, log>>
        /\ pc \notin Processing /\ pc' \notin Processing
    BY <1>3 DEF Interrupt, BuildRequest, Connect, RetryConnect, ReturnCanceled, Goto, Return,
       Processing
  <2>2. \A k \in 1..read : sent'[k] = sent[k]
    <3>1. CASE Interrupt
      BY <1>0, <3>1, SubSeqProperties DEF Interrupt, TypeOK
    <3>2. CASE sent' = sent
      BY <3>2
    <3> QED
      BY <1>3, <3>1, <3>2 DEF BuildRequest, Connect, RetryConnect, ReturnCanceled
  <2>3. FetchDecides'
    BY <1>0, <2>1, <2>2, PastFetches DEF Settled
  <2> QED
    BY <2>1, <2>3 DEF FetchInv, Processing
<1>4. CASE Take
  <2>1. /\ UNCHANGED <<call, sent, body, got, log>>
        /\ read' = read + 1 /\ read' <= MaxFrames
        /\ pc = "streaming" /\ pc' = "dispatch"
    BY <1>0, <1>4 DEF Take, Goto
  <2>2. ~Called(read + 1, "handler") /\ Settled = read /\ Settled' = read
    BY <1>0, <2>1 DEF IInv, LogInv, Called, Settled, Processing
  <2>3. FetchDecides'
    BY <1>0, <2>1, <2>2, CalledUnchanged DEF FetchDecides, FetchSucceeded
  <2> QED
    BY <1>0, <2>1, <2>3 DEF FetchInv
<1>5. CASE DecodeFails \/ Decode \/ FetchFails \/ ReadFails
  <2>1. /\ UNCHANGED <<call, sent, read, body, got, log>>
        /\ \/ pc \in {"dispatch", "fetch"} /\ pc' \in {"report", "fetch"}
           \/ pc = "dispatch" /\ pc' = "deliver" /\ ~NeedsFetch(call, Current)
           \/ pc = "readAll" /\ pc' = "closeDrop" /\ IsMessage(call, sent[read])
    <3>1. CASE DecodeFails
      BY <3>1 DEF DecodeFails, Goto
    <3>2. CASE Decode
      BY <3>2 DEF Decode, Goto, PayloadStep, NeedsFetch, IsMessage, IsFile
    <3>3. CASE FetchFails
      BY <3>3 DEF FetchFails, Goto
    <3>4. CASE ReadFails
      BY <3>4 DEF ReadFails, Goto, IInv, CurrentInv, Current
    <3> QED
      BY <1>5, <3>1, <3>2, <3>3, <3>4
  <2>2. FetchDecides'
    BY <1>0, <2>1, PastFetches DEF Settled, Processing
  <2> QED
    BY <2>1, <2>2, Outcomes DEF FetchInv, FetchSucceeded, Current
<1>6. CASE FetchRefused \/ FetchedMessage \/ FetchedFile
  <2>1. /\ UNCHANGED <<call, sent, read, log>>
        /\ pc = "fetch" /\ read \in 1..MaxFrames
        /\ \/ pc' = "closeDrop" /\ got' = got
           \/ /\ pc' = "readAll" /\ IsMessage(call, sent[read])
              /\ got' = [got EXCEPT ![read] = {"accepted"}]
           \/ /\ pc' = "deliver" /\ IsFile(call, sent[read])
              /\ got' = [got EXCEPT ![read] = {"accepted"}]
        /\ body' = [body EXCEPT ![read] = body'[read]]
    BY <1>0, <1>6 DEF FetchRefused, FetchedMessage, FetchedFile, Goto, Processing, Current, TypeOK
  <2>2. \A k \in 1..MaxFrames : k # read => body'[k] = body[k] /\ got'[k] = got[k]
    BY <1>0, <2>1 DEF TypeOK
  <2>3. /\ Settled = read - 1 /\ Settled' = read - 1
        /\ ~Called(read, "handler")
    BY <1>0, <2>1 DEF Settled, Processing, IInv, LogInv, Called, Final
  <2>4. FetchDecides'
    BY <1>0, <2>1, <2>2, <2>3, CalledUnchanged DEF FetchDecides, FetchSucceeded
  <2>5. /\ got[read] = {}
        /\ pc' \in {"readAll", "deliver"} => got'[read] = {"accepted"}
        /\ pc' = "deliver" => ~IsMessage(call, sent[read])
    BY <1>0, <2>1 DEF FetchInv, IsFile, IsMessage, TypeOK
  <2>6. \A k \in 1..MaxFrames : k > read' => got'[k] = {}
    BY <1>0, <2>1, <2>2 DEF FetchInv
  <2>7. /\ pc' = "closeDrop" => ~FetchSucceeded(read)'
        /\ pc' = "deliver" => FetchSucceeded(read)'
    BY <2>1, <2>5, Outcomes DEF FetchSucceeded
  <2> QED
    BY <2>1, <2>4, <2>5, <2>6, <2>7 DEF FetchInv
<1>7. CASE ReadAll
  <2>1. /\ UNCHANGED <<call, sent, read, body, log>>
        /\ pc = "readAll" /\ pc' = "closeKeep" /\ read \in 1..MaxFrames
        /\ got' = [got EXCEPT ![read] = got[read] \cup {"whole"}]
        /\ IsMessage(call, sent[read])
    BY <1>0, <1>7 DEF ReadAll, Goto, Processing, IInv, CurrentInv, Current
  <2>2. /\ \A k \in 1..MaxFrames : k # read => got'[k] = got[k]
        /\ got'[read] = Outcome
    BY <1>0, <2>1 DEF FetchInv, Outcome, TypeOK
  <2>3. /\ Settled = read - 1 /\ Settled' = read - 1
        /\ ~Called(read, "handler")
    BY <1>0, <2>1 DEF Settled, Processing, IInv, LogInv, Called, Final
  <2>4. FetchDecides'
    BY <1>0, <2>1, <2>2, <2>3, CalledUnchanged DEF FetchDecides, FetchSucceeded
  <2> QED
    BY <1>0, <2>1, <2>2, <2>4 DEF FetchInv, FetchSucceeded
<1>8. CASE CloseBody
  <2>1. /\ UNCHANGED <<call, sent, read, got>>
        /\ pc \in {"closeKeep", "closeDrop"} /\ read \in 1..MaxFrames
        /\ pc' = IF pc = "closeKeep" THEN "deliver" ELSE "report"
        /\ body' = [body EXCEPT ![read] = "closed"]
        /\ Note("closeError") \/ UNCHANGED log
    BY <1>0, <1>8 DEF CloseBody, Goto, Processing
  <2>2. \A k : Called(k, "handler")' <=> Called(k, "handler")
    BY <1>0, <2>1, NoteCalled, CalledUnchanged DEF Callback
  <2>3. /\ Settled = read - 1 /\ Settled' = read - 1
        /\ ~Called(read, "handler")
    BY <1>0, <2>1 DEF Settled, Processing, IInv, LogInv, Called, Final
  <2>4. \A k \in 1..MaxFrames : k # read => body'[k] = body[k]
    BY <2>1 DEF TypeOK
  <2>5. FetchDecides'
    BY <1>0, <2>1, <2>2, <2>3, <2>4 DEF FetchDecides, FetchSucceeded
  <2> QED
    BY <2>1, <2>5 DEF FetchInv, FetchSucceeded
<1>9. CASE Drop \/ ReportError
  <2>1. /\ UNCHANGED <<call, sent, read, body, got>>
        /\ pc \in {"dispatch", "report"} /\ pc' = "streaming"
        /\ Note("error") \/ UNCHANGED log
    BY <1>9 DEF Drop, ReportError, Goto
  <2>2. \A k : Called(k, "handler")' <=> Called(k, "handler")
    BY <1>0, <2>1, NoteCalled, CalledUnchanged DEF Callback
  <2>3. ~FetchSucceeded(read)
    BY <2>1, Outcomes DEF FetchInv, FetchSucceeded
  <2>4. Settled = read - 1 /\ Settled' = read
    BY <2>1 DEF Settled, Processing
  <2>5. FetchDecides'
    BY <1>0, <2>1, <2>2, <2>3, <2>4 DEF FetchDecides, FetchSucceeded
  <2> QED
    BY <2>1, <2>5 DEF FetchInv
<1>10. CASE Deliver
  <2>1. /\ UNCHANGED <<call, sent, read, body, got>>
        /\ pc = "deliver" /\ pc' = "handling"
        /\ Note("handler")
    BY <1>10 DEF Deliver, Goto
  <2>2. \A k : Called(k, "handler")' <=> Called(k, "handler") \/ k = read
    BY <1>0, <2>1, NoteCalled DEF Callback
  <2>3. Settled = read - 1 /\ Settled' = read - 1
    BY <2>1 DEF Settled, Processing
  <2>4. NeedsFetch(call, sent[read]) =>
          /\ FetchSucceeded(read)
          /\ body[read] = IF IsMessage(call, sent[read]) THEN "closed" ELSE "handed"
    BY <2>1 DEF FetchInv, IInv, BodyInv, Current
  <2>5. FetchDecides'
    BY <1>0, <2>1, <2>2, <2>3, <2>4 DEF FetchDecides, FetchSucceeded
  <2> QED
    BY <2>1, <2>5 DEF FetchInv
<1>11. CASE HandlerReturns
  <2>1. /\ UNCHANGED <<call, sent, read, got, log>>
        /\ pc = "handling" /\ pc' = "streaming" /\ read \in 1..MaxFrames
        /\ \/ UNCHANGED body
           \/ body[read] = "handed" /\ body' = [body EXCEPT ![read] = "closed"]
    BY <1>0, <1>11 DEF HandlerReturns, Goto, Processing
  <2>2. Called(read, "handler") /\ Settled = read - 1 /\ Settled' = read
    BY <2>1 DEF Settled, Processing, IInv, LogInv
  <2>3. \A k \in 1..MaxFrames :
          body'[k] = body[k] \/ (k = read /\ body[k] = "handed" /\ body'[k] = "closed")
    BY <1>0, <2>1 DEF TypeOK
  <2>4. FetchDecides'
    BY <1>0, <2>1, <2>2, <2>3, CalledUnchanged DEF FetchDecides, FetchSucceeded
  <2> QED
    BY <2>1, <2>4 DEF FetchInv
<1> QED
  BY <1>1, <1>2, <1>3, <1>4, <1>5, <1>6, <1>7, <1>8, <1>9, <1>10, <1>11
     DEF Next, Step, Stream, Dispatch, Fetch, Handle

\* A payload that has to be fetched is delivered exactly when the payload server
\* gave all of it: nothing is delivered after a refused, broken off or aborted
\* fetch, and nothing that was fetched is dropped.
THEOREM DeliveryCorrect == Spec => []FetchDecides
<1>1. FetchInv => FetchDecides
  BY DEF FetchInv
<1> QED
  BY <1>1, Invariant, FetchInit, FetchNext, PTL DEF Spec
-----------------------------------------------------------------------------
\* A server that honours the filter has sent what was asked for and nothing else.
FilterInv == ServerFilters => \A k \in 1..Len(sent) : Requested(call, sent[k])

LEMMA FilterInit == Init => FilterInv
  BY DEF Init, FilterInv

LEMMA FilterNext == TypeOK /\ FilterInv /\ [Next]_vars => FilterInv'
<1> SUFFICES ASSUME TypeOK, FilterInv, [Next]_vars, ServerFilters
             PROVE  \A k \in 1..Len(sent') : Requested(call', sent'[k])
  BY DEF FilterInv
<1>0. /\ read \in Nat /\ Len(sent) \in Nat /\ read <= Len(sent)
      /\ \A k \in 1..Len(sent) : Requested(call, sent[k])
  BY LenProperties DEF TypeOK, FilterInv
<1>1. CASE UNCHANGED <<call, sent>>
  BY <1>0, <1>1
<1>2. CASE Arrive
  <2>1. PICK f \in Frame : Requested(call, f) /\ sent' = Append(sent, f)
    BY <1>2, ReceiveAssumption DEF Arrive
  <2>2. /\ Len(sent') = Len(sent) + 1
        /\ \A k \in 1..Len(sent) : sent'[k] = sent[k]
        /\ sent'[Len(sent) + 1] = f
    BY <1>0, <2>1, AppendProperties DEF TypeOK
  <2>3. call' = call
    BY <1>2 DEF Arrive
  <2> QED
    BY <1>0, <2>1, <2>2, <2>3
<1>3. CASE Interrupt
  <2>1. /\ Len(sent') = read
        /\ \A k \in 1..read : sent'[k] = sent[k]
    BY <1>0, <1>3, SubSeqProperties DEF Interrupt, TypeOK
  <2>2. call' = call
    BY <1>3 DEF Interrupt
  <2> QED
    BY <1>0, <2>1, <2>2
<1> QED
  BY <1>1, <1>2, <1>3 DEF Next, vars, Cancel, Step, Stream, BuildRequest, Connect, RetryConnect,
     ReturnCanceled, Take, Dispatch, Drop, DecodeFails, Decode, ReportError, Fetch, FetchFails,
     FetchRefused, FetchedMessage, FetchedFile, ReadAll, ReadFails, CloseBody, Handle, Deliver,
     HandlerReturns

\* ReceiveEvents finds the handler by the event's own type; the other calls
\* never look at it, and only the filter in their request saves them.
LEMMA HandledIsOwnType ==
  ASSUME NEW c \in Call, NEW f, MayHandle(c, f), c.op = "single" => Requested(c, f)
  PROVE  f.type \in c.handlers
<1>1. CASE c.op = "all"
  BY <1>1 DEF MayHandle, MayIgnore
<1>2. CASE c.op # "all"
  <2>1. PICK t \in EventTypes : c = SingleCall(t)
    BY <1>2 DEF Call
  <2>2. c.op = "single" /\ c.types = {t} /\ c.handlers = {t}
    BY <2>1 DEF SingleCall
  <2> QED
    BY <2>2 DEF Requested
<1> QED
  BY <1>1, <1>2

\* With a server that honours the filter, each handler only gets events of its
\* own type. Without one this is false, and is not claimed.
THEOREM OnlyOwnTypeCorrect == ASSUME ServerFilters PROVE Spec => []OnlyOwnType
<1>1. IInv /\ FilterInv => OnlyOwnType
  <2> SUFFICES ASSUME IInv, FilterInv, NEW i \in DOMAIN log, log[i].what = "handler"
               PROVE  sent[log[i].frame].type \in call.handlers
    BY DEF OnlyOwnType
  <2> DEFINE k == log[i].frame
  <2>1. read \in Nat /\ Len(sent) \in Nat /\ read <= Len(sent) /\ call \in Call
    BY ReceiveAssumption, LenProperties DEF IInv, TypeOK
  <2>2. k \in 1..read /\ MayHandle(call, sent[k])
    BY DEF IInv, LogInv, FateInv
  <2>3. Requested(call, sent[k])
    BY <2>1, <2>2 DEF FilterInv
  <2> QED
    BY <2>1, <2>2, <2>3, HandledIsOwnType
<1>2. Spec => []FilterInv
  BY FilterInit, FilterNext, TypeCorrect, PTL DEF Spec
<1> QED
  BY <1>1, <1>2, Invariant, PTL
-----------------------------------------------------------------------------
(***************************************************************************)
(* The refinement.  fate is the abstract fate the history stands for; only *)
(* Drop, ReportError and HandlerReturns add to it.                         *)
(***************************************************************************)
fate == [k \in 1..Settled |-> FateOf(k)]

\* A step that settles no frame leaves the abstract fates as they are.
LEMMA FateUnchanged ==
  ASSUME IInv, Settled' = Settled,
         \/ UNCHANGED log
         \/ /\ pc \in Processing
            /\ read \in Nat
            /\ \E w \in Callback : Note(w)
  PROVE  fate' = fate
<1>1. CASE UNCHANGED log
  BY <1>1, CalledUnchanged DEF fate, FateOf
<1>2. CASE pc \in Processing /\ read \in Nat /\ \E w \in Callback : Note(w)
  <2>1. Settled = read - 1
    BY <1>2 DEF Settled
  <2>2. PICK w \in Callback : Note(w)
    BY <1>2
  <2>3. \A k, v : Called(k, v)' <=> Called(k, v) \/ (k = read /\ v = w)
    BY <1>2, <2>2, NoteCalled DEF IInv
  <2>4. \A k \in 1..Settled : FateOf(k)' = FateOf(k)
    BY <1>2, <2>1, <2>3 DEF FateOf
  <2> QED
    BY <2>4 DEF fate
<1> QED
  BY <1>1, <1>2

\* A step that settles a frame adds its fate.
LEMMA FateAppended ==
  ASSUME TypeOK, pc \in Processing, pc' \notin Processing, read \in Nat \ {0}, read' = read,
         \A k \in 1..(read - 1) : FateOf(k)' = FateOf(k)
  PROVE  /\ Len(fate) = read - 1
         /\ fate \in Seq(Fate)
         /\ fate' = Append(fate, FateOf(read)')
<1>1. Settled = read - 1 /\ Settled' = read
  BY DEF Settled
<1>2. /\ fate = [k \in 1..(read - 1) |-> FateOf(k)]
      /\ fate' = [k \in 1..read |-> FateOf(k)']
  BY <1>1 DEF fate
<1>3. Len(fate) = read - 1 /\ fate \in Seq(Fate)
  BY <1>2 DEF FateOf, Fate
<1>4. FateOf(read)' \in Fate
  BY DEF FateOf, Fate
<1>5. /\ Append(fate, FateOf(read)') \in Seq(Fate)
      /\ Len(Append(fate, FateOf(read)')) = read
      /\ \A k \in 1..(read - 1) : Append(fate, FateOf(read)')[k] = fate[k]
      /\ Append(fate, FateOf(read)')[read] = FateOf(read)'
  BY <1>3, <1>4, AppendProperties
<1>6. fate' \in Seq(Fate) /\ Len(fate') = read
  <2>1. \A k \in 1..read : FateOf(k)' \in Fate
    BY DEF FateOf, Fate
  <2> QED
    BY <1>2, <2>1
<1>7. \A k \in 1..read : fate'[k] = Append(fate, FateOf(read)')[k]
  BY <1>2, <1>5
<1> QED
  BY <1>3, <1>5, <1>6, <1>7, SeqEqual

\* Both specifications read the same vocabulary.
LEMMA SameCalls == Delivery!Call = Call
  BY DEF Call, SingleCall, EventTypes, Delivery!Call, Delivery!SingleCall, Delivery!EventTypes

LEMMA SameFates == \A c, f : Delivery!Fates(c, f) = Fates(c, f)
  BY DEF Fates, Fate, MayIgnore, MayHandle, MayFail, LacksPayload, NeedsFetch, IsMessage,
     IsFile, Target, Delivery!Fates, Delivery!Fate, Delivery!MayIgnore, Delivery!MayHandle,
     Delivery!MayFail, Delivery!LacksPayload, Delivery!NeedsFetch, Delivery!IsMessage,
     Delivery!IsFile, Delivery!Target

LEMMA RefinementInit == Init => Delivery!Init
<1> SUFFICES ASSUME Init PROVE Delivery!Init
  OBVIOUS
<1>1. Settled = 0
  BY DEF Init, Settled, Processing
<1>2. fate = <<>>
  BY <1>1 DEF fate
<1> QED
  BY <1>2, SameCalls, ReceiveAssumption DEF Init, Delivery!Init, fate

LEMMA RefinementNext == IInv /\ IInv' /\ [Next]_vars => [Delivery!Next]_(Delivery!vars)
<1> SUFFICES ASSUME IInv, IInv', [Next]_vars
             PROVE  Delivery!Next \/ UNCHANGED Delivery!vars
  BY DEF Delivery!vars
<1>0. /\ TypeOK
      /\ read \in Nat /\ Len(sent) \in Nat /\ read <= Len(sent)
      /\ pc \in Processing => read \in 1..Len(sent)
  BY LenProperties DEF IInv, TypeOK, LogInv
<1>1. ASSUME UNCHANGED <<call, sent, fate>>, pc' # "returned", pc # "returned"
      PROVE  UNCHANGED Delivery!vars
  BY <1>1 DEF fate, Delivery!vars
<1>2. ASSUME UNCHANGED <<call, sent, fate>>, pc' = "returned", pc # "returned"
      PROVE  Delivery!Return
  BY <1>2 DEF fate, Delivery!Return
<1>3. CASE UNCHANGED vars
  <2>1. UNCHANGED <<call, pc, sent, fate>>
    BY <1>3, FateUnchanged DEF vars, Settled
  <2> QED
    BY <2>1 DEF fate, Delivery!vars
<1>4. CASE Cancel
  <2>1. UNCHANGED <<call, pc, sent, fate>>
    BY <1>4, FateUnchanged DEF Cancel, Settled
  <2> QED
    BY <2>1 DEF fate, Delivery!vars
<1>5. CASE Arrive
  <2>1. /\ UNCHANGED <<call, pc, fate>> /\ pc # "returned"
        /\ \E f \in Frames : sent' = Append(sent, f)
    BY <1>5, FateUnchanged DEF Arrive, Settled, Processing
  <2> QED
    BY <2>1 DEF fate, Delivery!Arrive, Delivery!Next
<1>6. CASE Interrupt
  <2>1. /\ UNCHANGED <<call, fate>> /\ pc # "returned"
        /\ sent' = SubSeq(sent, 1, read) /\ Settled = read
        /\ pc' \in {"connecting", "returned"}
    BY <1>6, FateUnchanged DEF Interrupt, Goto, Return, Settled, Processing
  <2>2. Len(fate) = read
    BY <1>0, <2>1 DEF fate
  <2>3. CASE pc' = "returned"
    BY <2>1, <2>2, <2>3 DEF fate, Delivery!LoseAndReturn, Delivery!Next
  <2>4. CASE pc' = "connecting"
    BY <2>1, <2>2, <2>4 DEF fate, Delivery!Lose, Delivery!Next
  <2> QED
    BY <2>1, <2>3, <2>4
<1>7. CASE Stream
  <2>1. UNCHANGED <<call, sent, log>> /\ pc # "returned" /\ Settled' = Settled
    BY <1>0, <1>7 DEF Stream, BuildRequest, Connect, RetryConnect, ReturnCanceled, Take, Goto,
       Return, Settled, Processing
  <2>2. UNCHANGED fate
    BY <2>1, FateUnchanged
  <2> QED
    BY <1>1, <1>2, <2>1, <2>2 DEF Delivery!Next
<1>8. CASE DecodeFails \/ Decode \/ Fetch
  <2>1. /\ UNCHANGED <<call, sent, read>> /\ pc \in Processing /\ pc' \in Processing
        /\ UNCHANGED log \/ Note("closeError")
    BY <1>8 DEF DecodeFails, Decode, PayloadStep, Fetch, FetchFails, FetchRefused,
       FetchedMessage, FetchedFile, ReadAll, ReadFails, CloseBody, Goto, Processing
  <2>2. UNCHANGED fate
    BY <1>0, <2>1, FateUnchanged DEF Settled, Callback
  <2> QED
    BY <1>1, <2>1, <2>2 DEF Processing
<1>9. CASE Deliver
  <2>1. /\ UNCHANGED <<call, sent, read>> /\ pc \in Processing /\ pc' \in Processing
        /\ Note("handler")
    BY <1>9 DEF Deliver, Goto, Processing
  <2>2. UNCHANGED fate
    BY <1>0, <2>1, FateUnchanged DEF Settled, Callback
  <2> QED
    BY <1>1, <2>1, <2>2 DEF Processing
<1>10. CASE Drop \/ ReportError \/ HandlerReturns
  <2>1. /\ UNCHANGED <<call, sent, read>> /\ pc \in Processing /\ pc' = "streaming"
        /\ UNCHANGED log \/ Note("error")
    BY <1>10 DEF Drop, ReportError, HandlerReturns, Goto, Processing
  <2>2. read \in Nat \ {0} /\ read \in 1..Len(sent)
    BY <1>0, <2>1
  <2>3. \A k \in 1..(read - 1) : FateOf(k)' = FateOf(k)
    BY <1>0, <2>1, NoteCalled, CalledUnchanged DEF FateOf, Callback
  <2>4. Len(fate) = read - 1 /\ fate' = Append(fate, FateOf(read)')
    BY <1>0, <2>1, <2>2, <2>3, FateAppended DEF Processing
  <2>5. FateOf(read)' \in Fates(call, sent[read])
    <3>1. /\ FateInv' /\ Settled' = read
      BY <2>1 DEF IInv, Settled, Processing
    <3>2. /\ Called(read, "handler")' => MayHandle(call, sent[read])
          /\ Called(read, "error")' => MayFail(call, sent[read])
      BY <2>1, <3>1 DEF FateInv, Called
    <3>3. \/ Called(read, "handler")' \/ Called(read, "error")'
          \/ MayIgnore(call, sent[read])
      BY <2>1, <2>2, <3>1 DEF FateInv
    <3> QED
      BY <3>2, <3>3 DEF FateOf, Fates, Fate
  <2>6. Len(fate) + 1 = read /\ Len(fate) < Len(sent)
    BY <1>0, <2>2, <2>4
  <2>7. Delivery!Settle
    BY <2>1, <2>4, <2>5, <2>6, SameFates DEF fate, Delivery!Settle, Processing
  <2> QED
    BY <2>7 DEF Delivery!Next
<1> QED
  BY <1>3, <1>4, <1>5, <1>6, <1>7, <1>8, <1>9, <1>10 DEF Next, Step, Dispatch, Handle

\* The receive call implements its promise: frames are settled in order, each
\* with one fate its content and the handlers allow, none after the return.
THEOREM DeliveryImplemented == Spec => ImplementsDelivery
<1> QED
  BY RefinementInit, RefinementNext, Invariant, PTL DEF Spec, ImplementsDelivery, Delivery!Spec
=============================================================================
