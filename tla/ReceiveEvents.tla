--------------------------- MODULE ReceiveEvents ---------------------------
(***************************************************************************)
(* One receive call of the SDK (events.go): it opens the event stream,     *)
(* takes the frames off it one at a time, decodes and dispatches each,     *)
(* fetches the payload when it is not embedded, and calls the handler or   *)
(* the error handler.  All of this runs in the one goroutine that called   *)
(* the SDK; the server, the network, the payload store and the             *)
(* application's cancel run beside it and may act between any two steps.   *)
(***************************************************************************)
EXTENDS EventFrames, Sequences, FiniteSets

CONSTANTS Calls,          \* the receive calls considered
          Frames,         \* the frames the server may send
          MaxFrames,      \* bound: frames on one stream
          MaxRetries,     \* bound: reconnections of one call
          ServerFilters   \* the server honours the types it is asked for

ASSUME ReceiveAssumption == /\ Calls \subseteq Call
                            /\ Frames \subseteq Frame
                            /\ MaxFrames \in Nat
                            /\ MaxRetries \in Nat
                            /\ ServerFilters \in BOOLEAN

VARIABLES call,      \* which receive call this is: its filter and its handlers
          pc,        \* where the goroutine is
          canceled,  \* the context of the call was cancelled
          sent,      \* the frames that reached the application, in order
          read,      \* how many of them were taken off the stream
          body,      \* body[k]: the payload response of frame k
          got,       \* history: what the payload server gave for frame k
          log,       \* the callbacks made so far, in order
          retries,   \* reconnections so far
          result     \* why the call returned

vars == <<call, pc, canceled, sent, read, body, got, log, retries, result>>

BodyState == {"none", "open", "closed", "handed"}
\* The status was 200; the body was read to its end.
Outcome   == {"accepted", "whole"}
Callback  == {"handler", "error", "closeError"}
Entry     == [frame : Nat, what : Callback]
Result    == {"none", "apiFailed", "context", "rejected", "broken"}

Setup      == {"start", "connecting"}
Processing == {"dispatch", "report", "fetch", "readAll", "closeKeep", "closeDrop",
               "deliver", "handling"}
PC == Setup \cup Processing \cup {"streaming", "returned"}

Current == sent[read]
Note(w) == log' = Append(log, [frame |-> read, what |-> w])
Goto(p) == pc' = p
-----------------------------------------------------------------------------
Init == /\ call \in Calls
        /\ pc = "start"
        /\ canceled = FALSE
        /\ sent = <<>>
        /\ read = 0
        /\ body = [k \in 1..MaxFrames |-> "none"]
        /\ got = [k \in 1..MaxFrames |-> {}]
        /\ log = <<>>
        /\ retries = 0
        /\ result = "none"

(***************************************************************************)
(* The world around the call.                                              *)
(***************************************************************************)
Cancel == /\ ~canceled
          /\ pc # "returned"
          /\ canceled' = TRUE
          /\ UNCHANGED <<call, pc, sent, read, body, got, log, retries, result>>

\* A frame reaches the application; only what the filter lets through does
\* when the server honours it.  Nothing follows once the context has closed
\* the connection.
Arrive == /\ pc \in Processing \cup {"streaming"}
          /\ ~canceled
          /\ Len(sent) < MaxFrames
          /\ \E f \in Frames : /\ ServerFilters => Requested(call, f)
                               /\ sent' = Append(sent, f)
          /\ UNCHANGED <<call, pc, canceled, read, body, got, log, retries, result>>
-----------------------------------------------------------------------------
(***************************************************************************)
(* receiveAndHandleEvents: build the request, connect, read the stream.    *)
(***************************************************************************)
Return(r) == /\ pc' = "returned"
             /\ result' = r

BuildRequest == /\ pc = "start"
                /\ \/ Goto("connecting") /\ UNCHANGED result
                   \/ Return("apiFailed")
                /\ UNCHANGED <<call, canceled, sent, read, body, got, log, retries>>

\* conn.Connect, up to the validated response: a refused response is final, a
\* failed transport may be tried again.
Connect == /\ pc = "connecting"
           /\ \/ Goto("streaming") /\ UNCHANGED result
              \/ Return("rejected")
              \/ Return("broken")
           /\ UNCHANGED <<call, canceled, sent, read, body, got, log, retries>>

RetryConnect == /\ pc = "connecting"
                /\ ~canceled
                /\ retries < MaxRetries
                /\ retries' = retries + 1
                /\ UNCHANGED <<call, pc, canceled, sent, read, body, got, log, result>>

\* Connect looks at the context between attempts and between frames only.
ReturnCanceled == /\ pc \in {"connecting", "streaming"}
                  /\ canceled
                  /\ Return("context")
                  /\ UNCHANGED <<call, canceled, sent, read, body, got, log, retries>>

\* The stream ends or breaks. The SDK keeps no position in it, so the frames
\* not yet taken off are gone, whether Connect dials again or gives up.
Interrupt == /\ pc = "streaming"
             /\ sent' = SubSeq(sent, 1, read)
             /\ \/ /\ ~canceled
                   /\ retries < MaxRetries
                   /\ retries' = retries + 1
                   /\ Goto("connecting")
                   /\ UNCHANGED result
                \/ /\ Return("broken")
                   /\ UNCHANGED retries
             /\ UNCHANGED <<call, canceled, read, body, got, log>>

\* Fault: the end of the stream read as one more frame.
TakePastEnd == /\ pc = "streaming"
               /\ read <= Len(sent)
               /\ read' = read + 1
               /\ Goto("dispatch")
               /\ UNCHANGED <<call, canceled, sent, body, got, log, retries, result>>

Take == /\ pc = "streaming"
        /\ read < Len(sent)
        /\ read' = read + 1
        /\ Goto("dispatch")
        /\ UNCHANGED <<call, canceled, sent, body, got, log, retries, result>>
-----------------------------------------------------------------------------
(***************************************************************************)
(* The callback of SubscribeToAll: the JSON, then dispatchEvent or the one *)
(* decoder of a single-type call.                                          *)
(***************************************************************************)
HasDiscriminator(f) == f.shape \in {"sound", "badData"}

\* Fault: the error of Discriminator is not looked at, the empty type is unknown.
DroppedUnreadable(f) == /\ call.op = "all"
                        /\ ~ \E t \in call.handlers : HasDiscriminator(f) /\ t = f.type

\* dispatchEvent drops a type it does not know, and each dispatchXxx returns
\* on a nil handler before it decodes anything.
Dropped(f) == /\ call.op = "all"
              /\ HasDiscriminator(f)
              /\ ~ \E t \in call.handlers : t = f.type

\* AsXxx is a plain json.Unmarshal: data of another type may or may not fit.
CanDecode(f)    == f.shape = "sound"
CanNotDecode(f) == f.shape # "sound" \/ f.type # Target(call, f)

Drop == /\ pc = "dispatch"
        /\ Dropped(Current)
        /\ Goto("streaming")
        /\ UNCHANGED <<call, canceled, sent, read, body, got, log, retries, result>>

DecodeFails == /\ pc = "dispatch"
               /\ ~Dropped(Current)
               /\ CanNotDecode(Current)
               /\ Goto("report")
               /\ UNCHANGED <<call, canceled, sent, read, body, got, log, retries, result>>

\* messageFromEventData, fileFromEventData and their copies in ReceiveMessages
\* and ReceiveFiles: where the payload comes from.
PayloadStep(f) ==
  LET inEvent == \/ ~IsMessage(call, f) /\ ~IsFile(call, f)
                 \/ IsMessage(call, f) /\ f.payload = "embedded"
  IN IF inEvent THEN "deliver"
     ELSE IF f.payload = "uri" THEN "fetch" ELSE "report"

Decode == /\ pc = "dispatch"
          /\ ~Dropped(Current)
          /\ CanDecode(Current)
          /\ Goto(PayloadStep(Current))
          /\ UNCHANGED <<call, canceled, sent, read, body, got, log, retries, result>>

\* Fault: the return after errorHandler(err) is missing.
ReportErrorAndGoOn == /\ pc = "report"
                      /\ Note("error")
                      /\ Goto("deliver")
                      /\ UNCHANGED <<call, canceled, sent, read, body, got, retries, result>>

ReportError == /\ pc = "report"
               /\ Note("error")
               /\ Goto("streaming")
               /\ UNCHANGED <<call, canceled, sent, read, body, got, retries, result>>
-----------------------------------------------------------------------------
(***************************************************************************)
(* fetchMessagePayload and fetchFilePayload.  The payload server answers   *)
(* when it likes: by default the client that fetches has no time limit.    *)
(***************************************************************************)
FetchFails == /\ pc = "fetch"
              /\ Goto("report")
              /\ UNCHANGED <<call, canceled, sent, read, body, got, log, retries, result>>

\* Fault: the body of a refused fetch is not closed.
FetchRefusedUnclosed == /\ pc = "fetch"
                        /\ body' = [body EXCEPT ![read] = "open"]
                        /\ Goto("report")
                        /\ UNCHANGED <<call, canceled, sent, read, got, log, retries, result>>

\* Fault: the status is not looked at, so a refusal passes for the payload.
FetchRefusedUnchecked ==
  /\ pc = "fetch"
  /\ body' = [body EXCEPT ![read] = IF IsFile(call, Current) THEN "handed" ELSE "open"]
  /\ Goto(IF IsFile(call, Current) THEN "deliver" ELSE "readAll")
  /\ UNCHANGED <<call, canceled, sent, read, got, log, retries, result>>

\* A status other than 200: the message path closes the body by its deferred
\* call, the file path by an explicit one.
FetchRefused == /\ pc = "fetch"
                /\ body' = [body EXCEPT ![read] = "open"]
                /\ Goto("closeDrop")
                /\ UNCHANGED <<call, canceled, sent, read, got, log, retries, result>>

FetchedMessage == /\ pc = "fetch"
                  /\ IsMessage(call, Current)
                  /\ body' = [body EXCEPT ![read] = "open"]
                  /\ got' = [got EXCEPT ![read] = {"accepted"}]
                  /\ Goto("readAll")
                  /\ UNCHANGED <<call, canceled, sent, read, log, retries, result>>

\* A file's body is not read: the handler gets it as the payload's reader.
FetchedFile == /\ pc = "fetch"
               /\ IsFile(call, Current)
               /\ body' = [body EXCEPT ![read] = "handed"]
               /\ got' = [got EXCEPT ![read] = {"accepted"}]
               /\ Goto("deliver")
               /\ UNCHANGED <<call, canceled, sent, read, log, retries, result>>

ReadAll == /\ pc = "readAll"
           /\ got' = [got EXCEPT ![read] = @ \cup {"whole"}]
           /\ Goto("closeKeep")
           /\ UNCHANGED <<call, canceled, sent, read, body, log, retries, result>>

\* The connection breaks off in the middle of the body.
ReadFails == /\ pc = "readAll"
             /\ Goto("closeDrop")
             /\ UNCHANGED <<call, canceled, sent, read, body, got, log, retries, result>>

\* Fault: the payload is requested without the context of the call.
AbortFetchDetached == FALSE

\* What cancelling does to a fetch in progress: the request carries the context
\* of the call, so that Do, or the reading of the body, fails.
AbortFetch == canceled /\ (FetchFails \/ ReadFails)

\* Fault: a refused or unreadable payload is fetched again, without a limit.
CloseBodyAndRefetch == /\ pc \in {"closeKeep", "closeDrop"}
                       /\ body' = [body EXCEPT ![read] = "closed"]
                       /\ Goto(IF pc = "closeKeep" THEN "deliver" ELSE "fetch")
                       /\ UNCHANGED <<call, canceled, sent, read, got, log, retries, result>>

\* A failing Close is reported besides whatever becomes of the message.
CloseBody == /\ pc \in {"closeKeep", "closeDrop"}
             /\ body' = [body EXCEPT ![read] = "closed"]
             /\ Note("closeError") \/ UNCHANGED log
             /\ Goto(IF pc = "closeKeep" THEN "deliver" ELSE "report")
             /\ UNCHANGED <<call, canceled, sent, read, got, retries, result>>
-----------------------------------------------------------------------------
Deliver == /\ pc = "deliver"
           /\ Note("handler")
           /\ Goto("handling")
           /\ UNCHANGED <<call, canceled, sent, read, body, got, retries, result>>

\* A file handler may close the reader it was given (by a type assertion, its
\* type is io.Reader), or leave it open.
HandlerReturns == /\ pc = "handling"
                  /\ \/ UNCHANGED body
                     \/ /\ body[read] = "handed"
                        /\ body' = [body EXCEPT ![read] = "closed"]
                  /\ Goto("streaming")
                  /\ UNCHANGED <<call, canceled, sent, read, got, log, retries, result>>
-----------------------------------------------------------------------------
Stream   == BuildRequest \/ Connect \/ RetryConnect \/ ReturnCanceled \/ Take
Dispatch == Drop \/ DecodeFails \/ Decode \/ ReportError
Fetch    == FetchFails \/ FetchRefused \/ FetchedMessage \/ FetchedFile \/ ReadAll
              \/ ReadFails \/ CloseBody
Handle   == Deliver \/ HandlerReturns

Step == Stream \/ Dispatch \/ Fetch \/ Handle

Next == Cancel \/ Arrive \/ Interrupt \/ Step

Spec == Init /\ [][Next]_vars

\* What the goroutine does without waiting for a server.
Local == BuildRequest \/ ReturnCanceled \/ Take \/ Dispatch \/ CloseBody \/ Handle

\* The goroutine is scheduled, the application's callbacks return, and a fetch
\* whose context is cancelled ends.  That a server ever answers is not assumed.
FairSpec == Spec /\ WF_vars(Local \/ AbortFetch)
-----------------------------------------------------------------------------
(***************************************************************************)
(* Properties.                                                             *)
(***************************************************************************)
TypeOK == /\ call \in Calls
          /\ pc \in PC
          /\ canceled \in BOOLEAN
          /\ sent \in Seq(Frame)
          /\ Len(sent) <= MaxFrames
          /\ read \in 0..Len(sent)
          /\ body \in [1..MaxFrames -> BodyState]
          /\ got \in [1..MaxFrames -> SUBSET Outcome]
          /\ log \in Seq(Entry)
          /\ retries \in 0..MaxRetries
          /\ result \in Result

\* Callback w was made for frame k.
Called(k, w) == \E i \in DOMAIN log : log[i] = [frame |-> k, what |-> w]

\* The frames whose processing is over.
Settled == IF pc \in Processing THEN read - 1 ELSE read

Final == {"handler", "error"}

\* Handling a frame and failing on it exclude each other and happen once: after
\* the callback that decides a frame, every callback is about a later frame.
\* In particular no error is reported about a message already delivered, and
\* the error of a failed Close comes before the message, never after it.
OneFate == \A i, j \in DOMAIN log :
             i < j /\ log[i].what \in Final => log[i].frame < log[j].frame

\* The SDK leaves no payload response open: an open one is being read by the
\* frame in process, and one that was handed out belongs to a file whose handler
\* was called with it, or is called next.
BodiesAccounted ==
  \A k \in 1..MaxFrames :
    /\ body[k] = "open" => k = read /\ pc \in {"readAll", "closeKeep", "closeDrop"}
    /\ body[k] = "handed" =>
         /\ k <= read
         /\ IsFile(call, sent[k])
         /\ \/ k = read /\ pc = "deliver"
            \/ Called(k, "handler")

\* The payload server gave all that frame k needs: a file is handed over as it
\* comes in, a message only when it has been read to the end.
FetchSucceeded(k) == got[k] = IF IsMessage(call, sent[k]) THEN Outcome ELSE {"accepted"}

\* A payload that has to be fetched reaches a handler exactly when its fetch
\* succeeded: never a refused one or a part of one, and no later failure, such as
\* that of Close, loses a payload that is there.  The message's body is closed by
\* then; the file's is the handler's.
FetchDecides ==
  \A k \in 1..read : NeedsFetch(call, sent[k]) =>
    /\ Called(k, "handler") =>
         /\ FetchSucceeded(k)
         /\ body[k] \in IF IsMessage(call, sent[k]) THEN {"closed"} ELSE {"handed", "closed"}
    /\ k <= Settled /\ FetchSucceeded(k) => Called(k, "handler")

\* With a server that honours the filter, each handler only ever gets events of
\* its own type, though a single-type call never looks at the event_type.
OnlyOwnType ==
  \A i \in DOMAIN log :
    log[i].what = "handler" => sent[log[i].frame].type \in call.handlers

\* "This function blocks until the context is canceled": cancelling ends the
\* call from wherever it is, a fetch or a handler in progress included, whatever
\* the servers do.
CancelReturns == canceled ~> pc = "returned"

\* The goroutine waits for the payload server.
Waiting == pc \in {"fetch", "readAll"}

\* Unless a payload server is silent for ever, no frame is stuck behind another
\* one: it is settled, or lost with the connection, or the call returns first.
FrameSettles == []<>~Waiting =>
  \A k \in 1..MaxFrames :
    Len(sent) >= k ~> (Settled >= k \/ Len(sent) < k \/ pc = "returned")

(***************************************************************************)
(* The call implements the promise of EventDelivery.                       *)
(***************************************************************************)
FateOf(k) ==
  IF Called(k, "handler") THEN "handled"
  ELSE IF Called(k, "error") THEN "failed" ELSE "ignored"

Delivery == INSTANCE EventDelivery
              WITH arrived  <- sent,
                   fate     <- [k \in 1..Settled |-> FateOf(k)],
                   returned <- pc = "returned"

\* Every frame gets exactly one of the fates its content and the call's handlers
\* allow, in order, and only an event without a handler is dropped silently.
ImplementsDelivery == Delivery!Spec
=============================================================================
