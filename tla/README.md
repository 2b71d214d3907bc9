# agrirouter SDK for Go: TLA+ models, checks and proofs

The SDK (`src/`) lets an application call the agrirouter API and listen to its
event stream. This project models what its code does, from the code itself:
`client.go`, `events.go`, `endpoint_name.go`, the generated client they use
(`internal/oapi`), the server and helpers of the integration tests
(`internal/tests`), and the interactive part of the example `art`.

## Inventory

| Component | State | Operations | Modules |
|---|---|---|---|
| Event stream reader, `events.go` | position in the stream, the event in process, an open payload response, the context | `ReceiveEvents`, five single-type calls, dispatch, decoding, `fetchMessagePayload`, `fetchFilePayload` | `ReceiveEvents`, over `EventFrames`; promise in `EventDelivery` |
| Client configuration, `client.go`, `oapi.client.go` | HTTP clients, request editors, server URL, the global `sse.DefaultClient` | `NewClient`, the three options, request building, `applyEditors`, set-up of a stream | `ClientRequests` |
| API calls, `client.go`, `oapi.client.go` | none in the SDK; a request and a response under way, the endpoint at the agrirouter | `PutEndpoint`, `DeleteEndpoint`, `SendMessages`, `ConfirmMessages`, the two list calls | `ApiCalls`; promise in `AtomicCalls` |
| Endpoint names, `endpoint_name.go` | none | `NormalizeEndpointName` | `EndpointName` |
| Test server, `internal/tests/test_server`, `oapi.server.go` | an unbuffered and two bounded channels, a goroutine and an echo context per stream, payload routes | binding and refusing requests, API handlers, responses, `ReceiveEvents`, test-event loop, ready event | `TestServer`, `IntegrationTest` |
| Test expectations, `internal/tests/agriroutertestcontainer`, `integration_test.go` | received events, expectations, ready | set-up, listener, `add`, `Expect`, `CheckExpectations` | `TestEvents`, `IntegrationTest` |
| Generated models, `models.go` | data | JSON | only the decoding an event branches on, in `EventFrames` |
| `art` REPL and commands, `examples/art/cmd` | the line, the environment, the running command | readline loop, `set-tenant`, running a command, `uuidFlagOrEnv`, `.env` | `ArtRepl` |
| `art serve` web terminal, `serve.go`, `ui/index.html` | web socket, pseudo terminal, process | `handleTerminalWS`, its goroutine and deferred calls, the page | `WebTerminal`, over `ArtRepl` |
| Code generation | | | not modelled |

How they interact: the application calls the SDK from any number of goroutines.
An API call goes through the generated client, which applies the request editors
and sends the request with the configured HTTP client. A receive call builds its
request itself, puts the same HTTP client into the library's global
`sse.DefaultClient`, makes a connection of that and then stays in
`Connection.Connect`, which calls back into the SDK, and the SDK into the
application's handler or error handler, all in the one calling goroutine.
Payloads that are not in the event are fetched there too, with a client of
their own. The test server plays the agrirouter and tells the expectations of
a test what happened over a second stream. `art serve` puts a web socket in
front of `art repl`, which runs `art` again for each line.

What is hard here: streams of several SDK clients share a global; a frame can fail
in a dozen places and must end in one callback; payload responses have to be
closed on every way out; a cancelled context is noticed between frames only;
interrupted streams lose frames; a failed API call may still be carried out
later; the streams of the test server compete for the same channels; a test
expects what the server may tell only later; a web terminal has a browser, two
loops, a process and its child, any of which may go away first.

## Modules

`EventFrames` is the vocabulary: an event by its type, how far it decodes
(`shape`) and where its payload is; a receive call by its filter and its
non-nil handlers; and `Fates`, what the documentation allows to become of a
frame (handled, failed, ignored).

`EventDelivery` is the abstract promise: frames arrive, are settled one at a time
in order with one of their fates, and are never settled after the call
returned; what is not settled may be lost with the connection.

`ReceiveEvents` is one receive call in detail. `pc` follows the goroutine:

| `pc` | code | actions leaving it |
|---|---|---|
| start | `receiveAndHandleEvents` up to the request | `BuildRequest` |
| connecting | `conn.Connect`, up to the validated response | `Connect`, `RetryConnect`, `ReturnCanceled` |
| streaming | waiting for a frame | `Take`, `Interrupt`, `ReturnCanceled` |
| dispatch | callback, `dispatchEvent`, the nil check, `AsXxx` | `Drop`, `DecodeFails`, `Decode` |
| fetch, readAll | `fetchMessagePayload`, `fetchFilePayload` | `FetchFails`, `FetchRefused`, `FetchedMessage`, `FetchedFile`, `ReadAll`, `ReadFails` |
| closeKeep, closeDrop | the deferred or explicit `Body.Close` | `CloseBody` |
| report | `errorHandler(err); return` | `ReportError` |
| deliver, handling | the handler | `Deliver`, `HandlerReturns` |

`sent` are the frames that reached the application, `read` how many were taken,
`body` the payload response of each frame, `log` every callback made. `got` is a history
of what the payload server gave for a frame, a status of 200 and the whole body; no
action reads it, so `FetchDecides` compares what was delivered with what came.
`Cancel`, `Arrive` and `Interrupt` are the world around it. How `go-sse`
connects, retries and watches the context is external and modelled from its
use: a failed transport may be tried again, a refused response is final, the
context is looked at between attempts and frames. `MCReceiveEvents` gives it
frames for every branch and receive calls of every kind.

`ClientRequests` has several SDK clients and goroutines. `client` is what
`NewClient` makes of the options, `sse` the HTTP client in `sse.DefaultClient`,
`sent` every request with the HTTP client, editors and path it left with.
`SetHTTPClient` and `NewConnection` are two steps, as they are in the code. Paths are
sequences of members of `Segment`.

`ApiCalls` sends each call's request once, over a network that loses and delays
requests and answers; `GiveUp` ends a call by its context or a transport error
while the request may still be under way; `Success` is what the parsers and
methods make of status and body. The agrirouter (external, from `openapi.yaml`)
keeps one endpoint. `AtomicCalls` is the promise: at most one effect per call,
and success only for a call that took effect while it ran.

`EndpointName` runs the four statements of the function over names of the kinds of
character it tells apart: kept ones, the space, the underscore, and the rest.

`TestServer` has a call's way through the generated wrapper (`Request`, `Reject`,
`Reply`), between them the handlers in the order in which each uses its channels
(of `PutEndpoint` and `ConfirmMessages` that is a part of what `DeleteEndpoint`
does), the loop that receives from the unbuffered one (`Tell` is the rendezvous), and for
every stream its goroutine and its subscription, which come in that order. For a message
the goroutine registers a route and makes its URI from the echo context of the
stream (`MakePayload`), which echo may by then use for another request (`Recycle`).

`TestEvents` has the received events, the expectations with the index each
captured, and the clearing of all by a successful check; a call and its test event
are one step there. `IntegrationTest` composes it with `TestServer`: between a call
and its event are now the handler, the loop that has received the event from the
channel and not yet published it, and the subscription of the listener, which the
set-up waits for by the ready event. It implements `TestEvents`, where an event
the loop holds counts as on its way.

`ArtRepl` is `art repl` on a terminal. `mode` is where its loop is, which also says
what ^C is: a key in raw mode ("editing"), else a signal that kills the command
and, before `signal.Notify`, the repl; what was typed before it may be discarded or not
(`Signal`), since the terminal drops its queue and the editor keeps what it has read ahead.
The editor joins what is typed to the line with or without a space between
(`Joinings`, `Merged`). `Fails` are the errors that end the repl. `command` has what a
command still has to do, in the order of its `RunE` (`getClient` before or after the
flags), with the environment it was given. The commands the repl allows, with their
aliases, are in `ArtCommands`. `lines` and `requests` are histories.
`Die` is the repl killed from outside: its command stays, with the SIGHUP of the
terminal's hang-up under way, or without effect if all of `art serve` was started to
ignore it (`Nohup`).

`WebTerminal` composes it with the page and `handleTerminalWS`: `handler` and `pump`
are its two loops, `pending` the keys its `Write` has not brought into the
terminal, which takes `Capacity` of them while nobody reads. `CloseAndKill`,
`Killed` and `Wait` are the deferred calls; they kill and await the repl, never its command.

A definition commented `Fault:` stands before the one it would replace: it is that
code with a plausible mistake in it, and each property is known to notice one.

## Runs

| Run | Question | Bounds |
|---|---|---|
| `receive_safety` | one fate per frame, payload responses accounted for, a fetched payload delivered exactly when all of it came, `EventDelivery` implemented | 2 frames on a stream out of 14 kinds, 1 reconnection, five receive calls; the server ignores the filter |
| `receive_liveness` | handlers get their own type, cancelling returns whatever the servers do, no frame waits for ever unless a payload server is silent for ever | 3 frames out of 4 kinds, 1 reconnection; the server honours the filter |
| `client_requests` | requests leave as the options ask | two SDK clients, one with every option repeated; five goroutines; streams set up one at a time |
| `shared_sse_client` | the same for streams set up at the same time: **violated** | as above |
| `stream_editors` | editors see the stream request: **violated** | as above |
| `stream_path` | the stream is below the server URL: **violated** | as above |
| `api_calls` | at most one effect, success is real, a lone write is visible | 3 interchangeable calls |
| `endpoint_name` | accepted, stable, as documented, refused only if blank | names up to 6 characters of 5 kinds, maximum 3 |
| `test_server` | events neither doubled nor reordered, payloads can be fetched, calls return | two deletions and a message, channels of 1, two streams of which one leaves |
| `stream_subscribe` | a client that stays sees the deletion: **violated** | 1 call, 1 stream |
| `integration_test` | a test hears of its own calls, always; `TestEvents` implemented | a put and two deletes with the same data, a message; in any order; channels of 1, one stream |
| `web_terminal` | calls for the right tenant, ^C ends commands only, all ends with the browser | two user frames of 7 kinds and the page's own, a terminal that takes 2 keys, SIGHUP not ignored |

Why the bounds are enough: frames influence each other only through `pc`, the
open response and the order of the log, so two frames show every pair of
neighbours and three a frame with neighbours on both sides; one reconnection
is a stream with and without history; a third API call is one that reports
while two others overtake each other; the maximal length of a name is a
parameter of the statements, and 3 leaves inputs shorter, equal, and longer by a
whole run of underscores; channels of capacity one are full with the first event;
of the four calls of a test two agree in type and data, two in data only, and a
third delete would block on the same channel again; two frames of the user and the one
of the page are a command, what is typed ahead of its end, and one key too many.
`CHECK_DEADLOCK FALSE` stands in the configurations because these systems do
stop: a call returns, a test ends.

### What the violated runs show

* `shared_sse_client`: `events.go` 503 and 504 write the global and copy it without
  a lock, so of two streams set up at the same time one may be opened with the
  HTTP client (and its credentials) of the other SDK client. `WithHTTPClient`
  promises its client for all API calls.
* `stream_editors`: the stream request is built by the SDK itself and no request
  editor runs over it, though `WithRequestEditorFn` excepts payloads only.
* `stream_path`: the generated client completes its copy of the server URL with a
  slash, the stream is resolved against the URL as given; with
  `https://host/dev-test` events are asked from `https://host/events`.
* `stream_subscribe`: the test server may publish before its client is subscribed;
  `TestReceiveEndpointDeletionEvents` depends on the timing.

### What the passing runs show of limits

* Nothing in the SDK limits how long a payload is fetched: the request has only the
  context of the call, and the default client, `http.DefaultClient`, has no timeout. A silent
  payload server blocks its frame and all behind it until the caller cancels.
  `FrameSettles` excepts this and `CancelReturns` does not need to.
* `Expect` never compares the type it is given; `InStep` shows that the order of
  calls in the tests makes up for it.
* `web_terminal` reaches states where the handler hangs in `ptmx.Write` because more was
  sent than the terminal takes while a command runs. Until the command returns, ^C and the
  end of the connection go unnoticed. `InterruptEnds` and `LeaveEnds` except this
  state (`Stuck`) if it lasts, and hold in all others: they do not speak for it.
* `web_terminal` also reaches states where the handler has returned and the command of its repl
  is still there. `NoOrphan` says that it has been sent the signal it dies of, unless
  `art serve` ignores SIGHUP (`Nohup`, false in the run; the theorem has both), and
  `LeaveEnds` that it then ends. Under `nohup` a listening command is left for good.
* `CallsReturn` of `test_server` assumes a stream that stays open. Without one, a call that finds
  its channel full blocks for ever.
* The ready event is lost when the listener subscribes later than 100 ms after its
  connection; the set-up then fails by its time limit.

## Fairness

`ReceiveEvents` assumes `WF_vars(Local \/ AbortFetch)`: the goroutine is scheduled where it waits
for no server, which includes that the application's callbacks return, and a fetch whose
context is cancelled ends (`req.WithContext(ctx)`). Nothing is assumed of the event server or the
payload server, which may answer never, of `Cancel`, of `Interrupt` or of retries
(`RetryConnect` is bounded). `CancelReturns` needs no more: a cancelled call leaves a fetch by
its context, finishes the frame in process and returns. `FrameSettles` states its own
assumption, that the goroutine is again and again not waiting for a payload (`Waiting`).
`TestServer` assumes weak fairness of its goroutines
together, which is enough because calls and streams are finitely many, and of
clients opening the streams; `IntegrationTest` the same of the server, and that
the listener reads on and the test polls. `WebTerminal` assumes that the loops of
the repl, the handler and the pump are scheduled and that a process dies of the signal that
kills it, but not that a command ever returns by itself, that the repl fails, or that a user
types or leaves. `ApiCalls` and `ClientRequests` state no liveness: the network
guarantees nothing.

## Proofs

Every invariant and every safety property of the passing runs is a theorem, for every value of
the constants that the assumptions of its module allow.

`ReceiveEventsProofs` proves, for any calls, frames and bounds, `TypeCorrect`,
`OneFateCorrect`, `BodiesCorrect`, `DeliveryCorrect`, `OnlyOwnTypeCorrect` and
`DeliveryImplemented`. They assume only `ReceiveAssumption` (calls and frames are of their
types, bounds are naturals), and `OnlyOwnTypeCorrect` also that the server honours the filter,
without which it is false. None of the properties is inductive. The invariant `IInv` adds

* `LogInv`: callbacks are about frames already read, and none that decides has been
  made for a frame still in process;
* `CurrentInv`: what `pc` says about the frame in process, for instance that at
  "deliver" its handler may be called;
* `BodyInv` and `FateInv`: which `body` each `pc` goes with, and that each settled
  frame got a fate its content allows;
* `FilterInv`, for `OnlyOwnType`: every frame on the stream, and not only those already
  handled, is of a type that was asked for.

`DeliveryCorrect` adds `FetchInv`, which says what the payload server has given at each
`pc`: nothing before the fetch, a status at "readAll", all of it at "closeKeep" and "deliver",
not all at "closeDrop" and "report". That settles the frame in process; frames before it
keep what they have (`PastFetches`).

`IInv` was model-checked before it was proved. Every step gets a named step of its
own in the proof that `[Next]_vars` preserves it. The refinement maps the sequence of
settled frames to their fates: `Deliver` and `ReportError` change no abstract
state until the frame is settled, `Interrupt` maps to `Lose` or `LoseAndReturn`,
and the other steps to stutters.

`ClientRequestsProofs` proves, for any clients, goroutines, paths and lists of options
(`ClientAssumption`), `TypeCorrect`, `ApiCallsAsConfiguredCorrect`, `PayloadsApartCorrect` and,
if the application sets up its streams one at a time (`SerialSetup`),
`StreamsUseOwnClientCorrect`. For the last the invariant `StreamInv` says that between
`SetHTTPClient` and `NewConnection` of a goroutine the global holds its client. The others
need what a list of options comes to, however long: `AppliedAsGiven` shows by induction over
its prefixes that applying them in turn (`Applied`) yields the last HTTP client and all
editors in order, and `ConfiguredAsGiven` adds the defaults. `RequestInv` carries it to the
requests: the editors applied so far are a `Prefix` of the client's, and every request sent was
`SentAsConfigured`. Of two violated properties the theorems say when they do hold: `SerialSetup`
is enough for `StreamsUseOwnClient`, and `StreamsBelowServerCorrect` shows that only a server
URL with a path and no slash behind it can put a stream elsewhere.

`ApiCallsProofs` proves, for any finite set of calls, `TypeCorrect`,
`WriteIsVisibleCorrect` and `AtomicCallsImplemented`. The invariant adds that only a
request on its way can still take effect (`RequestInv`), that an answer taken for a
success is one of a request carried out (`AnswerInv`, by the lemma `RefusalsFail` on the
statuses of each operation), and that a put or delete carried out is visible from then on, also
before its call has reported it (`VisibleInv`). `Start` maps to `Begin` or
`BeginAndFail`, `GiveUp` to `Fail`, `Receive` to `Succeed` or `Fail`.

`EndpointNameProofs` proves all that the run checks, for any alphabet, any maximal length and
names of any length: `TypeCorrect`, `AcceptedCorrect`, `StableCorrect`, `AsDocumentedCorrect` and
`RefusedIfBlankCorrect`. `NormInv` says what the string is before each statement, and the rest is
about the function: what the scan keeps of a prefix (`KeptPlaces`: position i of the
name ends up at the place which is its rank among the kept ones), that it leaves no two
underscores together (`NoneDoubled`) and changes nothing where there are none
(`CollapsedSame`), that cutting does not bring any together (`NormalIs`), whence a second
pass does nothing (`NormalTwice`).

`TestServerProofs` proves `TypeCorrect`, `QueueOrderCorrect`, `OnePlaceCorrect` and
`PayloadReachableCorrect`, for any calls, streams and capacity. `ServerAssumption` says that
each call has an operation, that channels have room for one event at least, and that no call
or stream has the name of a marker its variables hold instead ("idle", "none"). The
invariant has that an event is queued once, by the handler of its call (`QueueInv`), that
a channel is the end of what was queued (`ChannelInv`, by the lemmas `SuffixAppend` and
`SuffixTail`), that what goroutines hold and streams got was taken from it, in that
order (`WorkerInv`), and that no two goroutines hold the same event (`PayloadInv`).
`PlaceInv` adds that what was taken out of a channel is exactly what goroutines hold, streams
got or leaving streams lost, each event in one of the three; `TakeTakes` and `EnqueueTakes`
say what the ends of a channel do to it, and `OnePlaceHolds` counts.

`IntegrationTestProofs` proves `TypeCorrect`, `InStepCorrect` and `ImplementsTestEventsCorrect`,
for any finite set of calls. The invariant says that the books are either `Settled`, nothing
is under way, or `Open`, exactly one test event is, in the loop, in the
subscription, or in the list, and belongs to the call made last; with `SetUpInv`
(no call before the listener subscribed) and `CallInv` (one call at a time, each told
of once). `Tell` maps to the abstract call with its event, `Publish` and the other
steps of the server to stutters.

`WebTerminalProofs` proves `TypeCorrect`, `TenantOfLineCorrect`, `NoOrphanCorrect` and
`SurvivesInterruptCorrect`, for any words, frames and capacity (`TerminalAssumption`: frames
hold what can be typed, two words merge into a word, "unset" is none, bounds are naturals). The
invariant carries the tenant of the session along: `EnvInv` says that the environment of the
repl is that of the next line and the one of a command that of its line, by the lemmas
`NextLine` (a line more does not change the session before it) and `SessionWithDotenv` (to load
.env again in the command changes nothing). `HandlerInv` ties the repl to where the handler is,
and `LeftInv` says that a command has a repl that waits for it, or else the signal of the
hang-up was sent to it, or `Nohup`. That calls are made for UUIDs only, a part of `TypeOK`,
needs `CommandInv`: a command that has no check of its tenant ahead of it has passed one, or is
one that never calls the API for a tenant.

`PrefixInduction` is what the proofs about sequences share. An induction theorem that takes an
operator cannot be instantiated by the provers, one about a *set* can: `SetInduction` follows from
the library's theorem that a nonempty set has a minimal element in a well-founded order, and
`PrefixSetInduction` restricts it to the prefixes of a sequence. `PrefixRecursion` shows with it
that a function defined by recursion over prefixes exists and satisfies its equation, for
which the scan of `EndpointName` and the options of `ClientRequests` are such functions.
`Counting` and `FilterStep` say where a filter puts what it keeps.

Only model-checked: the liveness properties `CancelReturns`, `FrameSettles`, `CallsReturn`,
`ExpectationsMet`, `InterruptEnds` and `LeaveEnds`. They follow from fairness, and the prover has
no reasoning about `ENABLED`.

## Not modelled

Contents of requests, results and events beyond what decides a branch; generated
models and the types of the server stub (no state of their own); nil arguments.
Of the test server the router of echo, to which routes are added while it serves
(a race inside echo). A test that has failed: an `Expect` beside a check
that outlived its time limit, calls after a set-up that did. Of `art` the printing
and saving of what the SDK returns, tab completion, and `/api/validate`, which makes
one SDK call (`ApiCalls` has a call that fails by its time limit) and keeps no state.
The code generation has no run-time part.

`ReceiveEvents` and the streams of `TestServer` are not composed: the first takes what
arrives in any order and number (`Arrive`), the second says which events a stream of
the test server carries, and no property of either depends on the other.

## Plan

1. For each liveness property, state and prove the safety facts its argument rests on: that in
   every reachable state short of the goal one of the fair actions has its guard satisfied
   (written out, since the prover does not take `ENABLED`), and that a measure decreases.
   TLC still decides the property; the facts would say why it holds at any size.
2. State and prove what `NormalizeEndpointName` does to longer names in terms of shorter ones,
   and which pairs of names it makes the same.
