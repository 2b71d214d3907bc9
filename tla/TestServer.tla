----------------------------- MODULE TestServer -----------------------------
(***************************************************************************)
(* The server of the integration tests (testserver.go and the loop in      *)
(* test_server_main.go): API handlers tell a test-event loop what happened *)
(* over an unbuffered channel, and put deletions and messages into two     *)
(* bounded channels.  Every open event stream has a goroutine that takes   *)
(* from both and publishes to the one subscriber of the stream, for a      *)
(* message after it has registered a route for the payload.                *)
(***************************************************************************)
EXTENDS Naturals, Sequences, FiniteSets, SequencesExt

CONSTANTS Calls,     \* the API calls made to the server
          OpOf,      \* what each of them is
          Streams,   \* the event streams clients open
          Leavers,   \* those whose client may go away
          Capacity   \* of the two bounded channels, 100 in NewServer

Op == {"put", "confirm", "delete", "send"}

ASSUME ServerAssumption == /\ OpOf \in [Calls -> Op]
                           /\ Leavers \subseteq Streams
                           /\ Capacity \in Nat \ {0}
                           /\ Calls \cap {"none", "idle", "stopped"} = {}
                           /\ Streams \cap {"none", "other"} = {}

VARIABLES pc,         \* where the handler of each call is
          loop,       \* the call whose test event the loop publishes, or "idle"
          channel,    \* the two bounded channels
          queued,     \* history: all that was ever put into them, in order
          stream,     \* how far each stream is
          worker,     \* its goroutine: "none", "idle", "stopped" or the event it has
          payload,    \* for each message: no route yet, or the request its URI names
          delivered,  \* the events each stream's client was sent, in order
          lost        \* the events nobody was subscribed for

vars == <<pc, loop, channel, queued, stream, worker, payload, delivered, lost>>

Kinds     == {"delete", "send"}
Eventful  == {c \in Calls : OpOf[c] \in Kinds}

TypeOK == /\ pc \in [Calls -> {"new", "tell", "enqueue", "reply", "done"}]
          /\ loop \in Calls \cup {"idle"}
          /\ channel \in [Kinds -> Seq(Eventful)]
          /\ queued \in [Kinds -> Seq(Eventful)]
          /\ \A k \in Kinds : Len(channel[k]) <= Capacity
          /\ stream \in [Streams -> {"new", "opened", "subscribed", "left", "recycled"}]
          /\ worker \in [Streams -> Eventful \cup {"none", "idle", "stopped"}]
          /\ payload \in [Eventful -> Streams \cup {"none", "other"}]
          /\ delivered \in [Streams -> Seq(Eventful)]
          /\ lost \subseteq Eventful

Init == /\ pc = [c \in Calls |-> "new"]
        /\ loop = "idle"
        /\ channel = [k \in Kinds |-> <<>>]
        /\ queued = [k \in Kinds |-> <<>>]
        /\ stream = [s \in Streams |-> "new"]
        /\ worker = [s \in Streams |-> "none"]
        /\ payload = [e \in Eventful |-> "none"]
        /\ delivered = [s \in Streams |-> <<>>]
        /\ lost = {}
-----------------------------------------------------------------------------
(***************************************************************************)
(* The handlers.  DeleteEndpoint tells the loop first and then queues the  *)
(* deletion, SendMessages does it the other way round, PutEndpoint and     *)
(* ConfirmMessages only tell the loop.  No handler watches its context.    *)
(***************************************************************************)
First(c) == IF OpOf[c] = "send" THEN "enqueue" ELSE "tell"

Second(c) == CASE OpOf[c] = "send" /\ pc[c] = "enqueue" -> "tell"
               [] OpOf[c] = "delete" /\ pc[c] = "tell" -> "enqueue"
               [] OTHER -> "reply"

\* The generated wrapper binds the path, the headers and the body first.
Request(c) == /\ pc[c] = "new"
              /\ pc' = [pc EXCEPT ![c] = First(c)]
              /\ UNCHANGED <<loop, channel, queued, stream, worker, payload, delivered, lost>>

\* What cannot be bound is answered with 400 before the handler is called.
Reject(c) == /\ pc[c] = "new"
             /\ pc' = [pc EXCEPT ![c] = "done"]
             /\ UNCHANGED <<loop, channel, queued, stream, worker, payload, delivered, lost>>

\* The strict handler writes the response the handler returned.
Reply(c) == /\ pc[c] = "reply"
            /\ pc' = [pc EXCEPT ![c] = "done"]
            /\ UNCHANGED <<loop, channel, queued, stream, worker, payload, delivered, lost>>

\* s.events is unbuffered: the send completes when the loop receives.
Tell(c) == /\ pc[c] = "tell"
           /\ loop = "idle"
           /\ loop' = c
           /\ pc' = [pc EXCEPT ![c] = Second(c)]
           /\ UNCHANGED <<channel, queued, stream, worker, payload, delivered, lost>>

\* Fault: the channel grows instead of blocking the handler.
EnqueueUnbounded(c) == /\ pc[c] = "enqueue"
                       /\ channel' = [channel EXCEPT ![OpOf[c]] = Append(@, c)]
                       /\ queued' = [queued EXCEPT ![OpOf[c]] = Append(@, c)]
                       /\ pc' = [pc EXCEPT ![c] = Second(c)]
                       /\ UNCHANGED <<loop, stream, worker, payload, delivered, lost>>

Enqueue(c) == /\ pc[c] = "enqueue"
              /\ Len(channel[OpOf[c]]) < Capacity
              /\ channel' = [channel EXCEPT ![OpOf[c]] = Append(@, c)]
              /\ queued' = [queued EXCEPT ![OpOf[c]] = Append(@, c)]
              /\ pc' = [pc EXCEPT ![c] = Second(c)]
              /\ UNCHANGED <<loop, stream, worker, payload, delivered, lost>>

\* main.go: the loop publishes to the listener of the test container, which
\* the tests wait for before their first call.
PublishTestEvent == /\ loop # "idle"
                    /\ loop' = "idle"
                    /\ UNCHANGED <<pc, channel, queued, stream, worker, payload, delivered, lost>>
-----------------------------------------------------------------------------
(***************************************************************************)
(* ReceiveEvents of the server.                                            *)
(***************************************************************************)
Open(s) == /\ stream[s] = "new"
           /\ stream' = [stream EXCEPT ![s] = "opened"]
           /\ worker' = [worker EXCEPT ![s] = "idle"]
           /\ UNCHANGED <<pc, loop, channel, queued, payload, delivered, lost>>

\* sseServer.ServeHTTP, called after the goroutine was started.
Subscribe(s) == /\ stream[s] = "opened"
                /\ stream' = [stream EXCEPT ![s] = "subscribed"]
                /\ UNCHANGED <<pc, loop, channel, queued, worker, payload, delivered, lost>>

Leave(s) == /\ s \in Leavers
            /\ stream[s] \in {"opened", "subscribed"}
            /\ stream' = [stream EXCEPT ![s] = "left"]
            /\ UNCHANGED <<pc, loop, channel, queued, worker, payload, delivered, lost>>

\* ServeHTTP has returned, the handler too, and echo uses the context again.
Recycle(s) == /\ stream[s] = "left"
              /\ stream' = [stream EXCEPT ![s] = "recycled"]
              /\ UNCHANGED <<pc, loop, channel, queued, worker, payload, delivered, lost>>

\* Fault: the event is taken off the channel only after it was published.
Peek(s, k) == /\ worker[s] = "idle"
              /\ channel[k] # <<>>
              /\ worker' = [worker EXCEPT ![s] = Head(channel[k])]
              /\ UNCHANGED <<pc, loop, channel, queued, stream, payload, delivered, lost>>

\* The select takes any case that is ready, also an event after ctx.Done.
Take(s, k) == /\ worker[s] = "idle"
              /\ channel[k] # <<>>
              /\ worker' = [worker EXCEPT ![s] = Head(channel[k])]
              /\ channel' = [channel EXCEPT ![k] = Tail(@)]
              /\ UNCHANGED <<pc, loop, queued, stream, payload, delivered, lost>>

Stop(s) == /\ worker[s] = "idle"
           /\ stream[s] \in {"left", "recycled"}
           /\ worker' = [worker EXCEPT ![s] = "stopped"]
           /\ UNCHANGED <<pc, loop, channel, queued, stream, payload, delivered, lost>>

\* The route is registered, then the URI is made of the request that the context of
\* the stream has now.
MakePayload(s) ==
  /\ worker[s] \in Eventful
  /\ OpOf[worker[s]] = "send"
  /\ payload[worker[s]] = "none"
  /\ payload' = [payload EXCEPT ![worker[s]] = IF stream[s] = "recycled" THEN "other" ELSE s]
  /\ UNCHANGED <<pc, loop, channel, queued, stream, worker, delivered, lost>>

\* Fault: a message is published before its route is registered.
ReadyAtOnce(s) == worker[s] \in Eventful

Ready(s) == /\ worker[s] \in Eventful
            /\ OpOf[worker[s]] = "send" => payload[worker[s]] # "none"

\* Fault: an event nobody is subscribed for goes back into its channel.
PublishOrRequeue(s) ==
  /\ Ready(s)
  /\ IF stream[s] = "subscribed"
     THEN /\ delivered' = [delivered EXCEPT ![s] = Append(@, worker[s])]
          /\ UNCHANGED channel
     ELSE /\ channel' = [channel EXCEPT ![OpOf[worker[s]]] = Append(@, worker[s])]
          /\ UNCHANGED delivered
  /\ worker' = [worker EXCEPT ![s] = "idle"]
  /\ UNCHANGED <<pc, loop, queued, stream, payload, lost>>

\* Fault: the goroutine ends when nobody is subscribed, as it would on an error.
PublishOrStop(s) ==
  /\ Ready(s)
  /\ IF stream[s] = "subscribed"
     THEN /\ delivered' = [delivered EXCEPT ![s] = Append(@, worker[s])]
          /\ worker' = [worker EXCEPT ![s] = "idle"]
          /\ UNCHANGED lost
     ELSE /\ lost' = lost \cup {worker[s]}
          /\ worker' = [worker EXCEPT ![s] = "stopped"]
          /\ UNCHANGED delivered
  /\ UNCHANGED <<pc, loop, channel, queued, stream, payload>>

\* What is published while nobody is subscribed is gone, without an error.
Publish(s) ==
  /\ Ready(s)
  /\ IF stream[s] = "subscribed"
     THEN /\ delivered' = [delivered EXCEPT ![s] = Append(@, worker[s])]
          /\ UNCHANGED lost
     ELSE /\ lost' = lost \cup {worker[s]}
          /\ UNCHANGED delivered
  /\ worker' = [worker EXCEPT ![s] = "idle"]
  /\ UNCHANGED <<pc, loop, channel, queued, stream, payload>>
-----------------------------------------------------------------------------
Handler(c) == Tell(c) \/ Enqueue(c) \/ Reply(c)
Worker(s)  == (\E k \in Kinds : Take(s, k)) \/ MakePayload(s) \/ Stop(s) \/ Publish(s)
Serve(s)   == Open(s) \/ Subscribe(s)

\* What the server does without a client: its goroutines, scheduled and with the
\* senders of a channel served first come first served.
Goroutines == \/ PublishTestEvent
              \/ \E c \in Calls : Handler(c)
              \/ \E s \in Streams : Worker(s)

Next == \/ Goroutines
        \/ \E c \in Calls : Request(c) \/ Reject(c)
        \/ \E s \in Streams : Serve(s) \/ Leave(s) \/ Recycle(s)

Spec == Init /\ [][Next]_vars

\* Every call and every stream ends its work, so one fairness for all goroutines
\* is enough; the clients do open their streams.
FairSpec == /\ Spec
            /\ WF_vars(Goroutines)
            /\ WF_vars(\E s \in Streams : Serve(s))
-----------------------------------------------------------------------------
At(q, e) == {i \in DOMAIN q : q[i] = e}

\* Where event e is: waiting in a channel, in the hands of a goroutine, delivered or lost.
Places(e) ==
       (UNION {{<<"waiting", k>>} \X At(channel[k], e) : k \in Kinds})
  \cup (UNION {{<<"delivered", s>>} \X At(delivered[s], e) : s \in Streams})
  \cup {<<"held", s>> : s \in {t \in Streams : worker[t] = e}} \X {1}
  \cup {<<"lost">>} \X (IF e \in lost THEN {1} ELSE {})

\* Two streams never get the same event, and none vanishes without having been
\* taken by a stream: each queued event is in exactly one place.
OnePlace ==
  \A e \in Eventful : Cardinality(Places(e)) = IF Contains(queued[OpOf[e]], e) THEN 1 ELSE 0

\* The URI in every message a client was sent leads to a registered route, at the host
\* by which that client reached the server, though its stream may end at any time.
PayloadReachable ==
  \A s \in Streams : \A i \in DOMAIN delivered[s] :
    OpOf[delivered[s][i]] = "send" => payload[delivered[s][i]] = s

\* The pairs of events of one kind of which the first was queued before the second.
Earlier == {p \in Eventful \X Eventful :
              \E m, n \in DOMAIN queued[OpOf[p[2]]] :
                m < n /\ queued[OpOf[p[2]]][m] = p[1] /\ queued[OpOf[p[2]]][n] = p[2]}

\* Each client sees the deletions, and the messages, in the order the API calls
\* queued them, with gaps where another stream took or lost one.
QueueOrder ==
  \A s \in Streams : \A i, j \in DOMAIN delivered[s] :
    i < j /\ OpOf[delivered[s][i]] = OpOf[delivered[s][j]]
      => <<delivered[s][i], delivered[s][j]>> \in Earlier

\* As long as one client keeps its stream, every API call returns, however many
\* there are and however small the channels.
CallsReturn == \A c \in Calls : pc[c] # "new" ~> pc[c] = "done"

\* "Should have received exactly one deletion event": a client that opens the only
\* stream and stays sees the deletion requested at the same time.
DeletionSeen ==
  \A c \in Calls : OpOf[c] = "delete" /\ pc[c] = "enqueue" ~>
                    \E s \in Streams : Contains(delivered[s], c)
=============================================================================
