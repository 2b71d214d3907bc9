-------------------------- MODULE TestServerProofs --------------------------
(***************************************************************************)
(* Proofs about the test server, for any calls, streams and capacity: the  *)
(* order in which clients see events, that no event is doubled or vanishes *)
(* on its way, and the payload URIs in them.                               *)
(***************************************************************************)
EXTENDS TestServer, FiniteSetTheorems, TLAPS

\* The handlers that have put their event into a channel.
Past == {e \in Calls : pc[e] \in {"reply", "done"} \cup (IF OpOf[e] = "send" THEN {"tell"} ELSE {})}

\* An event is queued once, by the handler of its call, in the channel of its kind.
QueueInv ==
  /\ \A c \in Calls : pc[c] = "enqueue" => c \in Eventful
  /\ \A k \in Kinds : \A i \in DOMAIN queued[k] :
       OpOf[queued[k][i]] = k /\ queued[k][i] \in Past
  /\ \A k \in Kinds : \A i, j \in DOMAIN queued[k] : queued[k][i] = queued[k][j] => i = j

\* c is the end of q.
Suffix(c, q) == /\ Len(c) <= Len(q)
                /\ \A i \in DOMAIN c : c[i] = q[(Len(q) - Len(c)) + i]

\* How many events have been taken out of a channel.
Taken(k) == Len(queued[k]) - Len(channel[k])

\* A channel holds the end of what was queued.
ChannelInv == \A k \in Kinds : Suffix(channel[k], queued[k])

WasTaken == {e \in Eventful : \E n \in DOMAIN queued[OpOf[e]] :
                                n <= Taken(OpOf[e]) /\ queued[OpOf[e]][n] = e}

\* What a stream has got was taken, and what its goroutine has, after it.
WorkerInv ==
  \A s \in Streams :
    /\ worker[s] \in Eventful => worker[s] \in WasTaken
    /\ \A i \in DOMAIN delivered[s] :
         /\ delivered[s][i] \in WasTaken
         /\ worker[s] \in Eventful /\ OpOf[worker[s]] = OpOf[delivered[s][i]]
              => <<delivered[s][i], worker[s]>> \in Earlier

\* No two goroutines have the same event, and only the one that has it gives it a URI.
PayloadInv ==
  /\ \A s, t \in Streams : worker[s] \in Eventful /\ worker[s] = worker[t] => s = t
  /\ \A e \in Eventful : payload[e] # "none" => e \in WasTaken
  /\ \A s \in Streams :
       worker[s] \in Eventful /\ payload[worker[s]] # "none" /\ stream[s] # "recycled"
         => payload[worker[s]] = s

IInv == TypeOK /\ QueueInv /\ ChannelInv /\ WorkerInv /\ QueueOrder
          /\ PayloadInv /\ PayloadReachable

-----------------------------------------------------------------------------
LEMMA Elements ==
  ASSUME NEW S, NEW q \in Seq(S)
  PROVE  Len(q) \in Nat /\ DOMAIN q = 1..Len(q) /\ \A i \in DOMAIN q : q[i] \in S
  OBVIOUS

\* A channel stays the end of what was queued, at both of its ends.
LEMMA SuffixAppend ==
  ASSUME NEW S, NEW c \in Seq(S), NEW q \in Seq(S), NEW e \in S, Suffix(c, q)
  PROVE  /\ Suffix(Append(c, e), Append(q, e))
         /\ Len(Append(q, e)) - Len(Append(c, e)) = Len(q) - Len(c)
<1> DEFINE d == Append(c, e)
           r == Append(q, e)
<1>1. /\ Len(d) = Len(c) + 1 /\ Len(r) = Len(q) + 1
      /\ \A i \in 1..Len(c) : d[i] = c[i]
      /\ \A i \in 1..Len(q) : r[i] = q[i]
      /\ d[Len(c) + 1] = e /\ r[Len(q) + 1] = e
      /\ DOMAIN d = 1..(Len(c) + 1)
  OBVIOUS
<1>2. Len(r) - Len(d) = Len(q) - Len(c) /\ Len(c) <= Len(q)
  BY <1>1 DEF Suffix
<1>3. ASSUME NEW i \in 1..(Len(c) + 1)
      PROVE  d[i] = r[(Len(q) - Len(c)) + i]
  <2>1. CASE i = Len(c) + 1
    <3>1. (Len(q) - Len(c)) + i = Len(q) + 1
      BY <2>1
    <3> QED BY <1>1, <2>1, <3>1
  <2>2. CASE i # Len(c) + 1
    <3>1. i \in 1..Len(c)
      BY <2>2
    <3>2. (Len(q) - Len(c)) + i \in 1..Len(q)
      BY <1>2, <3>1
    <3>3. c[i] = q[(Len(q) - Len(c)) + i]
      BY <3>1 DEF Suffix
    <3> QED BY <1>1, <3>1, <3>2, <3>3
  <2> QED BY <2>1, <2>2
<1> QED BY <1>1, <1>2, <1>3 DEF Suffix

LEMMA SuffixTail ==
  ASSUME NEW S, NEW c \in Seq(S), NEW q \in Seq(S), c # <<>>, Suffix(c, q)
  PROVE  /\ Suffix(Tail(c), q)
         /\ Len(q) - Len(c) \in Nat
         /\ Len(q) - Len(Tail(c)) = (Len(q) - Len(c)) + 1
         /\ (Len(q) - Len(c)) + 1 \in DOMAIN q
         /\ q[(Len(q) - Len(c)) + 1] = Head(c)
<1> DEFINE d == Tail(c)
<1>1. /\ Len(d) = Len(c) - 1 /\ Len(c) >= 1 /\ Len(c) <= Len(q)
      /\ DOMAIN d = 1..(Len(c) - 1) /\ DOMAIN q = 1..Len(q)
      /\ \A i \in 1..(Len(c) - 1) : d[i] = c[i + 1]
  BY DEF Suffix
<1>2. ASSUME NEW i \in DOMAIN d
      PROVE  d[i] = q[(Len(q) - Len(d)) + i]
  <2>1. d[i] = c[i + 1] /\ i + 1 \in DOMAIN c
    BY <1>1
  <2>2. (Len(q) - Len(c)) + (i + 1) = (Len(q) - Len(d)) + i
    BY <1>1
  <2> QED BY <2>1, <2>2 DEF Suffix
<1>3. q[(Len(q) - Len(c)) + 1] = Head(c)
  BY <1>1 DEF Suffix
<1> QED BY <1>1, <1>2, <1>3 DEF Suffix

\* What TypeOK says of the sequences.
LEMMA Typing ==
  ASSUME TypeOK
  PROVE  /\ \A k \in Kinds :
              /\ queued[k] \in Seq(Eventful) /\ channel[k] \in Seq(Eventful)
              /\ Len(queued[k]) \in Nat /\ Len(channel[k]) \in Nat
              /\ DOMAIN queued[k] = 1..Len(queued[k])
              /\ DOMAIN channel[k] = 1..Len(channel[k])
              /\ \A i \in DOMAIN queued[k] : queued[k][i] \in Eventful
              /\ Taken(k) \in Int
         /\ \A s \in Streams :
              /\ delivered[s] \in Seq(Eventful)
              /\ \A i \in DOMAIN delivered[s] : delivered[s][i] \in Eventful
<1>1. ASSUME NEW k \in Kinds
      PROVE  /\ queued[k] \in Seq(Eventful) /\ channel[k] \in Seq(Eventful)
             /\ Len(queued[k]) \in Nat /\ Len(channel[k]) \in Nat
             /\ DOMAIN queued[k] = 1..Len(queued[k])
             /\ DOMAIN channel[k] = 1..Len(channel[k])
             /\ \A i \in DOMAIN queued[k] : queued[k][i] \in Eventful
             /\ Taken(k) \in Int
  <2>1. queued[k] \in Seq(Eventful) /\ channel[k] \in Seq(Eventful)
    BY DEF TypeOK
  <2>2. Len(queued[k]) \in Nat /\ Len(channel[k]) \in Nat
    BY <2>1, Elements
  <2> QED BY <2>1, <2>2, Elements DEF Taken
<1>2. ASSUME NEW s \in Streams
      PROVE  /\ delivered[s] \in Seq(Eventful)
             /\ \A i \in DOMAIN delivered[s] : delivered[s][i] \in Eventful
  <2>1. delivered[s] \in Seq(Eventful)
    BY DEF TypeOK
  <2> QED BY <2>1, Elements
<1> QED BY <1>1, <1>2

LEMMA InitIInv == Init => IInv
<1> SUFFICES ASSUME Init PROVE IInv
  OBVIOUS
<1>1. \A s \in Streams : worker[s] \notin Eventful /\ delivered[s] = <<>>
  BY ServerAssumption DEF Init, Eventful
<1>2. TypeOK
  BY ServerAssumption DEF Init, TypeOK
<1>3. QueueInv /\ ChannelInv
  BY DEF Init, QueueInv, ChannelInv, Suffix
<1>4. WorkerInv /\ QueueOrder /\ PayloadReachable
  BY <1>1 DEF WorkerInv, QueueOrder, PayloadReachable
<1>5. PayloadInv
  BY <1>1 DEF Init, PayloadInv
<1> QED BY <1>2, <1>3, <1>4, <1>5 DEF IInv

\* The handlers and the loop, when they leave the channels alone.
LEMMA HandlerStep ==
  ASSUME IInv,
         \/ PublishTestEvent
         \/ \E c \in Calls : Request(c) \/ Reject(c) \/ Reply(c) \/ Tell(c)
  PROVE  IInv'
<1>1. UNCHANGED <<channel, queued, stream, worker, payload, delivered, lost>>
  BY DEF PublishTestEvent, Request, Reject, Reply, Tell
<1>2. /\ pc' \in [Calls -> {"new", "tell", "enqueue", "reply", "done"}]
      /\ loop' \in Calls \cup {"idle"}
      /\ \A c \in Calls : pc'[c] = "enqueue" => c \in Eventful
      /\ Past \subseteq Past'
  <2>1. CASE PublishTestEvent
    BY <2>1 DEF PublishTestEvent, IInv, TypeOK, QueueInv, Past
  <2>2. ASSUME NEW c \in Calls, Request(c) PROVE <1>2
    BY <2>2, ServerAssumption DEF Request, First, IInv, TypeOK, QueueInv, Past, Op, Eventful, Kinds
  <2>3. ASSUME NEW c \in Calls, Reject(c) \/ Reply(c) PROVE <1>2
    <3>1. pc' = [pc EXCEPT ![c] = "done"] /\ UNCHANGED loop
      BY <2>3 DEF Reject, Reply
    <3>2. \A d \in Calls : pc'[d] = IF d = c THEN "done" ELSE pc[d]
      BY <3>1 DEF IInv, TypeOK
    <3>3. pc' \in [Calls -> {"new", "tell", "enqueue", "reply", "done"}]
      BY <3>1 DEF IInv, TypeOK
    <3>4. ASSUME NEW d \in Past PROVE d \in Past'
      BY <3>2 DEF Past
    <3> QED BY <3>1, <3>2, <3>3, <3>4 DEF IInv, TypeOK, QueueInv
  <2>4. ASSUME NEW c \in Calls, Tell(c) PROVE <1>2
    <3>1. /\ pc[c] = "tell" /\ loop' = c
          /\ pc' = [pc EXCEPT ![c] = Second(c)]
      BY <2>4 DEF Tell
    <3>2. Second(c) = IF OpOf[c] = "delete" THEN "enqueue" ELSE "reply"
      BY <3>1 DEF Second
    <3>3. OpOf[c] = "delete" => c \in Eventful
      BY DEF Eventful, Kinds
    <3>4. \A d \in Calls : pc'[d] = IF d = c THEN Second(c) ELSE pc[d]
      BY <3>1 DEF IInv, TypeOK
    <3>5. pc' \in [Calls -> {"new", "tell", "enqueue", "reply", "done"}]
      BY <3>1, <3>2 DEF IInv, TypeOK
    <3>6. ASSUME NEW d \in Past PROVE d \in Past'
      BY <3>1, <3>2, <3>4 DEF Past
    <3> QED BY <3>1, <3>2, <3>3, <3>4, <3>5, <3>6 DEF IInv, QueueInv
  <2> QED BY <2>1, <2>2, <2>3, <2>4
<1>3. TypeOK'
  BY <1>1, <1>2 DEF IInv, TypeOK
<1>4. QueueInv'
  <2>1. \A k \in Kinds : \A i \in DOMAIN queued[k] : queued[k][i] \in Calls
    BY Typing DEF IInv, Eventful
  <2> QED BY <1>1, <1>2, <2>1 DEF IInv, QueueInv
<1>5. (ChannelInv /\ WorkerInv /\ QueueOrder /\ PayloadInv /\ PayloadReachable)'
  <2>1. WasTaken' = WasTaken /\ Earlier' = Earlier
    BY <1>1 DEF WasTaken, Taken, Earlier
  <2>2. ChannelInv'
    BY <1>1 DEF IInv, ChannelInv, Suffix
  <2> QED BY <1>1, <2>1, <2>2 DEF IInv, WorkerInv, QueueOrder, PayloadInv, PayloadReachable
<1> QED BY <1>3, <1>4, <1>5 DEF IInv

\* The life of a stream and the end of its goroutine.
LEMMA StreamStep ==
  ASSUME IInv, NEW s \in Streams, Open(s) \/ Subscribe(s) \/ Leave(s) \/ Recycle(s) \/ Stop(s)
  PROVE  IInv'
<1>1. UNCHANGED <<pc, loop, channel, queued, payload, delivered, lost>>
  <2>1. CASE Open(s) \/ Subscribe(s)
    BY <2>1 DEF Open, Subscribe
  <2>2. CASE Leave(s) \/ Recycle(s) \/ Stop(s)
    BY <2>2 DEF Leave, Recycle, Stop
  <2> QED BY <2>1, <2>2
<1>2. /\ stream' \in [Streams -> {"new", "opened", "subscribed", "left", "recycled"}]
      /\ worker' \in [Streams -> Eventful \cup {"none", "idle", "stopped"}]
      /\ \A t \in Streams : stream'[t] # "recycled" => stream[t] # "recycled"
      /\ \A t \in Streams : worker'[t] \in Eventful => worker'[t] = worker[t]
  <2>1. "idle" \notin Eventful /\ "stopped" \notin Eventful
    BY ServerAssumption DEF Eventful
  <2>2. CASE Open(s)
    BY <2>1, <2>2 DEF Open, IInv, TypeOK
  <2>3. CASE Subscribe(s) \/ Leave(s)
    BY <2>3 DEF Subscribe, Leave, IInv, TypeOK
  <2>4. CASE Recycle(s)
    BY <2>4 DEF Recycle, IInv, TypeOK
  <2>5. CASE Stop(s)
    BY <2>1, <2>5 DEF Stop, IInv, TypeOK
  <2> QED BY <2>2, <2>3, <2>4, <2>5
<1>3. TypeOK'
  BY <1>1, <1>2 DEF IInv, TypeOK
<1>4. (QueueInv /\ ChannelInv /\ QueueOrder /\ PayloadReachable)'
  <2>1. Past' = Past /\ Earlier' = Earlier
    BY <1>1 DEF Past, Earlier
  <2>2. QueueInv' /\ ChannelInv'
    BY <1>1, <2>1 DEF IInv, QueueInv, ChannelInv, Suffix
  <2> QED BY <1>1, <2>1, <2>2 DEF IInv, QueueOrder, PayloadReachable
<1>5. WorkerInv'
  <2>1. WasTaken' = WasTaken /\ Earlier' = Earlier
    BY <1>1 DEF WasTaken, Taken, Earlier
  <2> QED BY <1>1, <1>2, <2>1 DEF IInv, WorkerInv
<1>6. PayloadInv'
  BY <1>1, <1>2 DEF IInv, PayloadInv, WasTaken, Taken
<1> QED BY <1>3, <1>4, <1>5, <1>6 DEF IInv

LEMMA EnqueueStep ==
  ASSUME IInv, NEW c \in Calls, Enqueue(c)
  PROVE  IInv'
<1> DEFINE k == OpOf[c]
<1>1. /\ c \in Eventful /\ k \in Kinds
      /\ pc[c] = "enqueue"
  BY DEF Enqueue, IInv, QueueInv, Eventful
<1>2. /\ channel[k] \in Seq(Eventful) /\ queued[k] \in Seq(Eventful)
      /\ Len(channel[k]) \in Nat /\ Len(queued[k]) \in Nat
      /\ channel' = [channel EXCEPT ![k] = Append(channel[k], c)]
      /\ queued' = [queued EXCEPT ![k] = Append(queued[k], c)]
      /\ UNCHANGED <<loop, stream, worker, payload, delivered, lost>>
  BY <1>1 DEF Enqueue, IInv, TypeOK
<1>3. /\ channel'[k] = Append(channel[k], c) /\ queued'[k] = Append(queued[k], c)
      /\ \A h \in Kinds \ {k} : channel'[h] = channel[h] /\ queued'[h] = queued[h]
  BY <1>1, <1>2 DEF IInv, TypeOK
<1>4. /\ Len(queued'[k]) = Len(queued[k]) + 1
      /\ Len(channel'[k]) = Len(channel[k]) + 1
      /\ \A i \in DOMAIN queued[k] : queued'[k][i] = queued[k][i]
      /\ \A i \in DOMAIN channel[k] : channel'[k][i] = channel[k][i]
      /\ queued'[k][Len(queued[k]) + 1] = c
      /\ channel'[k][Len(channel[k]) + 1] = c
  BY <1>2, <1>3
<1>5. Suffix(channel'[k], queued'[k]) /\ Taken(k)' = Taken(k)
  <2>1. Suffix(channel[k], queued[k])
    BY <1>1 DEF IInv, ChannelInv
  <2>2. Len(Append(queued[k], c)) - Len(Append(channel[k], c)) = Len(queued[k]) - Len(channel[k])
    BY <1>1, <1>2, <2>1, SuffixAppend
  <2>3. Suffix(Append(channel[k], c), Append(queued[k], c))
    BY <1>1, <1>2, <2>1, SuffixAppend
  <2>4. Taken(k)' = Taken(k)
    BY <1>3, <2>2 DEF Taken
  <2> QED BY <1>3, <2>3, <2>4
<1>13. \A h \in Kinds : /\ Taken(h)' = Taken(h)
                        /\ DOMAIN queued[h] \subseteq DOMAIN queued'[h]
                        /\ \A i \in DOMAIN queued[h] : queued'[h][i] = queued[h][i]
  <2>1. DOMAIN queued[k] \subseteq DOMAIN queued'[k]
    BY <1>2, <1>3
  <2> QED BY <1>3, <1>4, <1>5, <2>1 DEF Taken
<1>6. WasTaken \subseteq WasTaken' /\ Earlier \subseteq Earlier'
  BY <1>13 DEF WasTaken, Earlier, Eventful
<1>7. /\ pc' \in [Calls -> {"new", "tell", "enqueue", "reply", "done"}]
      /\ \A d \in Calls : pc'[d] = "enqueue" => d \in Eventful
      /\ Past \subseteq Past'
      /\ c \notin Past /\ c \in Past'
  <2>1. pc' = [pc EXCEPT ![c] = Second(c)]
    BY DEF Enqueue
  <2>2. Second(c) = IF k = "send" THEN "tell" ELSE "reply"
    BY <1>1 DEF Second
  <2>3. \A d \in Calls : pc'[d] = IF d = c THEN Second(c) ELSE pc[d]
    BY <2>1 DEF IInv, TypeOK
  <2>4. pc' \in [Calls -> {"new", "tell", "enqueue", "reply", "done"}]
    BY <2>1, <2>2 DEF IInv, TypeOK
  <2>5. c \notin Past /\ c \in Past'
    BY <1>1, <2>2, <2>3 DEF Past
  <2>6. ASSUME NEW d \in Past PROVE d \in Past'
    <3>1. CASE d = c
      BY <2>5, <3>1
    <3>2. CASE d # c
      BY <2>3, <3>2 DEF Past
    <3> QED BY <3>1, <3>2
  <2> QED BY <2>2, <2>3, <2>4, <2>5, <2>6 DEF IInv, QueueInv
<1>8. TypeOK'
  <2>1. \A h \in Kinds : Len(channel'[h]) <= Capacity
    <3>1. Len(channel[k]) < Capacity
      BY DEF Enqueue
    <3>2. Len(channel'[k]) <= Capacity
      BY <1>2, <1>4, <3>1, ServerAssumption
    <3>3. \A h \in Kinds : Len(channel[h]) <= Capacity
      BY DEF IInv, TypeOK
    <3> QED BY <1>3, <3>2, <3>3
  <2>2. channel' \in [Kinds -> Seq(Eventful)] /\ queued' \in [Kinds -> Seq(Eventful)]
    BY <1>1, <1>2 DEF IInv, TypeOK
  <2> QED BY <1>2, <1>7, <2>1, <2>2 DEF IInv, TypeOK
<1>9. QueueInv'
  <2>1. \A h \in Kinds : \A i \in DOMAIN queued[h] : queued[h][i] \in Calls \ {c}
    <3>1. \A h \in Kinds : \A i \in DOMAIN queued[h] : queued[h][i] \in Eventful /\ queued[h][i] \in Past
      BY Typing DEF IInv, QueueInv
    <3> QED BY <1>7, <3>1 DEF Eventful
  <2>2. ASSUME NEW h \in Kinds, NEW i \in DOMAIN queued'[h]
        PROVE  /\ OpOf[queued'[h][i]] = h /\ queued'[h][i] \in Past'
               /\ \A j \in DOMAIN queued'[h] : queued'[h][i] = queued'[h][j] => i = j
    <3>1. CASE h # k
      BY <1>3, <1>7, <2>1, <2>2, <3>1 DEF IInv, QueueInv
    <3>2. CASE h = k
      <4>1. DOMAIN queued[k] = 1..Len(queued[k]) /\ DOMAIN queued'[k] = 1..(Len(queued[k]) + 1)
        BY <1>2, <1>3
      <4>2. ASSUME NEW j \in DOMAIN queued'[k]
            PROVE  \/ j \in DOMAIN queued[k] /\ queued'[k][j] = queued[k][j] /\ queued[k][j] # c
                   \/ j = Len(queued[k]) + 1 /\ queued'[k][j] = c
        BY <1>1, <1>2, <1>4, <2>1, <4>1
      <4>3. \A j \in DOMAIN queued'[k] : queued'[k][i] = queued'[k][j] => i = j
        BY <1>1, <2>2, <3>2, <4>2 DEF IInv, QueueInv
      <4>4. \A j \in DOMAIN queued[k] : OpOf[queued[k][j]] = k /\ queued[k][j] \in Past'
        BY <1>1, <1>7 DEF IInv, QueueInv
      <4> QED BY <1>7, <2>2, <3>2, <4>2, <4>3, <4>4
    <3> QED BY <3>1, <3>2
  <2> QED BY <1>7, <2>2 DEF QueueInv
<1>10. ChannelInv'
  <2>1. \A h \in Kinds : Suffix(channel'[h], queued'[h])
    BY <1>3, <1>5 DEF IInv, ChannelInv
  <2> QED BY <2>1 DEF ChannelInv, Suffix
<1>11. WorkerInv' /\ QueueOrder'
  <2>1. \A s \in Streams : \A i \in DOMAIN delivered[s] : delivered[s][i] \in Eventful
    BY DEF IInv, TypeOK
  <2> QED BY <1>2, <1>6, <2>1 DEF IInv, WorkerInv, QueueOrder
<1>12. PayloadInv' /\ PayloadReachable'
  BY <1>2, <1>6 DEF IInv, PayloadInv, PayloadReachable
<1> QED BY <1>8, <1>9, <1>10, <1>11, <1>12 DEF IInv

LEMMA TakeStep ==
  ASSUME IInv, NEW s \in Streams, NEW k \in Kinds, Take(s, k)
  PROVE  IInv'
<1> DEFINE e == Head(channel[k])
<1>1. /\ channel[k] \in Seq(Eventful) /\ queued[k] \in Seq(Eventful) /\ channel[k] # <<>>
      /\ Len(channel[k]) \in Nat \ {0} /\ Len(queued[k]) \in Nat
      /\ channel' = [channel EXCEPT ![k] = Tail(channel[k])]
      /\ worker' = [worker EXCEPT ![s] = e]
      /\ UNCHANGED <<pc, loop, queued, stream, payload, delivered, lost>>
  BY DEF Take, IInv, TypeOK
<1>2. e = channel[k][1] /\ e \in Eventful
  BY <1>1
<1>3. /\ channel'[k] = Tail(channel[k])
      /\ Len(channel'[k]) = Len(channel[k]) - 1
      /\ \A i \in 1..(Len(channel[k]) - 1) : channel'[k][i] = channel[k][i + 1]
      /\ \A h \in Kinds \ {k} : channel'[h] = channel[h]
  BY <1>1 DEF IInv, TypeOK
<1>4. Suffix(channel[k], queued[k])
  BY DEF IInv, ChannelInv
<1>5. /\ Taken(k) \in Nat /\ Taken(k) + 1 \in DOMAIN queued[k]
      /\ Taken(k)' = Taken(k) + 1
      /\ \A h \in Kinds \ {k} : Taken(h)' = Taken(h)
  <2>1. /\ Len(queued[k]) - Len(channel[k]) \in Nat
        /\ (Len(queued[k]) - Len(channel[k])) + 1 \in DOMAIN queued[k]
        /\ Len(queued[k]) - Len(Tail(channel[k])) = (Len(queued[k]) - Len(channel[k])) + 1
    BY <1>1, <1>4, SuffixTail
  <2>2. Taken(k)' = Len(queued[k]) - Len(Tail(channel[k]))
    BY <1>1, <1>3 DEF Taken
  <2>3. \A h \in Kinds \ {k} : Taken(h)' = Taken(h)
    BY <1>1, <1>3 DEF Taken
  <2> QED BY <2>1, <2>2, <2>3 DEF Taken
<1>6. queued[k][Taken(k) + 1] = e /\ OpOf[e] = k
  <2>1. queued[k][Taken(k) + 1] = e
    BY <1>1, <1>4, SuffixTail DEF Taken
  <2> QED BY <1>5, <2>1 DEF IInv, QueueInv
<1>7. e \notin WasTaken
  BY <1>1, <1>5, <1>6 DEF WasTaken, IInv, QueueInv
<1>8. WasTaken \subseteq WasTaken' /\ e \in WasTaken'
  <2>1. \A h \in Kinds : Taken(h) \in Int /\ Taken(h) <= Taken(h)'
    BY <1>5, Typing DEF IInv
  <2>2. \A h \in Kinds : DOMAIN queued[h] \subseteq Nat
    BY Typing DEF IInv
  <2>3. ASSUME NEW f \in WasTaken
        PROVE  f \in WasTaken'
    <3>1. f \in Eventful /\ OpOf[f] \in Kinds
      BY <2>3 DEF WasTaken, Eventful
    <3>2. PICK n \in DOMAIN queued[OpOf[f]] : n <= Taken(OpOf[f]) /\ queued[OpOf[f]][n] = f
      BY <2>3 DEF WasTaken
    <3>3. n \in Nat /\ n <= Taken(OpOf[f])'
      <4>1. n \in Nat /\ Taken(OpOf[f]) \in Int /\ Taken(OpOf[f])' \in Int
        BY <1>5, <2>1, <2>2, <3>1, <3>2
      <4> QED BY <2>1, <3>1, <3>2, <4>1
    <3> QED BY <1>1, <3>1, <3>2, <3>3 DEF WasTaken
  <2>4. e \in WasTaken'
    <3>1. Taken(k) + 1 <= Taken(k)'
      BY <1>5
    <3> QED BY <1>1, <1>2, <1>5, <1>6, <3>1 DEF WasTaken
  <2> QED BY <2>3, <2>4
<1>9. \A f \in WasTaken : OpOf[f] = k => <<f, e>> \in Earlier
  <2> SUFFICES ASSUME NEW f \in WasTaken, OpOf[f] = k
               PROVE  <<f, e>> \in Earlier
    OBVIOUS
  <2>1. PICK m \in DOMAIN queued[k] : m <= Taken(k) /\ queued[k][m] = f
    BY DEF WasTaken
  <2>2. m < Taken(k) + 1
    BY <1>1, <1>5, <2>1
  <2> QED BY <1>2, <1>5, <1>6, <2>1, <2>2 DEF Earlier, WasTaken
<1>10. worker'[s] = e /\ \A t \in Streams \ {s} : worker'[t] = worker[t]
  BY <1>1 DEF IInv, TypeOK
<1>11. TypeOK'
  <2>1. channel' \in [Kinds -> Seq(Eventful)] /\ worker' \in [Streams -> Eventful \cup {"none", "idle", "stopped"}]
    BY <1>1, <1>2 DEF IInv, TypeOK
  <2>2. \A h \in Kinds : Len(channel'[h]) <= Capacity
    BY <1>1, <1>3, ServerAssumption DEF IInv, TypeOK
  <2> QED BY <1>1, <2>1, <2>2 DEF IInv, TypeOK
<1>12. QueueInv'
  BY <1>1 DEF IInv, QueueInv, Past
<1>13. ChannelInv'
  <2>1. Suffix(channel'[k], queued[k])
    BY <1>1, <1>3, <1>4, SuffixTail
  <2>2. \A h \in Kinds : Suffix(channel'[h], queued[h])
    BY <1>3, <2>1 DEF IInv, ChannelInv
  <2> QED BY <1>1, <2>2 DEF ChannelInv, Suffix
<1>14. WorkerInv'
  <2> SUFFICES ASSUME NEW t \in Streams
               PROVE  /\ worker'[t] \in Eventful => worker'[t] \in WasTaken'
                      /\ \A i \in DOMAIN delivered[t] :
                           /\ delivered[t][i] \in WasTaken'
                           /\ worker'[t] \in Eventful /\ OpOf[worker'[t]] = OpOf[delivered[t][i]]
                                => <<delivered[t][i], worker'[t]>> \in Earlier'
    BY <1>1 DEF WorkerInv
  <2>0. Earlier' = Earlier
    BY <1>1 DEF Earlier
  <2>1. \A i \in DOMAIN delivered[t] : delivered[t][i] \in Eventful /\ delivered[t][i] \in WasTaken
    BY Typing DEF IInv, WorkerInv
  <2>2. CASE t = s
    BY <1>1, <1>2, <1>6, <1>8, <1>9, <1>10, <2>1, <2>2, <2>0
  <2>3. CASE t # s
    BY <1>8, <1>10, <2>0, <2>1, <2>3 DEF IInv, WorkerInv
  <2> QED BY <2>2, <2>3
<1>15. QueueOrder' /\ PayloadReachable'
  <2>1. Earlier' = Earlier
    BY <1>1 DEF Earlier
  <2> QED BY <1>1, <2>1 DEF IInv, QueueOrder, PayloadReachable
<1>16. PayloadInv'
  <2>1. \A t \in Streams \ {s} : worker[t] # e
    BY <1>2, <1>7 DEF IInv, WorkerInv
  <2>2. payload[e] = "none"
    BY <1>2, <1>7 DEF IInv, PayloadInv
  <2> QED BY <1>1, <1>8, <1>10, <2>1, <2>2 DEF IInv, PayloadInv
<1> QED BY <1>11, <1>12, <1>13, <1>14, <1>15, <1>16 DEF IInv

LEMMA MakePayloadStep ==
  ASSUME IInv, NEW s \in Streams, MakePayload(s)
  PROVE  IInv'
<1> DEFINE e == worker[s]
<1>1. /\ e \in Eventful /\ payload[e] = "none"
      /\ payload' = [payload EXCEPT ![e] = IF stream[s] = "recycled" THEN "other" ELSE s]
      /\ UNCHANGED <<pc, loop, channel, queued, stream, worker, delivered, lost>>
  BY DEF MakePayload
<1>2. /\ payload'[e] = IF stream[s] = "recycled" THEN "other" ELSE s
      /\ \A f \in Eventful \ {e} : payload'[f] = payload[f]
      /\ e \in WasTaken
  BY <1>1 DEF IInv, TypeOK, WorkerInv
<1>3. TypeOK'
  BY <1>1 DEF IInv, TypeOK
<1>4. (QueueInv /\ ChannelInv /\ WorkerInv /\ QueueOrder)'
  <2>1. WasTaken' = WasTaken /\ Earlier' = Earlier
    BY <1>1 DEF WasTaken, Taken, Earlier
  <2>2. QueueInv' /\ ChannelInv'
    BY <1>1 DEF IInv, QueueInv, Past, ChannelInv, Suffix
  <2> QED BY <1>1, <2>1, <2>2 DEF IInv, WorkerInv, QueueOrder
<1>5. PayloadInv'
  <2>1. WasTaken' = WasTaken
    BY <1>1 DEF WasTaken, Taken
  <2>2. \A t \in Streams : e = worker[t] => s = t
    BY <1>1 DEF IInv, PayloadInv
  <2> QED BY <1>1, <1>2, <2>1, <2>2 DEF IInv, PayloadInv
<1>6. PayloadReachable'
  <2> SUFFICES ASSUME NEW t \in Streams, NEW i \in DOMAIN delivered[t],
                      OpOf[delivered[t][i]] = "send"
               PROVE  payload'[delivered[t][i]] = t
    BY <1>1 DEF PayloadReachable
  <2>1. delivered[t][i] \in Eventful /\ payload[delivered[t][i]] = t
    BY DEF IInv, TypeOK, PayloadReachable
  <2> QED BY <1>1, <1>2, <2>1, ServerAssumption
<1> QED BY <1>3, <1>4, <1>5, <1>6 DEF IInv

LEMMA PublishStep ==
  ASSUME IInv, NEW s \in Streams, Publish(s)
  PROVE  IInv'
<1> DEFINE e == worker[s]
<1>1. /\ e \in Eventful
      /\ OpOf[e] = "send" => payload[e] # "none"
      /\ worker' = [worker EXCEPT ![s] = "idle"]
      /\ UNCHANGED <<pc, loop, channel, queued, stream, payload>>
  BY DEF Publish, Ready
<1>2. /\ worker'[s] = "idle" /\ worker'[s] \notin Eventful
      /\ \A t \in Streams \ {s} : worker'[t] = worker[t]
  BY <1>1, ServerAssumption DEF IInv, TypeOK, Eventful
<1>3. /\ delivered' \in [Streams -> Seq(Eventful)]
      /\ \A t \in Streams \ {s} : delivered'[t] = delivered[t]
      /\ \/ stream[s] = "subscribed" /\ delivered'[s] = Append(delivered[s], e)
         \/ delivered'[s] = delivered[s]
      /\ lost' \subseteq Eventful
  <2>1. /\ delivered \in [Streams -> Seq(Eventful)] /\ lost \subseteq Eventful
        /\ Append(delivered[s], e) \in Seq(Eventful)
    BY <1>1 DEF IInv, TypeOK
  <2>2. \/ /\ stream[s] = "subscribed" /\ UNCHANGED lost
           /\ delivered' = [delivered EXCEPT ![s] = Append(delivered[s], e)]
        \/ lost' = lost \cup {e} /\ UNCHANGED delivered
    BY DEF Publish
  <2> QED BY <1>1, <2>1, <2>2
<1>4. WasTaken' = WasTaken /\ Earlier' = Earlier
  BY <1>1 DEF WasTaken, Taken, Earlier
<1>5. delivered[s] \in Seq(Eventful) /\ e \in WasTaken
  BY <1>1 DEF IInv, TypeOK, WorkerInv
<1>6. TypeOK'
  BY <1>1, <1>3 DEF IInv, TypeOK
<1>7. (QueueInv /\ ChannelInv)'
  BY <1>1 DEF IInv, QueueInv, Past, ChannelInv, Suffix
<1>8. ASSUME NEW i \in DOMAIN delivered'[s]
      PROVE  \/ /\ i \in DOMAIN delivered[s] /\ delivered'[s][i] = delivered[s][i]
             \/ /\ i = Len(delivered[s]) + 1 /\ delivered'[s][i] = e
                /\ stream[s] = "subscribed"
  <2>1. CASE stream[s] = "subscribed" /\ delivered'[s] = Append(delivered[s], e)
    BY <1>5, <1>8, <2>1
  <2>2. CASE delivered'[s] = delivered[s]
    BY <1>8, <2>2
  <2> QED BY <1>3, <2>1, <2>2
<1>9. WorkerInv'
  <2>1. \A t \in Streams : worker'[t] \in Eventful => t # s /\ worker'[t] \in WasTaken'
    BY <1>2, <1>4 DEF IInv, WorkerInv
  <2>2. ASSUME NEW t \in Streams, NEW i \in DOMAIN delivered'[t]
        PROVE  /\ delivered'[t][i] \in WasTaken'
               /\ worker'[t] \in Eventful /\ OpOf[worker'[t]] = OpOf[delivered'[t][i]]
                    => <<delivered'[t][i], worker'[t]>> \in Earlier'
    <3>1. \A j \in DOMAIN delivered[t] : delivered[t][j] \in Eventful /\ delivered[t][j] \in WasTaken
      BY Typing DEF IInv, WorkerInv
    <3>2. CASE t = s
      BY <1>1, <1>2, <1>4, <1>5, <1>8, <2>2, <3>1, <3>2
    <3>3. CASE t # s
      BY <1>2, <1>3, <1>4, <2>2, <3>1, <3>3 DEF IInv, WorkerInv
    <3> QED BY <3>2, <3>3
  <2> QED BY <2>1, <2>2 DEF WorkerInv
<1>10. QueueOrder'
  <2> SUFFICES ASSUME NEW t \in Streams, NEW i \in DOMAIN delivered'[t], NEW j \in DOMAIN delivered'[t],
                      i < j, OpOf[delivered'[t][i]] = OpOf[delivered'[t][j]]
               PROVE  <<delivered'[t][i], delivered'[t][j]>> \in Earlier'
    BY DEF QueueOrder
  <2>1. \A n \in DOMAIN delivered[t] : delivered[t][n] \in Eventful
    BY Typing DEF IInv
  <2>2. CASE t # s
    BY <1>3, <1>4, <2>1, <2>2 DEF IInv, QueueOrder
  <2>3. CASE t = s
    <3>1. i \in DOMAIN delivered[s] /\ delivered'[s][i] = delivered[s][i]
      BY <1>5, <1>8, <2>3, <1>3
    <3>2. CASE j \in DOMAIN delivered[s] /\ delivered'[s][j] = delivered[s][j]
      BY <1>4, <2>1, <2>3, <3>1, <3>2 DEF IInv, QueueOrder
    <3>3. CASE delivered'[s][j] = e
      BY <1>1, <1>4, <2>1, <2>3, <3>1, <3>3 DEF IInv, WorkerInv
    <3> QED BY <1>8, <2>3, <3>2, <3>3
  <2> QED BY <2>2, <2>3
<1>11. PayloadInv'
  BY <1>1, <1>2, <1>4 DEF IInv, PayloadInv
<1>12. PayloadReachable'
  <2>1. stream[s] = "subscribed" /\ OpOf[e] = "send" => payload[e] = s
    BY <1>1 DEF IInv, PayloadInv
  <2> SUFFICES ASSUME NEW t \in Streams, NEW i \in DOMAIN delivered'[t],
                      OpOf[delivered'[t][i]] = "send"
               PROVE  payload[delivered'[t][i]] = t
    BY <1>1 DEF PayloadReachable
  <2>2. CASE t # s
    BY <1>3, <2>2 DEF IInv, PayloadReachable
  <2>3. CASE t = s
    BY <1>8, <2>1, <2>3 DEF IInv, PayloadReachable
  <2> QED BY <2>2, <2>3
<1> QED BY <1>6, <1>7, <1>9, <1>10, <1>11, <1>12 DEF IInv

LEMMA NextIInv == IInv /\ [Next]_vars => IInv'
<1> SUFFICES ASSUME IInv, [Next]_vars PROVE IInv'
  OBVIOUS
<1>1. CASE UNCHANGED vars
  <2>1. UNCHANGED <<pc, loop, channel, queued, stream, worker, payload, delivered, lost>>
    BY <1>1 DEF vars
  <2>2. Past' = Past /\ WasTaken' = WasTaken /\ Earlier' = Earlier
    BY <2>1 DEF Past, WasTaken, Taken, Earlier
  <2>3. TypeOK' /\ QueueInv' /\ ChannelInv'
    BY <2>1, <2>2 DEF IInv, TypeOK, QueueInv, ChannelInv, Suffix
  <2> QED BY <2>1, <2>2, <2>3 DEF IInv, WorkerInv, QueueOrder, PayloadInv, PayloadReachable
<1>2. CASE Goroutines
  <2>1. CASE PublishTestEvent
    BY <2>1, HandlerStep
  <2>2. ASSUME NEW c \in Calls, Handler(c) PROVE IInv'
    BY <2>2, HandlerStep, EnqueueStep DEF Handler
  <2>3. ASSUME NEW s \in Streams, Worker(s) PROVE IInv'
    BY <2>3, TakeStep, MakePayloadStep, StreamStep, PublishStep DEF Worker
  <2> QED BY <1>2, <2>1, <2>2, <2>3 DEF Goroutines
<1>3. CASE \E c \in Calls : Request(c) \/ Reject(c)
  BY <1>3, HandlerStep
<1>4. CASE \E s \in Streams : Serve(s) \/ Leave(s) \/ Recycle(s)
  BY <1>4, StreamStep DEF Serve
<1> QED BY <1>1, <1>2, <1>3, <1>4 DEF Next

\* The channels keep to their capacity, whatever is called and whoever listens.
THEOREM TypeCorrect == Spec => []TypeOK
<1>1. IInv => TypeOK
  BY DEF IInv
<1> QED BY <1>1, InitIInv, NextIInv, PTL DEF Spec

\* Each client sees deletions, and messages, in the order in which the API calls
\* queued them, however many streams share the channels.
THEOREM QueueOrderCorrect == Spec => []QueueOrder
<1>1. IInv => QueueOrder
  BY DEF IInv
<1> QED BY <1>1, InitIInv, NextIInv, PTL DEF Spec

\* A message a client was sent has a payload it can fetch, though the goroutine reads
\* the host from a context that echo gives to another request once a stream ends.
THEOREM PayloadReachableCorrect == Spec => []PayloadReachable
<1>1. IInv => PayloadReachable
  BY DEF IInv
<1> QED BY <1>1, InitIInv, NextIInv, PTL DEF Spec
-----------------------------------------------------------------------------
(***************************************************************************)
(* Where each event is.  What was taken out of a channel is with the       *)
(* goroutine that took it until that has published it.                     *)
(***************************************************************************)
Held  == {e \in Eventful : \E s \in Streams : worker[s] = e}
Given == {e \in Eventful : \E s \in Streams : \E i \in DOMAIN delivered[s] : delivered[s][i] = e}

PlaceInv ==
  /\ WasTaken = Held \cup Given \cup lost
  /\ Held \cap Given = {} /\ Held \cap lost = {} /\ Given \cap lost = {}
  /\ \A s, t \in Streams : \A i \in DOMAIN delivered[s], j \in DOMAIN delivered[t] :
       delivered[s][i] = delivered[t][j] => s = t /\ i = j
  /\ \A s \in Streams : stream[s] = "new" => worker[s] = "none"

\* How many elements of q are no longer in c.
Out(c, q) == Len(q) - Len(c)

LEMMA SuffixLengths ==
  ASSUME NEW S, NEW c \in Seq(S), NEW q \in Seq(S), Suffix(c, q)
  PROVE  /\ Len(q) \in Nat /\ Len(c) \in Nat
         /\ Out(c, q) \in Nat /\ Out(c, q) <= Len(q)
  BY DEF Suffix, Out

\* An event that was queued once is in the channel or was taken out of it, never both.
LEMMA SuffixPlaces ==
  ASSUME NEW S, NEW c \in Seq(S), NEW q \in Seq(S), Suffix(c, q), NEW e,
         \A m, n \in DOMAIN q : q[m] = q[n] => m = n
  PROVE  /\ \A i \in At(c, e) : \E n \in DOMAIN q : q[n] = e
         /\ \A i \in At(c, e) : \A n \in DOMAIN q : q[n] = e => n = Out(c, q) + i
         /\ \A i \in At(c, e) : \A n \in DOMAIN q : q[n] = e => ~(n <= Out(c, q))
         /\ \A i, j \in At(c, e) : i = j
         /\ \A n \in DOMAIN q : q[n] = e => n <= Out(c, q) \/ At(c, e) # {}
<1> DEFINE d == Out(c, q)
<1>1. /\ Len(q) \in Nat /\ Len(c) \in Nat /\ d \in Nat /\ d + Len(c) = Len(q)
      /\ DOMAIN q = 1..Len(q) /\ DOMAIN c = 1..Len(c)
      /\ \A i \in DOMAIN c : c[i] = q[d + i]
  BY DEF Suffix, Out
<1> HIDE DEF d
<1>2. \A i \in DOMAIN c : d + i \in DOMAIN q
  BY <1>1
<1>3. ASSUME NEW i \in At(c, e)
      PROVE  i \in 1..Len(c) /\ d + i \in DOMAIN q /\ q[d + i] = e
  BY <1>1, <1>2, <1>3 DEF At
<1>4. ASSUME NEW i \in At(c, e), NEW n \in DOMAIN q, q[n] = e
      PROVE  n = d + i /\ ~(n <= d)
  BY <1>1, <1>3, <1>4
<1>5. ASSUME NEW i \in At(c, e), NEW j \in At(c, e)
      PROVE  i = j
  <2>1. d + i = d + j
    BY <1>3, <1>4, <1>5
  <2> QED BY <1>1, <1>3, <2>1
<1>6. ASSUME NEW n \in DOMAIN q, q[n] = e, ~(n <= d)
      PROVE  n - d \in At(c, e)
  <2>1. n - d \in DOMAIN c /\ d + (n - d) = n
    BY <1>1, <1>6
  <2> QED BY <1>1, <1>6, <2>1 DEF At
<1> QED BY <1>1, <1>3, <1>4, <1>5, <1>6 DEF d

LEMMA PlaceInit == Init => PlaceInv
<1> SUFFICES ASSUME Init PROVE PlaceInv
  OBVIOUS
<1>1. Held = {}
  BY ServerAssumption DEF Init, Held, Eventful
<1>2. Given = {}
  BY DEF Init, Given
<1>3. WasTaken = {}
  <2>1. \A e \in Eventful : DOMAIN queued[OpOf[e]] = {}
    BY DEF Init, Eventful
  <2> QED BY <2>1 DEF WasTaken
<1> QED BY <1>1, <1>2, <1>3 DEF Init, PlaceInv

\* Putting an event into a channel takes none out.
LEMMA EnqueueTakes ==
  ASSUME IInv, NEW c \in Calls, Enqueue(c)
  PROVE  WasTaken' = WasTaken
<1> DEFINE k == OpOf[c]
<1>1. k \in Kinds /\ c \in Eventful
  BY DEF Enqueue, IInv, QueueInv, Eventful
<1>2. /\ channel[k] \in Seq(Eventful) /\ queued[k] \in Seq(Eventful)
      /\ channel' = [channel EXCEPT ![k] = Append(channel[k], c)]
      /\ queued' = [queued EXCEPT ![k] = Append(queued[k], c)]
  BY <1>1 DEF Enqueue, IInv, TypeOK
<1>3. /\ channel'[k] = Append(channel[k], c) /\ queued'[k] = Append(queued[k], c)
      /\ \A h \in Kinds \ {k} : channel'[h] = channel[h] /\ queued'[h] = queued[h]
  BY <1>1, <1>2 DEF IInv, TypeOK
<1>4. Suffix(channel[k], queued[k])
  BY <1>1 DEF IInv, ChannelInv
<1>5. /\ Taken(k)' = Taken(k) /\ Taken(k) <= Len(queued[k])
      /\ DOMAIN queued'[k] = 1..(Len(queued[k]) + 1) /\ DOMAIN queued[k] = 1..Len(queued[k])
      /\ \A i \in 1..Len(queued[k]) : queued'[k][i] = queued[k][i]
      /\ Len(queued[k]) \in Nat /\ Taken(k) \in Int
  <2>1. Len(Append(queued[k], c)) - Len(Append(channel[k], c)) = Len(queued[k]) - Len(channel[k])
    BY <1>1, <1>2, <1>4, SuffixAppend
  <2>2. Len(queued[k]) \in Nat /\ Len(channel[k]) \in Nat
    BY <1>2, Elements
  <2>3. /\ DOMAIN Append(queued[k], c) = 1..(Len(queued[k]) + 1)
        /\ DOMAIN queued[k] = 1..Len(queued[k])
        /\ \A i \in 1..Len(queued[k]) : Append(queued[k], c)[i] = queued[k][i]
    BY <1>1, <1>2
  <2>4. Taken(k)' = Taken(k)
    BY <1>3, <2>1 DEF Taken
  <2>5. Taken(k) <= Len(queued[k]) /\ Taken(k) \in Int
    <3>1. Taken(k) = Out(channel[k], queued[k])
      BY DEF Taken, Out
    <3> QED BY <1>2, <1>4, <3>1, SuffixLengths
  <2> QED BY <1>3, <2>2, <2>3, <2>4, <2>5
<1>6. \A h \in Kinds \ {k} : Taken(h)' = Taken(h) /\ queued'[h] = queued[h]
  BY <1>3 DEF Taken
<1>7. ASSUME NEW h \in Kinds, NEW e
      PROVE  (\E n \in DOMAIN queued'[h] : n <= Taken(h)' /\ queued'[h][n] = e) <=>
             (\E n \in DOMAIN queued[h] : n <= Taken(h) /\ queued[h][n] = e)
  <2>1. CASE h = k
    <3>1. ASSUME NEW n \in DOMAIN queued'[k], n <= Taken(k)
          PROVE  n \in 1..Len(queued[k])
      BY <1>5, <3>1
    <3>2. 1..Len(queued[k]) \subseteq DOMAIN queued'[k]
      BY <1>5
    <3> QED BY <1>5, <2>1, <3>1, <3>2
  <2>2. CASE h # k
    BY <1>6, <2>2
  <2> QED BY <2>1, <2>2
<1> QED BY <1>7 DEF WasTaken, Eventful

\* Taking an event takes that one.
LEMMA TakeTakes ==
  ASSUME IInv, NEW s \in Streams, NEW k \in Kinds, Take(s, k)
  PROVE  /\ worker'[s] \in Eventful \ WasTaken
         /\ WasTaken' = WasTaken \cup {worker'[s]}
<1> DEFINE e == Head(channel[k])
<1>1. /\ channel[k] \in Seq(Eventful) /\ queued[k] \in Seq(Eventful) /\ channel[k] # <<>>
      /\ channel' = [channel EXCEPT ![k] = Tail(channel[k])]
      /\ worker'[s] = e /\ e \in Eventful
      /\ UNCHANGED queued
  BY DEF Take, IInv, TypeOK
<1>2. /\ channel'[k] = Tail(channel[k])
      /\ \A h \in Kinds \ {k} : channel'[h] = channel[h]
  BY <1>1 DEF IInv, TypeOK
<1>3. Suffix(channel[k], queued[k])
  BY DEF IInv, ChannelInv
<1>4. /\ Taken(k) \in Nat /\ Taken(k) + 1 \in DOMAIN queued[k]
      /\ Taken(k)' = Taken(k) + 1
      /\ queued[k][Taken(k) + 1] = e
  <2>1. /\ Len(queued[k]) - Len(channel[k]) \in Nat
        /\ (Len(queued[k]) - Len(channel[k])) + 1 \in DOMAIN queued[k]
        /\ Len(queued[k]) - Len(Tail(channel[k])) = (Len(queued[k]) - Len(channel[k])) + 1
        /\ queued[k][(Len(queued[k]) - Len(channel[k])) + 1] = e
    BY <1>1, <1>3, SuffixTail
  <2>2. Taken(k)' = Len(queued[k]) - Len(Tail(channel[k]))
    BY <1>1, <1>2 DEF Taken
  <2> QED BY <2>1, <2>2 DEF Taken
<1>5. \A h \in Kinds \ {k} : Taken(h)' = Taken(h)
  BY <1>1, <1>2 DEF Taken
<1>6. OpOf[e] = k
  BY <1>4 DEF IInv, QueueInv
<1>7. DOMAIN queued[k] \subseteq Nat
  BY <1>1, Elements
<1>8. \A n \in DOMAIN queued[k] : queued[k][n] = e => n = Taken(k) + 1
  BY <1>4 DEF IInv, QueueInv
<1>9. e \notin WasTaken
  BY <1>4, <1>6, <1>7, <1>8 DEF WasTaken
<1>10. ASSUME NEW f \in Eventful
       PROVE  f \in WasTaken' <=> f \in WasTaken \/ f = e
  <2>1. CASE OpOf[f] # k
    BY <1>1, <1>5, <1>6, <2>1 DEF WasTaken, Eventful
  <2>2. CASE OpOf[f] = k
    <3>1. f \in WasTaken' <=> \E n \in DOMAIN queued[k] : n <= Taken(k) + 1 /\ queued[k][n] = f
      BY <1>1, <1>4, <2>2 DEF WasTaken
    <3>2. f \in WasTaken <=> \E n \in DOMAIN queued[k] : n <= Taken(k) /\ queued[k][n] = f
      BY <2>2 DEF WasTaken
    <3>3. \A n \in DOMAIN queued[k] : n <= Taken(k) + 1 <=> n <= Taken(k) \/ n = Taken(k) + 1
      BY <1>4, <1>7
    <3> QED BY <1>4, <3>1, <3>2, <3>3
  <2> QED BY <2>1, <2>2
<1>11. WasTaken' \subseteq Eventful /\ WasTaken \subseteq Eventful
  BY DEF WasTaken, Eventful
<1> QED BY <1>1, <1>9, <1>10, <1>11

LEMMA PlaceTake ==
  ASSUME IInv, PlaceInv, NEW s \in Streams, NEW k \in Kinds, Take(s, k)
  PROVE  PlaceInv'
<1>1. /\ worker[s] = "idle" /\ worker[s] \notin Eventful
      /\ UNCHANGED <<stream, delivered, lost>>
      /\ \A t \in Streams \ {s} : worker'[t] = worker[t]
  BY ServerAssumption DEF Take, IInv, TypeOK, Eventful
<1>2. /\ worker'[s] \in Eventful \ WasTaken
      /\ WasTaken' = WasTaken \cup {worker'[s]}
  BY TakeTakes
<1>3. Held' = Held \cup {worker'[s]}
  BY <1>1, <1>2 DEF Held, Eventful
<1>4. Given' = Given
  BY <1>1 DEF Given, Eventful
<1> QED BY <1>1, <1>2, <1>3, <1>4 DEF PlaceInv

LEMMA PlacePublish ==
  ASSUME IInv, PlaceInv, NEW s \in Streams, Publish(s)
  PROVE  PlaceInv'
<1> DEFINE e == worker[s]
<1>1. /\ e \in Eventful /\ e \in Held
      /\ UNCHANGED <<pc, loop, channel, queued, stream, payload>>
      /\ worker'[s] = "idle" /\ "idle" \notin Eventful
      /\ \A t \in Streams \ {s} : worker'[t] = worker[t]
  BY ServerAssumption DEF Publish, Ready, IInv, TypeOK, Eventful, Held
<1>2. WasTaken' = WasTaken
  BY <1>1 DEF WasTaken, Taken
<1>3. Held' = Held \ {e}
  <2>1. \A t \in Streams : worker[t] = e => t = s
    BY <1>1 DEF IInv, PayloadInv
  <2> QED BY <1>1, <2>1 DEF Held, Eventful
<1>4. \A t \in Streams : stream'[t] = "new" => worker'[t] = "none"
  <2>1. stream[s] # "new"
    BY <1>1, ServerAssumption DEF PlaceInv, Eventful
  <2> QED BY <1>1, <2>1 DEF PlaceInv
<1>5. CASE stream[s] = "subscribed"
  <2>1. /\ delivered[s] \in Seq(Eventful)
        /\ delivered'[s] = Append(delivered[s], e)
        /\ \A t \in Streams \ {s} : delivered'[t] = delivered[t]
        /\ UNCHANGED lost
    BY <1>5 DEF Publish, IInv, TypeOK
  <2>2. /\ DOMAIN delivered[s] = 1..Len(delivered[s]) /\ Len(delivered[s]) \in Nat
        /\ DOMAIN delivered'[s] = 1..(Len(delivered[s]) + 1)
        /\ \A i \in DOMAIN delivered[s] : delivered'[s][i] = delivered[s][i]
        /\ delivered'[s][Len(delivered[s]) + 1] = e
    BY <1>1, <2>1
  <2>3. \A t \in Streams : \A i \in DOMAIN delivered'[t] :
          \/ i \in DOMAIN delivered[t] /\ delivered'[t][i] = delivered[t][i]
          \/ t = s /\ i = Len(delivered[s]) + 1 /\ delivered'[t][i] = e
    BY <2>1, <2>2
  <2>4. Given' = Given \cup {e}
    <3>1. \A t \in Streams : \A i \in DOMAIN delivered[t] :
            i \in DOMAIN delivered'[t] /\ delivered'[t][i] = delivered[t][i]
      BY <2>1, <2>2
    <3>2. Len(delivered[s]) + 1 \in DOMAIN delivered'[s]
      BY <2>2
    <3> QED BY <1>1, <2>2, <2>3, <3>1, <3>2 DEF Given, Eventful
  <2>5. \A t \in Streams : \A i \in DOMAIN delivered[t] : delivered[t][i] # e
    BY <1>1 DEF PlaceInv, Given
  <2>6. \A r, t \in Streams : \A i \in DOMAIN delivered'[r], j \in DOMAIN delivered'[t] :
          delivered'[r][i] = delivered'[t][j] => r = t /\ i = j
    BY <2>3, <2>5 DEF PlaceInv
  <2> QED BY <1>1, <1>2, <1>3, <1>4, <2>1, <2>4, <2>6 DEF PlaceInv
<1>6. CASE stream[s] # "subscribed"
  <2>1. lost' = lost \cup {e} /\ UNCHANGED delivered
    BY <1>6 DEF Publish
  <2>2. Given' = Given
    BY <2>1 DEF Given, Eventful
  <2> QED BY <1>1, <1>2, <1>3, <1>4, <2>1, <2>2 DEF PlaceInv
<1> QED BY <1>5, <1>6

LEMMA PlaceNext == IInv /\ PlaceInv /\ [Next]_vars => PlaceInv'
<1> SUFFICES ASSUME IInv, PlaceInv, [Next]_vars PROVE PlaceInv'
  OBVIOUS
<1>1. ASSUME UNCHANGED <<worker, delivered, lost, stream>>, WasTaken' = WasTaken
      PROVE  PlaceInv'
  BY <1>1 DEF PlaceInv, Held, Given, Eventful
<1>2. UNCHANGED <<queued, channel>> => WasTaken' = WasTaken
  BY DEF WasTaken, Taken, Eventful
<1>3. CASE UNCHANGED vars
  BY <1>1, <1>2, <1>3 DEF vars
<1>4. CASE PublishTestEvent
  BY <1>1, <1>2, <1>4 DEF PublishTestEvent
<1>5. ASSUME NEW c \in Calls, Request(c) \/ Reject(c) \/ Handler(c)
      PROVE  PlaceInv'
  <2>1. CASE Request(c) \/ Reject(c)
    BY <1>1, <1>2, <2>1 DEF Request, Reject
  <2>2. CASE Tell(c) \/ Reply(c)
    BY <1>1, <1>2, <2>2 DEF Tell, Reply
  <2>3. CASE Enqueue(c)
    BY <1>1, <2>3, EnqueueTakes DEF Enqueue
  <2> QED BY <1>5, <2>1, <2>2, <2>3 DEF Handler
<1>6. ASSUME NEW s \in Streams, Serve(s) \/ Leave(s) \/ Recycle(s) \/ Stop(s)
      PROVE  PlaceInv'
  <2>1. /\ UNCHANGED <<channel, queued, delivered, lost>>
        /\ \A t \in Streams : worker'[t] \in Eventful <=> worker[t] \in Eventful
        /\ \A t \in Streams : worker[t] \in Eventful => worker'[t] = worker[t]
        /\ \A t \in Streams : stream'[t] = "new" => worker'[t] = "none"
    <3>1. {"none", "idle", "stopped"} \cap Eventful = {}
      BY ServerAssumption DEF Eventful
    <3>2. CASE Open(s)
      BY <3>1, <3>2 DEF Open, PlaceInv, IInv, TypeOK
    <3>3. CASE Subscribe(s) \/ Leave(s)
      BY <3>3 DEF Subscribe, Leave, PlaceInv, IInv, TypeOK
    <3>4. CASE Recycle(s)
      BY <3>4 DEF Recycle, PlaceInv, IInv, TypeOK
    <3>5. CASE Stop(s)
      BY <3>1, <3>5 DEF Stop, PlaceInv, IInv, TypeOK
    <3> QED BY <1>6, <3>2, <3>3, <3>4, <3>5 DEF Serve
  <2>2. Held' = Held
    BY <2>1 DEF Held, Eventful
  <2>3. Given' = Given
    BY <2>1 DEF Given, Eventful
  <2> QED BY <1>2, <2>1, <2>2, <2>3 DEF PlaceInv
<1>7. ASSUME NEW s \in Streams, MakePayload(s)
      PROVE  PlaceInv'
  BY <1>1, <1>2, <1>7 DEF MakePayload
<1> QED
  BY <1>3, <1>4, <1>5, <1>6, <1>7, PlaceTake, PlacePublish DEF Next, Goroutines, Worker

\* The places of an event, one kind of place after the other.
LEMMA PlacesAre ==
  ASSUME NEW e, NEW p
  PROVE  p \in Places(e) <=>
           \/ \E k \in Kinds : \E i \in At(channel[k], e) : p = <<<<"waiting", k>>, i>>
           \/ \E s \in Streams : \E i \in At(delivered[s], e) : p = <<<<"delivered", s>>, i>>
           \/ \E s \in Streams : worker[s] = e /\ p = <<<<"held", s>>, 1>>
           \/ e \in lost /\ p = <<<<"lost">>, 1>>
<1> DEFINE waiting == UNION {{<<"waiting", k>>} \X At(channel[k], e) : k \in Kinds}
           given   == UNION {{<<"delivered", s>>} \X At(delivered[s], e) : s \in Streams}
           held    == {<<"held", s>> : s \in {t \in Streams : worker[t] = e}} \X {1}
           gone    == {<<"lost">>} \X (IF e \in lost THEN {1} ELSE {})
<1>1. p \in waiting <=>
        \E k \in Kinds : \E i \in At(channel[k], e) : p = <<<<"waiting", k>>, i>>
  OBVIOUS
<1>2. p \in given <=>
        \E s \in Streams : \E i \in At(delivered[s], e) : p = <<<<"delivered", s>>, i>>
  OBVIOUS
<1>3. p \in held <=> \E s \in Streams : worker[s] = e /\ p = <<<<"held", s>>, 1>>
  OBVIOUS
<1>4. p \in gone <=> e \in lost /\ p = <<<<"lost">>, 1>>
  OBVIOUS
<1>5. Places(e) = waiting \cup given \cup held \cup gone
  BY DEF Places
<1> HIDE DEF waiting, given, held, gone
<1> QED BY <1>1, <1>2, <1>3, <1>4, <1>5

LEMMA OnePlaceHolds == IInv /\ PlaceInv => OnePlace
<1> SUFFICES ASSUME IInv, PlaceInv, NEW e \in Eventful
             PROVE  Cardinality(Places(e)) = IF Contains(queued[OpOf[e]], e) THEN 1 ELSE 0
  BY DEF OnePlace
<1> DEFINE k == OpOf[e]
<1>1. /\ k \in Kinds
      /\ \A h \in Kinds : /\ queued[h] \in Seq(Eventful) /\ channel[h] \in Seq(Eventful)
                          /\ Suffix(channel[h], queued[h])
                          /\ \A m, n \in DOMAIN queued[h] : queued[h][m] = queued[h][n] => m = n
  BY DEF Eventful, IInv, TypeOK, ChannelInv, QueueInv
<1>2. /\ queued[k] \in Seq(Eventful) /\ channel[k] \in Seq(Eventful)
      /\ Suffix(channel[k], queued[k])
      /\ \A m, n \in DOMAIN queued[k] : queued[k][m] = queued[k][n] => m = n
  BY <1>1
<1>3. Contains(queued[k], e) <=> \E n \in DOMAIN queued[k] : queued[k][n] = e
  BY <1>1, Elements DEF Contains
<1>4. e \in WasTaken <=> \E n \in DOMAIN queued[k] :
                           n <= Out(channel[k], queued[k]) /\ queued[k][n] = e
  BY DEF WasTaken, Taken, Out
<1>6. ASSUME NEW h \in Kinds, At(channel[h], e) # {}
      PROVE  h = k
  <2>1. \E n \in DOMAIN queued[h] : queued[h][n] = e
    <3>1. /\ queued[h] \in Seq(Eventful) /\ channel[h] \in Seq(Eventful)
          /\ Suffix(channel[h], queued[h])
          /\ \A m, n \in DOMAIN queued[h] : queued[h][m] = queued[h][n] => m = n
      BY <1>1
    <3> QED BY <1>6, <3>1, SuffixPlaces
  <2> QED BY <2>1 DEF IInv, QueueInv
<1>7. At(channel[k], e) # {} <=> Contains(queued[k], e) /\ e \notin WasTaken
  <2>1. ASSUME NEW i \in At(channel[k], e)
        PROVE  /\ \E n \in DOMAIN queued[k] : queued[k][n] = e
               /\ \A n \in DOMAIN queued[k] :
                    queued[k][n] = e => ~(n <= Out(channel[k], queued[k]))
    <3>1. \E n \in DOMAIN queued[k] : queued[k][n] = e
      BY <1>2, <2>1, SuffixPlaces
    <3>2. \A n \in DOMAIN queued[k] :
            queued[k][n] = e => ~(n <= Out(channel[k], queued[k]))
      BY <1>2, <2>1, SuffixPlaces
    <3> QED BY <3>1, <3>2
  <2>2. \A n \in DOMAIN queued[k] : queued[k][n] = e =>
          n <= Out(channel[k], queued[k]) \/ At(channel[k], e) # {}
    BY <1>2, SuffixPlaces
  <2> QED BY <1>3, <1>4, <2>1, <2>2
<1>8. \A i, j \in At(channel[k], e) : i = j
  BY <1>2, SuffixPlaces
<1>9. e \in WasTaken => Contains(queued[k], e)
  BY <1>3, <1>4
<1>10. /\ e \in Given <=> \E s \in Streams : At(delivered[s], e) # {}
       /\ e \in Held <=> \E s \in Streams : worker[s] = e
  BY DEF Given, Held, At
<1>11. CASE ~Contains(queued[k], e)
  <2>1. e \notin Held /\ e \notin Given /\ e \notin lost
    BY <1>9, <1>11 DEF PlaceInv
  <2>2. \A h \in Kinds : At(channel[h], e) = {}
    BY <1>6, <1>7, <1>11
  <2>3. Places(e) = {}
    BY <1>10, <2>1, <2>2, PlacesAre
  <2> QED BY <1>11, <2>3, FS_EmptySet
<1>12. CASE Contains(queued[k], e) /\ e \notin WasTaken
  <2>1. e \notin Held /\ e \notin Given /\ e \notin lost
    BY <1>12 DEF PlaceInv
  <2>2. PICK i : i \in At(channel[k], e)
    BY <1>7, <1>12
  <2>3. ASSUME NEW p
        PROVE  p \in Places(e) <=> p = <<<<"waiting", k>>, i>>
    <3>1. \A h \in Kinds : \A j \in At(channel[h], e) : h = k /\ j = i
      BY <1>6, <1>8, <2>2
    <3> QED BY <1>1, <1>10, <2>1, <2>2, <3>1, PlacesAre
  <2>4. Places(e) = {<<<<"waiting", k>>, i>>}
    BY <2>3
  <2> QED BY <1>12, <2>4, FS_Singleton
<1>13. CASE Contains(queued[k], e) /\ e \in WasTaken
  <2>1. \A h \in Kinds : At(channel[h], e) = {}
    BY <1>6, <1>7, <1>13
  <2>2. CASE e \in Held
    <3>1. e \notin Given /\ e \notin lost
      BY <2>2 DEF PlaceInv
    <3>2. PICK s \in Streams : worker[s] = e
      BY <1>10, <2>2
    <3>3. \A t \in Streams : worker[t] = e => t = s
      BY <3>2 DEF IInv, PayloadInv
    <3>4. Places(e) = {<<<<"held", s>>, 1>>}
      BY <1>10, <2>1, <3>1, <3>2, <3>3, PlacesAre
    <3> QED BY <1>13, <3>4, FS_Singleton
  <2>3. CASE e \in Given
    <3>1. e \notin Held /\ e \notin lost
      BY <2>3 DEF PlaceInv
    <3>2. PICK s \in Streams : \E i \in DOMAIN delivered[s] : delivered[s][i] = e
      BY <2>3 DEF Given
    <3>6. PICK i \in DOMAIN delivered[s] : delivered[s][i] = e
      BY <3>2
    <3>3. \A t \in Streams : \A j \in At(delivered[t], e) : t = s /\ j = i
      BY <3>6 DEF PlaceInv, At
    <3>4. i \in At(delivered[s], e)
      BY <3>6 DEF At
    <3>5. Places(e) = {<<<<"delivered", s>>, i>>}
      BY <1>10, <2>1, <3>1, <3>3, <3>4, PlacesAre
    <3> QED BY <1>13, <3>5, FS_Singleton
  <2>4. CASE e \in lost
    <3>1. e \notin Held /\ e \notin Given
      BY <2>4 DEF PlaceInv
    <3>2. Places(e) = {<<<<"lost">>, 1>>}
      BY <1>10, <2>1, <2>4, <3>1, PlacesAre
    <3> QED BY <1>13, <3>2, FS_Singleton
  <2> QED BY <1>13, <2>2, <2>3, <2>4 DEF PlaceInv
<1> QED BY <1>11, <1>12, <1>13

\* No event gets lost on its way through the channels and none reaches two clients: what a
\* handler has queued is in exactly one place, whichever streams come, go and compete.
THEOREM OnePlaceCorrect == Spec => []OnePlace
<1>1. IInv /\ PlaceInv => OnePlace
  BY OnePlaceHolds
<1> QED BY <1>1, InitIInv, NextIInv, PlaceInit, PlaceNext, PTL DEF Spec
=============================================================================
