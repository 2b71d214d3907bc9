------------------------ MODULE ClientRequestsProofs ------------------------
(***************************************************************************)
(* Proofs for any clients, goroutines and options: every request is made   *)
(* as the options of its SDK client say, and setting up one stream at a    *)
(* time is enough for every stream to use its own HTTP client.             *)
(***************************************************************************)
EXTENDS ClientRequests, PrefixInduction

\* The values sse.DefaultClient and a connection can have.
InUse == {"none", DefaultClient} \cup {client[c].http : c \in Client}

\* While one goroutine sets up a stream no other does, so what it put into
\* sse.DefaultClient is there when it makes its connection, and the connection
\* keeps it.
SetupInv ==
  /\ pc \in [Goroutine -> {"idle", "editing", "streaming", "done"} \cup Setup]
  /\ conn \in [Goroutine -> InUse]
  /\ \A g, h \in Goroutine : pc[g] \in Setup /\ pc[h] \in Setup => g = h
  /\ \A g \in Goroutine : pc[g] = "connection" => sse = Mine(g).http
  /\ \A g \in Goroutine : pc[g] = "streaming" => conn[g] = Mine(g).http
  /\ sse \in InUse

StreamInv == SetupInv /\ StreamsUseOwnClient

LEMMA StreamInit == Init => StreamInv
<1> SUFFICES ASSUME Init PROVE StreamInv
  OBVIOUS
<1>1. sse \in InUse /\ "none" \in InUse
  BY DEF Init, InUse
<1>2. SetupInv
  BY <1>1 DEF Init, SetupInv, Setup
<1>3. StreamsUseOwnClient
  BY DEF Init, StreamsUseOwnClient, SentAs
<1> QED
  BY <1>2, <1>3 DEF StreamInv

LEMMA StreamNext ==
  ASSUME SerialSetup
  PROVE  StreamInv /\ [Next]_vars => StreamInv'
<1> SUFFICES ASSUME StreamInv, [Next]_vars
             PROVE  StreamInv'
  OBVIOUS
<1> USE DEF StreamInv, SetupInv
<1>0. /\ UNCHANGED client /\ UNCHANGED InUse
      /\ \A g \in Goroutine : Mine(g).http \in InUse /\ Mine(g)' = Mine(g)
  <2>1. UNCHANGED client
    BY DEF vars, Next, ApiCall, BuildApiCall, ApplyEditor, DoApiCall, Stream, BuildStream,
       SetHTTPClient, NewConnection, Dial, FetchPayload, EndStream
  <2> QED
    BY <2>1, ClientAssumption DEF InUse, Mine
<1>1. CASE UNCHANGED vars
  BY <1>0, <1>1 DEF vars, StreamsUseOwnClient, SentAs
<1>2. ASSUME NEW g \in Goroutine, BuildApiCall(g) \/ ApplyEditor(g)
      PROVE  StreamInv'
  BY <1>0, <1>2 DEF BuildApiCall, ApplyEditor, Goto, Setup, StreamsUseOwnClient, SentAs
<1>3. ASSUME NEW g \in Goroutine, DoApiCall(g)
      PROVE  StreamInv'
  <2>1. SetupInv'
    BY <1>0, <1>3 DEF DoApiCall, Goto, Setup
  <2>2. StreamsUseOwnClient'
    BY <1>0, <1>3 DEF DoApiCall, Send, StreamsUseOwnClient, SentAs
  <2> QED
    BY <2>1, <2>2
<1>4. ASSUME NEW g \in Goroutine, BuildStream(g)
      PROVE  StreamInv'
  <2>1. SetupInv'
    BY <1>0, <1>4, SerialSetup DEF BuildStream, Goto, Setup
  <2>2. StreamsUseOwnClient'
    BY <1>0, <1>4 DEF BuildStream, StreamsUseOwnClient, SentAs
  <2> QED
    BY <2>1, <2>2
<1>5. ASSUME NEW g \in Goroutine, SetHTTPClient(g) \/ NewConnection(g) \/ EndStream(g)
      PROVE  StreamInv'
  <2>1. SetupInv'
    BY <1>0, <1>5 DEF SetHTTPClient, NewConnection, EndStream, Goto, Setup
  <2>2. StreamsUseOwnClient'
    BY <1>0, <1>5 DEF SetHTTPClient, NewConnection, EndStream, StreamsUseOwnClient, SentAs
  <2> QED
    BY <2>1, <2>2
<1>6. ASSUME NEW g \in Goroutine, Dial(g) \/ FetchPayload(g)
      PROVE  StreamInv'
  <2>1. SetupInv'
    BY <1>0, <1>6 DEF Dial, FetchPayload
  <2>2. conn[g] = client[ClientOf[g]].http
    BY <1>6 DEF Dial, FetchPayload, Mine
  <2>3. StreamsUseOwnClient'
    BY <1>0, <1>6, <2>2 DEF Dial, FetchPayload, Send, StreamsUseOwnClient, SentAs
  <2> QED
    BY <2>1, <2>3
<1> QED
  BY <1>1, <1>2, <1>3, <1>4, <1>5, <1>6 DEF Next, ApiCall, Stream

\* An application that sets up its streams one after the other gets each opened
\* with the HTTP client it configured, whatever runs beside them.
THEOREM StreamsUseOwnClientCorrect ==
  ASSUME SerialSetup
  PROVE  Spec => []StreamsUseOwnClient
<1>1. StreamInv => StreamsUseOwnClient
  BY DEF StreamInv
<1> QED
  BY <1>1, StreamInit, StreamNext, PTL DEF Spec
-----------------------------------------------------------------------------
(***************************************************************************)
(* NewClient: what a list of options comes to.                             *)
(***************************************************************************)
OrNone == Doer \cup {"none"}
Partial == [http : OrNone, payloads : OrNone, editors : Seq(Editor)]

LEMMA Appended ==
  ASSUME NEW S, NEW q \in Seq(S), NEW e
  PROVE  /\ e \in S => Append(q, e) \in Seq(S)
         /\ Len(q) \in Nat /\ DOMAIN q = 1..Len(q)
         /\ Len(Append(q, e)) = Len(q) + 1
         /\ Append(q, e)[Len(q) + 1] = e
         /\ \A i \in 1..Len(q) : Append(q, e)[i] = q[i]
  OBVIOUS

LEMMA Nothing ==
  ASSUME NEW S
  PROVE  <<>> \in Seq(S)
  OBVIOUS

LEMMA Element ==
  ASSUME NEW S, NEW q \in Seq(S)
  PROVE  /\ Len(q) \in Nat /\ DOMAIN q = 1..Len(q)
         /\ \A i \in 1..Len(q) : q[i] \in S
  OBVIOUS

LEMMA Joined ==
  ASSUME NEW S, NEW q \in Seq(S), NEW r \in Seq(S)
  PROVE  q \o r \in Seq(S)
  OBVIOUS

LEMMA Singleton ==
  ASSUME NEW S, NEW e \in S
  PROVE  <<e>> \in Seq(S)
  OBVIOUS

LEMMA ApplyIs ==
  ASSUME NEW cfg \in Partial, NEW o \in Option
  PROVE  /\ o.opt \in {"http", "payloads", "editor"}
         /\ Apply(cfg, o) \in Partial
         /\ Apply(cfg, o).http = IF o.opt = "http" THEN o.val ELSE cfg.http
         /\ Apply(cfg, o).payloads = IF o.opt = "payloads" THEN o.val ELSE cfg.payloads
         /\ Apply(cfg, o).editors = IF o.opt = "editor" THEN Append(cfg.editors, o.val)
                                    ELSE cfg.editors
<1>1. /\ o.opt \in {"http", "payloads", "editor"}
      /\ o.opt \in {"http", "payloads"} => o.val \in OrNone
      /\ o.opt = "editor" => o.val \in Editor
  BY DEF Option, OrNone
<1>2. /\ cfg.http \in OrNone /\ cfg.payloads \in OrNone /\ cfg.editors \in Seq(Editor)
      /\ cfg = [http |-> cfg.http, payloads |-> cfg.payloads, editors |-> cfg.editors]
  BY DEF Partial
<1>3. CASE o.opt = "http"
  <2>1. Apply(cfg, o) = [cfg EXCEPT !.http = o.val]
    BY <1>3 DEF Apply
  <2>2. Apply(cfg, o) = [http |-> o.val, payloads |-> cfg.payloads, editors |-> cfg.editors]
    BY <1>2, <2>1
  <2> QED BY <1>1, <1>2, <1>3, <2>2 DEF Partial
<1>4. CASE o.opt = "payloads"
  <2>1. Apply(cfg, o) = [cfg EXCEPT !.payloads = o.val]
    BY <1>4 DEF Apply
  <2>2. Apply(cfg, o) = [http |-> cfg.http, payloads |-> o.val, editors |-> cfg.editors]
    BY <1>2, <2>1
  <2> QED BY <1>1, <1>2, <1>4, <2>2 DEF Partial
<1>5. CASE o.opt = "editor"
  <2>1. Apply(cfg, o) = [cfg EXCEPT !.editors = Append(cfg.editors, o.val)]
    BY <1>5 DEF Apply
  <2>2. Apply(cfg, o) = [http |-> cfg.http, payloads |-> cfg.payloads,
                         editors |-> Append(cfg.editors, o.val)]
    BY <1>2, <2>1
  <2>3. Append(cfg.editors, o.val) \in Seq(Editor)
    BY <1>1, <1>2, <1>5, Appended
  <2> QED BY <1>1, <1>2, <1>5, <2>2, <2>3 DEF Partial
<1> QED BY <1>1, <1>3, <1>4, <1>5

\* The recursive definition of the options applied is one.
LEMMA AppliedStep ==
  ASSUME NEW os \in Seq(Option)
  PROVE  /\ Applied(os)[0] = NoOption
         /\ \A i \in 0..Len(os) : i + 1 \in 0..Len(os) =>
              Applied(os)[i + 1] = Apply(Applied(os)[i], os[i + 1])
         /\ \A i \in 0..Len(os) : Applied(os)[i] \in Partial
<1> DEFINE n == Len(os)
           step == [i \in 1..n |-> [cfg \in Partial |-> Apply(cfg, os[i])]]
           A == Applied(os)
           T == {i \in 0..n : A[i] \in Partial}
<1>1. n \in Nat /\ \A i \in 1..n : os[i] \in Option
  BY Element
<1>2. step \in [1..n -> [Partial -> Partial]]
  BY <1>1, ApplyIs
<1>3. NoOption \in Partial
  BY Nothing DEF NoOption, Partial, OrNone
<1>4. PICK f \in [0..n -> Partial] : Builds(f, n, NoOption, step)
  <2> HIDE DEF step, n
  <2> QED BY <1>1, <1>2, <1>3, PrefixRecursion
<1>5. f = [i \in 0..n |-> IF i = 0 THEN NoOption ELSE Apply(f[i - 1], os[i])]
  <2>1. ASSUME NEW i \in 1..n
        PROVE  f[i] = Apply(f[i - 1], os[i])
    <3>1. f[i - 1] \in Partial
      BY <1>1
    <3> QED BY <1>4, <3>1 DEF Builds
  <2>2. \A i \in 0..n : i = 0 \/ i \in 1..n
    BY <1>1
  <2>3. f[0] = NoOption
    BY <1>4 DEF Builds
  <2> HIDE DEF n, step
  <2>4. \A i \in 0..n : f[i] = IF i = 0 THEN NoOption ELSE Apply(f[i - 1], os[i])
    BY <2>1, <2>2, <2>3
  <2> QED BY <1>4, <2>4
<1>6. A = [i \in 0..n |-> IF i = 0 THEN NoOption ELSE Apply(A[i - 1], os[i])]
  BY <1>5 DEF Applied
<1> HIDE DEF A, n, step
<1>7. /\ A[0] = NoOption
      /\ \A i \in 0..n : i + 1 \in 0..n => A[i + 1] = Apply(A[i], os[i + 1])
  <2>1. 0 \in 0..n /\ \A i \in 0..n : i + 1 # 0 /\ (i + 1) - 1 = i
    BY <1>1
  <2> QED BY <1>6, <2>1
<1>8. 0 \in T
  BY <1>1, <1>3, <1>7
<1>9. ASSUME NEW i \in 0..n, i \in T, i + 1 \in 0..n
      PROVE  i + 1 \in T
  <2>1. i + 1 \in 1..n
    BY <1>1, <1>9
  <2> QED BY <1>1, <1>7, <1>9, <2>1, ApplyIs
<1> HIDE DEF T
<1>10. 0..n \subseteq T
  BY <1>1, <1>8, <1>9, PrefixSetInduction
<1> QED BY <1>7, <1>10 DEF T, A, n

\* v is what the last option of a kind up to i gives, if there is one.
LastOf(os, i, opt, v) ==
  \/ v = "none" /\ \A j \in 1..i : os[j].opt # opt
  \/ \E j \in 1..i : /\ os[j].opt = opt /\ v = os[j].val
                     /\ \A k \in 1..i : os[k].opt = opt => k <= j

LEMMA LastStep ==
  ASSUME NEW os, NEW i \in Nat, NEW opt, NEW v, LastOf(os, i, opt, v)
  PROVE  LastOf(os, i + 1, opt, IF os[i + 1].opt = opt THEN os[i + 1].val ELSE v)
<1>1. /\ i + 1 \in 1..(i + 1) /\ \A j \in 1..i : j \in 1..(i + 1)
      /\ \A j \in 1..(i + 1) : j <= i + 1 /\ (j = i + 1 \/ j \in 1..i)
  OBVIOUS
<1>2. CASE os[i + 1].opt = opt
  BY <1>1, <1>2 DEF LastOf
<1>3. CASE os[i + 1].opt # opt
  <2>1. CASE v = "none" /\ \A j \in 1..i : os[j].opt # opt
    BY <1>1, <1>3, <2>1 DEF LastOf
  <2>2. CASE \E j \in 1..i : /\ os[j].opt = opt /\ v = os[j].val
                            /\ \A k \in 1..i : os[k].opt = opt => k <= j
    BY <1>1, <1>3, <2>2 DEF LastOf
  <2> QED BY <1>3, <2>1, <2>2 DEF LastOf
<1> QED BY <1>2, <1>3

Values(os) == [i \in DOMAIN os |-> os[i].val]
EditorsAt(os) == {i \in DOMAIN os : os[i].opt = "editor"}

\* What the options up to i come to.
AsGiven(os, i, cfg) ==
  /\ LastOf(os, i, "http", cfg.http)
  /\ LastOf(os, i, "payloads", cfg.payloads)
  /\ Filtered(EditorsAt(os), Values(os), i, cfg.editors)

LEMMA AppliedAsGiven ==
  ASSUME NEW os \in Seq(Option)
  PROVE  \A i \in 0..Len(os) : AsGiven(os, i, Applied(os)[i])
<1> DEFINE n == Len(os)
           A == Applied(os)
           P == EditorsAt(os)
           T == {i \in 0..n : AsGiven(os, i, A[i])}
<1>1. n \in Nat /\ DOMAIN os = 1..n /\ \A i \in 1..n : os[i] \in Option
  BY Element
<1>2. 0 \in T
  <2>1. A[0] = NoOption /\ 0 \in 0..n
    BY <1>1, AppliedStep
  <2>2. NoOption.http = "none" /\ NoOption.payloads = "none" /\ NoOption.editors = <<>>
    BY DEF NoOption
  <2>3. Filtered(P, Values(os), 0, <<>>)
    <3>1. Below(P, 0) = {} /\ Len(<<>>) = 0
      BY DEF Below
    <3> HIDE DEF P
    <3> QED BY <3>1, Counting DEF Filtered
  <2> HIDE DEF A, P
  <2>4. 1..0 = {}
    OBVIOUS
  <2> QED BY <2>1, <2>2, <2>3, <2>4 DEF AsGiven, LastOf, P
<1>3. ASSUME NEW i \in 0..n, i \in T, i + 1 \in 0..n
      PROVE  i + 1 \in T
  <2> DEFINE cfg == A[i]
             o == os[i + 1]
             new == Apply(cfg, o)
  <2>1. i \in Nat /\ i + 1 \in 1..n
    BY <1>1, <1>3
  <2>2. A[i + 1] = new /\ cfg \in Partial /\ AsGiven(os, i, cfg) /\ o \in Option
    BY <1>1, <1>3, <2>1, AppliedStep
  <2>3. /\ new.http = IF o.opt = "http" THEN o.val ELSE cfg.http
        /\ new.payloads = IF o.opt = "payloads" THEN o.val ELSE cfg.payloads
        /\ new.editors = IF o.opt = "editor" THEN Append(cfg.editors, o.val) ELSE cfg.editors
        /\ cfg.editors \in Seq(Editor)
    BY <2>2, ApplyIs DEF Partial
  <2>4. /\ i + 1 \in P <=> o.opt = "editor"
        /\ Values(os)[i + 1] = o.val
    BY <1>1, <2>1 DEF EditorsAt, Values
  <2> HIDE DEF A, P, cfg, new
  <2>5. LastOf(os, i + 1, "http", new.http) /\ LastOf(os, i + 1, "payloads", new.payloads)
    BY <2>1, <2>2, <2>3, LastStep DEF AsGiven
  <2>6. Filtered(P, Values(os), i + 1, new.editors)
    <3>1. Filtered(P, Values(os), i, cfg.editors)
      BY <2>2 DEF AsGiven, P
    <3>2. Filtered(P, Values(os), i + 1, IF i + 1 \in P THEN Append(cfg.editors, Values(os)[i + 1])
                                         ELSE cfg.editors)
      BY <2>1, <2>3, <3>1, FilterStep
    <3> QED BY <2>3, <2>4, <3>2
  <2>7. AsGiven(os, i + 1, A[i + 1])
    BY <2>2, <2>5, <2>6 DEF AsGiven, P
  <2> QED BY <1>3, <2>7
<1> HIDE DEF T
<1>4. 0..n \subseteq T
  BY <1>1, <1>2, <1>3, PrefixSetInduction
<1> QED BY <1>4 DEF T

LEMMA ConfiguredAsGiven ==
  ASSUME NEW c \in Client
  PROVE  /\ Configured(c) \in Config
         /\ Configured(c).http = HTTPClientOf(c)
         /\ Configured(c).payloads = LastGiven(c, "payloads", DefaultClient)
         /\ AreEditorsOf(c, Configured(c).editors)
<1> DEFINE os == Options[c]
           n == Len(os)
           cfg == Applied(os)[n]
           conf == Configured(c)
<1>1. /\ os \in Seq(Option) /\ n \in Nat /\ DOMAIN os = 1..n
      /\ OwnDoer[c] \in Doer /\ DefaultClient \in Doer /\ "none" \notin Doer
      /\ \A i \in 1..n : os[i] \in Option
  BY ClientAssumption, Element
<1>2. cfg \in Partial /\ AsGiven(os, n, cfg)
  BY <1>1, AppliedStep, AppliedAsGiven
<1>3. conf = WithDefaults(c, cfg)
  BY DEF Configured
<1> HIDE DEF cfg, conf
<1>4. conf = [http |-> IF cfg.http = "none" THEN OwnDoer[c] ELSE cfg.http,
              payloads |-> IF cfg.payloads = "none" THEN DefaultClient ELSE cfg.payloads,
              editors |-> cfg.editors]
  BY <1>2, <1>3 DEF WithDefaults, Partial
<1>5. conf \in Config
  BY <1>1, <1>2, <1>4 DEF Partial, Config, OrNone
<1>6. ASSUME NEW opt \in {"http", "payloads"}, NEW v, LastOf(os, n, opt, v), NEW default
      PROVE  LastGiven(c, opt, default) = IF v = "none" THEN default ELSE v
  <2>1. Given(c, opt) = {i \in 1..n : os[i].opt = opt}
    BY <1>1 DEF Given
  <2>2. CASE v = "none" /\ \A j \in 1..n : os[j].opt # opt
    BY <2>1, <2>2 DEF LastGiven
  <2>3. CASE \E j \in 1..n : /\ os[j].opt = opt /\ v = os[j].val
                            /\ \A k \in 1..n : os[k].opt = opt => k <= j
    <3>1. PICK j \in 1..n : /\ os[j].opt = opt /\ v = os[j].val
                            /\ \A k \in 1..n : os[k].opt = opt => k <= j
      BY <2>3
    <3>2. j \in Given(c, opt) /\ \A k \in Given(c, opt) : k \in Nat /\ k <= j
      BY <1>1, <2>1, <3>1
    <3>3. Max(Given(c, opt)) = j
      <4> DEFINE given == Given(c, opt)
                 m == Max(given)
      <4>1. \A y \in given : j >= y
        BY <3>2
      <4> HIDE DEF given
      <4>2. j \in given /\ \A k \in given : k \in Nat /\ k <= j
        BY <3>2 DEF given
      <4>3. m \in given /\ \A y \in given : m >= y
        BY <4>1, <4>2 DEF Max
      <4> HIDE DEF m
      <4>4. m = j
        BY <4>2, <4>3
      <4> QED BY <4>4 DEF m, given
    <3>4. v # "none"
      BY <1>1, <1>6, <3>1 DEF Option
    <3> QED BY <3>1, <3>2, <3>3, <3>4 DEF LastGiven
  <2> QED BY <1>6, <2>2, <2>3 DEF LastOf
<1>7. /\ conf.http = HTTPClientOf(c)
      /\ conf.payloads = LastGiven(c, "payloads", DefaultClient)
  <2>1. LastOf(os, n, "http", cfg.http) /\ LastOf(os, n, "payloads", cfg.payloads)
    BY <1>2 DEF AsGiven
  <2> HIDE DEF os, n
  <2> QED BY <1>4, <1>6, <2>1 DEF HTTPClientOf
<1>8. AreEditorsOf(c, conf.editors)
  <2> DEFINE P == EditorsAt(os)
             q == conf.editors
  <2>1. Filtered(P, Values(os), n, q)
    BY <1>2, <1>4 DEF AsGiven
  <2>2. Given(c, "editor") = P /\ Below(P, n) = P
    BY <1>1 DEF Given, EditorsAt, Below
  <2>3. ASSUME NEW i \in P
        PROVE  q[Cardinality({j \in P : j <= i})] = os[i].val
    <3>1. i \in 1..n /\ Values(os)[i] = os[i].val
      BY <1>1 DEF EditorsAt, Values
    <3>2. {j \in P : j <= i} = Below(P, i)
      BY <1>1, <3>1 DEF EditorsAt, Below
    <3> HIDE DEF P, q
    <3> QED BY <2>1, <2>2, <3>1, <3>2 DEF Filtered, Count
  <2>4. Len(q) = Cardinality(P)
    BY <2>1, <2>2 DEF Filtered, Count
  <2> HIDE DEF P, q
  <2> QED BY <2>2, <2>3, <2>4 DEF AreEditorsOf, q
<1> QED BY <1>5, <1>7, <1>8 DEF conf
-----------------------------------------------------------------------------
(***************************************************************************)
(* Requests.                                                               *)
(***************************************************************************)
Modes == {"idle", "editing", "streaming", "done"} \cup Setup

\* What has been applied of the editors.
Prefix(q, editors) == /\ Len(q) <= Len(editors)
                      /\ \A i \in 1..Len(q) : q[i] = editors[i]

SentAsConfigured(r) ==
  LET conf == Configured(ClientOf[r.by]) IN
  /\ r.kind = "api" => /\ r.doer = conf.http
                       /\ r.editors = conf.editors
                       /\ r.path = Base[ClientOf[r.by]].segments \o <<"operation">>
  /\ r.kind = "payload" => r.doer = conf.payloads /\ r.editors = <<>>
  /\ r.kind = "stream" => r.path = Resolve(Base[ClientOf[r.by]], <<"events">>)

RequestInv ==
  /\ client = [c \in Client |-> Configured(c)]
  /\ sse \in Doer
  /\ pc \in [Goroutine -> Modes]
  /\ edited \in [Goroutine -> Seq(Editor)]
  /\ conn \in [Goroutine -> Doer \cup {"none"}]
  /\ sent \subseteq Request
  /\ \A g \in Goroutine : Prefix(edited[g], Configured(ClientOf[g]).editors)
  /\ \A g \in Goroutine : pc[g] = "streaming" => conn[g] \in Doer
  /\ \A r \in sent : SentAsConfigured(r)

LEMMA ConfOf ==
  ASSUME NEW g \in Goroutine, client = [c \in Client |-> Configured(c)]
  PROVE  /\ Mine(g) = Configured(ClientOf[g]) /\ ClientOf[g] \in Client
         /\ Mine(g).http \in Doer /\ Mine(g).payloads \in Doer
         /\ Mine(g).editors \in Seq(Editor)
<1>1. ClientOf[g] \in Client
  BY ClientAssumption
<1>2. Configured(ClientOf[g]) \in Config
  BY <1>1, ConfiguredAsGiven
<1>3. Mine(g) = Configured(ClientOf[g])
  BY <1>1 DEF Mine
<1> QED BY <1>1, <1>2, <1>3 DEF Config

LEMMA PrefixNext ==
  ASSUME NEW editors \in Seq(Editor), NEW q \in Seq(Editor), Prefix(q, editors),
         Len(q) < Len(editors)
  PROVE  /\ Append(q, editors[Len(q) + 1]) \in Seq(Editor)
         /\ Prefix(Append(q, editors[Len(q) + 1]), editors)
<1> DEFINE n == Len(q)
           r == Append(q, editors[n + 1])
<1>1. n \in Nat /\ Len(editors) \in Nat
  OBVIOUS
<1>2. n + 1 \in 1..Len(editors) /\ n + 1 <= Len(editors)
  BY <1>1
<1>3. editors[n + 1] \in Editor
  BY <1>2, Element
<1>4. /\ r \in Seq(Editor) /\ Len(r) = n + 1 /\ r[n + 1] = editors[n + 1]
      /\ \A i \in 1..n : r[i] = q[i]
  BY <1>3, Appended
<1>5. \A i \in 1..n : q[i] = editors[i]
  BY DEF Prefix
<1> HIDE DEF n, r
<1>6. \A i \in 1..(n + 1) : r[i] = editors[i]
  BY <1>1, <1>4, <1>5
<1>7. Prefix(r, editors)
  BY <1>2, <1>4, <1>6 DEF Prefix
<1> QED BY <1>4, <1>7 DEF r, n

LEMMA PrefixWhole ==
  ASSUME NEW editors \in Seq(Editor), NEW q \in Seq(Editor), Prefix(q, editors),
         Len(q) = Len(editors)
  PROVE  q = editors
BY DEF Prefix

LEMMA Paths ==
  ASSUME NEW c \in Client, NEW word \in Segment
  PROVE  /\ Resolve(ServerOf(c), <<word>>) = Base[c].segments \o <<word>>
         /\ Resolve(ServerOf(c), <<word>>) \in Seq(Segment)
         /\ Resolve(Base[c], <<word>>) \in Seq(Segment)
         /\ <<word>> \in Seq(Segment)
<1> DEFINE segs == Base[c].segments
<1>1. Base[c] \in Path /\ segs \in Seq(Segment)
  BY ClientAssumption DEF Path
<1>2. ServerOf(c).slash = TRUE /\ ServerOf(c).segments = segs
  BY <1>1 DEF ServerOf, Path
<1>3. Resolve(ServerOf(c), <<word>>) = segs \o <<word>>
  BY <1>2 DEF Resolve
<1> HIDE DEF segs
<1>4. <<word>> \in Seq(Segment) /\ segs \o <<word>> \in Seq(Segment)
  BY <1>1, Singleton, Joined
<1>5. segs # <<>> => Front(segs) \in Seq(Segment)
  <2>1. ASSUME segs # <<>>
        PROVE  SubSeq(segs, 1, Len(segs) - 1) \in Seq(Segment)
    BY <1>1, <2>1
  <2> QED BY <2>1 DEF Front
<1>6. Resolve(Base[c], <<word>>) \in {segs \o <<word>>, Front(segs) \o <<word>>}
      /\ (segs = <<>> => Resolve(Base[c], <<word>>) = segs \o <<word>>)
  BY DEF Resolve, segs
<1>7. Resolve(Base[c], <<word>>) \in Seq(Segment)
  <2>1. segs # <<>> => Front(segs) \o <<word>> \in Seq(Segment)
    BY <1>4, <1>5, Joined
  <2> QED BY <1>4, <1>6, <2>1
<1> QED BY <1>3, <1>4, <1>7 DEF segs

LEMMA RequestInit == Init => RequestInv
<1> SUFFICES ASSUME Init PROVE RequestInv
  OBVIOUS
<1>1. \A g \in Goroutine : edited[g] = <<>> /\ <<>> \in Seq(Editor)
  BY Nothing DEF Init
<1>2. ASSUME NEW g \in Goroutine
      PROVE  Prefix(edited[g], Configured(ClientOf[g]).editors)
  <2>1. Configured(ClientOf[g]).editors \in Seq(Editor)
    BY ConfOf DEF Init
  <2>2. Len(Configured(ClientOf[g]).editors) \in Nat
    BY <2>1, Element
  <2>3. Len(<<>>) = 0
    OBVIOUS
  <2> QED BY <1>1, <2>2, <2>3 DEF Prefix
<1> QED BY <1>1, <1>2, ClientAssumption DEF Init, RequestInv, Modes

\* One more request, as the configuration says.
LEMMA SendRequest ==
  ASSUME RequestInv, NEW g \in Goroutine, NEW kind \in {"api", "stream", "payload"},
         NEW doer \in Doer, NEW editors \in Seq(Editor), NEW path \in Seq(Segment),
         Send(g, kind, doer, editors, path), UNCHANGED <<client, sse, edited, conn>>,
         pc' \in [Goroutine -> Modes],
         \A h \in Goroutine : pc'[h] = "streaming" => pc[h] = "streaming",
         SentAsConfigured([by |-> g, kind |-> kind, doer |-> doer, editors |-> editors,
                           path |-> path])
  PROVE  RequestInv'
<1> DEFINE r == [by |-> g, kind |-> kind, doer |-> doer, editors |-> editors, path |-> path]
<1>1. r \in Request /\ SentAsConfigured(r)
  BY DEF Request
<1>2. sent' = sent \cup {r}
  BY DEF Send
<1> HIDE DEF r
<1>3. sent' \subseteq Request /\ \A x \in sent' : SentAsConfigured(x)
  BY <1>1, <1>2 DEF RequestInv
<1> QED BY <1>3 DEF RequestInv

LEMMA RequestNext == RequestInv /\ [Next]_vars => RequestInv'
<1> SUFFICES ASSUME RequestInv, [Next]_vars PROVE RequestInv'
  OBVIOUS
<1>1. CASE UNCHANGED vars
  BY <1>1 DEF vars, RequestInv
<1>2. ASSUME NEW g \in Goroutine, BuildApiCall(g) \/ BuildStream(g) \/ EndStream(g)
      PROVE  RequestInv'
  <2>1. pc' \in [Goroutine -> Modes]
    BY <1>2 DEF BuildApiCall, BuildStream, EndStream, Goto, RequestInv, Modes, Setup
  <2>2. \A h \in Goroutine : pc'[h] = "streaming" => pc[h] = "streaming"
    BY <1>2 DEF BuildApiCall, BuildStream, EndStream, Goto, RequestInv
  <2> QED BY <1>2, <2>1, <2>2 DEF BuildApiCall, BuildStream, EndStream, RequestInv
<1>3. ASSUME NEW g \in Goroutine, ApplyEditor(g)
      PROVE  RequestInv'
  <2> DEFINE editors == Configured(ClientOf[g]).editors
             q == edited[g]
  <2>1. Mine(g).editors = editors /\ editors \in Seq(Editor) /\ q \in Seq(Editor)
        /\ Prefix(q, editors)
    BY ConfOf DEF RequestInv
  <2>2. \/ /\ Len(q) < Len(editors)
           /\ edited' = [edited EXCEPT ![g] = Append(q, editors[Len(q) + 1])]
           /\ UNCHANGED pc
        \/ Goto(g, "done") /\ UNCHANGED edited
    BY <1>3, <2>1 DEF ApplyEditor
  <2>3. UNCHANGED <<client, sse, conn, sent>>
    BY <1>3 DEF ApplyEditor
  <2>4. CASE Goto(g, "done") /\ UNCHANGED edited
    BY <2>3, <2>4 DEF Goto, RequestInv, Modes
  <2>5. CASE /\ Len(q) < Len(editors)
             /\ edited' = [edited EXCEPT ![g] = Append(q, editors[Len(q) + 1])]
             /\ UNCHANGED pc
    <3> DEFINE r == Append(q, editors[Len(q) + 1])
    <3>1. r \in Seq(Editor) /\ Prefix(r, editors)
      BY <2>1, <2>5, PrefixNext
    <3>2. edited' = [edited EXCEPT ![g] = r]
      BY <2>5
    <3> HIDE DEF r
    <3>3. edited' \in [Goroutine -> Seq(Editor)]
      BY <3>1, <3>2 DEF RequestInv
    <3>4. \A h \in Goroutine : Prefix(edited'[h], Configured(ClientOf[h]).editors)
      BY <3>1, <3>2 DEF RequestInv
    <3> QED BY <2>3, <2>5, <3>3, <3>4 DEF RequestInv
  <2> QED BY <2>2, <2>4, <2>5
<1>4. ASSUME NEW g \in Goroutine, DoApiCall(g)
      PROVE  RequestInv'
  <2> DEFINE c == ClientOf[g]
             editors == Configured(c).editors
             path == Resolve(ServerOf(c), <<"operation">>)
  <2>1. /\ Mine(g) = Configured(c) /\ c \in Client
        /\ Mine(g).http \in Doer /\ editors \in Seq(Editor)
        /\ edited[g] \in Seq(Editor) /\ Prefix(edited[g], editors)
    BY ConfOf DEF RequestInv
  <2>2. edited[g] = editors
    BY <1>4, <2>1, PrefixWhole DEF DoApiCall
  <2>3. path = Base[c].segments \o <<"operation">> /\ path \in Seq(Segment)
    <3>1. "operation" \in Segment
      BY ClientAssumption
    <3> QED BY <2>1, <3>1, Paths
  <2>4. Send(g, "api", Mine(g).http, edited[g], path) /\ UNCHANGED <<client, sse, edited, conn>>
    BY <1>4 DEF DoApiCall
  <2>5. /\ pc' \in [Goroutine -> Modes]
        /\ \A h \in Goroutine : pc'[h] = "streaming" => pc[h] = "streaming"
    BY <1>4 DEF DoApiCall, Goto, RequestInv, Modes
  <2>6. SentAsConfigured([by |-> g, kind |-> "api", doer |-> Mine(g).http,
                          editors |-> edited[g], path |-> path])
    BY <2>1, <2>2, <2>3 DEF SentAsConfigured
  <2> HIDE DEF path
  <2> QED BY <2>1, <2>3, <2>4, <2>5, <2>6, SendRequest
<1>5. ASSUME NEW g \in Goroutine, SetHTTPClient(g) \/ NewConnection(g)
      PROVE  RequestInv'
  <2>1. Mine(g).http \in Doer
    BY ConfOf DEF RequestInv
  <2>2. CASE SetHTTPClient(g)
    <3>1. /\ sse' \in Doer /\ pc' \in [Goroutine -> Modes]
          /\ \A h \in Goroutine : pc'[h] = "streaming" => pc[h] = "streaming"
      BY <2>1, <2>2 DEF SetHTTPClient, Goto, RequestInv, Modes, Setup
    <3> QED BY <2>2, <3>1 DEF SetHTTPClient, RequestInv
  <2>3. CASE NewConnection(g)
    <3>1. /\ conn' \in [Goroutine -> Doer \cup {"none"}] /\ pc' \in [Goroutine -> Modes]
          /\ \A h \in Goroutine : pc'[h] = "streaming" => conn'[h] \in Doer
      BY <2>3 DEF NewConnection, Goto, RequestInv, Modes
    <3> QED BY <2>3, <3>1 DEF NewConnection, RequestInv
  <2> QED BY <1>5, <2>2, <2>3
<1>6. ASSUME NEW g \in Goroutine, Dial(g)
      PROVE  RequestInv'
  <2> DEFINE path == Resolve(Base[ClientOf[g]], <<"events">>)
  <2>1. conn[g] \in Doer /\ edited[g] \in Seq(Editor) /\ ClientOf[g] \in Client
    BY <1>6, ConfOf DEF Dial, RequestInv
  <2>2. path \in Seq(Segment)
    <3>1. "events" \in Segment
      BY ClientAssumption
    <3> QED BY <2>1, <3>1, Paths
  <2>3. Send(g, "stream", conn[g], edited[g], path) /\ UNCHANGED <<client, sse, pc, edited, conn>>
    BY <1>6 DEF Dial
  <2>4. SentAsConfigured([by |-> g, kind |-> "stream", doer |-> conn[g],
                          editors |-> edited[g], path |-> path])
    BY DEF SentAsConfigured
  <2>5. pc' \in [Goroutine -> Modes]
    BY <2>3 DEF RequestInv
  <2> HIDE DEF path
  <2> QED BY <2>1, <2>2, <2>3, <2>4, <2>5, SendRequest
<1>7. ASSUME NEW g \in Goroutine, FetchPayload(g)
      PROVE  RequestInv'
  <2>1. Mine(g).payloads \in Doer /\ Mine(g) = Configured(ClientOf[g])
    BY ConfOf DEF RequestInv
  <2>2. <<>> \in Seq(Editor) /\ <<"payload">> \in Seq(Segment)
    <3>1. "payload" \in Segment
      BY ClientAssumption
    <3> QED BY <3>1, Nothing, Singleton
  <2>3. /\ Send(g, "payload", Mine(g).payloads, <<>>, <<"payload">>)
        /\ UNCHANGED <<client, sse, pc, edited, conn>>
    BY <1>7 DEF FetchPayload
  <2>4. SentAsConfigured([by |-> g, kind |-> "payload", doer |-> Mine(g).payloads,
                          editors |-> <<>>, path |-> <<"payload">>])
    BY <2>1 DEF SentAsConfigured
  <2>5. pc' \in [Goroutine -> Modes]
    BY <2>3 DEF RequestInv
  <2> QED BY <2>1, <2>2, <2>3, <2>4, <2>5, SendRequest
<1> QED BY <1>1, <1>2, <1>3, <1>4, <1>5, <1>6, <1>7 DEF Next, ApiCall, Stream

\* The configurations, the editors applied, the connections and the requests keep their
\* shapes: no request is ever sent without an HTTP client.
THEOREM TypeCorrect == Spec => []TypeOK
<1>1. RequestInv => TypeOK
  <2> SUFFICES ASSUME RequestInv PROVE TypeOK
    OBVIOUS
  <2>1. client \in [Client -> Config]
    BY ConfiguredAsGiven DEF RequestInv
  <2> QED BY <2>1 DEF RequestInv, TypeOK, Modes
<1> QED BY <1>1, RequestInit, RequestNext, PTL DEF Spec

\* Whatever options a client is made with, in whatever order and however often, an API
\* call leaves through the last HTTP client given, with every editor applied in turn.
THEOREM ApiCallsAsConfiguredCorrect == Spec => []ApiCallsAsConfigured
<1>1. RequestInv => ApiCallsAsConfigured
  <2> SUFFICES ASSUME RequestInv, NEW r \in SentAs("api")
               PROVE  /\ r.doer = HTTPClientOf(ClientOf[r.by])
                      /\ AreEditorsOf(ClientOf[r.by], r.editors)
                      /\ r.path = Base[ClientOf[r.by]].segments \o <<"operation">>
    BY DEF ApiCallsAsConfigured
  <2>1. r \in sent /\ r.kind = "api" /\ SentAsConfigured(r) /\ ClientOf[r.by] \in Client
    BY ClientAssumption DEF SentAs, RequestInv, Request
  <2> QED BY <2>1, ConfiguredAsGiven DEF SentAsConfigured
<1> QED BY <1>1, RequestInit, RequestNext, PTL DEF Spec

\* Payloads are fetched with their own client, and no editor has seen the request.
THEOREM PayloadsApartCorrect == Spec => []PayloadsApart
<1>1. RequestInv => PayloadsApart
  <2> SUFFICES ASSUME RequestInv, NEW r \in SentAs("payload")
               PROVE  /\ r.doer = LastGiven(ClientOf[r.by], "payloads", DefaultClient)
                      /\ r.editors = <<>>
    BY DEF PayloadsApart
  <2>1. r \in sent /\ r.kind = "payload" /\ SentAsConfigured(r) /\ ClientOf[r.by] \in Client
    BY ClientAssumption DEF SentAs, RequestInv, Request
  <2> QED BY <2>1, ConfiguredAsGiven DEF SentAsConfigured
<1> QED BY <1>1, RequestInit, RequestNext, PTL DEF Spec

\* A server URL that ends in a slash, or has no path, keeps the event stream below it: only
\* one with a path and no slash behind it, as in the run stream_path, can break the rule.
THEOREM StreamsBelowServerCorrect ==
  ASSUME \A c \in Client : Base[c].slash \/ Base[c].segments = <<>>
  PROVE  Spec => []StreamsBelowServer
<1>1. RequestInv => StreamsBelowServer
  <2> SUFFICES ASSUME RequestInv, NEW r \in SentAs("stream")
               PROVE  r.path = Base[ClientOf[r.by]].segments \o <<"events">>
    BY DEF StreamsBelowServer
  <2>1. r \in sent /\ r.kind = "stream" /\ SentAsConfigured(r) /\ ClientOf[r.by] \in Client
    BY ClientAssumption DEF SentAs, RequestInv, Request
  <2> QED BY <2>1 DEF SentAsConfigured, Resolve
<1> QED BY <1>1, RequestInit, RequestNext, PTL DEF Spec
=============================================================================
