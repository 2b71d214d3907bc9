--------------------------- MODULE ClientRequests ---------------------------
(***************************************************************************)
(* Which HTTP client sends the requests of an SDK client, what is put on   *)
(* them and where they go (client.go, the generated oapi client, and the   *)
(* set-up of an event stream in events.go).                                *)
(*                                                                         *)
(* An application has several SDK clients and uses them from several       *)
(* goroutines.  API calls go through the generated client.  An event stream*)
(* goes through sse.DefaultClient, a variable of the go-sse library that   *)
(* every receive call of the process overwrites before it makes its        *)
(* connection.  Payloads are fetched with a client of their own.           *)
(***************************************************************************)
EXTENDS Naturals, Sequences, FiniteSets, SequencesExt

CONSTANTS Client,         \* the SDK clients of the application
          Goroutine,      \* its goroutines, each makes one call
          ClientOf,       \* the SDK client a goroutine uses
          Job,            \* "api": an API call, "stream": a receive call
          Doer,           \* the HTTP clients there are
          Editor,         \* the request editors there are
          Options,        \* the options each SDK client is made with
          Segment,        \* what the paths of URLs are made of
          Base,           \* its server URL: path segments, trailing slash
          OwnDoer,        \* the &http.Client{} made for it when no option sets one
          DefaultClient,  \* http.DefaultClient
          SerialSetup     \* the application sets up one stream at a time

Option == [opt : {"http", "payloads"}, val : Doer] \cup [opt : {"editor"}, val : Editor]
Path   == [segments : Seq(Segment), slash : BOOLEAN]

ASSUME ClientAssumption == /\ ClientOf \in [Goroutine -> Client]
                           /\ Job \in [Goroutine -> {"api", "stream"}]
                           /\ Options \in [Client -> Seq(Option)]
                           /\ {"operation", "events", "payload"} \subseteq Segment
                           /\ Base \in [Client -> Path]
                           /\ OwnDoer \in [Client -> Doer]
                           /\ DefaultClient \in Doer
                           /\ SerialSetup \in BOOLEAN
                           /\ "none" \notin Doer

VARIABLES client,  \* client[c]: the configuration NewClient gave c
          sse,     \* the HTTP client of sse.DefaultClient
          pc,      \* where each goroutine is
          edited,  \* the editors applied to its request so far
          conn,    \* the HTTP client its connection was made with
          sent     \* the requests sent so far

vars == <<client, sse, pc, edited, conn, sent>>

Config  == [http : Doer, payloads : Doer, editors : Seq(Editor)]
Request == [by : Goroutine, kind : {"api", "stream", "payload"}, doer : Doer,
            editors : Seq(Editor), path : Seq(Segment)]

Mine(g) == client[ClientOf[g]]
Goto(g, p) == pc' = [pc EXCEPT ![g] = p]
-----------------------------------------------------------------------------
(***************************************************************************)
(* NewClient: the options in the order given, then the defaults.           *)
(***************************************************************************)

\* Fault: a second option of a kind does not replace the first.
ApplyFirst(cfg, o) ==
  CASE o.opt = "http"     -> IF cfg.http = "none" THEN [cfg EXCEPT !.http = o.val] ELSE cfg
    [] o.opt = "payloads" -> [cfg EXCEPT !.payloads = o.val]
    [] o.opt = "editor"   -> [cfg EXCEPT !.editors = Append(@, o.val)]

Apply(cfg, o) ==
  CASE o.opt = "http"     -> [cfg EXCEPT !.http = o.val]
    [] o.opt = "payloads" -> [cfg EXCEPT !.payloads = o.val]
    [] o.opt = "editor"   -> [cfg EXCEPT !.editors = Append(@, o.val)]

NoOption == [http |-> "none", payloads |-> "none", editors |-> <<>>]

\* Fault: no default for the client that fetches payloads.
WithoutPayloadsDefault(c, cfg) ==
  [cfg EXCEPT !.http = IF @ = "none" THEN OwnDoer[c] ELSE @]

WithDefaults(c, cfg) ==
  [cfg EXCEPT !.http     = IF @ = "none" THEN OwnDoer[c] ELSE @,
              !.payloads = IF @ = "none" THEN DefaultClient ELSE @]

\* The configuration after each prefix of the options.
Applied(options) == LET applied[i \in 0..Len(options)] ==
                          IF i = 0 THEN NoOption ELSE Apply(applied[i - 1], options[i])
                    IN applied

Configured(c) == WithDefaults(c, Applied(Options[c])[Len(Options[c])])

Init == /\ client = [c \in Client |-> Configured(c)]
        /\ sse = DefaultClient
        /\ pc = [g \in Goroutine |-> "idle"]
        /\ edited = [g \in Goroutine |-> <<>>]
        /\ conn = [g \in Goroutine |-> "none"]
        /\ sent = {}

\* A relative reference replaces what follows the last slash of the base.
Resolve(base, operation) ==
  (IF base.slash \/ base.segments = <<>> THEN base.segments ELSE Front(base.segments))
    \o operation

Send(g, kind, doer, editors, path) ==
  sent' = sent \cup {[by |-> g, kind |-> kind, doer |-> doer, editors |-> editors,
                      path |-> path]}
-----------------------------------------------------------------------------
(***************************************************************************)
(* An API call of the generated client: build the request, run the editors *)
(* over it in order until one fails, send it.                              *)
(***************************************************************************)

\* The generated client ends its server URL in a slash.
ServerOf(c) == [Base[c] EXCEPT !.slash = TRUE]

BuildApiCall(g) == /\ Job[g] = "api"
                   /\ pc[g] = "idle"
                   /\ Goto(g, "editing") \/ Goto(g, "done")
                   /\ UNCHANGED <<client, sse, edited, conn, sent>>

ApplyEditor(g) == /\ pc[g] = "editing"
                  /\ Len(edited[g]) < Len(Mine(g).editors)
                  /\ \/ /\ edited' = [edited EXCEPT ![g] =
                                        Append(@, Mine(g).editors[Len(@) + 1])]
                        /\ UNCHANGED pc
                     \/ /\ Goto(g, "done")
                        /\ UNCHANGED edited
                  /\ UNCHANGED <<client, sse, conn, sent>>

DoApiCall(g) == /\ pc[g] = "editing"
                /\ Len(edited[g]) = Len(Mine(g).editors)
                /\ Send(g, "api", Mine(g).http, edited[g],
                        Resolve(ServerOf(ClientOf[g]), <<"operation">>))
                /\ Goto(g, "done")
                /\ UNCHANGED <<client, sse, edited, conn>>
-----------------------------------------------------------------------------
(***************************************************************************)
(* receiveAndHandleEvents: build the request, put the SDK client's HTTP    *)
(* client into sse.DefaultClient, make a connection from it.  The response *)
(* validator assigned before is the same for every call.                   *)
(***************************************************************************)
Setup == {"http", "connection"}

BuildStream(g) == /\ Job[g] = "stream"
                  /\ pc[g] = "idle"
                  /\ SerialSetup => \A h \in Goroutine : pc[h] \notin Setup
                  /\ Goto(g, "http") \/ Goto(g, "done")
                  /\ UNCHANGED <<client, sse, edited, conn, sent>>

\* Fault: the HTTP client is only put there when none was.
KeepHTTPClient(g) == /\ pc[g] = "http"
                     /\ sse' = IF sse = DefaultClient THEN Mine(g).http ELSE sse
                     /\ Goto(g, "connection")
                     /\ UNCHANGED <<client, edited, conn, sent>>

SetHTTPClient(g) == /\ pc[g] = "http"
                    /\ sse' = Mine(g).http
                    /\ Goto(g, "connection")
                    /\ UNCHANGED <<client, edited, conn, sent>>

\* The connection keeps a copy of the sse client as it is now.
NewConnection(g) == /\ pc[g] = "connection"
                    /\ conn' = [conn EXCEPT ![g] = sse]
                    /\ Goto(g, "streaming")
                    /\ UNCHANGED <<client, sse, edited, sent>>

\* Connect sends the request, and again after every interruption. No editor
\* has seen it, and its path was resolved against the URL given to NewClient.
Dial(g) == /\ pc[g] = "streaming"
           /\ Send(g, "stream", conn[g], edited[g], Resolve(Base[ClientOf[g]], <<"events">>))
           /\ UNCHANGED <<client, sse, pc, edited, conn>>

\* Fault: payloads are fetched like API calls.
FetchLikeApi(g) == /\ pc[g] = "streaming"
                   /\ Send(g, "payload", Mine(g).http, <<>>, <<"payload">>)
                   /\ UNCHANGED <<client, sse, pc, edited, conn>>

\* fetchMessagePayload, fetchFilePayload: a bare GET of the payload's own URL.
FetchPayload(g) == /\ pc[g] = "streaming"
                   /\ Send(g, "payload", Mine(g).payloads, <<>>, <<"payload">>)
                   /\ UNCHANGED <<client, sse, pc, edited, conn>>

EndStream(g) == /\ pc[g] = "streaming"
                /\ Goto(g, "done")
                /\ UNCHANGED <<client, sse, edited, conn, sent>>
-----------------------------------------------------------------------------
ApiCall(g) == BuildApiCall(g) \/ ApplyEditor(g) \/ DoApiCall(g)
Stream(g)  == \/ BuildStream(g) \/ SetHTTPClient(g) \/ NewConnection(g)
              \/ Dial(g) \/ FetchPayload(g) \/ EndStream(g)

Next == \E g \in Goroutine : ApiCall(g) \/ Stream(g)

Spec == Init /\ [][Next]_vars
-----------------------------------------------------------------------------
TypeOK == /\ client \in [Client -> Config]
          /\ sse \in Doer
          /\ pc \in [Goroutine -> {"idle", "editing", "streaming", "done"} \cup Setup]
          /\ edited \in [Goroutine -> Seq(Editor)]
          /\ conn \in [Goroutine -> Doer \cup {"none"}]
          /\ sent \subseteq Request

(***************************************************************************)
(* What the options promise, from the option list itself.                  *)
(***************************************************************************)
Given(c, opt) == {i \in DOMAIN Options[c] : Options[c][i].opt = opt}

LastGiven(c, opt, default) ==
  IF Given(c, opt) = {} THEN default ELSE Options[c][Max(Given(c, opt))].val

HTTPClientOf(c) == LastGiven(c, "http", OwnDoer[c])

\* These editors are those given, in the order given.
AreEditorsOf(c, editors) ==
  LET given == Given(c, "editor")
  IN /\ Len(editors) = Cardinality(given)
     /\ \A i \in given : editors[Cardinality({j \in given : j <= i})] = Options[c][i].val

SentAs(kind) == {r \in sent : r.kind = kind}

\* WithHTTPClient, WithRequestEditorFn: an API call leaves through the HTTP
\* client last given, after every editor has run over it in the order given;
\* it goes to its path below the server URL. If an editor fails it never leaves.
ApiCallsAsConfigured ==
  \A r \in SentAs("api") : LET c == ClientOf[r.by] IN
    /\ r.doer = HTTPClientOf(c)
    /\ AreEditorsOf(c, r.editors)
    /\ r.path = Base[c].segments \o <<"operation">>

\* "This client will be used for all API calls": an event stream is opened, and
\* reopened, with the HTTP client of the SDK client it was started on.
StreamsUseOwnClient ==
  \A r \in SentAs("stream") : r.doer = client[ClientOf[r.by]].http

\* Payloads are fetched with the client given for that, by default the one of
\* net/http, and never carry what an editor adds.
PayloadsApart ==
  \A r \in SentAs("payload") :
    /\ r.doer = LastGiven(ClientOf[r.by], "payloads", DefaultClient)
    /\ r.editors = <<>>

\* "Request editor function to modify request before sending it ... only
\* [applies] to agrirouter API calls": opening the event stream is one.
StreamsCarryEditors ==
  \A r \in SentAs("stream") : AreEditorsOf(ClientOf[r.by], r.editors)

\* "All the paths in the swagger spec will be appended to the server."
StreamsBelowServer ==
  \A r \in SentAs("stream") : r.path = Base[ClientOf[r.by]].segments \o <<"events">>
=============================================================================
