------------------------------ MODULE ApiCalls ------------------------------
(***************************************************************************)
(* The API calls of client.go and of the generated client below them: each *)
(* call builds a request, sends it once and makes its result of the        *)
(* response.  Calls run in any number of goroutines.  The network loses or *)
(* delays requests and responses, a context ends a call while its request  *)
(* is still on the way, and the agrirouter answers as openapi.yaml says, or*)
(* with an error of a proxy in front of it.                                *)
(***************************************************************************)
EXTENDS Naturals, FiniteSets

CONSTANT Calls   \* the calls the application makes

ASSUME CallsAssumption == Calls # {} /\ "absent" \notin Calls /\ IsFiniteSet(Calls)

Op     == {"put", "delete", "send", "confirm", "list"}
Writes == {"put", "delete"}

VARIABLES op,        \* what each call asks for
          state,     \* "new", "running", then its result: "ok" or "error"
          request,   \* its request: "none", "transit", "processed", "lost"
          response,  \* the response on its way back, or NoResponse
          effect,    \* what the agrirouter made of it
          endpoint,  \* the call whose put the endpoint is made of, or "absent"
          before     \* the calls that had succeeded when it started

vars == <<op, state, request, response, effect, endpoint, before>>

Status     == {200, 201, 202, 204, 400, 404, 502}
\* body: JSON that decodes as the parser expects, JSON that does not, no JSON
Response   == [status : Status, body : {"fits", "unfit", "other"}]
NoResponse == [status |-> 0, body |-> "other"]

TypeOK == /\ op \in [Calls -> Op \cup {"none"}]
          /\ state \in [Calls -> {"new", "running", "ok", "error"}]
          /\ request \in [Calls -> {"none", "transit", "processed", "lost"}]
          /\ response \in [Calls -> Response \cup {NoResponse}]
          /\ effect \in [Calls -> {"none", "done", "refused"}]
          /\ endpoint \in Calls \cup {"absent"}
          /\ before \in [Calls -> SUBSET Calls]
          /\ \A c \in Calls : /\ response[c] # NoResponse => request[c] = "processed"
                              /\ state[c] = "new" => request[c] = "none"

Init == /\ op = [c \in Calls |-> "none"]
        /\ state = [c \in Calls |-> "new"]
        /\ request = [c \in Calls |-> "none"]
        /\ response = [c \in Calls |-> NoResponse]
        /\ effect = [c \in Calls |-> "none"]
        /\ endpoint = "absent"
        /\ before = [c \in Calls |-> {}]

Succeeded == {c \in Calls : state[c] = "ok"}
-----------------------------------------------------------------------------
(***************************************************************************)
(* The SDK's side of a call.                                               *)
(***************************************************************************)

\* Building the request or a request editor fails: nothing is sent.
Start(c, o) == /\ state[c] = "new"
               /\ op' = [op EXCEPT ![c] = o]
               /\ before' = [before EXCEPT ![c] = Succeeded]
               /\ \/ /\ state' = [state EXCEPT ![c] = "running"]
                     /\ request' = [request EXCEPT ![c] = "transit"]
                  \/ /\ state' = [state EXCEPT ![c] = "error"]
                     /\ UNCHANGED request
               /\ UNCHANGED <<response, effect, endpoint>>

\* Fault: the call that lost its connection sends its request again.
ResendInstead(c) == /\ state[c] = "running"
                    /\ request[c] # "transit"
                    /\ request' = [request EXCEPT ![c] = "transit"]
                    /\ UNCHANGED <<op, state, response, effect, endpoint, before>>

\* The transport fails, or the context ends: Do returns an error. A request on
\* its way may or may not reach the agrirouter afterwards.
GiveUp(c) == /\ state[c] = "running"
             /\ state' = [state EXCEPT ![c] = "error"]
             /\ \/ UNCHANGED request
                \/ /\ request[c] = "transit"
                   /\ request' = [request EXCEPT ![c] = "lost"]
             /\ UNCHANGED <<op, response, effect, endpoint, before>>

(***************************************************************************)
(* The generated parsers and the methods above them.                       *)
(***************************************************************************)

\* The statuses for which the parser of an operation decodes a JSON body.
Decoded == [put     |-> {200, 201, 400}, delete  |-> {400, 404}, send |-> {400},
            confirm |-> {400},           list    |-> {200, 400}]

ParseFails(o, r) == r.status \in Decoded[o] /\ r.body = "unfit"

\* The field of the parsed response for this status, JSON200 and so on, is set.
HasJSON(o, r) == r.status \in Decoded[o] /\ r.body = "fits"

\* Fault: any decoded body taken for the endpoint, unless it is a known error.
SuccessByJSON(o, r) == r.body = "fits" /\ r.status \notin {400, 404}

Success(o, r) ==
  CASE o = "put"     -> r.status \in {200, 201} /\ HasJSON(o, r)
    [] o = "delete"  -> r.status = 204
    [] o = "send"    -> r.status \in {200, 202}
    [] o = "confirm" -> r.status = 202
    [] o = "list"    -> r.status = 200 /\ HasJSON(o, r)

\* io.ReadAll may fail as well.
Receive(c) == /\ state[c] = "running"
              /\ response[c] # NoResponse
              /\ \E read \in BOOLEAN :
                   LET ok == /\ read
                             /\ ~ParseFails(op[c], response[c])
                             /\ Success(op[c], response[c])
                   IN state' = [state EXCEPT ![c] = IF ok THEN "ok" ELSE "error"]
              /\ UNCHANGED <<op, request, response, effect, endpoint, before>>
-----------------------------------------------------------------------------
(***************************************************************************)
(* The agrirouter, by openapi.yaml.                                        *)
(***************************************************************************)
Answer(c, statuses) ==
  \E r \in Response : r.status \in statuses /\ response' = [response EXCEPT ![c] = r]

SuccessStatus(o) ==
  CASE o = "put"     -> IF endpoint = "absent" THEN {201} ELSE {200}
    [] o = "delete"  -> {204}
    [] o = "send"    -> {200}
    [] o = "confirm" -> {202}
    [] o = "list"    -> {200}

RefusalStatus(o) == IF o = "delete" THEN {400, 404, 502} ELSE {400, 502}

\* The answer may be replaced by a 502 after the request was carried out.
Perform(c) == /\ request[c] = "transit"
              /\ op[c] = "delete" => endpoint # "absent"
              /\ request' = [request EXCEPT ![c] = "processed"]
              /\ effect' = [effect EXCEPT ![c] = "done"]
              /\ endpoint' = IF op[c] \notin Writes THEN endpoint
                             ELSE IF op[c] = "put" THEN c ELSE "absent"
              /\ Answer(c, SuccessStatus(op[c]) \cup {502})
              /\ UNCHANGED <<op, state, before>>

Refuse(c) == /\ request[c] = "transit"
             /\ request' = [request EXCEPT ![c] = "processed"]
             /\ effect' = [effect EXCEPT ![c] = "refused"]
             /\ Answer(c, RefusalStatus(op[c]))
             /\ UNCHANGED <<op, state, endpoint, before>>
-----------------------------------------------------------------------------
Next == \E c \in Calls : \/ \E o \in Op : Start(c, o)
                         \/ GiveUp(c)
                         \/ Receive(c)
                         \/ Perform(c)
                         \/ Refuse(c)

Spec == Init /\ [][Next]_vars
-----------------------------------------------------------------------------
\* What a call made of the endpoint when it was carried out.
Written(c) == IF op[c] = "put" THEN c ELSE "absent"

\* A successful put or delete is what the endpoint shows, when every other write
\* that may have reached the agrirouter had succeeded before this call started. A
\* write that failed is no such write: its request may still be on the way.
WriteIsVisible ==
  \A c \in Calls :
    /\ op[c] \in Writes /\ state[c] = "ok"
    /\ \A d \in Calls \ {c} : op[d] \in Writes => d \in before[c]
    => endpoint = Written(c)

Atomic == INSTANCE AtomicCalls

\* A call takes effect at most once and a reported success is one.
ImplementsAtomicCalls == Atomic!Spec
=============================================================================
