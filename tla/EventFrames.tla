---------------------------- MODULE EventFrames ----------------------------
(***************************************************************************)
(* The vocabulary of the event stream: what the agrirouter may put into   *)
(* one server-sent event, which receive call of the SDK reads it, and     *)
(* what the documentation of that call promises for it.                   *)
(*                                                                         *)
(* A frame keeps of an event only what the SDK branches on: its type, how  *)
(* far its JSON can be decoded and where its payload is.                   *)
(***************************************************************************)
EXTENDS Naturals

\* The event types of events.go: the discriminator values dispatchEvent knows.
EventTypes == {"MESSAGE_RECEIVED", "FILE_RECEIVED", "ENDPOINT_DELETED",
               "ENDPOINTS_LIST_CHANGED", "AUTHORIZATION_ADDED",
               "AUTHORIZATION_REVOKED"}

\* shape:   "sound"    the data decodes as the event's own type
\*          "badData"  event_type is readable, the rest fits no type of event
\*          "untyped"  JSON, but event_type cannot be read from it
\*          "notJSON"  json.Unmarshal fails on the data of the frame
\* payload: "embedded" in the event, "uri" to fetch it from, "badUri" a text
\*          url.Parse refuses, "none" neither
Frame == [type    : EventTypes \cup {"OTHER"},
          shape   : {"sound", "badData", "untyped", "notJSON"},
          payload : {"embedded", "uri", "badUri", "none"}]

\* A receive call. ReceiveEvents takes any filter and any set of non-nil
\* handlers; each of the other five asks for the one type it has a handler for.
SingleCall(t) == [op |-> "single", types |-> {t}, handlers |-> {t}]

Call == [op : {"all"}, types : SUBSET EventTypes, handlers : SUBSET EventTypes]
          \cup {SingleCall(t) : t \in EventTypes}

\* The type a frame is decoded as and whose handler gets it: dispatchEvent
\* goes by the frame, a single-type call never looks at the event_type.
Target(c, f) == IF c.op = "single" THEN CHOOSE t \in c.types : TRUE ELSE f.type

IsMessage(c, f) == Target(c, f) = "MESSAGE_RECEIVED"
IsFile(c, f)    == Target(c, f) = "FILE_RECEIVED"

\* A file's payload is only ever fetched, a message's only when it has a uri.
NeedsFetch(c, f) == /\ IsMessage(c, f) \/ IsFile(c, f)
                    /\ f.payload = "uri"

LacksPayload(c, f) == \/ IsMessage(c, f) /\ f.payload \in {"none", "badUri"}
                      \/ IsFile(c, f) /\ f.payload \in {"none", "badUri", "embedded"}

\* Fault: the types parameter is not put into the query.
RequestedAnything(c, f) == TRUE

\* Streams that ask for no type get every type.
Requested(c, f) == c.types = {} \/ f.type \in c.types

(***************************************************************************)
(* The promise: the fates a frame may have.  "handled": the handler of its *)
(* type is called; "failed": the error handler is told; "ignored": nobody *)
(* is called.                                                              *)
(***************************************************************************)
Fate == {"handled", "failed", "ignored"}

\* "An event whose handler is nil is silently dropped", and so is a type the
\* SDK does not know; neither is decoded beyond its event_type.
MayIgnore(c, f) == /\ c.op = "all"
                   /\ f.shape \in {"sound", "badData"}
                   /\ f.type \notin c.handlers

MayHandle(c, f) == /\ ~MayIgnore(c, f)
                   /\ f.shape = "sound"
                   /\ ~LacksPayload(c, f)

MayFail(c, f) == /\ ~MayIgnore(c, f)
                 /\ \/ f.shape # "sound"
                    \/ LacksPayload(c, f)
                    \/ NeedsFetch(c, f)
                    \/ Target(c, f) # f.type

Fates(c, f) == {v \in Fate : \/ v = "ignored" /\ MayIgnore(c, f)
                             \/ v = "handled" /\ MayHandle(c, f)
                             \/ v = "failed"  /\ MayFail(c, f)}
=============================================================================
