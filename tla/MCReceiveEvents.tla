-------------------------- MODULE MCReceiveEvents --------------------------
(***************************************************************************)
(* Small instances of ReceiveEvents.  The frames cover every branch of the *)
(* dispatch; the calls are the unfiltered stream with some handlers nil,   *)
(* a filtered one, and the single-type calls with and without payloads.    *)
(***************************************************************************)
EXTENDS ReceiveEvents

All(types, handlers) == [op |-> "all", types |-> types, handlers |-> handlers]

MCCalls == {All({}, EventTypes \ {"ENDPOINT_DELETED"}),
            All({"FILE_RECEIVED", "ENDPOINT_DELETED"}, {"FILE_RECEIVED", "ENDPOINT_DELETED"}),
            SingleCall("MESSAGE_RECEIVED"),
            SingleCall("FILE_RECEIVED"),
            SingleCall("ENDPOINT_DELETED")}

Sound(t, p) == [type |-> t, shape |-> "sound", payload |-> p]

MCFrames == {Sound("MESSAGE_RECEIVED", p) : p \in {"embedded", "uri", "badUri", "none"}}
              \cup {Sound("FILE_RECEIVED", p) : p \in {"embedded", "uri"}}
              \cup {Sound("ENDPOINT_DELETED", "none"), Sound("OTHER", "none")}
              \cup {[type |-> t, shape |-> s, payload |-> "uri"] :
                      t \in {"MESSAGE_RECEIVED", "FILE_RECEIVED"},
                      s \in {"badData", "untyped", "notJSON"}}

\* A frame of each kind of path, for the runs about order and liveness.
MCFewFrames == {Sound("MESSAGE_RECEIVED", "uri"), Sound("FILE_RECEIVED", "uri"),
                Sound("ENDPOINT_DELETED", "none"),
                [type |-> "MESSAGE_RECEIVED", shape |-> "notJSON", payload |-> "uri"]}
=============================================================================
