---------------------------- MODULE ArtCommands ----------------------------
(***************************************************************************)
(* What can be typed at the terminal of art repl, and the art commands its *)
(* lines may call.                                                         *)
(***************************************************************************)
EXTENDS Sequences

Text(ws) == [kind |-> "text", words |-> ws]
Control  == [kind : {"enter", "interrupt", "eof"}, words : {<<>>}]
Key(k)   == CHOOSE c \in Control : c.kind = k

\* What comes out of a keyboard on which these words can be typed.
Typed(words) == [kind : {"text"}, words : Seq(words)] \cup Control

\* The commands that do not ask for a tenant: those that take events, or ask about
\* all tenants, or nothing at all.
FlaggedStreams == {"receive-events", "re", "receive-messages"}
OtherStreams   == {"receive-endpoint-deleted-events", "rede",
                   "receive-endpoints-list-changed-events", "relc",
                   "receive-authorization-added-events", "raa",
                   "receive-authorization-revoked-events", "rar"}
Tenantless     == FlaggedStreams \cup OtherStreams \cup {"list-authorized-tenants", "lat", "help"}

TokenFirst == {"put-endpoint", "delete-endpoint"}
FlagsFirst == {"list-tenant-endpoints", "lte", "send-messages", "confirm-messages"}

replAllowed == Tenantless \cup TokenFirst \cup FlagsFirst

\* What a command does one after the other: "token" is getClient, "flags" its own
\* arguments and the environment, "call" the SDK call.
Steps(name) == CASE name \in TokenFirst                     -> <<"token", "flags", "call">>
                 [] name \in FlagsFirst \cup FlaggedStreams -> <<"flags", "token", "call">>
                 [] name = "help"                           -> <<>>
                 [] OTHER                                   -> <<"token", "call">>
=============================================================================
