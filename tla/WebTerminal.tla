---------------------------- MODULE WebTerminal ----------------------------
(***************************************************************************)
(* The terminal of art serve: the page in the browser and the handler of   *)
(* its web socket, which starts an art repl on a pseudo terminal and has   *)
(* two loops: its own takes frames from the socket and writes them to the  *)
(* terminal, the pump, a goroutine, takes output the other way.  Whichever *)
(* end goes away first, the rest has to follow.                            *)
(***************************************************************************)
EXTENDS Naturals, Sequences, SequencesExt, ArtCommands

CONSTANTS Tenants, Words, FlagValue, Merged, Inherited, Dotenv, Nohup, Capacity,
                       \* these as in ArtRepl
          UserFrames,  \* what the user may send
          PageFrame,   \* what the page sends by itself, set-tenant with its tenant
          MaxFrames    \* bound: frames the user sends

ASSUME TerminalAssumption == /\ PageFrame \in Seq(Typed(Words))
                             /\ UserFrames \subseteq Seq(Typed(Words))
                             /\ {Inherited, Dotenv} \subseteq Words \cup {"unset"}
                             /\ "unset" \notin Words
                             /\ Merged \in [Words -> [Words -> Words]]
                             /\ Nohup \in BOOLEAN
                             /\ Capacity \in Nat /\ MaxFrames \in Nat

VARIABLES mode, input, line, env, command, lines, requests,   \* of the repl
          browser,   \* "new", "open" or "gone"
          page,      \* the page's own frame: "due" or "sent"
          sent,      \* how many frames the user has sent
          inbox,     \* the frames on the web socket
          handler,   \* where handleTerminalWS is
          pending,   \* the keys its Write has yet to put into the terminal
          pump       \* the goroutine: "none", "reading", "sending", "ended"

Repl == INSTANCE ArtRepl

repl == <<mode, input, line, env, command, lines, requests>>
vars == <<repl, browser, page, sent, inbox, handler, pending, pump>>

TypeOK == /\ Repl!TypeOK
          /\ browser \in {"new", "open", "gone"}
          /\ page \in {"due", "sent"}
          /\ sent \in 0..MaxFrames
          /\ inbox \in Seq(UserFrames \cup {PageFrame})
          /\ handler \in {"none", "upgraded", "reading", "writing", "cleanup", "waiting", "done"}
          /\ (handler = "writing") <=> (pending # <<>>)
          /\ pump \in {"none", "reading", "sending", "ended"}

Init == /\ Repl!Init
        /\ browser = "new"
        /\ page = "due"
        /\ sent = 0
        /\ inbox = <<>>
        /\ handler = "none"
        /\ pending = <<>>
        /\ pump = "none"
-----------------------------------------------------------------------------
(***************************************************************************)
(* The browser.                                                            *)
(***************************************************************************)
Send(f) == inbox' = Append(inbox, f)

\* What the user types, pastes, or does to the size of the window.
UserSends == /\ browser = "open" /\ handler # "done"
             /\ sent < MaxFrames
             /\ \E f \in UserFrames : Send(f)
             /\ sent' = sent + 1
             /\ UNCHANGED <<repl, browser, page, handler, pending, pump>>

\* 300 ms after the socket was opened, whatever the user has done by then.
PageSends == /\ browser = "open" /\ handler # "done"
             /\ page = "due"
             /\ Send(PageFrame)
             /\ page' = "sent"
             /\ UNCHANGED <<repl, browser, sent, handler, pending, pump>>

\* The page is closed or the connection lost, with the frames on their way.
Leave == /\ browser = "open"
         /\ browser' = "gone"
         /\ \E n \in 0..Len(inbox) : inbox' = SubSeq(inbox, 1, n)
         /\ UNCHANGED <<repl, page, sent, handler, pending, pump>>
-----------------------------------------------------------------------------
(***************************************************************************)
(* handleTerminalWS.                                                       *)
(***************************************************************************)
Upgrade == /\ handler = "none"
           /\ browser' = "open"
           /\ handler' = "upgraded"
           /\ UNCHANGED <<repl, page, sent, inbox, pending, pump>>

UpgradeFails == /\ handler = "none"
                /\ handler' = "done"
                /\ UNCHANGED <<repl, browser, page, sent, inbox, pending, pump>>

\* The executable is not found or no terminal to be had: the deferred Close only.
StartFails == /\ handler = "upgraded"
              /\ handler' = "done"
              /\ UNCHANGED <<repl, browser, page, sent, inbox, pending, pump>>

Start == /\ handler = "upgraded"
         /\ Repl!Start
         /\ handler' = "reading"
         /\ pump' = "reading"
         /\ UNCHANGED <<browser, page, sent, inbox, pending>>

\* A frame without keys is a resize, or one that is skipped.
ReadMessage == /\ handler = "reading"
               /\ inbox # <<>>
               /\ inbox' = Tail(inbox)
               /\ pending' = Head(inbox)
               /\ handler' = IF Head(inbox) = <<>> THEN "reading" ELSE "writing"
               /\ UNCHANGED <<repl, browser, page, sent, pump>>

\* Fault: the loop goes on after a read error.
ReadFailsOn == /\ handler = "reading"
               /\ browser = "gone" /\ inbox = <<>>
               /\ UNCHANGED vars

ReadFails == /\ handler = "reading"
             /\ browser = "gone" /\ inbox = <<>>
             /\ handler' = "cleanup"
             /\ UNCHANGED <<repl, browser, page, sent, inbox, pending, pump>>

\* Fault: the handler does not go back to reading when all is written.
WriteOn == /\ handler = "writing"
           /\ pending # <<>>
           /\ Repl!Type(Head(pending))
           /\ pending' = Tail(pending)
           /\ UNCHANGED <<browser, page, sent, inbox, handler, pump>>

\* ptmx.Write returns when the terminal has taken all keys.
Write == /\ handler = "writing"
         /\ Repl!Type(Head(pending))
         /\ pending' = Tail(pending)
         /\ handler' = IF Len(pending) = 1 THEN "reading" ELSE "writing"
         /\ UNCHANGED <<browser, page, sent, inbox, pump>>

\* Nobody has the other end of the terminal any more.
WriteFails == /\ handler = "writing"
              /\ mode = "exited"
              /\ pending' = <<>>
              /\ handler' = "cleanup"
              /\ UNCHANGED <<repl, browser, page, sent, inbox, pump>>

\* Fault: the handler does not wait for the process it has killed.
CloseAndGo == /\ handler = "cleanup"
              /\ handler' = "done"
              /\ UNCHANGED <<repl, browser, page, sent, inbox, pending, pump>>

\* The first two of the deferred calls: ptmx.Close and Process.Kill.
CloseAndKill == /\ handler = "cleanup"
                /\ handler' = "waiting"
                /\ UNCHANGED <<repl, browser, page, sent, inbox, pending, pump>>

\* The process dies of either.
Killed == /\ handler = "waiting"
          /\ Repl!Die
          /\ UNCHANGED <<browser, page, sent, inbox, handler, pending, pump>>

\* Process.Wait, and conn.Close, which was deferred first.
Wait == /\ handler = "waiting"
        /\ mode = "exited"
        /\ handler' = "done"
        /\ UNCHANGED <<repl, browser, page, sent, inbox, pending, pump>>
-----------------------------------------------------------------------------
(***************************************************************************)
(* The pump.                                                               *)
(***************************************************************************)
Closed == mode = "exited" \/ handler \in {"waiting", "done"}

\* Output of the repl or its command.
PumpReads == /\ pump = "reading"
             /\ ~Closed
             /\ pump' = "sending"
             /\ UNCHANGED <<repl, browser, page, sent, inbox, handler, pending>>

PumpSends == /\ pump = "sending"
             /\ browser = "open" /\ handler # "done"
             /\ pump' = "reading"
             /\ UNCHANGED <<repl, browser, page, sent, inbox, handler, pending>>

PumpEnds == /\ \/ pump = "reading" /\ Closed
               \/ pump = "sending" /\ (browser = "gone" \/ handler = "done")
            /\ pump' = "ended"
            /\ UNCHANGED <<repl, browser, page, sent, inbox, handler, pending>>
-----------------------------------------------------------------------------
web == <<browser, page, sent, inbox, handler, pending, pump>>

RunRepl    == Repl!Loop /\ UNCHANGED web
ReplFails  == Repl!Fails /\ UNCHANGED web
RunCommand == Repl!Process /\ UNCHANGED web

Handle == StartFails \/ Start \/ ReadMessage \/ ReadFails \/ Write \/ WriteFails \/ CloseAndKill \/ Wait

Next == \/ UserSends \/ PageSends \/ Leave
        \/ Upgrade \/ UpgradeFails
        \/ Handle \/ Killed
        \/ PumpReads \/ PumpSends \/ PumpEnds
        \/ RunRepl \/ ReplFails \/ RunCommand

Spec == Init /\ [][Next]_vars

\* Processes and goroutines are scheduled, a killed process dies, a socket whose
\* other end reads takes what is sent. Commands need not return, users not type.
FairSpec == /\ Spec
            /\ WF_vars(RunRepl)
            /\ WF_vars(Handle)
            /\ WF_vars(Killed)
            /\ WF_vars(PumpSends \/ PumpEnds)
-----------------------------------------------------------------------------
\* e is the tenant of the session at line n of ls: of the last set-tenant before it, or
\* else what the environment of art serve, and only then .env, said.
OfSession(ls, e, n) ==
  \/ \E m \in 1..(n - 1) : /\ Repl!IsSetTenant(ls[m]) /\ e = ls[m][2]
                           /\ \A k \in (m + 1)..(n - 1) : ~Repl!IsSetTenant(ls[k])
  \/ /\ \A k \in 1..(n - 1) : ~Repl!IsSetTenant(ls[k])
     /\ e = IF Inherited = "unset" THEN Dotenv ELSE Inherited

\* "The corresponding flag wins if it is provided; otherwise the env var is read":
\* whatever was typed ahead or interrupted, an API call is made for the tenant of its
\* own line's flag, or else for that of the session at its line.
TenantOfLine ==
  \A i \in DOMAIN requests :
    LET r    == requests[i]
        flag == Repl!TenantFlag[lines[r.line]]
    IN IF flag = "$ART_TENANT_ID" THEN OfSession(lines, r.tenant, r.line) ELSE r.tenant = flag

\* "Don't die on ^C while a child is running": a session in which a command runs ends
\* only when the handler kills the repl.
SurvivesInterrupt ==
  [][mode = "running" /\ mode' = "exited" => handler = "waiting"]_vars

\* A handler that has returned leaves no repl behind. It does not wait for the command
\* of the repl, and can leave that: but only one that was sent the signal it dies of, if
\* art serve was not told to ignore it.
NoOrphan ==
  handler = "done" => /\ mode \in {"none", "exited"}
                      /\ command = Repl!NoCommand \/ command.killed \/ Nohup

\* A paste that is longer than the terminal takes while a command runs, and nobody
\* reads: the handler hangs in its write and notices nothing else.
Stuck == /\ handler = "writing" /\ mode = "running"
         /\ Len(input) = Capacity

InterruptSent ==
  \/ Contains(pending, Key("interrupt"))
  \/ \E i \in DOMAIN inbox : Contains(inbox[i], Key("interrupt"))

\* A ^C on its way while a command runs ends it, also one that would listen for ever,
\* unless the handler is stuck.
InterruptEnds ==
  <>[]Stuck \/ (mode = "running" /\ InterruptSent ~> mode # "running")

\* When the browser goes away, the handler, the pump and the repl end, wherever they
\* are, and so does the command that nobody waits for, unless the handler is stuck.
LeaveEnds ==
  <>[]Stuck \/ (browser = "gone" ~> /\ handler = "done"
                                   /\ mode \in {"none", "exited"}
                                   /\ pump \in {"none", "ended"}
                                   /\ (command = Repl!NoCommand \/ Nohup))
=============================================================================
