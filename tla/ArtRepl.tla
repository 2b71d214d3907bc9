------------------------------ MODULE ArtRepl ------------------------------
(***************************************************************************)
(* art repl on a terminal: the line editor, the loop of repl.go and the    *)
(* art command it runs for a line, in the same process group and with the  *)
(* same terminal.  The editor keeps the terminal in raw mode while it      *)
(* reads a line; at any other time the terminal makes a signal of ^C.      *)
(* readline, cobra, the terminal and the API are external.                 *)
(***************************************************************************)
EXTENDS Naturals, Sequences, SequencesExt, ArtCommands

CONSTANTS Tenants,    \* the words that are UUIDs
          Words,      \* what can be typed: commands, flags and other words
          FlagValue,  \* the value of each word that is a --tenant-id flag
          Merged,     \* what two words make that are typed without a space between
          Inherited,  \* ART_TENANT_ID in the environment of the repl, or "unset"
          Dotenv,     \* and in .env
          Nohup,      \* art serve, and so all it starts, ignores SIGHUP
          Capacity    \* keys the terminal takes before its writer has to wait

VARIABLES mode,     \* "none", "starting", "cooked", "editing", "eval", "running", "exited"
          input,    \* keys typed and not yet read
          line,     \* the words of the line being edited
          env,      \* ART_TENANT_ID in the environment of the repl
          command,  \* the command that runs, or NoCommand
          lines,    \* history: the lines evaluated
          requests  \* history: the API calls of the commands that need a tenant

vars == <<mode, input, line, env, command, lines, requests>>

NoCommand == [line |-> 0, env |-> "unset", todo |-> <<>>, killed |-> FALSE]

TypeOK == /\ mode \in {"none", "starting", "cooked", "editing", "eval", "running", "exited"}
          /\ input \in Seq(Typed(Words))
          /\ Len(input) <= Capacity
          /\ line \in Seq(Words)
          /\ env \in Words \cup {"unset"}
          /\ command.todo \in Seq({"token", "flags", "call"})
          /\ mode = "running" => command # NoCommand
          /\ command # NoCommand => mode \in {"running", "exited"}
          /\ lines \in Seq(Seq(Words))
          /\ requests \in Seq([line : 1..Len(lines), tenant : Tenants])

\* Fault: the file wins over the environment.
WithDotenvOverriding(e) == IF Dotenv # "unset" THEN Dotenv ELSE e

\* loadDotenv, in every process of art.
WithDotenv(e) == IF e = "unset" THEN Dotenv ELSE e

Init == /\ mode = "none"
        /\ input = <<>>
        /\ line = <<>>
        /\ env = "unset"
        /\ command = NoCommand
        /\ lines = <<>>
        /\ requests = <<>>
-----------------------------------------------------------------------------
(***************************************************************************)
(* The terminal.                                                           *)
(***************************************************************************)
Start == /\ mode = "none"
         /\ mode' = "starting"
         /\ env' = WithDotenv(Inherited)
         /\ UNCHANGED <<input, line, command, lines, requests>>

Raw == mode = "editing"

\* Fault: the repl does not take SIGINT itself.
SignalAll == /\ mode' = "exited"
             /\ command' = NoCommand
             /\ input' = <<>>
             /\ UNCHANGED <<line, env, lines, requests>>

\* A command does not handle the signals it gets.
Terminated(c) == IF c = NoCommand THEN c ELSE [c EXCEPT !.killed = TRUE]

\* SIGINT goes to the repl, which before signal.Notify dies of it and afterwards
\* takes no notice, and to the command it runs, if any. The terminal discards unread
\* input, but not what the editor has read ahead.
Signal == /\ mode' = IF mode = "starting" THEN "exited" ELSE mode
          /\ command' = Terminated(command)
          /\ \E n \in 0..Len(input) : input' = SubSeq(input, 1, n)
          /\ UNCHANGED <<line, env, lines, requests>>

Queue(k) == /\ input' = Append(input, k)
            /\ UNCHANGED <<mode, line, env, command, lines, requests>>

\* Fault: the editor leaves the terminal in raw mode.
TypeRaw(k) == /\ mode \notin {"none", "exited"}
              /\ Len(input) < Capacity
              /\ Queue(k)

\* A writer gets one key into the terminal, or has to wait.
Type(k) == /\ mode \notin {"none", "exited"}
           /\ Len(input) < Capacity
           /\ IF k = Key("interrupt") /\ ~Raw THEN Signal ELSE Queue(k)

\* The repl is killed. Its command is not: the hang-up of the terminal sends it
\* SIGHUP, and nobody waits for it.
Die == /\ mode \notin {"none", "exited"}
       /\ mode' = "exited"
       /\ command' = IF Nohup THEN command ELSE Terminated(command)
       /\ UNCHANGED <<input, line, env, lines, requests>>
-----------------------------------------------------------------------------
(***************************************************************************)
(* The loop of the repl.                                                   *)
(***************************************************************************)
Notify == /\ mode = "starting"
          /\ mode' = "cooked"
          /\ UNCHANGED <<input, line, env, command, lines, requests>>

Readline == /\ mode = "cooked"
            /\ mode' = "editing"
            /\ line' = <<>>
            /\ UNCHANGED <<input, env, command, lines, requests>>

\* The executable is not found, or readline cannot be set up or fails later.
Fails == /\ mode \in {"starting", "cooked", "editing"}
         /\ mode' = "exited"
         /\ UNCHANGED <<input, line, env, command, lines, requests>>

\* Text follows what is there after a space, or right behind it: what the page sends
\* may end up in the middle of what the user has begun.
Joinings(l, ws) ==
  {l \o ws} \cup IF l = <<>> \/ ws = <<>> THEN {}
                ELSE {Front(l) \o <<Merged[Last(l)][Head(ws)]>> \o Tail(ws)}

\* What the editor makes of the next key.
Edit(k) ==
  CASE k.kind = "text"      -> line' \in Joinings(line, k.words) /\ mode' = mode
    [] k.kind = "enter"     -> line' = line /\ mode' = "eval"
    [] k.kind = "interrupt" -> line' = line /\ mode' = IF line = <<>> THEN "exited" ELSE "cooked"
    [] k.kind = "eof"       -> line' = line /\ mode' = IF line = <<>> THEN "exited" ELSE mode

ReadKey == /\ mode = "editing"
           /\ input # <<>>
           /\ Edit(Head(input))
           /\ input' = Tail(input)
           /\ UNCHANGED <<env, command, lines, requests>>

IsSetTenant(l) == Len(l) = 2 /\ l[1] = "set-tenant"

\* The empty line, clear, a wrong set-tenant and what is not allowed change nothing.
Evaluate ==
  /\ mode = "eval"
  /\ lines' = Append(lines, line)
  /\ env' = IF IsSetTenant(line) THEN line[2] ELSE env
  /\ IF line # <<>> /\ Head(line) \in replAllowed
     THEN /\ mode' = "running"
          /\ command' = [line |-> Len(lines) + 1, env |-> env,
                         todo |-> Steps(Head(line)), killed |-> FALSE]
     ELSE /\ mode' = IF line \in {<<"exit">>, <<"quit">>} THEN "exited" ELSE "cooked"
          /\ UNCHANGED command
  /\ UNCHANGED <<input, line, requests>>
-----------------------------------------------------------------------------
(***************************************************************************)
(* The command, a process of its own that loads .env again.                *)
(***************************************************************************)
Name == Head(lines[command.line])

\* The value of the last --tenant-id of a line. $ART_TENANT_ID, which the repl expands,
\* is as good as none.
TenantFlag ==
  [l \in Seq(Words) |-> LET flags == SelectSeq(l, LAMBDA w : w \in DOMAIN FlagValue)
                        IN IF flags = <<>> THEN "$ART_TENANT_ID" ELSE FlagValue[Last(flags)]]

\* uuidFlagOrEnv: the flag, or else the environment.
Tenant(c) == LET flag == TenantFlag[lines[c.line]]
             IN IF flag = "$ART_TENANT_ID" THEN WithDotenv(c.env) ELSE flag

Doing(step) == /\ command # NoCommand /\ ~command.killed
               /\ command.todo # <<>> /\ Head(command.todo) = step

Done == command' = [command EXCEPT !.todo = Tail(@)]

GetClient == /\ Doing("token")
             /\ Done
             /\ UNCHANGED <<mode, input, line, env, lines, requests>>

CheckFlags == /\ Doing("flags")
              /\ Name \notin Tenantless => Tenant(command) \in Tenants
              /\ Done
              /\ UNCHANGED <<mode, input, line, env, lines, requests>>

CallAPI == /\ Doing("call")
           /\ requests' = IF Name \in Tenantless THEN requests
                          ELSE Append(requests, [line |-> command.line, tenant |-> Tenant(command)])
           /\ Done
           /\ UNCHANGED <<mode, input, line, env, lines>>

\* The process is gone; a repl that is still there goes on.
End == /\ command' = NoCommand
       /\ mode' = IF mode = "running" THEN "cooked" ELSE mode
       /\ UNCHANGED <<input, line, env, lines, requests>>

\* It ends by itself, with an error in any of its steps or with its result, and a
\* command that only listens or waits for an answer may not do so for ever.
Return == command # NoCommand /\ ~command.killed /\ End

\* It had the default action for the signal.
ReturnKilled == command # NoCommand /\ command.killed /\ End
-----------------------------------------------------------------------------
Loop    == Notify \/ Readline \/ ReadKey \/ Evaluate \/ ReturnKilled
Process == GetClient \/ CheckFlags \/ CallAPI \/ Return
=============================================================================
