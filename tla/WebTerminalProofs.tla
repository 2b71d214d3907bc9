-------------------------- MODULE WebTerminalProofs --------------------------
(***************************************************************************)
(* Proofs about the web terminal, for any words, frames and capacity: the  *)
(* tenant of every API call, what the handler leaves behind, and the types.*)
(***************************************************************************)
EXTENDS WebTerminal, TLAPS

Keys == Typed(Words)

\* Only what can be typed is under way from the socket to the line.
KeyInv == /\ inbox \in Seq(Seq(Keys))
          /\ pending \in Seq(Keys)
          /\ handler = "writing" => pending # <<>>
          /\ input \in Seq(Keys)
          /\ line \in Seq(Words)
          /\ lines \in Seq(Seq(Words))

\* The environment of the repl is that of the session at the next line, and that of
\* a command was it at its line.
EnvInv == /\ mode = "none" => lines = <<>> /\ requests = <<>>
          /\ mode # "none" => OfSession(lines, env, Len(lines) + 1)
          /\ DOMAIN command = {"line", "env", "todo", "killed"}
          /\ command # Repl!NoCommand => /\ command.line \in 1..Len(lines)
                                         /\ OfSession(lines, command.env, command.line)

RequestInv == /\ \E S : requests \in Seq(S)
              /\ \A i \in DOMAIN requests : requests[i].line \in 1..Len(lines)

SessionInv == EnvInv /\ RequestInv /\ TenantOfLine

\* A command runs in a repl that waits for it, or is left by one that was killed.
LeftInv == /\ mode = "running" => command # Repl!NoCommand
           /\ command # Repl!NoCommand => mode \in {"running", "exited"}
           /\ mode = "exited" => command = Repl!NoCommand \/ command.killed \/ Nohup

\* The repl runs from the start of the handler's loop to the end of its cleanup.
HandlerInv == /\ handler \in {"none", "upgraded"} => mode = "none"
              /\ NoOrphan

IInv == KeyInv /\ SessionInv /\ LeftInv /\ HandlerInv

-----------------------------------------------------------------------------
LEMMA Appended ==
  ASSUME NEW S, NEW q \in Seq(S), NEW e
  PROVE  /\ e \in S => Append(q, e) \in Seq(S)
         /\ Len(q) \in Nat /\ DOMAIN q = 1..Len(q)
         /\ Len(Append(q, e)) = Len(q) + 1
         /\ DOMAIN Append(q, e) = 1..(Len(q) + 1)
         /\ Append(q, e)[Len(q) + 1] = e
         /\ \A i \in 1..Len(q) : Append(q, e)[i] = q[i]
  OBVIOUS

LEMMA Nothing ==
  ASSUME NEW S
  PROVE  <<>> \in Seq(S)
  OBVIOUS

LEMMA Joined ==
  ASSUME NEW S, NEW q \in Seq(S), NEW r \in Seq(S)
  PROVE  q \o r \in Seq(S)
  OBVIOUS

LEMMA Shortened ==
  ASSUME NEW S, NEW q \in Seq(S), NEW n \in 0..Len(q)
  PROVE  SubSeq(q, 1, n) \in Seq(S)
  OBVIOUS

LEMMA Consumed ==
  ASSUME NEW S, NEW q \in Seq(S), q # <<>>
  PROVE  Head(q) \in S /\ Tail(q) \in Seq(S) /\ (Len(q) # 1 => Tail(q) # <<>>)
<1>1. Head(q) \in S /\ Tail(q) \in Seq(S) /\ Len(Tail(q)) = Len(q) - 1 /\ Len(q) \in Nat
  OBVIOUS
<1>2. Len(<<>>) = 0
  OBVIOUS
<1>3. ASSUME Len(q) # 1
      PROVE  Len(Tail(q)) # 0
  BY <1>1, <1>3
<1> QED BY <1>1, <1>2, <1>3

\* What the editor makes of a line and what is typed behind it.
LEMMA Joinings ==
  ASSUME NEW l \in Seq(Words), NEW ws \in Seq(Words), NEW j \in Repl!Joinings(l, ws)
  PROVE  j \in Seq(Words)
<1>1. CASE j = l \o ws
  BY <1>1, Joined
<1>2. CASE /\ l # <<>> /\ ws # <<>>
           /\ j = Repl!Front(l) \o <<Merged[Repl!Last(l)][Head(ws)]>> \o Tail(ws)
  <2> DEFINE m == Merged[Repl!Last(l)][Head(ws)]
  <2>1. Len(l) \in Nat \ {0}
    BY <1>2
  <2>2. Repl!Last(l) \in Words /\ Head(ws) \in Words
    BY <1>2, <2>1, Consumed DEF Repl!Last
  <2>3. m \in Words
    BY <2>2, TerminalAssumption
  <2>4. Repl!Front(l) \in Seq(Words)
    BY <2>1, Shortened DEF Repl!Front
  <2> HIDE DEF m
  <2>5. <<m>> \in Seq(Words) /\ Tail(ws) \in Seq(Words)
    BY <1>2, <2>3, Consumed
  <2>6. Repl!Front(l) \o <<m>> \in Seq(Words)
    BY <2>4, <2>5, Joined
  <2>7. Repl!Front(l) \o <<m>> \o Tail(ws) \in Seq(Words)
    BY <2>5, <2>6, Joined
  <2> QED BY <1>2, <2>7 DEF m
<1> QED BY <1>1, <1>2 DEF Repl!Joinings

\* .env changes nothing for a command: what is in it was loaded at the start.
LEMMA SessionWithDotenv ==
  ASSUME NEW ls \in Seq(Seq(Words)), NEW n \in 1..(Len(ls) + 1), NEW e, OfSession(ls, e, n)
  PROVE  Repl!WithDotenv(e) = e
<1>1. CASE e = IF Inherited = "unset" THEN Dotenv ELSE Inherited
  BY <1>1 DEF Repl!WithDotenv
<1>2. ASSUME NEW m \in 1..(n - 1), Repl!IsSetTenant(ls[m]), e = ls[m][2]
      PROVE  Repl!WithDotenv(e) = e
  <2>1. Len(ls) \in Nat /\ n \in Nat /\ n <= Len(ls) + 1
    OBVIOUS
  <2>2. m \in 1..Len(ls)
    BY <2>1
  <2>3. ls[m] \in Seq(Words)
    BY <2>2
  <2>4. ls[m][2] \in Words
    BY <1>2, <2>3 DEF Repl!IsSetTenant
  <2> QED BY <1>2, <2>4, TerminalAssumption DEF Repl!WithDotenv
<1> QED BY <1>1, <1>2 DEF OfSession

LEMMA KeyKinds == \A k \in Keys : /\ k.kind \in {"text", "enter", "interrupt", "eof"}
                                  /\ k.words \in Seq(Words)
  BY Nothing DEF Keys, Typed, Control

\* A line more leaves the tenant at those before it, and is followed by the one it
\* sets, or by its own.
LEMMA NextLine ==
  ASSUME NEW ls \in Seq(Seq(Words)), NEW l
  PROVE  /\ \A n \in 1..(Len(ls) + 1) : \A e :
              OfSession(ls, e, n) => OfSession(Append(ls, l), e, n)
         /\ Repl!IsSetTenant(l) => OfSession(Append(ls, l), l[2], Len(ls) + 2)
         /\ ~Repl!IsSetTenant(l) =>
              \A e : OfSession(ls, e, Len(ls) + 1) => OfSession(Append(ls, l), e, Len(ls) + 2)
<1> DEFINE ms == Append(ls, l)
<1>1. /\ Len(ls) \in Nat /\ ms[Len(ls) + 1] = l
      /\ \A n \in 1..Len(ls) : ms[n] = ls[n]
  BY Appended
<1> HIDE DEF ms
<1>2. ASSUME NEW n \in 1..(Len(ls) + 1), NEW e, OfSession(ls, e, n)
      PROVE  OfSession(ms, e, n)
  <2>1. \A k \in 1..(n - 1) : ms[k] = ls[k]
    BY <1>1
  <2>2. ASSUME NEW m \in 1..(n - 1)
        PROVE  \A k \in (m + 1)..(n - 1) : ms[k] = ls[k]
    BY <2>1
  <2>3. \A k \in 1..(n - 1) : Repl!IsSetTenant(ms[k]) <=> Repl!IsSetTenant(ls[k])
    BY <2>1 DEF Repl!IsSetTenant
  <2>4. CASE \E m \in 1..(n - 1) : /\ Repl!IsSetTenant(ls[m]) /\ e = ls[m][2]
                                   /\ \A k \in (m + 1)..(n - 1) : ~Repl!IsSetTenant(ls[k])
    <3>1. PICK m \in 1..(n - 1) : /\ Repl!IsSetTenant(ls[m]) /\ e = ls[m][2]
                                  /\ \A k \in (m + 1)..(n - 1) : ~Repl!IsSetTenant(ls[k])
      BY <2>4
    <3>2. Repl!IsSetTenant(ms[m]) /\ e = ms[m][2]
      BY <2>1, <2>3, <3>1
    <3>3. \A k \in (m + 1)..(n - 1) : ~Repl!IsSetTenant(ms[k])
      BY <2>2, <3>1 DEF Repl!IsSetTenant
    <3> QED BY <3>2, <3>3 DEF OfSession
  <2>5. CASE \A k \in 1..(n - 1) : ~Repl!IsSetTenant(ls[k])
    BY <1>2, <2>3, <2>5 DEF OfSession
  <2> QED BY <1>2, <2>4, <2>5 DEF OfSession
<1>3. ASSUME Repl!IsSetTenant(l)
      PROVE  OfSession(ms, l[2], Len(ls) + 2)
  <2>1. Len(ls) + 1 \in 1..((Len(ls) + 2) - 1)
    BY <1>1
  <2>2. ((Len(ls) + 1) + 1)..((Len(ls) + 2) - 1) = {}
    BY <1>1
  <2> QED BY <1>1, <1>3, <2>1, <2>2 DEF OfSession
<1>4. ASSUME ~Repl!IsSetTenant(l), NEW e, OfSession(ls, e, Len(ls) + 1)
      PROVE  OfSession(ms, e, Len(ls) + 2)
  <2> DEFINE n == Len(ls)
  <2>1. /\ (n + 1) - 1 = n /\ (n + 2) - 1 = n + 1
        /\ \A m \in 1..n : m \in 1..(n + 1)
        /\ \A m \in Nat : \A k \in m..(n + 1) : k = n + 1 \/ k \in m..n
    BY <1>1
  <2>2. \A m \in 1..n : m + 1 \in Nat /\ \A k \in (m + 1)..n : k \in 1..n
    BY <1>1
  <2>3. \A k \in 1..n : Repl!IsSetTenant(ms[k]) <=> Repl!IsSetTenant(ls[k])
    BY <1>1 DEF Repl!IsSetTenant
  <2>4. CASE \E m \in 1..n : /\ Repl!IsSetTenant(ls[m]) /\ e = ls[m][2]
                             /\ \A k \in (m + 1)..n : ~Repl!IsSetTenant(ls[k])
    <3>1. PICK m \in 1..n : /\ Repl!IsSetTenant(ls[m]) /\ e = ls[m][2]
                            /\ \A k \in (m + 1)..n : ~Repl!IsSetTenant(ls[k])
      BY <2>4
    <3>2. m \in 1..(n + 1) /\ Repl!IsSetTenant(ms[m]) /\ e = ms[m][2]
      BY <1>1, <2>1, <2>3, <3>1
    <3>3. \A k \in (m + 1)..(n + 1) : ~Repl!IsSetTenant(ms[k])
      BY <1>1, <1>4, <2>1, <2>2, <2>3, <3>1
    <3> QED BY <2>1, <3>2, <3>3 DEF OfSession
  <2>5. CASE /\ \A k \in 1..n : ~Repl!IsSetTenant(ls[k])
             /\ e = IF Inherited = "unset" THEN Dotenv ELSE Inherited
    <3>1. \A k \in 1..(n + 1) : ~Repl!IsSetTenant(ms[k])
      BY <1>1, <1>4, <2>1, <2>3, <2>5
    <3> QED BY <2>1, <2>5, <3>1 DEF OfSession
  <2> QED BY <1>4, <2>1, <2>4, <2>5 DEF OfSession
<1> QED BY <1>2, <1>3, <1>4 DEF ms

LEMMA InitIInv == Init => IInv
<1> SUFFICES ASSUME Init PROVE IInv
  OBVIOUS
<1>1. KeyInv /\ LeftInv /\ HandlerInv
  BY DEF Init, Repl!Init, KeyInv, LeftInv, HandlerInv, NoOrphan
<1>2. EnvInv /\ TenantOfLine
  BY DEF Init, Repl!Init, EnvInv, Repl!NoCommand, TenantOfLine
<1>3. RequestInv
  <2>1. requests = <<>> /\ requests \in Seq({})
    BY DEF Init, Repl!Init
  <2> QED BY <2>1 DEF RequestInv
<1> QED BY <1>1, <1>2, <1>3 DEF IInv, SessionInv

-----------------------------------------------------------------------------
(***************************************************************************)
(* The session.                                                            *)
(***************************************************************************)

\* What goes on without a new line, a new request or a new command.
LEMMA SessionKept ==
  ASSUME SessionInv, UNCHANGED <<env, lines, requests>>,
         mode' = "none" <=> mode = "none",
         DOMAIN command' = {"line", "env", "todo", "killed"},
         command' # Repl!NoCommand => /\ command # Repl!NoCommand
                                      /\ command'.line = command.line
                                      /\ command'.env = command.env
  PROVE  SessionInv'
<1>1. RequestInv' /\ TenantOfLine'
  BY DEF SessionInv, RequestInv, TenantOfLine, OfSession, Repl!IsSetTenant
<1>2. EnvInv'
  BY DEF SessionInv, EnvInv, OfSession, Repl!IsSetTenant
<1> QED BY <1>1, <1>2 DEF SessionInv

\* Fields of a command that a step on another field leaves alone.
LEMMA CommandFields ==
  ASSUME DOMAIN command = {"line", "env", "todo", "killed"}, NEW x,
         \/ command' = command
         \/ command' = [command EXCEPT !.killed = x]
         \/ command' = [command EXCEPT !.todo = x]
  PROVE  /\ DOMAIN command' = {"line", "env", "todo", "killed"}
         /\ command'.line = command.line /\ command'.env = command.env
  OBVIOUS

\* What a signal leaves of a command.
LEMMA Terminates ==
  ASSUME DOMAIN command = {"line", "env", "todo", "killed"}, command' = Repl!Terminated(command)
  PROVE  /\ DOMAIN command' = {"line", "env", "todo", "killed"}
         /\ command' = command \/ command' = [command EXCEPT !.killed = TRUE]
         /\ command = Repl!NoCommand => command' = command
         /\ command # Repl!NoCommand => command' # Repl!NoCommand /\ command'.killed
<1>1. CASE command = Repl!NoCommand
  BY <1>1 DEF Repl!Terminated
<1>2. CASE command # Repl!NoCommand
  <2>1. command' = [command EXCEPT !.killed = TRUE]
    BY <1>2 DEF Repl!Terminated
  <2>2. command'.killed = TRUE /\ DOMAIN command' = {"line", "env", "todo", "killed"}
    BY <2>1
  <2>3. Repl!NoCommand.killed = FALSE
    BY DEF Repl!NoCommand
  <2> QED BY <1>2, <2>1, <2>2, <2>3
<1> QED BY <1>1, <1>2

LEMMA StartSession ==
  ASSUME KeyInv, SessionInv, Repl!Start
  PROVE  SessionInv'
<1>1. /\ mode = "none" /\ mode' = "starting" /\ env' = Repl!WithDotenv(Inherited)
      /\ UNCHANGED <<command, lines, requests>>
  BY DEF Repl!Start
<1>2. lines = <<>> /\ Len(lines) = 0
  BY <1>1 DEF SessionInv, EnvInv
<1>3. RequestInv' /\ TenantOfLine'
  BY <1>1 DEF SessionInv, RequestInv, TenantOfLine, OfSession, Repl!IsSetTenant
<1>4. EnvInv'
  BY <1>1, <1>2 DEF SessionInv, EnvInv, OfSession, Repl!WithDotenv
<1> QED BY <1>3, <1>4 DEF SessionInv

\* The tenant of a call, in terms of the line and the environment of its command.
TenantOf(ls, r) ==
  LET flag == Repl!TenantFlag[ls[r.line]]
  IN IF flag = "$ART_TENANT_ID" THEN OfSession(ls, r.tenant, r.line) ELSE r.tenant = flag

LEMMA EvaluateSession ==
  ASSUME KeyInv, SessionInv, Repl!Evaluate
  PROVE  SessionInv' /\ lines' \in Seq(Seq(Words))
<1> DEFINE ls == lines
           ms == Append(lines, line)
<1>1. /\ mode = "eval" /\ mode' \in {"running", "exited", "cooked"}
      /\ lines' = ms /\ requests' = requests
      /\ env' = IF Repl!IsSetTenant(line) THEN line[2] ELSE env
      /\ mode' # "running" => command' = command
      /\ mode' = "running" => \E todo : command' = [line |-> Len(lines) + 1, env |-> env,
                                                    todo |-> todo, killed |-> FALSE]
  BY DEF Repl!Evaluate
<1>2. /\ Len(ms) = Len(ls) + 1 /\ Len(ls) \in Nat /\ ms \in Seq(Seq(Words))
      /\ \A n \in 1..Len(ls) : ms[n] = ls[n]
  BY Appended DEF KeyInv
<1>3. /\ \A n \in 1..(Len(ls) + 1) : \A e : OfSession(ls, e, n) => OfSession(ms, e, n)
      /\ Repl!IsSetTenant(line) => OfSession(ms, line[2], Len(ls) + 2)
      /\ ~Repl!IsSetTenant(line) =>
           \A e : OfSession(ls, e, Len(ls) + 1) => OfSession(ms, e, Len(ls) + 2)
  BY NextLine DEF KeyInv
<1>4. OfSession(ls, env, Len(ls) + 1)
  BY <1>1 DEF SessionInv, EnvInv
<1>5. OfSession(ms, env', Len(ms) + 1)
  <2>1. Len(ms) + 1 = Len(ls) + 2
    BY <1>2
  <2>2. CASE Repl!IsSetTenant(line)
    BY <1>1, <1>3, <2>1, <2>2
  <2>3. CASE ~Repl!IsSetTenant(line)
    BY <1>1, <1>3, <1>4, <2>1, <2>3
  <2> QED BY <2>2, <2>3
<1>6. /\ DOMAIN command' = {"line", "env", "todo", "killed"}
      /\ command' # Repl!NoCommand => /\ command'.line \in 1..Len(ms)
                                      /\ OfSession(ms, command'.env, command'.line)
  <2>1. CASE mode' = "running"
    <3>1. /\ command'.line = Len(ls) + 1 /\ command'.env = env
          /\ DOMAIN command' = {"line", "env", "todo", "killed"}
      BY <1>1, <2>1
    <3>2. Len(ls) + 1 \in 1..Len(ms) /\ Len(ls) + 1 \in 1..(Len(ls) + 1)
      BY <1>2
    <3>3. OfSession(ms, env, Len(ls) + 1)
      BY <1>3, <1>4, <3>2
    <3> QED BY <3>1, <3>2, <3>3
  <2>2. CASE mode' # "running"
    <3>1. command' = command /\ DOMAIN command = {"line", "env", "todo", "killed"}
      BY <1>1, <2>2 DEF SessionInv, EnvInv
    <3>2. CASE command # Repl!NoCommand
      <4>1. command.line \in 1..Len(ls) /\ OfSession(ls, command.env, command.line)
        BY <3>2 DEF SessionInv, EnvInv
      <4>2. command.line \in 1..(Len(ls) + 1) /\ command.line \in 1..Len(ms)
        BY <1>2, <4>1
      <4> QED BY <1>3, <3>1, <4>1, <4>2
    <3> QED BY <3>1, <3>2
  <2> QED BY <2>1, <2>2
<1>7. ASSUME NEW i \in DOMAIN requests
      PROVE  requests[i].line \in 1..Len(ms) /\ TenantOf(ms, requests[i])
  <2>1. requests[i].line \in 1..Len(ls) /\ TenantOf(ls, requests[i])
    BY DEF SessionInv, RequestInv, TenantOfLine, TenantOf
  <2>2. requests[i].line \in 1..Len(ms) /\ requests[i].line \in 1..(Len(ls) + 1)
    BY <1>2, <2>1
  <2>3. ms[requests[i].line] = ls[requests[i].line]
    BY <1>2, <2>1
  <2> QED BY <1>3, <2>1, <2>2, <2>3 DEF TenantOf
<1> HIDE DEF ms
<1>8. EnvInv'
  BY <1>1, <1>5, <1>6 DEF EnvInv, OfSession, Repl!IsSetTenant
<1>9. RequestInv' /\ TenantOfLine'
  BY <1>1, <1>7 DEF SessionInv, RequestInv, TenantOfLine, TenantOf, OfSession, Repl!IsSetTenant
<1> QED BY <1>1, <1>2, <1>8, <1>9 DEF SessionInv

LEMMA CallAPISession ==
  ASSUME KeyInv, SessionInv, Repl!CallAPI
  PROVE  SessionInv'
<1>1. /\ command # Repl!NoCommand /\ mode' = mode
      /\ command' = [command EXCEPT !.todo = Tail(@)]
      /\ UNCHANGED <<lines, env>>
      /\ \/ requests' = requests
         \/ requests' = Append(requests, [line |-> command.line, tenant |-> Repl!Tenant(command)])
  BY DEF Repl!CallAPI, Repl!Doing, Repl!Done
<1>2. /\ DOMAIN command' = {"line", "env", "todo", "killed"}
      /\ command'.line = command.line /\ command'.env = command.env
  BY <1>1, CommandFields DEF SessionInv, EnvInv
<1>3. CASE requests' = requests
  BY <1>1, <1>2, <1>3, SessionKept
<1>4. CASE requests' = Append(requests, [line |-> command.line, tenant |-> Repl!Tenant(command)])
  <2> DEFINE r == [line |-> command.line, tenant |-> Repl!Tenant(command)]
  <2>1. /\ command.line \in 1..Len(lines)
        /\ OfSession(lines, command.env, command.line)
    BY <1>1 DEF SessionInv, EnvInv
  <2>2. Repl!WithDotenv(command.env) = command.env
    <3>1. Len(lines) \in Nat /\ lines \in Seq(Seq(Words))
      BY DEF KeyInv
    <3>2. command.line \in 1..(Len(lines) + 1)
      BY <2>1, <3>1
    <3> QED BY <2>1, <3>1, <3>2, SessionWithDotenv
  <2>3. r.line \in 1..Len(lines) /\ TenantOf(lines, r)
    <3>1. r.line = command.line /\ r.tenant = Repl!Tenant(command)
      OBVIOUS
    <3>2. Repl!TenantFlag[lines[command.line]] = "$ART_TENANT_ID" => r.tenant = command.env
      BY <2>2, <3>1 DEF Repl!Tenant
    <3>3. Repl!TenantFlag[lines[command.line]] # "$ART_TENANT_ID"
            => r.tenant = Repl!TenantFlag[lines[command.line]]
      BY <3>1 DEF Repl!Tenant
    <3> HIDE DEF r
    <3> QED BY <2>1, <3>1, <3>2, <3>3 DEF TenantOf
  <2> HIDE DEF r
  <2>4. /\ \E S : requests' \in Seq(S)
        /\ DOMAIN requests = 1..Len(requests) /\ Len(requests) \in Nat
        /\ DOMAIN requests' = 1..(Len(requests) + 1)
        /\ requests'[Len(requests) + 1] = r
        /\ \A i \in 1..Len(requests) : requests'[i] = requests[i]
    <3> DEFINE q == Append(requests, r)
    <3>1. requests' = q
      BY <1>4 DEF r
    <3>2. PICK S : requests \in Seq(S)
      BY DEF SessionInv, RequestInv
    <3>3. requests \in Seq(S \cup {r})
      BY <3>2
    <3>4. /\ q \in Seq(S \cup {r})
          /\ Len(requests) \in Nat /\ DOMAIN requests = 1..Len(requests)
          /\ DOMAIN q = 1..(Len(requests) + 1)
          /\ q[Len(requests) + 1] = r
          /\ \A i \in 1..Len(requests) : q[i] = requests[i]
      BY <3>3, Appended
    <3> HIDE DEF q
    <3> QED BY <3>1, <3>4
  <2>5. ASSUME NEW i \in DOMAIN requests'
        PROVE  requests'[i].line \in 1..Len(lines) /\ TenantOf(lines, requests'[i])
    <3>1. CASE i \in DOMAIN requests /\ requests'[i] = requests[i]
      BY <3>1 DEF SessionInv, RequestInv, TenantOfLine, TenantOf
    <3>2. CASE requests'[i] = r
      BY <2>3, <3>2
    <3> QED BY <2>4, <2>5, <3>1, <3>2
  <2>6. RequestInv' /\ TenantOfLine'
    BY <1>1, <2>4, <2>5 DEF RequestInv, TenantOfLine, TenantOf, OfSession, Repl!IsSetTenant
  <2>7. EnvInv'
    BY <1>1, <1>2 DEF SessionInv, EnvInv, OfSession, Repl!IsSetTenant
  <2> QED BY <2>6, <2>7 DEF SessionInv
<1> QED BY <1>1, <1>3, <1>4

\* The other steps of the repl and its command.
LEMMA OtherSession ==
  ASSUME KeyInv, SessionInv,
         \/ Repl!Notify \/ Repl!Readline \/ Repl!ReadKey \/ Repl!ReturnKilled \/ Repl!Fails
         \/ Repl!GetClient \/ Repl!CheckFlags \/ Repl!Return
         \/ Repl!Die \/ \E k : Repl!Type(k)
  PROVE  SessionInv'
<1>1. UNCHANGED <<env, lines, requests>>
  BY DEF Repl!Notify, Repl!Readline, Repl!ReadKey, Repl!ReturnKilled, Repl!Fails, Repl!GetClient,
         Repl!CheckFlags, Repl!Return, Repl!End, Repl!Die, Repl!Type, Repl!Signal, Repl!Queue
<1>2. DOMAIN command = {"line", "env", "todo", "killed"}
  BY DEF SessionInv, EnvInv
<1>3. /\ mode' = "none" <=> mode = "none"
      /\ \/ command' = Repl!NoCommand
         \/ command' = command
         \/ command' = Repl!Terminated(command)
         \/ command # Repl!NoCommand /\ Repl!Done
  <2>1. CASE Repl!Notify \/ Repl!Readline \/ Repl!Fails
    BY <2>1 DEF Repl!Notify, Repl!Readline, Repl!Fails
  <2>2. CASE Repl!ReadKey
    <3>1. mode = "editing" /\ command' = command
      BY <2>2 DEF Repl!ReadKey
    <3>2. mode' \in {"editing", "eval", "exited", "cooked"}
      <4>1. PICK k : k \in Keys /\ k = Head(input) /\ Repl!Edit(k)
        BY <2>2, Consumed DEF Repl!ReadKey, KeyInv
      <4> QED BY <3>1, <4>1, KeyKinds DEF Repl!Edit
    <3> QED BY <3>1, <3>2
  <2>3. CASE Repl!Return \/ Repl!ReturnKilled \/ Repl!Die
    BY <2>3 DEF Repl!Return, Repl!ReturnKilled, Repl!End, Repl!Die
  <2>4. CASE Repl!GetClient \/ Repl!CheckFlags
    BY <2>4 DEF Repl!GetClient, Repl!CheckFlags, Repl!Doing
  <2>5. ASSUME NEW k, Repl!Type(k)
        PROVE  /\ mode' = "none" <=> mode = "none"
               /\ command' = command \/ command' = Repl!Terminated(command)
    BY <2>5 DEF Repl!Type, Repl!Signal, Repl!Queue
  <2> QED BY <2>1, <2>2, <2>3, <2>4, <2>5
<1>4. CASE command' = Repl!NoCommand
  <2>1. DOMAIN command' = {"line", "env", "todo", "killed"}
    BY <1>4 DEF Repl!NoCommand
  <2> QED BY <1>1, <1>3, <1>4, <2>1, SessionKept
<1>5. CASE command' = command
  BY <1>1, <1>2, <1>3, <1>5, SessionKept
<1>6. CASE command' = Repl!Terminated(command)
  <2>1. /\ DOMAIN command' = {"line", "env", "todo", "killed"}
        /\ command'.line = command.line /\ command'.env = command.env
        /\ command' # Repl!NoCommand => command # Repl!NoCommand
    BY <1>2, <1>6, Terminates, CommandFields
  <2> QED BY <1>1, <1>3, <2>1, SessionKept
<1>7. CASE command # Repl!NoCommand /\ Repl!Done
  <2>1. command' = [command EXCEPT !.todo = Tail(command.todo)]
    BY <1>7 DEF Repl!Done
  <2>2. /\ DOMAIN command' = {"line", "env", "todo", "killed"}
        /\ command'.line = command.line /\ command'.env = command.env
    BY <1>2, <2>1, CommandFields
  <2> QED BY <1>1, <1>3, <1>7, <2>2, SessionKept
<1> QED BY <1>3, <1>4, <1>5, <1>6, <1>7

\* Whatever ends the repl, a command it leaves has been sent the signal.
LEMMA LeftKept ==
  ASSUME KeyInv, SessionInv, LeftInv,
         \/ Repl!Start \/ Repl!Notify \/ Repl!Readline \/ Repl!ReadKey \/ Repl!Evaluate
         \/ Repl!ReturnKilled \/ Repl!Fails \/ Repl!GetClient \/ Repl!CheckFlags
         \/ Repl!CallAPI \/ Repl!Return \/ Repl!Die \/ \E k : Repl!Type(k)
  PROVE  LeftInv'
<1>0. DOMAIN command = {"line", "env", "todo", "killed"}
  BY DEF SessionInv, EnvInv
<1>1. CASE Repl!Start \/ Repl!Notify \/ Repl!Readline \/ Repl!Fails
  BY <1>1 DEF Repl!Start, Repl!Notify, Repl!Readline, Repl!Fails, LeftInv
<1>2. CASE Repl!ReadKey
  <2>1. PICK k : k \in Keys /\ k = Head(input) /\ Repl!Edit(k)
    BY <1>2, Consumed DEF Repl!ReadKey, KeyInv
  <2>2. mode = "editing" /\ command' = command
    BY <1>2 DEF Repl!ReadKey
  <2>3. mode' \in {"editing", "eval", "exited", "cooked"}
    BY <2>1, <2>2, KeyKinds DEF Repl!Edit
  <2> QED BY <2>2, <2>3 DEF LeftInv
<1>3. CASE Repl!Evaluate
  <2>1. /\ mode = "eval" /\ mode' \in {"running", "exited", "cooked"}
        /\ mode' # "running" => command' = command
        /\ mode' = "running" => command'.line = Len(lines) + 1
    BY <1>3 DEF Repl!Evaluate
  <2>2. command = Repl!NoCommand
    BY <2>1 DEF LeftInv
  <2>3. Repl!NoCommand.line = 0
    BY DEF Repl!NoCommand
  <2>4. Len(lines) + 1 # 0
    <3>1. Len(lines) \in Nat
      BY Appended DEF KeyInv
    <3> QED BY <3>1
  <2>5. mode' = "running" => command' # Repl!NoCommand
    BY <2>1, <2>3, <2>4
  <2> QED BY <2>1, <2>2, <2>5 DEF LeftInv
<1>4. CASE Repl!Return \/ Repl!ReturnKilled
  BY <1>4 DEF Repl!Return, Repl!ReturnKilled, Repl!End, LeftInv
<1>5. CASE Repl!GetClient \/ Repl!CheckFlags \/ Repl!CallAPI
  <2>1. /\ mode' = mode /\ command # Repl!NoCommand
        /\ command' = [command EXCEPT !.todo = Tail(command.todo)]
    BY <1>5 DEF Repl!GetClient, Repl!CheckFlags, Repl!CallAPI, Repl!Doing, Repl!Done
  <2>2. command'.line = command.line /\ command'.killed = command.killed
    BY <1>0, <2>1
  <2>3. command.line # 0 /\ Repl!NoCommand.line = 0
    BY <2>1 DEF SessionInv, EnvInv, Repl!NoCommand
  <2> QED BY <2>1, <2>2, <2>3 DEF LeftInv
<1>6. CASE Repl!Die
  <2>1. mode' = "exited" /\ (command' = Repl!Terminated(command) \/ (Nohup /\ command' = command))
    BY <1>6 DEF Repl!Die
  <2>2. command' = Repl!Terminated(command) => command' = Repl!NoCommand \/ command'.killed
    BY <1>0, Terminates
  <2> QED BY <2>1, <2>2 DEF LeftInv
<1>7. ASSUME NEW k, Repl!Type(k)
      PROVE  LeftInv'
  <2>1. CASE Repl!Queue(k)
    BY <2>1 DEF Repl!Queue, LeftInv
  <2>2. CASE Repl!Signal
    <3>1. /\ mode # "exited" /\ command' = Repl!Terminated(command)
          /\ mode' = IF mode = "starting" THEN "exited" ELSE mode
      BY <1>7, <2>2 DEF Repl!Type, Repl!Signal
    <3>2. command' = Repl!NoCommand <=> command = Repl!NoCommand
      BY <1>0, <3>1, Terminates
    <3> QED BY <3>1, <3>2 DEF LeftInv
  <2> QED BY <1>7, <2>1, <2>2 DEF Repl!Type
<1> QED BY <1>1, <1>2, <1>3, <1>4, <1>5, <1>6, <1>7

-----------------------------------------------------------------------------
(***************************************************************************)
(* The repl, whoever drives it.                                            *)
(***************************************************************************)
LEMMA ReplStep ==
  ASSUME KeyInv, SessionInv, LeftInv, RunRepl \/ ReplFails \/ RunCommand
  PROVE  /\ KeyInv' /\ SessionInv' /\ LeftInv'
         /\ mode # "none" /\ mode' # "none" /\ (mode = "exited" => mode' = "exited")
         /\ handler' = handler
<1>1. /\ UNCHANGED <<inbox, pending, handler>>
      /\ \/ Repl!Notify \/ Repl!Readline \/ Repl!ReturnKilled \/ Repl!Fails
         \/ Repl!GetClient \/ Repl!CheckFlags \/ Repl!CallAPI \/ Repl!Return
         \/ Repl!ReadKey \/ Repl!Evaluate
  BY DEF RunRepl, ReplFails, RunCommand, Repl!Loop, Repl!Process, web
<1>2. SessionInv' /\ LeftInv'
  BY <1>1, OtherSession, EvaluateSession, CallAPISession, LeftKept
<1>3. CASE Repl!Notify \/ Repl!Readline \/ Repl!Fails
  <2>1. /\ UNCHANGED <<input, lines>> /\ line' \in {line, <<>>}
        /\ mode \notin {"none", "exited"} /\ mode' # "none"
    BY <1>3 DEF Repl!Notify, Repl!Readline, Repl!Fails
  <2>2. line' \in Seq(Words)
    BY <2>1, Nothing DEF KeyInv
  <2> QED BY <1>1, <1>2, <2>1, <2>2 DEF KeyInv
<1>4. CASE \/ Repl!GetClient \/ Repl!CheckFlags \/ Repl!CallAPI
           \/ Repl!Return \/ Repl!ReturnKilled
  <2>1. /\ UNCHANGED <<input, line, lines>> /\ command # Repl!NoCommand
        /\ mode' = mode \/ (mode = "running" /\ mode' = "cooked")
    BY <1>4 DEF Repl!ReturnKilled, Repl!GetClient, Repl!CheckFlags, Repl!CallAPI,
                Repl!Return, Repl!End, Repl!Doing
  <2>2. mode # "none"
    BY <2>1 DEF LeftInv
  <2> QED BY <1>1, <1>2, <2>1, <2>2 DEF KeyInv
<1>5. CASE Repl!ReadKey
  <2>1. PICK k : k \in Keys /\ k = Head(input) /\ Repl!Edit(k)
    BY <1>5, Consumed DEF Repl!ReadKey, KeyInv
  <2>2. /\ input' \in Seq(Keys) /\ lines' = lines /\ mode = "editing"
    BY <1>5, Consumed DEF Repl!ReadKey, KeyInv
  <2>3. line' \in Seq(Words) /\ mode' # "none"
    <3>1. CASE k.kind = "text"
      <4>1. line' \in Repl!Joinings(line, k.words) /\ mode' = mode
        BY <2>1, <3>1 DEF Repl!Edit
      <4> QED BY <2>1, <2>2, <4>1, KeyKinds, Joinings DEF KeyInv
    <3>2. CASE k.kind # "text"
      BY <2>1, <2>2, <3>2, KeyKinds DEF Repl!Edit, KeyInv
    <3> QED BY <3>1, <3>2
  <2> QED BY <1>1, <1>2, <2>2, <2>3 DEF KeyInv
<1>6. CASE Repl!Evaluate
  <2>1. /\ UNCHANGED <<input, line>> /\ mode = "eval" /\ mode' # "none"
    BY <1>6 DEF Repl!Evaluate
  <2> QED BY <1>1, <1>2, <1>6, <2>1, EvaluateSession DEF KeyInv
<1> QED BY <1>1, <1>3, <1>4, <1>5, <1>6

\* The browser, the pump, and what the handler does beside the terminal.
LEMMA SocketStep ==
  ASSUME KeyInv, SessionInv,
         \/ UserSends \/ PageSends \/ Leave \/ ReadMessage \/ ReadFails \/ WriteFails
         \/ Upgrade \/ UpgradeFails \/ StartFails \/ CloseAndKill \/ Wait
         \/ PumpReads \/ PumpSends \/ PumpEnds
  PROVE  KeyInv' /\ SessionInv' /\ UNCHANGED <<mode, command>>
<1>1. /\ UNCHANGED <<mode, input, line, env, command, lines, requests>>
      /\ handler' = "writing" => ReadMessage \/ (handler = "writing" /\ pending' = pending)
  BY DEF UserSends, PageSends, Leave, ReadMessage, ReadFails, WriteFails, Upgrade, UpgradeFails,
         StartFails, CloseAndKill, Wait, PumpReads, PumpSends, PumpEnds, repl
<1>2. SessionInv'
  BY <1>1, SessionKept DEF SessionInv, EnvInv
<1>3. /\ inbox' \in Seq(Seq(Keys)) /\ pending' \in Seq(Keys)
      /\ handler' = "writing" => pending' # <<>>
  <2>1. CASE UserSends \/ PageSends
    <3>1. PICK f \in Seq(Keys) : inbox' = Append(inbox, f)
      BY <2>1, TerminalAssumption DEF UserSends, PageSends, Send, Keys
    <3>2. inbox' \in Seq(Seq(Keys))
      BY <3>1, Appended DEF KeyInv
    <3> QED BY <2>1, <3>2 DEF UserSends, PageSends, KeyInv
  <2>2. CASE Leave
    <3>1. PICK n \in 0..Len(inbox) : inbox' = SubSeq(inbox, 1, n)
      BY <2>2 DEF Leave
    <3>2. inbox' \in Seq(Seq(Keys))
      BY <3>1, Shortened DEF KeyInv
    <3> QED BY <2>2, <3>2 DEF Leave, KeyInv
  <2>3. CASE ReadMessage
    <3>1. Head(inbox) \in Seq(Keys) /\ Tail(inbox) \in Seq(Seq(Keys))
      BY <2>3, Consumed DEF ReadMessage, KeyInv
    <3> QED BY <2>3, <3>1 DEF ReadMessage
  <2>4. CASE WriteFails
    <3> QED BY <2>4, Nothing DEF WriteFails, KeyInv
  <2>5. CASE \/ ReadFails \/ Upgrade \/ UpgradeFails \/ StartFails \/ CloseAndKill \/ Wait
             \/ PumpReads \/ PumpSends \/ PumpEnds
    BY <2>5 DEF ReadFails, Upgrade, UpgradeFails, StartFails, CloseAndKill, Wait,
                PumpReads, PumpSends, PumpEnds, KeyInv
  <2> QED BY <2>1, <2>2, <2>3, <2>4, <2>5
<1> QED BY <1>1, <1>2, <1>3 DEF KeyInv

LEMMA WriteStep ==
  ASSUME KeyInv, SessionInv, LeftInv, Write
  PROVE  KeyInv' /\ SessionInv' /\ LeftInv' /\ mode' # "none"
<1> DEFINE k == Head(pending)
<1>1. /\ handler = "writing" /\ Repl!Type(k) /\ pending' = Tail(pending) /\ inbox' = inbox
      /\ handler' = "writing" => Len(pending) # 1
  BY DEF Write
<1>2. pending # <<>> /\ k \in Keys /\ pending' \in Seq(Keys)
  BY <1>1, Consumed DEF KeyInv
<1>3. handler' = "writing" => pending' # <<>>
  <2>1. pending \in Seq(Keys)
    BY DEF KeyInv
  <2> QED BY <1>1, <1>2, <2>1, Consumed
<1>4. SessionInv' /\ LeftInv'
  BY <1>1, OtherSession, LeftKept
<1>5. /\ input' = Append(input, k) \/ \E n \in 0..Len(input) : input' = SubSeq(input, 1, n)
      /\ UNCHANGED <<line, lines>> /\ mode' # "none"
  BY <1>1 DEF Repl!Type, Repl!Signal, Repl!Queue
<1>6. input' \in Seq(Keys)
  <2>1. Append(input, k) \in Seq(Keys)
    BY <1>2, Appended DEF KeyInv
  <2>2. \A n \in 0..Len(input) : SubSeq(input, 1, n) \in Seq(Keys)
    BY Shortened DEF KeyInv
  <2> QED BY <1>5, <2>1, <2>2
<1> QED BY <1>1, <1>2, <1>3, <1>4, <1>5, <1>6 DEF KeyInv

LEMMA NextIInv == IInv /\ [Next]_vars => IInv'
<1> SUFFICES ASSUME IInv, [Next]_vars PROVE IInv'
  OBVIOUS
<1>1. CASE UNCHANGED vars
  <2>1. UNCHANGED <<mode, input, line, env, command, lines, requests, inbox, pending, handler>>
    BY <1>1 DEF vars, repl
  <2>2. SessionInv'
    BY <2>1, SessionKept DEF IInv, SessionInv, EnvInv
  <2>3. KeyInv' /\ LeftInv' /\ HandlerInv'
    BY <2>1 DEF IInv, KeyInv, LeftInv, HandlerInv, NoOrphan
  <2> QED BY <2>2, <2>3 DEF IInv
<1>2. CASE \/ UserSends \/ PageSends \/ Leave \/ ReadMessage \/ ReadFails \/ WriteFails
           \/ Upgrade \/ UpgradeFails \/ StartFails \/ CloseAndKill \/ Wait
           \/ PumpReads \/ PumpSends \/ PumpEnds
  <2>1. KeyInv' /\ SessionInv' /\ UNCHANGED <<mode, command>>
    BY <1>2, SocketStep DEF IInv
  <2>2. LeftInv'
    BY <2>1 DEF IInv, LeftInv
  <2>3. \/ handler' = handler
        \/ handler \in {"none", "upgraded"} /\ handler' \in {"upgraded", "done"}
        \/ handler' \in {"reading", "writing", "cleanup", "waiting"}
        \/ handler' = "done" /\ mode = "exited"
    BY <1>2 DEF UserSends, PageSends, Leave, ReadMessage, ReadFails, WriteFails, Upgrade,
                UpgradeFails, StartFails, CloseAndKill, Wait, PumpReads, PumpSends, PumpEnds
  <2>4. HandlerInv'
    BY <2>1, <2>3 DEF IInv, LeftInv, HandlerInv, NoOrphan
  <2> QED BY <2>1, <2>2, <2>4 DEF IInv
<1>3. CASE Start
  <2>1. /\ SessionInv' /\ LeftInv' /\ handler' = "reading"
        /\ UNCHANGED <<inbox, pending, input, line, lines>>
    BY <1>3, StartSession, LeftKept DEF IInv, Start, Repl!Start
  <2> QED BY <2>1 DEF IInv, KeyInv, HandlerInv, NoOrphan
<1>4. CASE Write
  <2>1. KeyInv' /\ SessionInv' /\ LeftInv' /\ handler' \in {"reading", "writing"}
    BY <1>4, WriteStep DEF IInv, Write
  <2> QED BY <2>1 DEF IInv, HandlerInv, NoOrphan
<1>5. CASE Killed
  <2>1. SessionInv' /\ LeftInv'
    BY <1>5, OtherSession, LeftKept DEF IInv, Killed
  <2>2. handler' = "waiting" /\ UNCHANGED <<inbox, pending, input, line, lines>>
    BY <1>5 DEF Killed, Repl!Die
  <2> QED BY <2>1, <2>2 DEF IInv, KeyInv, HandlerInv, NoOrphan
<1>6. CASE RunRepl \/ ReplFails \/ RunCommand
  <2>1. /\ KeyInv' /\ SessionInv' /\ LeftInv' /\ handler' = handler
        /\ mode # "none" /\ (mode = "exited" => mode' = "exited")
    BY <1>6, ReplStep DEF IInv
  <2> QED BY <2>1 DEF IInv, LeftInv, HandlerInv, NoOrphan
<1> QED BY <1>1, <1>2, <1>3, <1>4, <1>5, <1>6 DEF Next, Handle

\* An API call is made for the tenant of its own line, by its flag or else by the last
\* set-tenant before it, however lines were typed ahead or commands interrupted.
THEOREM TenantOfLineCorrect == Spec => []TenantOfLine
<1>1. IInv => TenantOfLine
  BY DEF IInv, SessionInv
<1> QED BY <1>1, InitIInv, NextIInv, PTL DEF Spec

\* When the handler of a web socket has returned, its repl is gone or was never started,
\* and a command it ran is gone too or was sent the signal of the hang-up, except under
\* nohup: no other way out of the repl leaves a command behind.
THEOREM NoOrphanCorrect == Spec => []NoOrphan
<1>1. IInv => NoOrphan
  BY DEF IInv, HandlerInv
<1> QED BY <1>1, InitIInv, NextIInv, PTL DEF Spec

\* ^C never ends a session in which a command runs.
THEOREM SurvivesInterruptCorrect == Spec => SurvivesInterrupt
<1>1. IInv /\ [Next]_vars => [mode = "running" /\ mode' = "exited" => handler = "waiting"]_vars
  <2> SUFFICES ASSUME IInv, Next, mode = "running", mode' = "exited"
               PROVE  handler = "waiting"
    OBVIOUS
  <2>1. CASE \/ UserSends \/ PageSends \/ Leave \/ ReadMessage \/ ReadFails \/ WriteFails
             \/ Upgrade \/ UpgradeFails \/ StartFails \/ CloseAndKill \/ Wait
             \/ PumpReads \/ PumpSends \/ PumpEnds
    BY <2>1, SocketStep DEF IInv
  <2>2. CASE Start \/ Killed
    BY <2>2 DEF Start, Repl!Start, Killed
  <2>3. CASE Write
    BY <2>3 DEF Write, Repl!Type, Repl!Signal, Repl!Queue
  <2>4. CASE RunRepl \/ ReplFails \/ RunCommand
    BY <2>4 DEF RunRepl, ReplFails, RunCommand, Repl!Loop, Repl!Process, Repl!Notify,
                Repl!Readline, Repl!ReadKey, Repl!Evaluate, Repl!Fails, Repl!ReturnKilled,
                Repl!GetClient, Repl!CheckFlags, Repl!CallAPI, Repl!Return, Repl!End
  <2> QED BY <2>1, <2>2, <2>3, <2>4 DEF Next, Handle
<1> QED BY <1>1, InitIInv, NextIInv, PTL DEF Spec, SurvivesInterrupt
-----------------------------------------------------------------------------
(***************************************************************************)
(* Types.                                                                  *)
(***************************************************************************)
Unchecked == {<<"token", "flags", "call">>, <<"flags", "token", "call">>, <<"flags", "call">>}
Checked   == {<<"token", "call">>, <<"call">>, <<>>}

ReplModes == {"none", "starting", "cooked", "editing", "eval", "running", "exited"}

Call(n) == [line : 1..n, tenant : Tenants]

\* What a command has yet to do tells whether it has seen that its tenant is one.
CommandInv ==
  command # Repl!NoCommand => /\ command.todo \in Unchecked \cup Checked
                              /\ command.todo \in Checked =>
                                   Repl!Name \in Tenantless \/ Repl!Tenant(command) \in Tenants

ReplInv == /\ mode \in ReplModes
           /\ Len(input) <= Capacity
           /\ env \in Words \cup {"unset"}
           /\ requests \in Seq(Call(Len(lines)))
           /\ CommandInv

WebInv == /\ browser \in {"new", "open", "gone"}
          /\ page \in {"due", "sent"}
          /\ sent \in 0..MaxFrames
          /\ inbox \in Seq(UserFrames \cup {PageFrame})
          /\ handler \in {"none", "upgraded", "reading", "writing", "cleanup", "waiting", "done"}
          /\ (handler = "writing") <=> (pending # <<>>)
          /\ pump \in {"none", "reading", "sending", "ended"}

LEMMA Todo ==
  /\ \A name \in Repl!replAllowed : \/ Repl!Steps(name) \in Unchecked
                                    \/ /\ Repl!Steps(name) \in Checked
                                       /\ name \in Tenantless
  /\ \A todo \in Unchecked : Head(todo) = "token" => Tail(todo) \in Unchecked
  /\ \A todo \in Checked : Head(todo) = "token" => Tail(todo) \in Checked
  /\ \A todo \in Unchecked \cup Checked :
        /\ todo # <<>> /\ Head(todo) = "flags" => Tail(todo) \in Checked
        /\ todo # <<>> /\ Head(todo) = "call" => todo \in Checked /\ Tail(todo) \in Checked
        /\ todo \in Seq({"token", "flags", "call"})
  BY DEF Unchecked, Checked, Repl!Steps, Repl!replAllowed, Repl!Tenantless, Repl!TokenFirst,
         Repl!FlagsFirst, Repl!FlaggedStreams, Repl!OtherStreams, Tenantless, FlaggedStreams,
         OtherStreams

LEMMA MoreCalls ==
  ASSUME NEW m \in Nat, NEW n \in Nat, m <= n, NEW q \in Seq(Call(m))
  PROVE  q \in Seq(Call(n))
<1>1. Call(m) \subseteq Call(n)
  BY DEF Call
<1> QED BY <1>1

LEMMA Second ==
  ASSUME NEW S, NEW q \in Seq(S), Len(q) = 2
  PROVE  q[2] \in S
  OBVIOUS

LEMMA Counted ==
  ASSUME NEW S, NEW q \in Seq(S), q # <<>>
  PROVE  /\ Len(q) \in Nat /\ Len(Tail(q)) = Len(q) - 1
         /\ Len(q) = 1 => Tail(q) = <<>>
  OBVIOUS

\* Steps between lines and keys, of the loop, the terminal and who kills the repl.
LEMMA LoopTypes ==
  ASSUME KeyInv, SessionInv, ReplInv,
         \/ Repl!Notify \/ Repl!Readline \/ Repl!ReadKey \/ Repl!ReturnKilled \/ Repl!Fails
         \/ Repl!Return \/ Repl!Die \/ \E k : Repl!Type(k)
  PROVE  ReplInv'
<1>1. UNCHANGED <<env, lines, requests>>
  BY DEF Repl!Notify, Repl!Readline, Repl!ReadKey, Repl!ReturnKilled, Repl!Fails, Repl!Return,
         Repl!End, Repl!Die, Repl!Type, Repl!Signal, Repl!Queue
<1>2. /\ mode' \in ReplModes /\ Len(input') <= Capacity
      /\ command' \in {Repl!NoCommand, command, Repl!Terminated(command)}
  <2>1. CASE Repl!Notify \/ Repl!Readline \/ Repl!Fails
    BY <2>1 DEF Repl!Notify, Repl!Readline, Repl!Fails, ReplInv, ReplModes
  <2>2. CASE Repl!ReturnKilled \/ Repl!Return \/ Repl!Die
    BY <2>2 DEF Repl!ReturnKilled, Repl!Return, Repl!End, Repl!Die, ReplInv, ReplModes
  <2>3. CASE Repl!ReadKey
    <3>1. PICK k : k \in Keys /\ k = Head(input) /\ Repl!Edit(k)
      BY <2>3, Consumed DEF Repl!ReadKey, KeyInv
    <3>2. mode = "editing" /\ command' = command
      BY <2>3 DEF Repl!ReadKey
    <3>3. mode' \in {"editing", "eval", "exited", "cooked"}
      BY <3>1, <3>2, KeyKinds DEF Repl!Edit
    <3>4. Len(input') <= Capacity
      <4>1. Len(input) \in Nat /\ Len(Tail(input)) = Len(input) - 1
        BY <2>3, Counted DEF Repl!ReadKey, KeyInv
      <4>2. input' = Tail(input) /\ Len(input) <= Capacity
        BY <2>3 DEF Repl!ReadKey, ReplInv
      <4> QED BY <4>1, <4>2, TerminalAssumption
    <3> QED BY <3>2, <3>3, <3>4 DEF ReplModes
  <2>4. ASSUME NEW k, Repl!Type(k)
        PROVE  /\ mode' \in ReplModes /\ Len(input') <= Capacity
               /\ command' \in {command, Repl!Terminated(command)}
    <3>1. CASE Repl!Signal
      <4>1. PICK n \in 0..Len(input) : input' = SubSeq(input, 1, n)
        BY <3>1 DEF Repl!Signal
      <4>2. Len(input) \in Nat /\ Len(input') = n
        BY <4>1, Shortened DEF KeyInv
      <4>3. Len(input') <= Capacity
        BY <4>1, <4>2, TerminalAssumption DEF ReplInv
      <4> QED BY <3>1, <4>3 DEF Repl!Signal, ReplInv, ReplModes
    <3>2. CASE Repl!Queue(k)
      <4>1. Len(input) \in Nat /\ Len(Append(input, k)) = Len(input) + 1
        BY Appended DEF KeyInv
      <4>2. Len(Append(input, k)) <= Capacity
        BY <2>4, <4>1, TerminalAssumption DEF Repl!Type
      <4> QED BY <3>2, <4>2 DEF Repl!Queue, ReplInv
    <3> QED BY <2>4, <3>1, <3>2 DEF Repl!Type
  <2> QED BY <2>1, <2>2, <2>3, <2>4
<1>3. CommandInv'
  <2>1. CASE command' = Repl!NoCommand
    BY <2>1 DEF CommandInv, Repl!NoCommand
  <2>2. CASE command' # Repl!NoCommand
    <3>1. DOMAIN command = {"line", "env", "todo", "killed"}
      BY DEF SessionInv, EnvInv
    <3>2. /\ command # Repl!NoCommand
          /\ command' = command \/ command' = [command EXCEPT !.killed = TRUE]
      BY <1>2, <2>2, <3>1, Terminates
    <3>3. /\ command'.line = command.line /\ command'.env = command.env
          /\ command'.todo = command.todo
      BY <3>1, <3>2
    <3> QED BY <1>1, <3>2, <3>3 DEF ReplInv, CommandInv, Repl!Name, Repl!Tenant
  <2> QED BY <2>1, <2>2
<1> QED BY <1>1, <1>2, <1>3 DEF ReplInv

\* Steps of a command.
LEMMA CommandTypes ==
  ASSUME KeyInv, SessionInv, ReplInv,
         Repl!GetClient \/ Repl!CheckFlags \/ Repl!CallAPI
  PROVE  ReplInv'
<1>1. /\ UNCHANGED <<mode, input, env, lines>> /\ command # Repl!NoCommand
      /\ command' = [command EXCEPT !.todo = Tail(@)]
      /\ command.todo # <<>>
      /\ \/ Head(command.todo) = "token" /\ requests' = requests
         \/ /\ Head(command.todo) = "flags" /\ requests' = requests
            /\ Repl!Name \in Tenantless \/ Repl!Tenant(command) \in Tenants
         \/ /\ Head(command.todo) = "call"
            /\ requests' = IF Repl!Name \in Tenantless THEN requests
                           ELSE Append(requests, [line |-> command.line,
                                                  tenant |-> Repl!Tenant(command)])
  BY DEF Repl!GetClient, Repl!CheckFlags, Repl!CallAPI, Repl!Doing, Repl!Done,
         Repl!Tenantless, Repl!FlaggedStreams, Repl!OtherStreams, Tenantless, FlaggedStreams,
         OtherStreams
<1>2. /\ command'.line = command.line /\ command'.env = command.env
      /\ command'.todo = Tail(command.todo)
  BY <1>1 DEF SessionInv, EnvInv
<1>3. /\ command.todo \in Unchecked \cup Checked
      /\ command.todo \in Checked => Repl!Name \in Tenantless \/ Repl!Tenant(command) \in Tenants
  BY <1>1 DEF ReplInv, CommandInv
<1>4. /\ Tail(command.todo) \in Unchecked \cup Checked
      /\ Tail(command.todo) \in Checked =>
           Repl!Name \in Tenantless \/ Repl!Tenant(command) \in Tenants
  <2>1. Unchecked \cap Checked = {}
    <3>1. \A todo \in Unchecked : (Len(todo) = 2 /\ todo[1] = "flags") \/ Len(todo) = 3
      BY DEF Unchecked
    <3>2. \A todo \in Checked : Len(todo) # 3 /\ ~(Len(todo) = 2 /\ todo[1] = "flags")
      BY DEF Checked
    <3> QED BY <3>1, <3>2
  <2>2. Head(command.todo) \in {"token", "flags", "call"}
    BY <1>1
  <2>3. CASE Head(command.todo) = "token"
    BY <1>3, <2>1, <2>3, Todo
  <2>4. CASE Head(command.todo) = "flags"
    BY <1>1, <1>3, <2>4, Todo
  <2>5. CASE Head(command.todo) = "call"
    BY <1>1, <1>3, <2>5, Todo
  <2> QED BY <2>2, <2>3, <2>4, <2>5
<1>5. CommandInv'
  BY <1>1, <1>2, <1>4 DEF CommandInv, Repl!Name, Repl!Tenant
<1>6. requests' \in Seq(Call(Len(lines)))
  <2> DEFINE r == [line |-> command.line, tenant |-> Repl!Tenant(command)]
  <2>1. CASE requests' = requests
    BY <2>1 DEF ReplInv
  <2>2. CASE /\ Head(command.todo) = "call" /\ Repl!Name \notin Tenantless
             /\ requests' = Append(requests, r)
    <3>1. command.todo \in Checked
      BY <1>1, <1>3, <2>2, Todo
    <3>2. r \in Call(Len(lines))
      BY <1>1, <1>3, <2>2, <3>1 DEF SessionInv, EnvInv, Call
    <3> HIDE DEF r
    <3> QED BY <2>2, <3>2, Appended DEF ReplInv
  <2> QED BY <1>1, <2>1, <2>2
<1> QED BY <1>1, <1>5, <1>6 DEF ReplInv

LEMMA EvaluateTypes ==
  ASSUME KeyInv, SessionInv, ReplInv, Repl!Evaluate
  PROVE  ReplInv'
<1>1. /\ mode = "eval" /\ mode' \in {"running", "exited", "cooked"} /\ UNCHANGED <<input, requests>>
      /\ lines' = Append(lines, line)
      /\ env' = IF Repl!IsSetTenant(line) THEN line[2] ELSE env
      /\ mode' # "running" => command' = command
      /\ mode' = "running" => /\ Head(line) \in Repl!replAllowed
                              /\ command'.line = Len(lines) + 1
                              /\ command'.todo = Repl!Steps(Head(line))
  BY DEF Repl!Evaluate
<1>2. env' \in Words \cup {"unset"}
  <2>1. Repl!IsSetTenant(line) => line[2] \in Words
    <3>1. line \in Seq(Words)
      BY DEF KeyInv
    <3> DEFINE l == line
    <3>2. l \in Seq(Words)
      BY <3>1
    <3> HIDE DEF l
    <3>3. Len(l) = 2 => l[2] \in Words
      BY <3>2, Second
    <3> QED BY <3>3 DEF l, Repl!IsSetTenant
  <2> QED BY <1>1, <2>1 DEF ReplInv
<1>3. requests' \in Seq(Call(Len(lines')))
  <2>1. Len(lines) \in Nat /\ Len(lines') = Len(lines) + 1
    BY <1>1, Appended DEF KeyInv
  <2> DEFINE m == Len(lines)
             n == Len(lines')
  <2>2. m \in Nat /\ n \in Nat /\ m <= n
    BY <2>1
  <2>3. requests' \in Seq(Call(m))
    BY <1>1 DEF ReplInv
  <2> HIDE DEF m, n
  <2>4. requests' \in Seq(Call(n))
    BY <2>2, <2>3, MoreCalls
  <2> QED BY <2>4 DEF n
<1>4. CommandInv'
  <2>1. CASE mode' # "running"
    <3>1. command' = command
      BY <1>1, <2>1
    <3>2. ASSUME command # Repl!NoCommand
          PROVE  lines'[command.line] = lines[command.line]
      <4>1. command.line \in 1..Len(lines)
        BY <3>2 DEF SessionInv, EnvInv
      <4> QED BY <1>1, <4>1, Appended DEF KeyInv
    <3> QED BY <3>1, <3>2 DEF ReplInv, CommandInv, Repl!Name, Repl!Tenant
  <2>2. CASE mode' = "running"
    <3>1. lines'[command'.line] = line
      BY <1>1, <2>2, Appended DEF KeyInv
    <3>2. Repl!Name' = Head(line)
      BY <3>1 DEF Repl!Name
    <3>3. \A todo \in Unchecked : todo \notin Checked
      <4>1. \A todo \in Unchecked : (Len(todo) = 2 /\ todo[1] = "flags") \/ Len(todo) = 3
        BY DEF Unchecked
      <4>2. \A todo \in Checked : Len(todo) # 3 /\ ~(Len(todo) = 2 /\ todo[1] = "flags")
        BY DEF Checked
      <4> QED BY <4>1, <4>2
    <3>4. /\ command'.todo \in Unchecked \cup Checked
          /\ command'.todo \in Checked => Head(line) \in Tenantless
      BY <1>1, <2>2, <3>3, Todo
    <3> QED BY <3>2, <3>4 DEF CommandInv
  <2> QED BY <2>1, <2>2
<1> QED BY <1>1, <1>2, <1>3, <1>4 DEF ReplInv, ReplModes

LEMMA StartTypes ==
  ASSUME ReplInv, Repl!Start
  PROVE  ReplInv'
<1>1. /\ mode = "none" /\ mode' = "starting" /\ env' = Repl!WithDotenv(Inherited)
      /\ UNCHANGED <<input, command, lines, requests>>
  BY DEF Repl!Start
<1>2. env' \in Words \cup {"unset"}
  BY <1>1, TerminalAssumption DEF Repl!WithDotenv
<1>3. CommandInv'
  BY <1>1 DEF ReplInv, CommandInv, Repl!Name, Repl!Tenant
<1> QED BY <1>1, <1>2, <1>3 DEF ReplInv, ReplModes

LEMMA InitTypes == Init => ReplInv /\ WebInv
<1> SUFFICES ASSUME Init PROVE ReplInv /\ WebInv
  OBVIOUS
<1>1. ReplInv
  <2>1. Len(<<>>) <= Capacity
    BY TerminalAssumption
  <2>2. requests \in Seq(Call(Len(lines)))
    BY Nothing DEF Init, Repl!Init
  <2> QED BY <2>1, <2>2 DEF Init, Repl!Init, ReplInv, ReplModes, CommandInv
<1>2. WebInv
  <2>1. inbox \in Seq(UserFrames \cup {PageFrame})
    BY Nothing DEF Init
  <2> QED BY <2>1, TerminalAssumption DEF Init, WebInv
<1> QED BY <1>1, <1>2

LEMMA WebTypes ==
  ASSUME KeyInv, WebInv, Next
  PROVE  WebInv'
<1>1. CASE UserSends \/ PageSends
  <2>1. PICK f \in UserFrames \cup {PageFrame} : inbox' = Append(inbox, f)
    BY <1>1 DEF UserSends, PageSends, Send
  <2>2. inbox' \in Seq(UserFrames \cup {PageFrame})
    BY <2>1, Appended DEF WebInv
  <2>3. sent' \in 0..MaxFrames
    BY <1>1, TerminalAssumption DEF UserSends, PageSends, WebInv
  <2> QED BY <1>1, <2>2, <2>3 DEF UserSends, PageSends, WebInv
<1>2. CASE Leave
  <2>1. PICK n \in 0..Len(inbox) : inbox' = SubSeq(inbox, 1, n)
    BY <1>2 DEF Leave
  <2>2. inbox' \in Seq(UserFrames \cup {PageFrame})
    BY <2>1, Shortened DEF WebInv
  <2> QED BY <1>2, <2>2 DEF Leave, WebInv
<1>3. CASE ReadMessage
  <2>1. inbox' \in Seq(UserFrames \cup {PageFrame})
    BY <1>3, Consumed DEF ReadMessage, WebInv
  <2> QED BY <1>3, <2>1 DEF ReadMessage, WebInv
<1>4. CASE Write
  <2>1. pending # <<>> /\ pending \in Seq(Keys)
    BY <1>4 DEF Write, KeyInv
  <2>2. /\ Len(pending) = 1 => Tail(pending) = <<>>
        /\ Len(pending) # 1 => Tail(pending) # <<>>
    BY <2>1, Counted, Consumed
  <2> QED BY <1>4, <2>2 DEF Write, WebInv
<1>5. CASE \/ Upgrade \/ UpgradeFails \/ StartFails \/ Start \/ ReadFails \/ WriteFails
           \/ CloseAndKill \/ Wait \/ Killed
  BY <1>5 DEF Upgrade, UpgradeFails, StartFails, Start, ReadFails, WriteFails, CloseAndKill,
              Wait, Killed, WebInv
<1>6. CASE PumpReads \/ PumpSends \/ PumpEnds \/ RunRepl \/ ReplFails \/ RunCommand
  BY <1>6 DEF PumpReads, PumpSends, PumpEnds, RunRepl, ReplFails, RunCommand, web, WebInv
<1> QED BY <1>1, <1>2, <1>3, <1>4, <1>5, <1>6 DEF Next, Handle

LEMMA ReplTypes ==
  ASSUME KeyInv, SessionInv, ReplInv, Next
  PROVE  ReplInv'
<1>1. CASE Start
  BY <1>1, StartTypes DEF Start
<1>2. CASE Write \/ Killed
  BY <1>2, LoopTypes DEF Write, Killed
<1>3. CASE RunRepl \/ ReplFails \/ RunCommand
  BY <1>3, LoopTypes, CommandTypes, EvaluateTypes
     DEF RunRepl, ReplFails, RunCommand, Repl!Loop, Repl!Process
<1>4. CASE \/ UserSends \/ PageSends \/ Leave \/ ReadMessage \/ ReadFails \/ WriteFails
           \/ Upgrade \/ UpgradeFails \/ StartFails \/ CloseAndKill \/ Wait
           \/ PumpReads \/ PumpSends \/ PumpEnds
  <2>1. UNCHANGED <<mode, input, line, env, command, lines, requests>>
    BY <1>4 DEF UserSends, PageSends, Leave, ReadMessage, ReadFails, WriteFails, Upgrade,
           UpgradeFails, StartFails, CloseAndKill, Wait, PumpReads, PumpSends, PumpEnds, repl
  <2> QED BY <2>1 DEF ReplInv, CommandInv, Repl!Name, Repl!Tenant
<1> QED BY <1>1, <1>2, <1>3, <1>4 DEF Next, Handle

\* Whatever is typed, pasted, interrupted or killed, every part keeps its shape: the
\* terminal never takes more than it holds, the repl waits for a command only when there
\* is one, and an API call is only ever made for a tenant that is a UUID.
THEOREM TypeCorrect == Spec => []TypeOK
<1>1. Init => IInv /\ ReplInv /\ WebInv
  BY InitIInv, InitTypes
<1>2. IInv /\ ReplInv /\ WebInv /\ [Next]_vars => IInv' /\ ReplInv' /\ WebInv'
  <2> SUFFICES ASSUME IInv, ReplInv, WebInv, [Next]_vars
               PROVE  IInv' /\ ReplInv' /\ WebInv'
    OBVIOUS
  <2>1. IInv'
    BY NextIInv
  <2>2. CASE Next
    BY <2>1, <2>2, ReplTypes, WebTypes DEF IInv
  <2>3. CASE UNCHANGED vars
    <3>1. UNCHANGED <<mode, input, line, env, command, lines, requests>>
      BY <2>3 DEF vars, repl
    <3>2. ReplInv'
      BY <3>1 DEF ReplInv, CommandInv, Repl!Name, Repl!Tenant
    <3> QED BY <2>1, <2>3, <3>2 DEF vars, WebInv
  <2> QED BY <2>2, <2>3
<1>3. IInv /\ ReplInv /\ WebInv => TypeOK
  <2> SUFFICES ASSUME IInv, ReplInv, WebInv PROVE TypeOK
    OBVIOUS
  <2>1. command.todo \in Seq({"token", "flags", "call"})
    <3>1. CASE command = Repl!NoCommand
      <4>1. command.todo = <<>>
        BY <3>1 DEF Repl!NoCommand
      <4> QED BY <4>1, Nothing
    <3>2. CASE command # Repl!NoCommand
      BY <3>2, Todo DEF ReplInv, CommandInv
    <3> QED BY <3>1, <3>2
  <2>2. input \in Seq(Repl!Typed(Words))
    BY DEF IInv, KeyInv, Keys, Typed, Repl!Typed, Control, Repl!Control
  <2>3. /\ mode = "running" => command # Repl!NoCommand
        /\ command # Repl!NoCommand => mode \in {"running", "exited"}
    BY DEF IInv, LeftInv
  <2>4. Repl!TypeOK
    BY <2>1, <2>2, <2>3 DEF IInv, KeyInv, ReplInv, ReplModes, Call, Repl!TypeOK
  <2> QED BY <2>4 DEF WebInv, TypeOK
<1> QED BY <1>1, <1>2, <1>3, PTL DEF Spec
=============================================================================
