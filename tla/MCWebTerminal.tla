--------------------------- MODULE MCWebTerminal ---------------------------
(***************************************************************************)
(* A user who calls the API with and without a flag, listens, changes the  *)
(* tenant, starts a line without ending it, and presses ^C and ^D, and a   *)
(* page that sets its own tenant; .env names a third one.                  *)
(***************************************************************************)
EXTENDS WebTerminal

MCTenants == {"t1", "t2", "t3"}

MCFlags == {"-t=t2", "-t=$ART_TENANT_ID", "-t=not-a-uuid"}

MCFlagValue == [f \in MCFlags |-> CASE f = "-t=t2"         -> "t2"
                                    [] f = "-t=not-a-uuid" -> "not-a-uuid"
                                    [] OTHER               -> "$ART_TENANT_ID"]

MCWords == MCTenants \cup MCFlags \cup replAllowed \cup
             {"set-tenant", "exit", "quit", "serve", "not-a-uuid"}

\* A flag stays one, but not of a tenant; anything else becomes a word of no meaning.
MCMerged == [v \in MCWords |->
               [w \in MCWords |-> IF v \in MCFlags THEN "-t=not-a-uuid" ELSE "not-a-uuid"]]

Entered(words) == <<Text(words), Key("enter")>>

MCPageFrame == Entered(<<"set-tenant", "t1">>)

MCUserFrames == {Entered(<<"list-tenant-endpoints">>),
                 Entered(<<"set-tenant", "t2">>),
                 Entered(<<"receive-events">>),
                 <<Text(<<"put-endpoint", "-t=t2">>)>>,
                 <<Key("interrupt")>>,
                 <<Key("eof")>>,
                 <<>>}
=============================================================================
