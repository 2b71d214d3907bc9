---------------------------- MODULE AtomicCalls ----------------------------
(***************************************************************************)
(* What an application may rely on about the API calls of an SDK client:   *)
(* a call takes effect at the agrirouter at most once, and one that        *)
(* reports success took effect, successfully, while it was running.  One   *)
(* that reports an error may have taken effect, may still do so later, or  *)
(* never.                                                                  *)
(***************************************************************************)
CONSTANTS Calls,  \* the calls the application makes
          Op,     \* the operations
          Writes  \* those that set the endpoint: put to the call, delete to none

VARIABLES op,       \* what each call asks for
          state,    \* "new", "running", "ok" or "error"
          effect,   \* what it did at the agrirouter: "none", "done", "refused"
          endpoint  \* the call whose put the endpoint is made of, or "absent"

vars == <<op, state, effect, endpoint>>

Init == /\ op = [c \in Calls |-> "none"]
        /\ state = [c \in Calls |-> "new"]
        /\ effect = [c \in Calls |-> "none"]
        /\ endpoint = "absent"

Begin(c) == /\ state[c] = "new"
            /\ \E o \in Op : op' = [op EXCEPT ![c] = o]
            /\ state' = [state EXCEPT ![c] = "running"]
            /\ UNCHANGED <<effect, endpoint>>

\* The single moment at which a call takes effect, also after it was given up.
Perform(c) == /\ state[c] \in {"running", "error"}
              /\ effect[c] = "none"
              /\ effect' = [effect EXCEPT ![c] = "done"]
              /\ endpoint' = CASE op[c] = "put"    -> c
                               [] op[c] = "delete" -> "absent"
                               [] op[c] \notin Writes -> endpoint
              /\ UNCHANGED <<op, state>>

Refuse(c) == /\ state[c] \in {"running", "error"}
             /\ effect[c] = "none"
             /\ effect' = [effect EXCEPT ![c] = "refused"]
             /\ UNCHANGED <<op, state, endpoint>>

Succeed(c) == /\ state[c] = "running"
              /\ effect[c] = "done"
              /\ state' = [state EXCEPT ![c] = "ok"]
              /\ UNCHANGED <<op, effect, endpoint>>

Fail(c) == /\ state[c] = "running"
           /\ state' = [state EXCEPT ![c] = "error"]
           /\ UNCHANGED <<op, effect, endpoint>>

\* A call that fails before its request is sent.
BeginAndFail(c) == /\ state[c] = "new"
                   /\ \E o \in Op : op' = [op EXCEPT ![c] = o]
                   /\ state' = [state EXCEPT ![c] = "error"]
                   /\ UNCHANGED <<effect, endpoint>>

Next == \E c \in Calls : \/ Begin(c) \/ Perform(c) \/ Refuse(c) \/ Succeed(c) \/ Fail(c)
                         \/ BeginAndFail(c)

Spec == Init /\ [][Next]_vars
=============================================================================
