--------------------------- MODULE EventDelivery ---------------------------
(***************************************************************************)
(* What a receive call of the SDK promises, without HTTP, goroutines or    *)
(* payload transfers: the frames of the stream are settled one at a time, *)
(* in the order they arrived, each with one fate its content allows, and  *)
(* none after the call has returned.  Frames not yet settled may be lost   *)
(* with the connection.                                                    *)
(***************************************************************************)
EXTENDS EventFrames, Sequences

CONSTANT Frames   \* the frames a server may send

VARIABLES call,     \* the receive call, fixed when it starts
          arrived,  \* the frames that reached the application, in order
          fate,     \* fate[k] is what became of the k-th of them
          returned  \* the call has returned to its caller

vars == <<call, arrived, fate, returned>>

TypeOK == /\ call \in Call
          /\ arrived \in Seq(Frame)
          /\ fate \in Seq(Fate)
          /\ Len(fate) <= Len(arrived)
          /\ returned \in BOOLEAN

Init == /\ call \in Call
        /\ arrived = <<>>
        /\ fate = <<>>
        /\ returned = FALSE

Arrive == /\ ~returned
          /\ \E f \in Frames : arrived' = Append(arrived, f)
          /\ UNCHANGED <<call, fate, returned>>

\* The connection breaks: what nobody has looked at yet is gone.
Lose == /\ arrived' = SubSeq(arrived, 1, Len(fate))
        /\ UNCHANGED <<call, fate, returned>>

Settle == /\ ~returned
          /\ Len(fate) < Len(arrived)
          /\ \E v \in Fates(call, arrived[Len(fate) + 1]) : fate' = Append(fate, v)
          /\ UNCHANGED <<call, arrived, returned>>

Return == /\ ~returned
          /\ returned' = TRUE
          /\ UNCHANGED <<call, arrived, fate>>

\* The connection breaks for good.
LoseAndReturn == /\ ~returned
                 /\ returned' = TRUE
                 /\ arrived' = SubSeq(arrived, 1, Len(fate))
                 /\ UNCHANGED <<call, fate>>

Next == Arrive \/ Lose \/ Settle \/ Return \/ LoseAndReturn

Spec == Init /\ [][Next]_vars
=============================================================================
