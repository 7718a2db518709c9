--------------------------- MODULE WorkerDelivery ---------------------------
(***************************************************************************)
(* What Manager assumes of one delivery: its actions WorkerDeliver,        *)
(* WorkerDelivered and WorkerInterrupted, for one worker alone.            *)
(***************************************************************************)
VARIABLES at, verdict, ended, empty

vars == <<at, verdict, ended, empty>>

\* empty: no receiver was resolved.
Init == at = "deliver" /\ verdict = "none" /\ ended = FALSE /\ empty \in BOOLEAN

End == ~ended /\ ended' = TRUE /\ UNCHANGED <<at, verdict, empty>>

Decide(v) == at' = "complete" /\ verdict' = v /\ UNCHANGED <<ended, empty>>

Deliver ==
    /\ at = "deliver"
    /\ \/ empty /\ Decide("noReceivers")
       \/ ~empty /\ ended /\ Decide("canceled")
       \/ ~empty /\ ~ended /\ at' = "sending" /\ UNCHANGED <<verdict, ended, empty>>

\* The targets' results, or, once the context has ended, its error.
Delivered   == at = "sending" /\ \E v \in {"delivered", "failed"} : Decide(v)
Interrupted == at = "sending" /\ ended /\ Decide("canceled")

Next == End \/ Deliver \/ Delivered \/ Interrupted

Spec == Init /\ [][Next]_vars
=============================================================================
