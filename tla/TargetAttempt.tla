--------------------------- MODULE TargetAttempt ---------------------------
(***************************************************************************)
(* What one Send of a target promises (notify/types.go, Target, and        *)
(* docs/content/custom-targets.md): it is accepted by the other side at    *)
(* most once, it succeeds only if it was accepted, and it returns once.    *)
(* It may fail although it was accepted: the acknowledgement can be lost.  *)
(***************************************************************************)
VARIABLES
    verdict,    \* "none" until Send returns
    accepted    \* the other side has the notification

vars == <<verdict, accepted>>

Verdicts == {"ok", "transport", "permanent", "unclassified"}

Init == verdict = "none" /\ accepted = FALSE

\* Perhaps only after Send has given up.
Accept == ~accepted /\ accepted' = TRUE /\ UNCHANGED verdict

Return ==
    /\ verdict = "none"
    /\ \E v \in Verdicts : (v = "ok" => accepted) /\ verdict' = v
    /\ UNCHANGED accepted

Next == Accept \/ Return

Spec == Init /\ [][Next]_vars
=============================================================================
