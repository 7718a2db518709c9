----------------------------- MODULE Redelivery -----------------------------
(***************************************************************************)
(* Delivery composed with what the targets promise (TargetAttempt, which   *)
(* Smtp and Webhook implement): every Send of withRetry is an attempt that *)
(* the other side may accept, at once, late or never, and whose            *)
(* acknowledgement may be lost on the way back.                            *)
(***************************************************************************)
EXTENDS Delivery

VARIABLE accepted  \* the attempts that the other side has accepted: <<target, n>>

RInit == Init /\ accepted = {}

Begun(x) == {<<x, n>> : n \in 1..sent[x]}

\* Perhaps only after its Send has given up, even during a later one.
Accept ==
    /\ \E x \in Targets : \E a \in Begun(x) \ accepted : accepted' = accepted \union {a}
    /\ UNCHANGED vars

\* A Send succeeds only if its own attempt was accepted.
Answer ==
    /\ SendReturns
    /\ result'[Here] = "ok" => <<Here, sent[Here]>> \in accepted
    /\ UNCHANGED accepted

\* What Delivery does besides.
Proceed ==
    /\ CtxEnds \/ Worker \/ TimerFires \/ SendPanics \/ Terminated
    /\ UNCHANGED accepted

RNext == Accept \/ Answer \/ Proceed

RSpec == RInit /\ [][RNext]_<<vars, accepted>>

\* The goroutine runs; timers may be as long as MaxBackoff and RetryAfter
\* allow, and a Send need not return before its context has ended.
RSpecHonorCtx ==
    /\ RSpec
    /\ WF_<<vars, accepted>>(Worker /\ UNCHANGED accepted)
    /\ WF_<<vars, accepted>>(ctxDone /\ (Answer \/ (SendPanics /\ UNCHANGED accepted)))

\* Timers fire and targets return.
TargetsReturn ==
    WF_<<vars, accepted>>(\/ TimerFires /\ UNCHANGED accepted
                          \/ Answer
                          \/ SendPanics /\ UNCHANGED accepted)

-----------------------------------------------------------------------------
(***************************************************************************)
(* Properties                                                              *)
(***************************************************************************)
Reached(x) == \E n \in 1..sent[x] : <<x, n>> \in accepted

\* manager.go:49, delivery.go:20-29, 34-58.  A completion without error is the
\* other side's word, for every target of every receiver; a panic of a target
\* aside, see NilMeansDelivered.
NilMeansReached == pc = "done" /\ told = "nil" => \A x \in Targets : Reached(x)

\* docs/content/retries.md:164-166.  Only retries duplicate a notification: two
\* accepted attempts at a target take a receiver that retries.
DuplicatesNeedRetries ==
    \A x \in Targets :
        plan[x[1]].count \in -(MaxInt + 1)..0 \/ plan[x[1]].retries = {}
          => \A m, n \in 1..sent[x] :
               <<x, m>> \in accepted /\ <<x, n>> \in accepted => m = n

\* withRetry has returned for a target.
Finished(x) ==
    \/ pc \in {"join", "callback", "done"}
    \/ pc # "start" /\ (x[1] < r \/ (x[1] = r /\ x[2] < t))

\* What dispatchReceiver learns of a target, and what its policies make of it.
ErrsOf(x) == {e \in errs : e.at = x}
Outcome(x) ==
    IF ~Finished(x) THEN "none"
    ELSE IF ErrsOf(x) = {} THEN "ok"
    ELSE IF \E e \in ErrsOf(x) : e.err = "transport" THEN "transport"
    ELSE IF \E e \in ErrsOf(x) : e.err = "permanent" THEN "permanent"
    ELSE "unclassified"

Whole(x) == INSTANCE TargetAttempt WITH verdict <- Outcome(x), accepted <- Reached(x)

\* retry.go:25-67.  With all its retries, the delivery to one target is to its
\* caller what one attempt is: it ends once, with one outcome that stays, and
\* with success only if the other side has the notification.
TargetsKeepPromise ==
    /\ \A x \in Targets : Whole(x)!Init
    /\ [][\A x \in Targets : [Whole(x)!Next]_(Whole(x)!vars)]_<<vars, accepted>>

\* retry.go:25, 77-82.  With timers that fire and targets that return, the delivery
\* ends; and once its context has ended it does however long the waits are, with
\* targets that heed the context.
DeliveryEnds ==
    /\ TargetsReturn => <>Ended
    /\ ctxDone ~> Ended
=============================================================================
