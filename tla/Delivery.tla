------------------------------ MODULE Delivery ------------------------------
(***************************************************************************)
(* One delivery: dispatcher.dispatch from the resolved receivers on, the   *)
(* loops of notify/delivery.go over receivers and targets, and withRetry   *)
(* of notify/retry.go around each target, while the context may end at any *)
(* moment.  Durations are those of Backoff; here a wait is zero or not.    *)
(***************************************************************************)
EXTENDS Integers, Sequences, FiniteSets

CONSTANTS
    Plans,      \* resolved receivers: sequences of [targets, count, retries]
    MaxInt,     \* the largest int
    Failures    \* the kinds of error a target may return

ASSUME MaxIntAssumption == MaxInt \in Nat \ {0}
\* "ctx" stands for the error of the context.
ASSUME FailuresAssumption == Failures \intersect {"ok", "panic", "none", "ctx"} = {}

\* validateReceivers demands a target; any Count; a nil policy retries nothing.
Receivers == [targets : Nat \ {0}, count : -(MaxInt + 1)..MaxInt, retries : SUBSET Failures]
ASSUME PlansAssumption == Plans \subseteq Seq(Receivers)

VARIABLES
    plan,       \* the receivers in the order of dispatch
    pc,         \* where the worker is
    r, t,       \* loop variables of dispatch and dispatchReceiver
    executed,   \* withRetry's count of sends; also its attempt index
    ctxDone,    \* the context has ended
    errs,       \* the DeliveryErrors collected so far
    outcome,    \* dispatch's variable of that name; "nil" at first
    told,       \* what the completion callback was told
    sent,       \* per target, how many Sends have begun
    result,     \* per target, what the last Send returned
    lateSends   \* Sends that began after the context had ended

progVars == <<pc, r, t, executed, errs, outcome, told>>
logVars  == <<sent, result, lateSends>>
vars     == <<plan, ctxDone, progVars, logVars>>

Targets == UNION {{<<i, j>> : j \in 1..plan[i].targets} : i \in 1..Len(plan)}
Here    == <<r, t>>

\* int addition wraps.
Wrap(n) == IF n > MaxInt THEN n - 2 * (MaxInt + 1) ELSE n

\* Mutant: the initial attempt is not counted.
MaxAttemptsCount(count) == IF count > 1 THEN count ELSE 1

\* max(cfg.Count+1, 1)
MaxAttempts(count) == IF Wrap(count + 1) > 1 THEN Wrap(count + 1) ELSE 1

Init ==
    /\ plan \in Plans
    /\ ctxDone = FALSE
    /\ pc = "start" /\ r = 1 /\ t = 1 /\ executed = 0 /\ errs = {}
    /\ outcome = "nil" /\ told = "none"
    /\ sent = [x \in Targets |-> 0]
    /\ result = [x \in Targets |-> "none"]
    /\ lateSends = 0

Goto(from, to) == pc = from /\ pc' = to

\* Start's context or a Shutdown deadline ends the context.
CtxEnds ==
    /\ ~ctxDone /\ ctxDone' = TRUE
    /\ UNCHANGED <<plan, progVars, logVars>>

\* len(receivers) == 0, or on to the first target.
Begin ==
    /\ IF plan = << >>
       THEN Goto("start", "callback") /\ outcome' = "noReceivers"
       ELSE Goto("start", "attempt") /\ UNCHANGED outcome
    /\ UNCHANGED <<plan, ctxDone, r, t, executed, errs, told, logVars>>

\* Mutant: the first failing target of a receiver ends the delivery to it.
EndTargetGivesUp(err) ==
    /\ errs' = IF err = "none" THEN errs
               ELSE errs \union {[at |-> Here, attempts |-> executed, err |-> err]}
    /\ executed' = 0
    /\ IF err = "none" /\ t < plan[r].targets
       THEN pc' = "attempt" /\ t' = t + 1 /\ UNCHANGED r
       ELSE IF r < Len(plan)
       THEN pc' = "attempt" /\ r' = r + 1 /\ t' = 1
       ELSE pc' = "join" /\ UNCHANGED <<r, t>>

\* withRetry returns err (or nil) to dispatchReceiver, which goes on to the
\* next target, and dispatch to the next receiver.
EndTarget(err) ==
    /\ errs' = IF err = "none" THEN errs
               ELSE errs \union {[at |-> Here, attempts |-> executed, err |-> err]}
    /\ executed' = 0
    /\ IF t < plan[r].targets
       THEN pc' = "attempt" /\ t' = t + 1 /\ UNCHANGED r
       ELSE IF r < Len(plan)
       THEN pc' = "attempt" /\ r' = r + 1 /\ t' = 1
       ELSE pc' = "join" /\ UNCHANGED <<r, t>>

\* The head of the loop over attempts.  The range over maxAttempts is never
\* exhausted, because maxAttempts is positive and Judge returns in time; with
\* no attempt at all withRetry would return a nil error.
Attempt ==
    /\ pc = "attempt"
    /\ IF executed >= MaxAttempts(plan[r].count)
       THEN EndTarget(result[Here])
       ELSE /\ pc' \in IF executed = 0 THEN {"check"} ELSE {"check", "wait"}
            /\ UNCHANGED <<r, t, executed, errs>>
    /\ UNCHANGED <<plan, ctxDone, outcome, told, logVars>>

\* waitForRetry: case <-timer.C
TimerFires ==
    /\ Goto("wait", "check")
    /\ UNCHANGED <<plan, ctxDone, r, t, executed, errs, outcome, told, logVars>>

\* Mutant: the wait is a plain sleep.
SleepsOn == FALSE /\ UNCHANGED vars

\* waitForRetry: case <-ctx.Done()
WaitInterrupted ==
    /\ pc = "wait" /\ ctxDone
    /\ EndTarget("ctx")
    /\ UNCHANGED <<plan, ctxDone, outcome, told, logVars>>

\* Mutant: only the waits look at the context.
CheckNothing ==
    /\ Goto("check", "call")
    /\ UNCHANGED <<plan, ctxDone, r, t, executed, errs, outcome, told, logVars>>

\* Mutant: the result of the last attempt hides the end of the context.
CheckReturnsLast ==
    /\ pc = "check"
    /\ IF ctxDone
       THEN EndTarget(IF result[Here] = "ok" THEN "none" ELSE result[Here])
       ELSE pc' = "call" /\ UNCHANGED <<r, t, executed, errs>>
    /\ UNCHANGED <<plan, ctxDone, outcome, told, logVars>>

\* select on ctx.Done() with a default
Check ==
    /\ pc = "check"
    /\ IF ctxDone
       THEN EndTarget("ctx")
       ELSE pc' = "call" /\ UNCHANGED <<r, t, executed, errs>>
    /\ UNCHANGED <<plan, ctxDone, outcome, told, logVars>>

\* fn() calls target.Send; the context may have ended since the check.
Call ==
    /\ Goto("call", "sending")
    /\ sent' = [sent EXCEPT ![Here] = @ + 1]
    /\ lateSends' = IF ctxDone THEN lateSends + 1 ELSE lateSends
    /\ UNCHANGED <<plan, ctxDone, r, t, executed, errs, outcome, told, result>>

\* Mutant: only a success counts as executed.
SendReturnsUncounted ==
    /\ Goto("sending", "judge")
    /\ \E res \in Failures \union {"ok"} :
         /\ result' = [result EXCEPT ![Here] = res]
         /\ executed' = IF res = "ok" THEN executed + 1 ELSE executed
    /\ UNCHANGED <<plan, ctxDone, r, t, errs, outcome, told, sent, lateSends>>

\* Send returns, at any time by itself ...
SendReturns ==
    /\ Goto("sending", "judge")
    /\ executed' = executed + 1
    /\ \E res \in Failures \union {"ok"} : result' = [result EXCEPT ![Here] = res]
    /\ UNCHANGED <<plan, ctxDone, r, t, errs, outcome, told, sent, lateSends>>

\* ... or panics.
SendPanics ==
    /\ Goto("sending", "panicking")
    /\ result' = [result EXCEPT ![Here] = "panic"]
    /\ UNCHANGED <<plan, ctxDone, r, t, executed, errs, outcome, told, sent, lateSends>>

\* Mutant: the policy is not asked.
JudgeRetriesAll ==
    /\ pc = "judge"
    /\ CASE result[Here] = "ok" -> EndTarget("none")
         [] result[Here] # "ok" /\ ctxDone -> EndTarget("ctx")
         [] result[Here] # "ok" /\ ~ctxDone /\ executed >= MaxAttempts(plan[r].count)
              -> EndTarget(result[Here])
         [] OTHER -> pc' = "attempt" /\ UNCHANGED <<r, t, executed, errs>>
    /\ UNCHANGED <<plan, ctxDone, outcome, told, logVars>>

\* withRetry after fn: success, the end of the context, the end of the attempts
\* or of the policy's patience, or another attempt.
Judge ==
    /\ pc = "judge"
    /\ CASE result[Here] = "ok" -> EndTarget("none")
         [] result[Here] # "ok" /\ ctxDone -> EndTarget("ctx")
         [] result[Here] # "ok" /\ ~ctxDone
              /\ (executed >= MaxAttempts(plan[r].count) \/ result[Here] \notin plan[r].retries)
              -> EndTarget(result[Here])
         [] OTHER -> pc' = "attempt" /\ UNCHANGED <<r, t, executed, errs>>
    /\ UNCHANGED <<plan, ctxDone, outcome, told, logVars>>

\* Mutant: the error of the last target alone decides.
JoinLast ==
    /\ Goto("join", "callback")
    /\ LET last == {e \in errs : e.at = Here} IN
       outcome' = CASE last = {} -> "nil"
                    [] \E e \in last : e.err = "ctx" -> "canceled"
                    [] OTHER -> "failed"
    /\ UNCHANGED <<plan, ctxDone, r, t, executed, errs, told, logVars>>

\* errors.Join over targets and receivers; dispatcher.dispatch keeps the
\* error, in which errors.Is finds the context's if a target ended with it.
Join ==
    /\ Goto("join", "callback")
    /\ outcome' = CASE errs = {} -> "nil"
                    [] \E e \in errs : e.err = "ctx" -> "canceled"
                    [] OTHER -> "failed"
    /\ UNCHANGED <<plan, ctxDone, r, t, executed, errs, told, logVars>>

\* The deferred onComplete: after a return, ...
Callback ==
    /\ Goto("callback", "done")
    /\ told' = outcome
    /\ UNCHANGED <<plan, ctxDone, r, t, executed, errs, outcome, logVars>>

\* ... and while a panic unwinds the stack, which then ends the program.
CallbackInPanic ==
    /\ Goto("panicking", "crashed")
    /\ told' = outcome
    /\ UNCHANGED <<plan, ctxDone, r, t, executed, errs, outcome, logVars>>

Ended == pc \in {"done", "crashed"}
Terminated == Ended /\ UNCHANGED vars

\* What the worker does by itself.
Worker ==
    \/ Begin \/ Attempt \/ WaitInterrupted \/ Check \/ Call \/ Judge \/ Join
    \/ Callback \/ CallbackInPanic

Next == CtxEnds \/ Worker \/ TimerFires \/ SendReturns \/ SendPanics \/ Terminated

Spec == Init /\ [][Next]_vars

-----------------------------------------------------------------------------
(***************************************************************************)
(* Properties                                                              *)
(***************************************************************************)
Results == Failures \union {"ok", "panic", "none"}
Errors  == [at : Targets, attempts : 0..MaxInt, err : Failures \union {"ctx"}]

\* Types; in particular r and t always point at a target of the plan.
TypeOK ==
    /\ plan \in Plans
    /\ pc \in {"start", "attempt", "wait", "check", "call", "sending", "judge",
               "join", "callback", "panicking", "done", "crashed"}
    /\ plan # << >> => Here \in Targets
    /\ executed \in 0..MaxInt
    /\ ctxDone \in BOOLEAN
    /\ errs \subseteq Errors
    /\ outcome \in {"nil", "noReceivers", "failed", "canceled"}
    /\ told \in {"none", "nil", "noReceivers", "failed", "canceled"}
    /\ sent \in [Targets -> 0..MaxInt]
    /\ result \in [Targets -> Results]
    /\ lateSends \in Nat

\* The documented number of attempts (types.go:138): the initial one and
\* count retries.
Promised(count) == IF count < 0 THEN 1 ELSE count + 1

\* retry.go:25-67.  Neither timers nor failures make more sends than Count
\* allows, and a target whose every failure is one the policy retries is given
\* up no earlier, unless the context ends.  The largest count is set aside:
\* see CountHonored.
RetriesExhausted ==
    \A x \in Targets : plan[x[1]].count < MaxInt =>
        /\ sent[x] <= Promised(plan[x[1]].count)
        /\ \A e \in errs :
             e.at = x /\ e.err \in plan[x[1]].retries
               => sent[x] = Promised(plan[x[1]].count)

\* types.go:138: "Count is the number of retries after the initial attempt",
\* for every count.
CountHonored ==
    \A e \in errs : LET cfg == plan[e.at[1]] IN
        e.err \in cfg.retries => sent[e.at] = Promised(cfg.count)

\* retry.go:41-45, 61-63.  The end of the context may overtake the check before
\* one Send; no other Send of this delivery, to whichever target or receiver,
\* begins after it.
OneLateSend == lateSends <= 1

\* There are as many sends as there should be.
SendsAreBounded == RetriesExhausted /\ OneLateSend

\* delivery.go:23-28, 34-58.  When the callback is due, every target has been
\* dealt with, whatever became of the others: it has acknowledged, or exactly one
\* DeliveryError speaks of it, and only the end of the context can keep a target
\* from being called at all.
EveryTargetAccounted ==
    pc = "callback" => \A x \in Targets :
        /\ (result[x] # "ok") <=> (\E e \in errs : e.at = x)
        /\ \A e, f \in errs : e.at = f.at => e = f
        /\ sent[x] = 0 => ctxDone

\* delivery.go:50.  DeliveryError reports the sends this target has seen, and
\* the error of the last of them or the context's.
AttemptsTruthful ==
    \A e \in errs :
        /\ e.attempts = sent[e.at]
        /\ e.err = "ctx" => ctxDone
        /\ e.err # "ctx" => e.err = result[e.at]

\* What a receiver's errors say is complete and true.
ReportTruthful == EveryTargetAccounted /\ AttemptsTruthful

\* manager.go:49.  A completion without error means that every target of every
\* receiver has acknowledged, provided that no target panics.
SuccessMeansDelivered ==
    pc = "done" /\ told = "nil" => \A x \in Targets : result[x] = "ok"

\* manager.go:49: "Nil means delivery succeeded", without the proviso.
NilMeansDelivered ==
    told = "nil" => \A x \in Targets : result[x] = "ok"

\* retry.go:60-66.  A target is called again only after a failure its receiver's
\* policy retries, and not after it has acknowledged or been given up.
RetryOnlyIfAllowed ==
    [][\A x \in Targets : sent[x] > 0 /\ sent'[x] # sent[x] =>
            result[x] \in plan[x[1]].retries /\ \A e \in errs : e.at # x]_vars

\* How far a delivery is, apart from the target it is at and the attempts it has made.
Phase ==
    CASE pc = "start" -> 0
      [] pc = "join" -> 2
      [] pc \in {"callback", "panicking"} -> 3
      [] pc \in {"done", "crashed"} -> 4
      [] OTHER -> 1

AttemptStage ==
    CASE pc = "attempt" -> 1
      [] pc = "wait" -> 2
      [] pc = "check" -> 3
      [] pc = "call" -> 4
      [] pc = "sending" -> 5
      [] OTHER -> 0

LaterTarget == r < r' \/ (r = r' /\ t < t')
Further     ==
    executed < executed' \/ (executed = executed' /\ AttemptStage < AttemptStage')

MovesOn ==
    \/ Phase < Phase'
    \/ Phase = Phase' /\ LaterTarget
    \/ Phase = Phase' /\ Here = Here' /\ Further
    \/ ~ctxDone /\ ctxDone' /\ UNCHANGED progVars

WithinPlan ==
    plan # << >> => Here \in Targets /\ executed <= Promised(plan[r].count)

\* delivery.go:20-58, retry.go:25-67.  Every step of a delivery takes it to a later
\* phase, a later target, another attempt or further in the attempt, or is the end of
\* the context; and there are only the targets of the plan, and for each the attempts
\* that Count promises.  So a delivery cannot go on for ever.
DeliveryMovesOn == []WithinPlan /\ [][MovesOn /\ (ctxDone => ctxDone')]_vars

\* One delivery is what Manager takes it to be.  Until the first Send is due the
\* context's end still cancels it as a whole.
AtCallback == pc \in {"callback", "done", "crashed"}
At == IF AtCallback THEN "complete"
      ELSE IF pc = "call" \/ \E x \in Targets : sent[x] > 0
      THEN "sending" ELSE "deliver"
Verdict == IF ~AtCallback THEN "none"
           ELSE IF outcome = "nil" THEN "delivered" ELSE outcome

Assumed == INSTANCE WorkerDelivery WITH
    at <- At, verdict <- Verdict, ended <- ctxDone, empty <- plan = << >>
ImplementsWorker == Assumed!Spec
=============================================================================
