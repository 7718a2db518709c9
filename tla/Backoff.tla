------------------------------- MODULE Backoff -------------------------------
(***************************************************************************)
(* How long withRetry waits before each retry: retryDelay, retryBackoff,   *)
(* jitterBackoff and doubleDuration of notify/retry.go, for durations of a *)
(* small width.  The machine takes one target through its retries.         *)
(***************************************************************************)
EXTENDS Integers

CONSTANTS
    MaxDuration,  \* the largest time.Duration
    MaxRetries,   \* bound on the retries looked at
    Backoffs,     \* values of RetryConfig.Backoff
    MaxBackoffs,  \* values of RetryConfig.MaxBackoff
    RetryAfters   \* values of DeliveryResult.RetryAfter

Durations == -(MaxDuration + 1)..MaxDuration

ASSUME BackoffAssumption ==
    /\ MaxDuration \in Nat \ {0}
    /\ MaxRetries \in Nat
    /\ Backoffs \subseteq Durations
    /\ MaxBackoffs \subseteq Durations
    /\ RetryAfters \subseteq Durations

VARIABLES
    cfg,    \* the receiver's RetryConfig
    retry,  \* retries so far; withRetry's attempt
    after,  \* RetryAfter of the last result
    base,   \* the backoff before jitter
    wait    \* the wait before this retry

waitVars == <<cfg, retry, after, base, wait>>

Larger(a, b)  == IF a > b THEN a ELSE b
Smaller(a, b) == IF a < b THEN a ELSE b

\* Mutant: doubling overflows.
DoubleDurationWraps(duration) ==
    IF 2 * duration > MaxDuration THEN 2 * duration - 2 * (MaxDuration + 1)
    ELSE 2 * duration

\* Saturates at MaxDuration.
DoubleDuration(duration) ==
    IF duration > MaxDuration \div 2 THEN MaxDuration ELSE 2 * duration

\* The last min of retryBackoff.
Capped(d) == IF cfg.maxBackoff > 0 THEN Smaller(d, cfg.maxBackoff) ELSE d

\* retryBackoff up to the jitter.  The loop's break saves doublings only: once
\* at MaxBackoff the wait stays there.
RetryBackoff(n) ==
    IF cfg.backoff <= 0 \/ n <= 0 THEN 0
    ELSE LET doubled[k \in 0..(n - 1)] ==
                 IF k = 0 THEN cfg.backoff
                 ELSE LET d == DoubleDuration(doubled[k - 1]) IN
                      IF cfg.maxBackoff > 0 /\ d >= cfg.maxBackoff THEN cfg.maxBackoff ELSE d
         IN Capped(doubled[n - 1])

\* jitterBackoff: the values rand.Int64N may return.
JitterBackoff(d) ==
    IF ~cfg.jitter THEN {d} ELSE IF d <= 0 THEN {0} ELSE 0..(d - 1)

\* retryDelay: RetryAfter is a minimum.
RetryDelay(d, retryAfter) == Larger(d, retryAfter)

WaitInit ==
    /\ cfg \in [backoff : Backoffs, maxBackoff : MaxBackoffs, jitter : BOOLEAN]
    /\ retry = 0 /\ after = 0 /\ base = 0 /\ wait = 0

\* An attempt has failed with some RetryAfter; the next one waits.
Retry ==
    /\ retry < MaxRetries
    /\ retry' = retry + 1
    /\ after' \in RetryAfters
    /\ base' = RetryBackoff(retry')
    /\ \E d \in JitterBackoff(base') : wait' = RetryDelay(d, after')
    /\ UNCHANGED cfg

WaitNext == Retry \/ (retry = MaxRetries /\ UNCHANGED waitVars)
WaitSpec == WaitInit /\ [][WaitNext]_waitVars

-----------------------------------------------------------------------------
\* retry.go:85-136.  No wait, and nothing it is computed from, leaves the width of a
\* duration.
WaitsFit ==
    /\ cfg \in [backoff : Backoffs, maxBackoff : MaxBackoffs, jitter : BOOLEAN]
    /\ retry \in 0..MaxRetries
    /\ after \in RetryAfters \union {0}
    /\ base \in Durations /\ wait \in Durations

\* The documented backoff (types.go:143-152), in unbounded integers: Backoff,
\* doubled with each later retry, no more than MaxBackoff nor a duration.
PowerOfTwo[n \in Nat] == IF n = 0 THEN 1 ELSE 2 * PowerOfTwo[n - 1]
Documented(n) ==
    LET exact == cfg.backoff * PowerOfTwo[n - 1]
        limit == IF cfg.maxBackoff > 0 THEN cfg.maxBackoff ELSE MaxDuration
    IN IF cfg.backoff <= 0 THEN 0 ELSE Smaller(exact, limit)

\* retry.go:95-111.  Doubling step by step in a fixed width, with a break at the
\* cap, gives the documented backoff for every retry.
BackoffAsDocumented == retry > 0 => base = Documented(retry)

\* retry.go:85-90, 118-124.  Every wait honours RetryAfter, whatever MaxBackoff
\* says; jitter only shortens the backoff; and no wait is negative.
WaitWithinBounds ==
    retry > 0 =>
        /\ wait >= after /\ wait >= 0
        /\ wait <= Larger(Documented(retry), after)
        /\ ~cfg.jitter => wait = Larger(Documented(retry), after)

\* Every wait is the documented one and fits a duration.
WaitsAsDocumented == WaitsFit /\ BackoffAsDocumented /\ WaitWithinBounds
=============================================================================
