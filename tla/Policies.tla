------------------------------ MODULE Policies ------------------------------
(***************************************************************************)
(* Error classification (notify/error.go) and the built-in retry policies  *)
(* (notify/retry_policy.go).  An error is what errors.As sees of it: the    *)
(* kinds of its tree in pre-order; << >> is nil.  Targets, wrappers and     *)
(* joins build it up in any order.                                          *)
(***************************************************************************)
EXTENDS Integers, Sequences

CONSTANTS
    StatusCodes,    \* the status codes of results
    MaxErrors       \* bound: errors in a tree

ASSUME BoundAssumption == StatusCodes \subseteq Int /\ MaxErrors \in Nat

\* "deadline" is context.DeadlineExceeded; "net" and "netTimeout" are net.Errors
\* by what Timeout() says; "other" is any error none of the tests looks for.
Raw   == {"deadline", "netTimeout", "net", "other"}
Kinds == Raw \union {"permanent", "transport"}

VARIABLES
    err,        \* the error of an attempt
    status,     \* DeliveryResult.StatusCode
    marked      \* the marks that were put on an error that err is made of

errVars == <<err, status, marked>>

-----------------------------------------------------------------------------
(* error.go *)

\* errors.As, errors.Is
Has(e, kind) == \E i \in 1..Len(e) : e[i] = kind

IsPermanent(e) == Has(e, "permanent")

Permanent(e) == IF e = << >> \/ IsPermanent(e) THEN e ELSE <<"permanent">> \o e

\* Mutant: the precedence of Permanent is left to Transport.
IsTransportAnyway(e) == Has(e, "transport")

IsTransport(e) == e # << >> /\ ~IsPermanent(e) /\ Has(e, "transport")

Transport(e) ==
    IF e = << >> \/ IsPermanent(e) \/ IsTransport(e) THEN e ELSE <<"transport">> \o e

-----------------------------------------------------------------------------
(* retry_policy.go *)

\* Mutant: any timeout in the tree will do.
isTimeoutErrorAnywhere(e) == Has(e, "deadline") \/ Has(e, "netTimeout")

\* errors.As stops at the first net.Error.
isTimeoutError(e) ==
    \/ Has(e, "deadline")
    \/ \E i \in 1..Len(e) : e[i] = "netTimeout" /\ \A j \in 1..(i - 1) : e[j] # "net"

\* Mutant: an error has to be classified to be retried.
RetryOnErrorClassified(e) == e # << >> /\ IsTransport(e)

RetryOnError(e) == e # << >> /\ ~IsPermanent(e)

RetryOnStatusCode(codes, s, e) == e # << >> /\ ~IsPermanent(e) /\ s \in codes

\* Mutant: the status is enough.
RetryOnServerErrorAnyway(s, e) == e # << >> /\ s \in 500..599

RetryOnServerError(s, e) == e # << >> /\ ~IsPermanent(e) /\ s \in 500..599

RetryOnTimeout(e) == e # << >> /\ IsTransport(e) /\ isTimeoutError(e)

RetryOnNetworkError(e) == e # << >> /\ IsTransport(e) /\ ~isTimeoutError(e)

\* What each built-in policy decides; "codes" is RetryOnStatusCode(408, 429).
Policies == {"error", "codes", "server", "timeout", "network"}
Retries(s, e) ==
    [p \in Policies |->
        CASE p = "error"   -> RetryOnError(e)
          [] p = "codes"   -> RetryOnStatusCode({408, 429}, s, e)
          [] p = "server"  -> RetryOnServerError(s, e)
          [] p = "timeout" -> RetryOnTimeout(e)
          [] p = "network" -> RetryOnNetworkError(e)]

AnyRetryPolicy(policies, s, e) == \E p \in policies : Retries(s, e)[p]

DefaultRetryPolicy(s, e) == AnyRetryPolicy({"timeout", "network", "codes", "server"}, s, e)

-----------------------------------------------------------------------------
(* How errors come about *)

ErrInit == err = << >> /\ status \in StatusCodes /\ marked = {}

Build(e, marks) ==
    /\ Len(e) <= MaxErrors
    /\ err' = e /\ marked' = marked \union marks /\ UNCHANGED status

Fails == err = << >> /\ \E k \in Raw : Build(<<k>>, {})

\* Marking nil leaves nil.
MarkPermanent == Build(Permanent(err), IF err = << >> THEN {} ELSE {"permanent"})
MarkTransport == Build(Transport(err), IF err = << >> THEN {} ELSE {"transport"})

\* fmt.Errorf, *DeliveryError, *OperationError; *url.Error is a net.Error.
Wraps == err # << >> /\ \E k \in Raw : Build(<<k>> \o err, {})

\* errors.Join with the error of another target, itself marked or not.
Others == {<<k>> : k \in Raw} \union {Permanent(<<"other">>)} \union {Transport(<<k>>) : k \in Raw}
Joins ==
    /\ err # << >>
    /\ \E other \in Others, first \in BOOLEAN :
         Build(<<"other">> \o (IF first THEN other \o err ELSE err \o other),
               {k \in {"permanent", "transport"} : Has(other, k)})

\* Bound: no larger tree is built.
Complete == Len(err) = MaxErrors /\ UNCHANGED errVars

ErrNext == Fails \/ MarkPermanent \/ MarkTransport \/ Wraps \/ Joins \/ Complete

ErrSpec == ErrInit /\ [][ErrNext]_errVars

-----------------------------------------------------------------------------
(***************************************************************************)
(* Properties                                                              *)
(***************************************************************************)
\* Types; a mark always marks an error (Error() of permanentError{nil} panics).
TypeOK ==
    /\ err \in Seq(Kinds) /\ Len(err) <= MaxErrors
    /\ err # << >> => err[Len(err)] \in Raw
    /\ status \in StatusCodes
    /\ marked \subseteq {"permanent", "transport"}

\* error.go:26-67.  In whatever order an error was marked, wrapped and joined, it
\* is permanent exactly if any part of it was marked so, and a transport failure
\* exactly if a part was marked as one and none as permanent.
MarksDecide ==
    /\ IsPermanent(err) <=> "permanent" \in marked
    /\ IsTransport(err) <=> marked = {"transport"}

\* docs/content/retries.md:118.  "All built-in retry policies treat permanent
\* failures as non-retryable", whatever the status; and no success is retried.
PermanentNeverRetried ==
    err = << >> \/ "permanent" \in marked => \A p \in Policies : ~Retries(status, err)[p]

\* The net.Errors of a tree; errors.As finds the first one.
NetErrors(e) == {i \in DOMAIN e : e[i] \in {"net", "netTimeout"}}
TimesOut(e) ==
    \/ Has(e, "deadline")
    \/ \E i \in NetErrors(e) : e[i] = "netTimeout" /\ \A j \in NetErrors(e) : i <= j

\* retry_policy.go:42-56, 86-94; docs/content/retries.md:41-42.  Of the transport failures,
\* and of nothing else, RetryOnTimeout retries exactly those with a deadline anywhere
\* in them and those whose first network error is a timeout, whatever comes after
\* it; RetryOnNetworkError retries exactly the rest.
TimeoutOrNetwork ==
    /\ RetryOnTimeout(err) <=> marked = {"transport"} /\ TimesOut(err)
    /\ RetryOnNetworkError(err) <=> marked = {"transport"} /\ ~TimesOut(err)

\* docs/content/retries.md:43-45, 118.  RetryOnError retries every failure that is not
\* permanent, classified or not; the policies of a status exactly those with such a
\* status.
FailuresByStatus ==
    LET worth == err # << >> /\ "permanent" \notin marked IN
    /\ Retries(status, err)["error"] <=> worth
    /\ Retries(status, err)["codes"] <=> worth /\ status \in {408, 429}
    /\ Retries(status, err)["server"] <=> worth /\ status \in 500..599

\* docs/content/retries.md:60.  The default policy "retries classified transport
\* failures, HTTP-style 408 Request Timeout, 429 Too Many Requests, and status
\* codes from 500 through 599.  It does not retry other failures."
DefaultAsDocumented ==
    DefaultRetryPolicy(status, err) <=>
        /\ err # << >> /\ "permanent" \notin marked
        /\ "transport" \in marked \/ status \in {408, 429} \union 500..599

\* What the built-in policies make of a result, for every order of marks.
PoliciesAsDocumented ==
    PermanentNeverRetried /\ TimeoutOrNetwork /\ FailuresByStatus /\ DefaultAsDocumented
=============================================================================
