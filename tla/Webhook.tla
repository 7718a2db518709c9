------------------------------ MODULE Webhook ------------------------------
(***************************************************************************)
(* The webhook target: one SendResult (targets/webhook/webhook.go), from   *)
(* rendering and validation through the HTTP exchange and the bounded read *)
(* of the response to the classified error and what the target has logged. *)
(* The context may end at any moment; the endpoint may answer anything, or *)
(* act on the request and never answer.                                    *)
(***************************************************************************)
EXTENDS Integers, Sequences, Header

CONSTANTS
    Configs,        \* the configurations of the target
    Responses,      \* what endpoints answer
    MaxInt,         \* the largest int, int64 and time.Duration
    Second,         \* a second, as a time.Duration
    DefaultLimit    \* the default ResponseBodyLimit

ASSUME WidthAssumption == /\ MaxInt \in Nat /\ Second \in 1..MaxInt
                          /\ DefaultLimit \in 1..MaxInt

LogModes == {"", "summary", "body", "full", "none"}
Config == [title   : {"ok", "fails", "nil"}, body : {"ok", "fails", "nil"},
           json    : BOOLEAN, checkJSON : BOOLEAN,      \* is JSON; ValidateJSON
           headers : SUBSET Headers,
           method  : {"", "token", "bad"},
           url     : {"absolute", "unparsable", "otherScheme", "noHost"},
           log     : LogModes, limit : Int]
ASSUME ConfigsAssumption == Configs \subseteq Config

\* Retry-After: absent, a number of seconds, a date n from now, or neither.
RetryAfters == [form : {"none", "seconds", "date", "other"}, n : Int]
Response == [status : 100..599, retryAfter : RetryAfters, size : Nat]
ASSUME ResponsesAssumption == Responses \subseteq Response

VARIABLES
    cfg,        \* the target
    pc,         \* the stage of SendResult
    ctxDone,    \* the caller's context has ended
    accepted,   \* the endpoint has acted on the request
    response,   \* the response of which the body is being read
    logged,     \* what the target has logged
    result,     \* the DeliveryResult
    error,      \* the error SendResult returned
    verdict     \* ... and how it is classified

vars == <<cfg, pc, ctxDone, accepted, response, logged, result, error, verdict>>

Smaller(a, b) == IF a < b THEN a ELSE b
Wrap(n) == ((n + MaxInt + 1) % (2 * MaxInt + 2)) - (MaxInt + 1)

-----------------------------------------------------------------------------
(* Configuration *)

applyDefaults(c) ==
    [c EXCEPT !.method = IF @ = "" THEN "token" ELSE @,
              !.log = IF @ = "" THEN "summary" ELSE @,
              !.limit = IF @ = 0 THEN DefaultLimit ELSE @]

Render(c) == c.title = "ok" /\ c.body = "ok" /\ (c.checkJSON => c.json)

validateHeaders(hs) == \A h \in hs : ValidFieldName(h.name) /\ ~ContainsNewline(h.value)

\* Mutant: any URL with a host will do.
validateEndpointHost(c) == c.method # "bad" /\ c.url \notin {"unparsable", "noHost"}

validateEndpoint(c) == c.method # "bad" /\ c.url = "absolute"

Valid(c) == Render(c) /\ validateHeaders(c.headers) /\ validateEndpoint(c)

-----------------------------------------------------------------------------
(* Errors *)

\* url: there is a *url.Error in the chain, with the URL in its text.
Err(url)  == [url |-> url, redacted |-> FALSE]
Redacted(e) == [e EXCEPT !.redacted = TRUE]
NoError   == [url |-> FALSE, redacted |-> TRUE]
Shows(e)  == e.url /\ ~e.redacted

safeWebhookError(e) == IF ~e.redacted /\ e.url THEN Redacted(e) ELSE e

\* The first check that fails decides which error there is.
ConfigError(c) == Err(Render(c) /\ validateHeaders(c.headers) /\ c.url = "unparsable"
                        /\ c.method # "bad")

-----------------------------------------------------------------------------
(* The response *)

\* Mutant: seconds are multiplied as they come.
parseRetryAfterWraps(h) ==
    CASE h.form = "seconds" /\ h.n \in 0..MaxInt -> Wrap(h.n * Second)
      [] h.form = "date" /\ h.n > 0 -> Smaller(h.n, MaxInt)
      [] OTHER -> 0

\* Seconds that do not fit int64 are not a number for ParseInt, nor a date.
parseRetryAfter(h) ==
    CASE h.form = "seconds" /\ h.n \in 0..MaxInt ->
           IF h.n > MaxInt \div Second THEN MaxInt ELSE h.n * Second
      [] h.form = "date" /\ h.n > 0 -> Smaller(h.n, MaxInt)
      [] OTHER -> 0

Limit(n) == IF n <= 0 THEN DefaultLimit ELSE n

\* Mutant: the lookahead overflows; a LimitReader of a negative size is empty.
readResponseBodyWraps(size, limit) ==
    LET room == Wrap(Limit(limit) + 1)
        data == Smaller(size, IF room < 0 THEN 0 ELSE room) IN
    [read |-> data, text |-> Smaller(data, Limit(limit)), truncated |-> data > Limit(limit)]

\* Lengths: the bytes read and those kept, before TrimSpace.
readResponseBody(size, limit) ==
    LET room == IF Limit(limit) < MaxInt THEN Limit(limit) + 1 ELSE Limit(limit)
        data == Smaller(size, room) IN
    [read |-> data, text |-> Smaller(data, Limit(limit)), truncated |-> data > Limit(limit)]

\* "..." takes three bytes.
truncateBody(len, limit) == IF limit <= 0 \/ len <= limit THEN len ELSE limit + 3

\* responseLogFields for the mode, of a successful and of a failed response.
LogFields(mode, event, truncated, e) ==
    [event |-> event, body |-> mode \in {"body", "full"}, headers |-> mode = "full",
     truncated |-> truncated, error |-> e]

logSuccessfulResponse(truncated) ==
    IF cfg.log = "none" THEN logged
    ELSE Append(logged, LogFields(cfg.log, "delivered", truncated, NoError))

logFailedResponse(truncated, e) == Append(logged, LogFields(cfg.log, "failed", truncated, e))

-----------------------------------------------------------------------------
(* SendResult *)

NoResult == [status |-> 0, len |-> 0, retryAfter |-> 0]
NoResponse == [status |-> 0]

Init ==
    /\ cfg \in Configs
    /\ pc = "begin" /\ ctxDone = FALSE /\ accepted = FALSE /\ response = NoResponse
    /\ logged = << >> /\ result = NoResult /\ error = NoError /\ verdict = "none"

CtxEnds ==
    /\ ~ctxDone /\ ctxDone' = TRUE
    /\ UNCHANGED <<cfg, pc, accepted, response, logged, result, error, verdict>>

Return(v, e, r) == pc' = "done" /\ verdict' = v /\ error' = e /\ result' = r

Begin ==
    /\ pc = "begin" /\ cfg' = applyDefaults(cfg)
    /\ IF Valid(cfg') THEN pc' = "request" /\ UNCHANGED <<result, error, verdict>>
       ELSE Return("permanent", safeWebhookError(ConfigError(cfg')), NoResult)
    /\ UNCHANGED <<ctxDone, accepted, response, logged>>

\* The transport of net/http refuses control characters before it sends.
Sendable == \A h \in cfg.headers : h.value # "control"

\* The endpoint acts on the request, perhaps when nobody waits any more.
Accept ==
    /\ ~accepted /\ Sendable
    /\ pc \in {"request", "read"} \/ (pc = "done" /\ verdict = "transport")
    /\ accepted' = TRUE
    /\ UNCHANGED <<cfg, pc, ctxDone, response, logged, result, error, verdict>>

\* Client.Do returns a response; 2xx says that the endpoint has acted.
Answer ==
    /\ pc = "request" /\ Sendable
    /\ \E r \in Responses : (r.status \in 200..299 => accepted) /\ response' = r
    /\ pc' = "read"
    /\ UNCHANGED <<cfg, ctxDone, accepted, logged, result, error, verdict>>

\* Mutant: only the log is redacted.
DoFailsLeaky ==
    /\ pc = "request"
    /\ logged' = Append(logged, LogFields("", "request failed", FALSE, safeWebhookError(Err(TRUE))))
    /\ Return("transport", Err(TRUE), NoResult)
    /\ UNCHANGED <<cfg, ctxDone, accepted, response>>

\* Client.Do fails: network, redirects, timeout, the context, a header it refuses.
DoFails ==
    /\ pc = "request"
    /\ logged' = Append(logged, LogFields("", "request failed", FALSE, safeWebhookError(Err(TRUE))))
    /\ Return("transport", safeWebhookError(Err(TRUE)), NoResult)
    /\ UNCHANGED <<cfg, ctxDone, accepted, response>>

\* Reading the body fails, for the same reasons; its error is not to be shown.
ReadFails ==
    /\ pc = "read"
    /\ logged' = Append(logged, LogFields("", "read failed", FALSE, Redacted(Err(TRUE))))
    /\ Return("transport", Redacted(Err(TRUE)),
              [status |-> response.status, len |-> 0,
               retryAfter |-> parseRetryAfter(response.retryAfter)])
    /\ UNCHANGED <<cfg, ctxDone, accepted, response>>

\* Mutant: redirects are as good as success.
ReadThenJudgeLoosely ==
    /\ pc = "read"
    /\ LET body == readResponseBody(response.size, cfg.limit)
           ok   == response.status \in 200..399 IN
       /\ \E trimmed \in 0..body.text :
            Return(IF ok THEN "ok" ELSE "unclassified", IF ok THEN NoError ELSE Err(FALSE),
                   [status |-> response.status, len |-> truncateBody(trimmed, cfg.limit),
                    retryAfter |-> parseRetryAfter(response.retryAfter)])
       /\ logged' = IF ok THEN logSuccessfulResponse(body.truncated)
                    ELSE logFailedResponse(body.truncated, Err(FALSE))
    /\ UNCHANGED <<cfg, ctxDone, accepted, response>>

\* The body is read and trimmed; the status decides.
ReadThenJudge ==
    /\ pc = "read"
    /\ LET body == readResponseBody(response.size, cfg.limit)
           ok   == response.status \in 200..299 IN
       /\ \E trimmed \in 0..body.text :
            Return(IF ok THEN "ok" ELSE "unclassified", IF ok THEN NoError ELSE Err(FALSE),
                   [status |-> response.status, len |-> truncateBody(trimmed, cfg.limit),
                    retryAfter |-> parseRetryAfter(response.retryAfter)])
       /\ logged' = IF ok THEN logSuccessfulResponse(body.truncated)
                    ELSE logFailedResponse(body.truncated, Err(FALSE))
    /\ UNCHANGED <<cfg, ctxDone, accepted, response>>

Terminated == pc = "done" /\ UNCHANGED vars

Next ==
    \/ CtxEnds \/ Begin \/ Accept \/ Answer \/ DoFails \/ ReadFails \/ ReadThenJudge
    \/ Terminated

Spec == Init /\ [][Next]_vars

-----------------------------------------------------------------------------
(***************************************************************************)
(* Properties                                                              *)
(***************************************************************************)
\* webhook.go:263-272, 330.  An incomplete or invalid configuration is a permanent
\* error and no request is made.  Of a header that net/http alone refuses nothing
\* is sent either, but it counts as a transport failure, which may be retried.
InvalidNeverSent ==
    /\ pc # "begin" /\ ~(Render(cfg) /\ validateHeaders(cfg.headers)
                         /\ cfg.method # "bad" /\ cfg.url = "absolute")
         => verdict = "permanent" /\ ~accepted
    /\ ~Sendable => ~accepted /\ verdict \in {"none", "permanent", "transport"}

\* docs/content/webhooks.md:70-73.  At most one byte more than the limit is read,
\* no more than the limit is kept, and the log says truncated exactly when bytes
\* of the response are missing, up to the largest limit.
BoundedCapture ==
    LET kept == Limit(cfg.limit) IN
    /\ result.len <= kept
    /\ \A i \in DOMAIN logged :
         logged[i].event \in {"delivered", "failed"} =>
             logged[i].truncated = (kept < MaxInt /\ response.size > kept)
    /\ response # NoResponse => readResponseBody(response.size, cfg.limit).read <= kept + 1
    /\ response # NoResponse /\ response.size <= kept =>
         readResponseBody(response.size, cfg.limit).text = response.size

\* webhook.go:30-43, docs/content/logging.md:81-86.  Bodies and headers are logged
\* only in the modes that ask for it; a failure is logged in every mode, a success
\* in every mode but none.
LogsAsConfigured ==
    /\ \A i \in DOMAIN logged :
         /\ logged[i].body => cfg.log \in {"body", "full"}
         /\ logged[i].headers => cfg.log = "full"
    /\ verdict \in {"transport", "unclassified"} => logged # << >>
    /\ verdict = "ok" => (logged = << >> <=> cfg.log = "none")

\* docs/content/logging.md:3-30.  The URL is shown neither by a log record nor by
\* the returned error.
UrlNeverShown ==
    /\ ~Shows(error)
    /\ \A i \in DOMAIN logged : ~Shows(logged[i].error)

\* What is logged is what the configuration asks for, and never the URL.
LogsDiscreet == LogsAsConfigured /\ UrlNeverShown

\* The wait the endpoint asked for, as far as a Duration can say.
Asked(h) == CASE h.form = "seconds" /\ h.n > 0 -> Smaller(h.n * Second, MaxInt)
              [] h.form = "date" /\ h.n > 0 -> Smaller(h.n, MaxInt)
              [] OTHER -> 0

\* webhook.go:409-425.  A wait is never shorter than asked for, and it is reported
\* with every answer, also if its body could not be read.  Only seconds beyond an
\* int64 are no wait at all, where fewer seconds are the longest Duration.
RetryAfterKept ==
    pc = "done" /\ response # NoResponse =>
        LET h == response.retryAfter IN
        result.retryAfter = IF h.form = "seconds" /\ h.n > MaxInt THEN 0 ELSE Asked(h)

\* docs/content/webhooks.md:68: "HTTP 2xx responses succeed."
Http2xxSucceeds == pc = "done" /\ result.status \in 200..299 => verdict = "ok"

\* A webhook keeps the promise of a target.
Attempt == INSTANCE TargetAttempt
ImplementsAttempt == Attempt!Spec
=============================================================================
