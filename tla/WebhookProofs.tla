--------------------------- MODULE WebhookProofs ---------------------------
(***************************************************************************)
(* Proofs about Webhook, for every set of configurations and responses,    *)
(* every width of integers, length of a second and default limit.          *)
(***************************************************************************)
EXTENDS Webhook, SequenceTheorems, TLAPS

-----------------------------------------------------------------------------
(* Operators *)

LEMMA DefaultsFacts ==
    ASSUME NEW c \in Config
    PROVE  /\ applyDefaults(c) \in Config
           /\ applyDefaults(c).headers = c.headers
           /\ applyDefaults(c).limit # 0 /\ applyDefaults(c).log # ""
<1>1. DefaultLimit \in Int /\ DefaultLimit # 0 BY WidthAssumption
<1> DEFINE a == [c EXCEPT !.method = IF c.method = "" THEN "token" ELSE c.method]
           b == [a EXCEPT !.log = IF c.log = "" THEN "summary" ELSE c.log]
           d == [b EXCEPT !.limit = IF c.limit = 0 THEN DefaultLimit ELSE c.limit]
<1>2. applyDefaults(c) = d BY Zenon DEF applyDefaults
<1>3. a \in Config /\ a.headers = c.headers BY DEF Config
<1> HIDE DEF a
<1>4. b \in Config /\ b.headers = c.headers /\ b.log # ""
  BY <1>3 DEF Config, LogModes
<1> HIDE DEF b
<1>5. d \in Config /\ d.headers = c.headers /\ d.log # "" /\ d.limit # 0
  BY <1>1, <1>4 DEF Config
<1> QED BY <1>2, <1>5

\* Of a response that fits, everything is kept; of a larger one, the first bytes
\* up to the limit, and one byte more is read to know; unless there is no such
\* byte within an int.
LEMMA CaptureFacts ==
    ASSUME NEW size \in Nat, NEW limit \in Int
    PROVE  LET kept == Limit(limit)
               body == readResponseBody(size, limit)
           IN  /\ kept \in Nat /\ kept >= 1
               /\ body.text \in Nat /\ body.text <= kept
               /\ body.read <= kept + 1
               /\ body.truncated = (kept < MaxInt /\ size > kept)
               /\ size <= kept => body.text = size
<1> DEFINE kept == Limit(limit)
           body == readResponseBody(size, limit)
           room == IF kept < MaxInt THEN kept + 1 ELSE kept
           data == Smaller(size, room)
<1>1. kept \in Nat /\ kept >= 1 BY WidthAssumption DEF Limit
<1>2. body.read = data /\ body.text = Smaller(data, kept) /\ body.truncated = (data > kept)
  BY DEF readResponseBody
<1>3. MaxInt \in Nat BY WidthAssumption
<1> HIDE DEF kept, body
<1>4. /\ kept \in Nat /\ kept >= 1 /\ body.text \in Nat /\ body.text <= kept
      /\ body.read <= kept + 1 /\ body.truncated = (kept < MaxInt /\ size > kept)
      /\ size <= kept => body.text = size
  BY <1>1, <1>2, <1>3 DEF Smaller
<1> QED BY <1>4 DEF kept, body

\* truncateBody cuts nothing that the capture kept.
LEMMA CutFacts ==
    ASSUME NEW limit \in Int, NEW n \in Nat, n <= Limit(limit)
    PROVE  truncateBody(n, limit) = n
BY DEF truncateBody, Limit

LEMMA FirstRecord == \A x : Append(<< >>, x) = <<x>>
OBVIOUS

LEMMA Multiples ==
    ASSUME NEW n \in Nat, NEW m \in Nat, NEW s \in Nat, s >= 1
    PROVE  n > m \div s <=> n * s > m
<1> DEFINE q == m \div s
           r == m % s
<1>1. q \in Nat /\ r \in Nat /\ r < s /\ m = s * q + r OBVIOUS
<1> HIDE DEF q, r
<1>2. CASE n > q
  <2>1. n - q - 1 \in Nat /\ n = (n - q - 1) + q + 1 BY <1>1, <1>2
  <2>2. PICK k \in Nat : n = k + q + 1 BY <2>1
  <2>3. n * s = k * s + q * s + s BY <1>1, <2>2
  <2>4. k * s \in Nat /\ q * s = s * q BY <1>1, <2>2
  <2>5. n * s > m BY <1>1, <2>3, <2>4
  <2> QED BY <1>2, <2>5 DEF q
<1>3. CASE n <= q
  <2>1. PICK k \in Nat : q = n + k
    <3>1. q - n \in Nat /\ q = n + (q - n) BY <1>1, <1>3
    <3> QED BY <3>1
  <2>2. s * q = n * s + k * s /\ k * s \in Nat BY <2>1
  <2>3. n * s <= m BY <1>1, <2>2
  <2> QED BY <1>1, <1>3, <2>3 DEF q
<1> QED BY <1>1, <1>2, <1>3

\* parseRetryAfter says what was asked for, as far as a Duration can, and takes
\* seconds beyond an int for no number at all.
LEMMA RetryAfterFacts ==
    ASSUME NEW h \in RetryAfters
    PROVE  parseRetryAfter(h) = IF h.form = "seconds" /\ h.n > MaxInt THEN 0 ELSE Asked(h)
<1>1. h.n \in Int /\ h.form \in {"none", "seconds", "date", "other"} BY DEF RetryAfters
<1>2. MaxInt \in Nat /\ Second \in Nat /\ Second >= 1 BY WidthAssumption
<1>3. CASE h.form = "seconds" /\ h.n \in 0..MaxInt
  <2>1. h.n > MaxInt \div Second <=> h.n * Second > MaxInt BY <1>2, <1>3, Multiples
  <2>2. parseRetryAfter(h) = IF h.n > MaxInt \div Second THEN MaxInt ELSE h.n * Second
    BY <1>3 DEF parseRetryAfter
  <2>3. Asked(h) = IF h.n > 0 THEN Smaller(h.n * Second, MaxInt) ELSE 0
    BY <1>3 DEF Asked
  <2>4. h.n * Second \in Nat /\ (h.n = 0 => h.n * Second = 0) BY <1>2, <1>3
  <2>5. h.n \in Nat /\ h.n <= MaxInt BY <1>2, <1>3
  <2> HIDE DEF Asked
  <2> QED BY <1>2, <2>1, <2>2, <2>3, <2>4, <2>5 DEF Smaller
<1>4. CASE h.form = "seconds" /\ h.n \notin 0..MaxInt
  <2>1. parseRetryAfter(h) = 0 BY <1>4 DEF parseRetryAfter
  <2>2. h.n < 0 \/ h.n > MaxInt BY <1>1, <1>2, <1>4
  <2>3. h.n < 0 => Asked(h) = 0 BY <1>1, <1>4 DEF Asked
  <2> QED BY <1>1, <1>2, <1>4, <2>1, <2>2, <2>3
<1>5. CASE h.form = "date" BY <1>1, <1>5 DEF parseRetryAfter, Asked
<1>6. CASE h.form \notin {"seconds", "date"} BY <1>6 DEF parseRetryAfter, Asked
<1> QED BY <1>3, <1>4, <1>5, <1>6

-----------------------------------------------------------------------------
(* The inductive invariant: how far SendResult has come, or how it ended. *)

Unanswered == response = NoResponse /\ result = NoResult
Answered   == response \in Responses /\ Sendable /\ (response.status \in 200..299 => accepted)
Capture    == readResponseBody(response.size, cfg.limit)
Wait       == parseRetryAfter(response.retryAfter)

Refused ==
    /\ ~Valid(cfg) /\ verdict = "permanent" /\ ~accepted
    /\ Unanswered /\ logged = << >> /\ ~Shows(error)

RequestFailed ==
    /\ Valid(cfg) /\ verdict = "transport" /\ Unanswered /\ ~Shows(error)
    /\ \E e : ~Shows(e) /\ logged = <<LogFields("", "request failed", FALSE, e)>>

ReadFailed ==
    /\ Valid(cfg) /\ verdict = "transport" /\ Answered /\ ~Shows(error)
    /\ result.len = 0 /\ result.retryAfter = Wait
    /\ \E e : ~Shows(e) /\ logged = <<LogFields("", "read failed", FALSE, e)>>

Succeeded ==
    /\ Valid(cfg) /\ verdict = "ok" /\ Answered /\ ~Shows(error) /\ accepted
    /\ result.len <= Limit(cfg.limit) /\ result.retryAfter = Wait
    /\ logged = IF cfg.log = "none" THEN << >>
                ELSE <<LogFields(cfg.log, "delivered", Capture.truncated, NoError)>>

Rejected ==
    /\ Valid(cfg) /\ verdict = "unclassified" /\ Answered /\ ~Shows(error)
    /\ result.len <= Limit(cfg.limit) /\ result.retryAfter = Wait
    /\ \E e : ~Shows(e) /\ logged = <<LogFields(cfg.log, "failed", Capture.truncated, e)>>

Underway ==
    /\ verdict = "none" /\ logged = << >> /\ result = NoResult /\ error = NoError
    /\ \/ pc = "begin" /\ response = NoResponse /\ ~accepted
       \/ pc = "request" /\ Valid(cfg) /\ response = NoResponse
       \/ pc = "read" /\ Valid(cfg) /\ Answered

IInv ==
    /\ cfg \in Config /\ accepted \in BOOLEAN
    /\ ~Sendable => ~accepted
    /\ \/ Underway
       \/ pc = "done" /\ (Refused \/ RequestFailed \/ ReadFailed \/ Succeeded \/ Rejected)

LEMMA InitIInv == Init => IInv
BY ConfigsAssumption DEF Init, IInv, Underway

LEMMA BeginKeeps == IInv /\ Begin => IInv'
<1> SUFFICES ASSUME IInv, Begin PROVE IInv' OBVIOUS
<1>1. /\ pc = "begin" /\ cfg' = applyDefaults(cfg) /\ UNCHANGED <<accepted, response, logged>>
      /\ response = NoResponse /\ logged = << >> /\ ~accepted /\ result = NoResult
      /\ verdict = "none" /\ error = NoError
  BY DEF Begin, IInv, Underway
<1>2. cfg' \in Config /\ accepted' \in BOOLEAN /\ ~accepted' BY <1>1, DefaultsFacts DEF IInv
<1>3. CASE Valid(cfg')
  <2>1. pc' = "request" /\ UNCHANGED <<result, error, verdict>> BY <1>3 DEF Begin
  <2>2. Underway' BY <1>1, <1>3, <2>1 DEF Underway
  <2> QED BY <1>2, <2>2 DEF IInv
<1>4. CASE ~Valid(cfg')
  <2>1. /\ pc' = "done" /\ verdict' = "permanent" /\ result' = NoResult
        /\ error' = safeWebhookError(ConfigError(cfg'))
    BY <1>4 DEF Begin, Return
  <2>2. ~Shows(error)'
    BY <2>1 DEF Shows, safeWebhookError, ConfigError, Err, Redacted
  <2>3. Refused' BY <1>1, <1>4, <2>1, <2>2 DEF Refused, Unanswered
  <2> QED BY <1>2, <2>1, <2>3 DEF IInv
<1> QED BY <1>3, <1>4

\* Only the endpoint acts.
LEMMA AcceptKeeps == IInv /\ Accept => IInv'
<1> SUFFICES ASSUME IInv, Accept PROVE IInv' OBVIOUS
<1>1. /\ accepted' = TRUE /\ Sendable
      /\ UNCHANGED <<cfg, pc, ctxDone, response, logged, result, error, verdict>>
      /\ pc \in {"request", "read"} \/ (pc = "done" /\ verdict = "transport")
  BY DEF Accept
<1>2. Sendable' /\ Capture' = Capture /\ Wait' = Wait /\ Shows(error)' = Shows(error)
      /\ Valid(cfg)' = Valid(cfg)
  BY <1>1 DEF Sendable, Capture, Wait
<1>3. Answered => Answered' BY <1>1, <1>2 DEF Answered
<1>4. Underway => Underway' BY <1>1, <1>2, <1>3 DEF Underway
<1>5. RequestFailed => RequestFailed' BY <1>1, <1>2 DEF RequestFailed, Unanswered
<1>6. ReadFailed => ReadFailed' BY <1>1, <1>2, <1>3 DEF ReadFailed
<1>7. pc = "done" => ~Underway /\ ~Refused /\ ~Succeeded /\ ~Rejected
  BY <1>1 DEF Underway, Refused, Succeeded, Rejected
<1> QED BY <1>1, <1>2, <1>4, <1>5, <1>6, <1>7 DEF IInv

LEMMA AnswerKeeps == IInv /\ Answer => IInv'
<1> SUFFICES ASSUME IInv, Answer PROVE IInv' OBVIOUS
<1>1. /\ pc = "request" /\ pc' = "read" /\ Sendable
      /\ response' \in Responses /\ (response'.status \in 200..299 => accepted)
      /\ UNCHANGED <<cfg, accepted, logged, result, error, verdict>>
  BY DEF Answer
<1>2. Sendable' BY <1>1 DEF Sendable
<1>3. Answered' BY <1>1, <1>2 DEF Answered
<1>4. Underway' BY <1>1, <1>3 DEF Underway, IInv
<1> QED BY <1>1, <1>2, <1>4 DEF IInv

LEMMA FailKeeps == IInv /\ (DoFails \/ ReadFails) => IInv'
<1> SUFFICES ASSUME IInv, DoFails \/ ReadFails PROVE IInv' OBVIOUS
<1>1. ~Shows(safeWebhookError(Err(TRUE))) /\ ~Shows(Redacted(Err(TRUE)))
  BY DEF Shows, safeWebhookError, Err, Redacted
<1>2. UNCHANGED <<cfg, accepted, response>> /\ pc' = "done" /\ verdict' = "transport"
  BY DEF DoFails, ReadFails, Return
<1>3. Underway /\ logged = << >> BY DEF IInv, Underway, DoFails, ReadFails
<1>4. Sendable' = Sendable /\ Valid(cfg)' = Valid(cfg) /\ Wait' = Wait
  BY <1>2 DEF Sendable, Wait
<1>5. CASE DoFails
  <2>1. /\ logged' = <<LogFields("", "request failed", FALSE, safeWebhookError(Err(TRUE)))>>
        /\ error' = safeWebhookError(Err(TRUE)) /\ result' = NoResult /\ pc = "request"
    BY <1>3, <1>5, FirstRecord, Zenon DEF DoFails, Return
  <2>2. Unanswered' BY <1>2, <1>3, <2>1 DEF Unanswered, Underway
  <2>3. Valid(cfg) BY <1>3, <2>1 DEF Underway
  <2>4. RequestFailed' BY <1>1, <1>2, <1>4, <2>1, <2>2, <2>3 DEF RequestFailed
  <2> QED BY <1>2, <1>4, <2>4 DEF IInv
<1>6. CASE ReadFails
  <2>1. /\ logged' = Append(logged, LogFields("", "read failed", FALSE, Redacted(Err(TRUE))))
        /\ error' = Redacted(Err(TRUE)) /\ pc = "read"
    BY <1>6, Zenon DEF ReadFails, Return
  <2>2. result'.len = 0 /\ result'.retryAfter = Wait
    BY <1>6 DEF ReadFails, Return, Wait
  <2>3. logged' = <<LogFields("", "read failed", FALSE, Redacted(Err(TRUE)))>>
    BY <1>3, <2>1, FirstRecord, Zenon
  <2>4. Answered' /\ Valid(cfg) BY <1>2, <1>3, <1>4, <2>1 DEF Underway, Answered
  <2>5. ReadFailed' BY <1>1, <1>2, <1>4, <2>1, <2>2, <2>3, <2>4 DEF ReadFailed
  <2> QED BY <1>2, <1>4, <2>5 DEF IInv
<1> QED BY <1>5, <1>6

LEMMA JudgeKeeps == IInv /\ ReadThenJudge => IInv'
<1> SUFFICES ASSUME IInv, ReadThenJudge PROVE IInv' OBVIOUS
<1> DEFINE ok == response.status \in 200..299
<1>1. pc = "read" /\ pc' = "done" /\ UNCHANGED <<cfg, accepted, response>>
  BY DEF ReadThenJudge, Return
<1>2. Valid(cfg) /\ Answered /\ logged = << >> BY <1>1 DEF IInv, Underway
<1>3. PICK trimmed \in 0..Capture.text :
        /\ verdict' = IF ok THEN "ok" ELSE "unclassified"
        /\ error' = IF ok THEN NoError ELSE Err(FALSE)
        /\ result' = [status |-> response.status, len |-> truncateBody(trimmed, cfg.limit),
                      retryAfter |-> Wait]
  BY DEF ReadThenJudge, Return, Capture, Wait
<1>4. logged' = IF ok THEN logSuccessfulResponse(Capture.truncated)
                ELSE logFailedResponse(Capture.truncated, Err(FALSE))
  BY DEF ReadThenJudge, Capture
<1>5. cfg.limit \in Int /\ response.size \in Nat
  BY <1>2, ResponsesAssumption DEF IInv, Config, Answered, Response
<1>6. result'.len <= Limit(cfg.limit)
  <2>1. Capture.text \in Nat /\ Capture.text <= Limit(cfg.limit) /\ Limit(cfg.limit) \in Nat
    BY <1>5, CaptureFacts DEF Capture
  <2>2. trimmed \in Nat /\ trimmed <= Limit(cfg.limit) BY <2>1
  <2> QED BY <1>3, <1>5, <2>2, CutFacts
<1>7. ~Shows(error)' BY <1>3 DEF Shows, NoError, Err
<1>8. /\ Sendable' = Sendable /\ Valid(cfg)' = Valid(cfg) /\ Capture' = Capture /\ Wait' = Wait
      /\ Limit(cfg.limit)' = Limit(cfg.limit) /\ Answered'
  BY <1>1, <1>2 DEF Sendable, Capture, Wait, Answered
<1>9. result'.retryAfter = Wait BY <1>3
<1>10. CASE ok
  <2>1. accepted BY <1>2, <1>10 DEF Answered
  <2>2. logged' = IF cfg.log = "none" THEN << >>
                  ELSE <<LogFields(cfg.log, "delivered", Capture.truncated, NoError)>>
    BY <1>2, <1>4, <1>10, FirstRecord, Zenon DEF logSuccessfulResponse
  <2>3. Succeeded'
    BY <1>1, <1>2, <1>3, <1>6, <1>7, <1>8, <1>9, <1>10, <2>1, <2>2 DEF Succeeded
  <2> QED BY <1>1, <1>8, <2>3 DEF IInv
<1>11. CASE ~ok
  <2>1. logged' = <<LogFields(cfg.log, "failed", Capture.truncated, Err(FALSE))>>
    BY <1>2, <1>4, <1>11, FirstRecord, Zenon DEF logFailedResponse
  <2>2. ~Shows(Err(FALSE)) BY DEF Shows, Err
  <2>3. Rejected'
    BY <1>1, <1>2, <1>3, <1>6, <1>7, <1>8, <1>9, <1>11, <2>1, <2>2 DEF Rejected
  <2> QED BY <1>1, <1>8, <2>3 DEF IInv
<1> QED BY <1>10, <1>11

\* The caller's context ends, or nothing happens.
LEMMA IdleKeeps == IInv /\ (CtxEnds \/ UNCHANGED vars) => IInv'
<1> SUFFICES ASSUME IInv, CtxEnds \/ UNCHANGED vars PROVE IInv' OBVIOUS
<1>1. UNCHANGED <<cfg, pc, accepted, response, logged, result, error, verdict>>
  BY DEF CtxEnds, vars
<1>2. Sendable' = Sendable /\ Capture' = Capture /\ Wait' = Wait
      /\ Answered' = Answered /\ Unanswered' = Unanswered
  BY <1>1 DEF Sendable, Capture, Wait, Answered, Unanswered
<1>3. Underway' = Underway /\ Refused' = Refused /\ RequestFailed' = RequestFailed
  BY <1>1, <1>2 DEF Underway, Refused, RequestFailed
<1>4. ReadFailed' = ReadFailed /\ Succeeded' = Succeeded /\ Rejected' = Rejected
  BY <1>1, <1>2 DEF ReadFailed, Succeeded, Rejected
<1> QED BY <1>1, <1>2, <1>3, <1>4 DEF IInv

LEMMA NextKeeps == IInv /\ [Next]_vars => IInv'
BY BeginKeeps, AcceptKeeps, AnswerKeeps, FailKeeps, JudgeKeeps, IdleKeeps DEF Next, Terminated

LEMMA Invariance == Spec => []IInv
BY InitIInv, NextKeeps, PTL DEF Spec

-----------------------------------------------------------------------------
(* Theorems *)

\* How a SendResult that is over ended.
LEMMA Endings ==
    ASSUME IInv
    PROVE  \/ Underway \/ Refused \/ RequestFailed \/ ReadFailed \/ Succeeded \/ Rejected
BY DEF IInv

LEMMA FieldFacts ==
    ASSUME NEW mode, NEW event, NEW truncated, NEW e, NEW r,
           r = LogFields(mode, event, truncated, e)
    PROVE  /\ r.event = event /\ r.truncated = truncated /\ r.error = e
           /\ r.body <=> mode \in {"body", "full"}
           /\ r.headers <=> mode = "full"
BY DEF LogFields

LEMMA ValidUnfolded ==
    Valid(cfg) <=> Render(cfg) /\ validateHeaders(cfg.headers)
                     /\ cfg.method # "bad" /\ cfg.url = "absolute"
BY DEF Valid, validateEndpoint

\* webhook.go:263-272, 330.  Whatever is wrong with a configuration, no endpoint
\* hears of it, and what net/http refuses is not sent either.
THEOREM InvalidIsNeverSent == Spec => []InvalidNeverSent
<1>1. IInv => InvalidNeverSent
  <2> SUFFICES ASSUME IInv PROVE InvalidNeverSent OBVIOUS
  <2>1. ASSUME pc # "begin", ~Valid(cfg) PROVE verdict = "permanent" /\ ~accepted
    BY <2>1, Zenon DEF IInv, Underway, Refused, RequestFailed, ReadFailed, Succeeded, Rejected
  <2>2. ASSUME ~Sendable PROVE ~accepted /\ verdict \in {"none", "permanent", "transport"}
    BY <2>2, Zenon DEF IInv, Underway, Refused, RequestFailed, ReadFailed, Succeeded, Rejected, Answered
  <2> QED BY <2>1, <2>2, ValidUnfolded, Zenon DEF InvalidNeverSent
<1> QED BY <1>1, Invariance, PTL

\* docs/content/webhooks.md:70-73.  What is kept of a response, and what the log
\* says of it, for every size and every limit of an int.
THEOREM CaptureIsBounded == Spec => []BoundedCapture
<1>1. IInv => BoundedCapture
  <2> SUFFICES ASSUME IInv PROVE BoundedCapture OBVIOUS
  <2> DEFINE kept == Limit(cfg.limit)
  <2>1. cfg.limit \in Int BY DEF IInv, Config
  <2>2. kept \in Nat /\ kept >= 1 BY <2>1, WidthAssumption DEF Limit
  <2>3. ASSUME response # NoResponse
        PROVE  /\ response.size \in Nat
               /\ Capture.truncated = (kept < MaxInt /\ response.size > kept)
               /\ readResponseBody(response.size, cfg.limit).read <= kept + 1
               /\ response.size <= kept =>
                    readResponseBody(response.size, cfg.limit).text = response.size
    <3>1. response \in Responses
      BY <2>3 DEF IInv, Underway, Refused, RequestFailed, ReadFailed, Succeeded, Rejected,
                  Answered, Unanswered
    <3>2. response.size \in Nat BY <3>1, ResponsesAssumption DEF Response
    <3> QED BY <2>1, <3>2, CaptureFacts DEF Capture
  <2>4. result.len <= kept
    <3>1. result = NoResult \/ result.len = 0 \/ result.len <= kept
      BY DEF IInv, Underway, Refused, RequestFailed, ReadFailed, Succeeded, Rejected, Unanswered
    <3> QED BY <2>2, <3>1 DEF NoResult
  <2>5. ASSUME NEW i \in DOMAIN logged, logged[i].event \in {"delivered", "failed"}
        PROVE  logged[i].truncated = (kept < MaxInt /\ response.size > kept)
    <3>1. ASSUME NEW r, logged = <<r>> PROVE i = 1 /\ logged[i] = r BY <3>1, <2>5
    <3>2. ~(logged = << >>) BY <2>5
    <3>3. ~Underway /\ ~Refused BY <3>2 DEF Underway, Refused
    <3>4. ASSUME RequestFailed \/ ReadFailed PROVE FALSE
      <4>1. ASSUME NEW event, NEW e, logged = <<LogFields("", event, FALSE, e)>>
            PROVE  logged[i].event = event
        <5>1. logged[i] = LogFields("", event, FALSE, e) BY <3>1, <4>1, Zenon
        <5> QED BY <5>1 DEF LogFields
      <4>2. logged[i].event \in {"request failed", "read failed"}
        <5>1. CASE RequestFailed BY <4>1, <5>1, Zenon DEF RequestFailed
        <5>2. CASE ReadFailed BY <4>1, <5>2, Zenon DEF ReadFailed
        <5> QED BY <3>4, <5>1, <5>2
      <4> QED BY <2>5, <4>2
    <3>5. ASSUME Succeeded \/ Rejected PROVE logged[i].truncated = Capture.truncated
      <4>1. ASSUME NEW event, NEW e, logged = <<LogFields(cfg.log, event, Capture.truncated, e)>>
            PROVE  logged[i].truncated = Capture.truncated
        <5>1. logged[i] = LogFields(cfg.log, event, Capture.truncated, e) BY <3>1, <4>1, Zenon
        <5> QED BY <5>1, FieldFacts
      <4>2. CASE Succeeded
        <5>1. logged = <<LogFields(cfg.log, "delivered", Capture.truncated, NoError)>>
          BY <3>2, <4>2 DEF Succeeded
        <5> QED BY <4>1, <5>1
      <4>3. CASE Rejected BY <4>1, <4>3, Zenon DEF Rejected
      <4> QED BY <3>5, <4>2, <4>3
    <3>6. ASSUME Succeeded \/ Rejected PROVE response # NoResponse
      <4>1. response \in Responses BY <3>6 DEF Succeeded, Rejected, Answered
      <4> QED BY <4>1, ResponsesAssumption DEF Response, NoResponse
    <3> QED BY <2>3, <3>3, <3>4, <3>5, <3>6, Endings
  <2> QED BY <2>3, <2>4, <2>5 DEF BoundedCapture
<1> QED BY <1>1, Invariance, PTL

\* webhook.go:30-43, docs/content/logging.md:3-30, 81-86.  Bodies and headers are
\* logged only where asked for, failures always, and no record or error has the URL.
THEOREM LogsAreDiscreet == Spec => []LogsDiscreet
<1>1. IInv => LogsDiscreet
  <2> SUFFICES ASSUME IInv PROVE LogsDiscreet OBVIOUS
  <2>1. ASSUME NEW i \in DOMAIN logged
        PROVE  /\ logged[i].body => cfg.log \in {"body", "full"}
               /\ logged[i].headers => cfg.log = "full"
               /\ ~Shows(logged[i].error)
    <3>1. ASSUME NEW r, logged = <<r>> PROVE logged[i] = r BY <2>1, <3>1
    <3>2. ~(logged = << >>) BY <2>1
    <3>3. ~Underway /\ ~Refused BY <3>2 DEF Underway, Refused
    <3>4. ~Shows(NoError) BY DEF Shows, NoError
    <3>5. ASSUME NEW mode, NEW event, NEW truncated, NEW e, ~Shows(e),
                 mode \in {"", cfg.log}, logged = <<LogFields(mode, event, truncated, e)>>
          PROVE  /\ logged[i].body => cfg.log \in {"body", "full"}
                 /\ logged[i].headers => cfg.log = "full"
                 /\ ~Shows(logged[i].error)
      <4>1. logged[i] = LogFields(mode, event, truncated, e) BY <3>1, <3>5, Zenon
      <4>2. /\ logged[i].body <=> mode \in {"body", "full"}
            /\ logged[i].headers <=> mode = "full"
            /\ logged[i].error = e
        BY <4>1, FieldFacts
      <4> QED BY <3>5, <4>2
    <3>6. CASE RequestFailed \/ ReadFailed BY <3>5, <3>6 DEF RequestFailed, ReadFailed
    <3>7. CASE Succeeded BY <3>2, <3>4, <3>5, <3>7 DEF Succeeded
    <3>8. CASE Rejected BY <3>5, <3>8 DEF Rejected
    <3> QED BY <3>3, <3>6, <3>7, <3>8, Endings
  <2>2. ~Shows(error)
    <3>1. ~Shows(NoError) BY DEF Shows, NoError
    <3> QED
      BY <3>1, Endings, Zenon DEF Underway, Refused, RequestFailed, ReadFailed, Succeeded, Rejected
  <2>3. \A r : <<r>> # << >> OBVIOUS
  <2>4. /\ verdict \in {"transport", "unclassified"} => logged # << >>
        /\ verdict = "ok" => (logged = << >> <=> cfg.log = "none")
    <3>1. CASE Underway \/ Refused BY <3>1 DEF Underway, Refused
    <3>2. CASE RequestFailed \/ ReadFailed BY <2>3, <3>2 DEF RequestFailed, ReadFailed
    <3>3. CASE Succeeded BY <2>3, <3>3 DEF Succeeded
    <3>4. CASE Rejected BY <2>3, <3>4 DEF Rejected
    <3> QED BY <3>1, <3>2, <3>3, <3>4, Endings
  <2> QED BY <2>1, <2>2, <2>4 DEF LogsDiscreet, LogsAsConfigured, UrlNeverShown
<1> QED BY <1>1, Invariance, PTL

\* webhook.go:409-425.  The wait an endpoint asks for is reported with every
\* answer and never shortened, for every length of a second and width of an int.
THEOREM RetryAfterIsKept == Spec => []RetryAfterKept
<1>1. IInv => RetryAfterKept
  <2> SUFFICES ASSUME IInv, pc = "done", response # NoResponse
               PROVE  result.retryAfter = LET h == response.retryAfter IN
                        IF h.form = "seconds" /\ h.n > MaxInt THEN 0 ELSE Asked(h)
    BY DEF RetryAfterKept
  <2>1. response \in Responses /\ result.retryAfter = Wait
    BY DEF IInv, Underway, Refused, RequestFailed, ReadFailed, Succeeded, Rejected,
           Answered, Unanswered
  <2>2. response.retryAfter \in RetryAfters BY <2>1, ResponsesAssumption DEF Response
  <2> QED BY <2>1, <2>2, RetryAfterFacts DEF Wait
<1> QED BY <1>1, Invariance, PTL

\* A SendResult of the webhook is what a delivery takes a target's Send to be: it
\* returns once, and success means that the endpoint has acted on the request.
THEOREM WebhookIsAnAttempt == Spec => ImplementsAttempt
<1>1. Init => Attempt!Init BY DEF Init, Attempt!Init
<1>2. IInv /\ [Next]_vars => [Attempt!Next]_(Attempt!vars)
  <2> SUFFICES ASSUME IInv, [Next]_vars PROVE [Attempt!Next]_(Attempt!vars) OBVIOUS
  <2>1. ASSUME UNCHANGED <<verdict, accepted>> PROVE UNCHANGED Attempt!vars
    BY <2>1 DEF Attempt!vars
  <2>2. ASSUME UNCHANGED accepted, Underway, verdict' \in {"ok", "transport", "permanent", "unclassified"},
               verdict' = "ok" => accepted
        PROVE  Attempt!Next
    BY <2>2 DEF Attempt!Next, Attempt!Return, Attempt!Verdicts, Underway
  <2>3. pc # "done" => Underway BY DEF IInv
  <2>4. CASE CtxEnds \/ Answer \/ Terminated \/ UNCHANGED vars
    BY <2>1, <2>4 DEF CtxEnds, Answer, Terminated, vars
  <2>5. CASE Begin
    BY <2>1, <2>2, <2>3, <2>5 DEF Begin, Return
  <2>6. CASE Accept BY <2>6 DEF Accept, Attempt!Next, Attempt!Accept
  <2>7. CASE DoFails \/ ReadFails
    BY <2>2, <2>3, <2>7 DEF DoFails, ReadFails, Return
  <2>8. CASE ReadThenJudge
    <3>1. /\ pc = "read" /\ UNCHANGED accepted
          /\ verdict' = IF response.status \in 200..299 THEN "ok" ELSE "unclassified"
      BY <2>8 DEF ReadThenJudge, Return
    <3>2. response.status \in 200..299 => accepted BY <3>1 DEF IInv, Underway, Answered
    <3> QED BY <2>2, <2>3, <3>1, <3>2
  <2> QED BY <2>4, <2>5, <2>6, <2>7, <2>8 DEF Next
<1> QED BY <1>1, <1>2, Invariance, PTL DEF Spec, ImplementsAttempt, Attempt!Spec
=============================================================================
