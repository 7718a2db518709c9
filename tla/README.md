# A verification development for notifykit

This directory holds TLA+ specifications of notifykit (`src/`), TLC
configurations that model-check them on small instances, and proofs checked by
TLAPS that hold for every value of the constants. Source references are
`file:line` below `src/`.

## 1. Inventory

notifykit is a Go library. An application describes receivers, each with
delivery targets and a retry configuration, and either sends a notification
synchronously (`notify.Send`) or hands it to a `notify.Manager`, an in-memory
bounded queue served by worker goroutines.

| Component | State | Operations | Talks to |
|---|---|---|---|
| Manager (`notify/manager.go`) | flags under `m.mu`; channels `slots`, `mailbox`, `stopping`, `done`; `runCtx` | `Enqueue`, `Start`, `Shutdown`, `Wait`, `stop`, `finish` | store and mailbox (shared with the workers), contexts, completion callback |
| Dispatcher, store (`notify/dispatcher.go`, `notify/store.go`) | map of queued notifications; per worker the current id | `start` (worker loop), `dispatch`, `put`/`get`/`delete` | mailbox, slots, delivery engine, callback |
| Delivery engine, retry (`notify/delivery.go`, `notify/retry.go`) | loop positions, attempt counter, timer | `dispatch`, `dispatchReceiver`, `withRetry`, `retryBackoff` | targets, context, policy |
| Policies, errors (`notify/retry_policy.go`, `notify/error.go`) | none (error trees) | `Permanent`, `Transport`, built-in policies | retry |
| Routing (`notify/send.go`, `notify/receiver.go`, `notify/types.go`) | receiver map; slices shared with the application | `NewReceiver`, `WithTargets`, `normalizeReceivers`, `validateReceivers`, `resolveReceivers`, `Send` | dispatcher, delivery engine |
| Webhook target (`targets/webhook/webhook.go`) | one HTTP exchange, log records | `SendResult`, `parseRetryAfter`, `readResponseBody` | `net/http`, retry policies |
| Email target (`targets/email/*.go`) | one SMTP session, a goroutine that watches the context, one message | `sendSMTP`, `smtpAuth`, `smtpSend`, `dialProxy`, `closeConnOnContextDone`, `buildEmail` | `net/smtp`, TLS, context |
| Templates (`templates/*.go`) | options, function maps shared with the application | `parse`, `parseOptions`, `With...` options, rendering | template engines, files |
| Header validation (`internal/header`) | none | `ValidFieldName`, `ContainsNewline` | both targets |
| Examples | none | | |

What makes each of them correct, and what is hard about it:

* **Manager.** Producers, workers, `Start`, any number of `Shutdown` calls, the
  `context.AfterFunc` of `Start` and the `finish` goroutine interleave. A
  producer reserves a token in `slots` *before* it takes `m.mu` and re-checks the
  flags under it; the send to `mailbox` happens under the lock and must neither
  block nor panic. Tokens must balance on every path. Every accepted
  notification is completed exactly once, and `Wait` returns only after the last
  callback. A graceful shutdown drains, an abort cancels and discards.
* **Dispatcher and store.** An id that leaves the mailbox is found in the store
  and removed from it; ids leave in the order they came.
* **Delivery engine and retry.** Every target is tried whatever happened to the
  others; at most `Count + 1` sends; no send begins once the context is seen to have
  ended; waits respect `RetryAfter` and `MaxBackoff` and do not overflow. End to
  end: a completion without error means that every target has the notification,
  also when acknowledgements are lost and attempts are repeated.
* **Policies and errors.** `Permanent` wins over `Transport` in any order of
  marking, wrapping and joining.
* **Routing.** Each named receiver once and in order; unknown names are skipped;
  no names means everybody. What the application writes later to slices it shares
  with the manager does not reach the workers.
* **Webhook.** The limits (body, `Retry-After`) saturate; the classification of a
  failure decides its retry; the URL, a secret, shows up nowhere.
* **Email.** Nothing travels in clear unless asked for; success is exactly an
  acknowledged DATA; an error keeps its cause; whatever happens, the connection is
  closed and the session and its watcher end. BCC stays out of the headers.
* **Templates.** The last function of a name wins, the application's over the
  helpers; an option list never writes to the application's maps.

`PROJECT.json` lists the hazards line by line, each with the properties that
would notice it going wrong or the reason why none does.

## 2. Plan

Order, most important behaviour first. All of it is done.

1. `Manager` with `DeliveryQueue`, its abstract contract (`ManagerProofs`,
   `ContractProofs`).
2. `Delivery`: `dispatcher.dispatch` from the resolved receivers on, the loops over
   receivers and targets and `withRetry`, racing the context, with panicking targets,
   and `WorkerDelivery`, what `Manager` assumes of a delivery (`DeliveryProofs`).
3. `Backoff`: the arithmetic of the waits, for durations of a small width (`RetryProofs`).
4. `Policies`: error trees and the built-in policies (`RetryProofs`).
5. `Routing`: building, normalisation, validation, resolution (`SetupProofs`).
6. `Webhook`: `SendResult`, classification, `Retry-After`, the bounded read, the log
   (`WebhookProofs`).
7. `Smtp`: the session and the proxy exchange with the context ending at any point, with
   `TargetAttempt`, what one attempt promises; `MailMessage` (`EmailProofs`).
8. `Redelivery`: `Delivery` composed with targets that keep that promise (`DeliveryProofs`).
9. `Templates`: options and function maps (`SetupProofs`).
10. The refinements: `Manager` of `DeliveryQueue`, `Delivery` of `WorkerDelivery`, the
    targets and `withRetry` of `TargetAttempt`.

How they fit together: `Manager` treats a delivery as one state that ends with a
result. `WorkerDelivery` is exactly that behaviour for one worker, and `Delivery`
implements it. `Delivery` treats a `Send` as one step with some result.
`TargetAttempt` says what that result means to the other side; `Smtp` and
`Webhook` implement it, and `Redelivery` builds on it. `Policies` and `Backoff` say
which of the failures are retried and after which wait, where `Delivery` has a set
of failures and a free choice.

## 3. The modules

### Manager.tla

One action per access to a shared object, one program counter per goroutine.

| Variables | Code |
|---|---|
| `mu` | who holds `m.mu` across several steps (only `Enqueue` does) |
| `started`, `stopped`, `finishing` | the fields of the same name |
| `stopping`, `mailboxClosed`, `done` | whether the channel has been closed |
| `slots`, `mailbox`, `store` | tokens in the channel, buffered ids, keys of the map |
| `runCtx`, `startCtxDone`, `afterFunc` | `m.runCtx`, the context given to `Start`, the `AfterFunc` |
| `enq`, `start`, `shut`, `worker`, `fin` | where each goroutine is |
| `job`, `verdict`, `finJob` | locals: the id in hand, the outcome |
| `callbacks`, `outcome` | what the completion callback was told |
| `panicked` | a send on, or a close of, a closed channel happened |

Choices worth knowing:

* `Start` and `stop` run wholly under `m.mu`, block on nothing, and what they do
  commutes with the steps others can take meanwhile without the lock; each is one
  action that needs `m.mu` free. `Enqueue`'s critical section is split at every
  store and channel operation, because workers use these without the lock.
* A Go `select` picks any ready case: `EnqueueReserve`, `EnqueueStopping` and
  `EnqueueCtxDone` compete, and so do `WorkerCanceled`, `WorkerReceive` and
  `WorkerDrained`. In particular a worker may take an id after its context ended.
* The context of an `Enqueue` call is the caller's own and its end is for ever, so
  each check of it is a free choice. The same for the deadline of a `Shutdown`.
* `uuid.NewV7` never repeats: the call itself stands for the id it mints.
* A delivery is one `sending` state that ends with a result of the targets, or,
  once `runCtx` is cancelled, with the context's error. How results come about
  is the subject of `Delivery`.
* Nil arguments and empty notification ids end `Enqueue` in `rejected`; nil
  managers and the other nil checks of the API have no effect and are left out.
* `Wait` on its own changes no state; it is modelled inside `Shutdown`.

The definitions commented as `Mutant:`, here and in the other modules, are plausible
mistakes. They are not part of the specification; each is used in place of the
definition that follows it to see that a property notices.

### DeliveryQueue.tla

The promise without goroutines: a first-in first-out queue with at most
`MaxQueued` entries, at most `MaxActive` active deliveries, one result per
notification, cancellations and discards only after an abort (or if nothing ever
ran), discards only when nothing is active any more, `done` last. `Manager`
instantiates it as `Contract`, with this mapping: `phase` from `stopped` and `done`;
`aborted` from the *application's* deeds (Start's context ended, a Shutdown missed
its deadline), not from `runCtx`, which `finish` also cancels; `queue` is what
`finish` has in hand followed by the mailbox; `active` is what workers hold until
the callback has returned; `result` from the callback, where a second callback
would map to a value the contract does not know.

### Delivery.tla, WorkerDelivery.tla

One worker between the resolution of the receivers and the completion callback, with
one program counter. `plan` is what `resolveReceivers` returned, reduced to what the
loops look at: per receiver the number of targets, `Count`, and the set of failures the
policy retries (empty for a nil policy).

| Variables | Code |
|---|---|
| `r`, `t` | the loop variables of `dispatch` and `dispatchReceiver` |
| `executed` | `withRetry`'s variable; `attempt` has the same value at the loop's head |
| `errs` | the `DeliveryError`s collected so far |
| `outcome`, `told` | `dispatcher.dispatch`'s variable, and what the callback got of it |
| `ctxDone` | the context has ended |
| `sent`, `result`, `lateSends` | a log of what the targets have seen |

The actions follow `withRetry` line by line: `Attempt` (head of the loop),
`TimerFires` and `WaitInterrupted` (`waitForRetry`'s select), `Check` (the select with
a default), `Call`, `SendReturns` or `SendPanics`, `Judge`. Whether there is a wait at all
is a free choice, since it depends on durations. `EndTarget` is the return to the
loops over targets and receivers. Between the check of the context and the
call of `Send` the context may end; this is why one late send is allowed. `Count` has the
width of an int: `Wrap` is Go's overflow of `Count+1`.

`WorkerDelivery` is the behaviour that `Manager`'s actions `WorkerDeliver`,
`WorkerDelivered` and `WorkerInterrupted` have for one worker; `ImplementsWorker` says
that a delivery behaves like that. The mapping calls a delivery `sending` from the moment
its first `Send` is certain: before that the end of the context cancels all of it.
A panic maps to a delivered result, because that is what the callback is told; then
the program ends.

### TargetAttempt.tla, Redelivery.tla

`TargetAttempt` is the promise of one `Send`: the other side has the notification at most
once, success is reported only if it has it, and `Send` returns once. A failure says
nothing: the acknowledgement may be lost, and the other side may accept even after
`Send` has given up.

`Redelivery` adds to `Delivery` a log of the attempts the other side has accepted.
`Accept` may happen at any time after an attempt has begun; `Answer` is `SendReturns`,
which reports success only for an attempt that was accepted; `Proceed` is everything
else `Delivery` does. Three things follow. `NilMeansReached`: a completion without error
means that every target of every receiver has the notification. `DuplicatesNeedRetries`:
a target gets it twice only where retries are configured. `TargetsKeepPromise`: the whole of
`withRetry`, for one target, again implements `TargetAttempt`.

### Smtp.tla

One `SendResult` of the email target. `pc` names the stage: `begin` (validation,
rendering), the dial, the CONNECT exchange, TLS, the SMTP commands one by one, `giveUp` (the `Close`
after a failed `Write`, which may wait for one more reply), `closing`, `settle` (`sendSMTP`
looks at the context once more), `done`. Each wait for the peer can end
in four ways: the peer answers (`Peer`, with any reply), the connection breaks, the deadline
of the attempt passes (`TimesOut`), or the connection has been closed by `Watch`, the
goroutine of `closeConnOnContextDone` (`FindsClosed`). A dial also heeds the context
directly (`CtxInterrupts`); between the commands some stages check it (`CheckCtx`).
Nothing but the deadline ends the CONNECT exchange: the watcher is started after it.

| Variables | Code |
|---|---|
| `cfg` | the target, before and after `applyDefaults` |
| `ctxDone`, `expired` | the caller's context; the deadline of the attempt |
| `conn`, `secure` | the connection; whether its bytes are encrypted |
| `watcher` | the goroutine of `closeConnOnContextDone` |
| `failure`, `verdict` | `sendSMTP`'s error; what `SendResult` made of it |
| `server` | the other side: credentials and message seen in clear or not, recipients accepted, message sent, message stored |

Addresses, hosts, proxy schemes and templates are classes of values that the code tells
apart. Errors are the classes that `classifySMTPError` distinguishes, replies and refusals of a
proxy with their code, any of up to three digits (`CodesAssumption`), as `net/textproto` and
`net/http` accept them; `Refusals` says which of them a stage can meet. A local failure
(of `crypto/tls`, of the protocol) is possible at every stage but `write`. The credentials
of `NothingInClear` are those for the SMTP server; those in the URL of a proxy go to the
proxy, over whichever scheme the URL names, and are left out.

### MailMessage.tla

`Smtp` with the message that `sendSMTP` builds before it dials (`msg`, from one of the
`Letters`, which refine the classes of addresses and headers of the configuration, `Fits`). The
text of a body is a sequence over `CR`, `LF` and letters, so that the three replacements of
`normalizeBody` are modelled by what they do; a header line is its name and the addresses
it shows. `LettersAssumption` says only that a configuration has finitely many headers and
that a body is a finite text.

### Webhook.tla, Header.tla

One `SendResult` of the webhook target: rendering and validation, the request, the status,
the bounded read, the classification and the log records. The endpoint may act on the
request (`accepted`) at any time, and answer or not. Integers have the width `MaxInt`, so
that the lookahead byte and the multiplication of `Retry-After` can overflow. An error
is whether a `*url.Error`, whose text contains the URL, is in its chain, and whether it
has been redacted. `Header` has the two checks over classes of names and values; one class is
what the check lets pass and `net/http` refuses (`Sendable`). Of that class `InvalidNeverSent`
says only that nothing is sent; that it counts as a transport failure it allows (section 5).

### Policies.tla, Backoff.tla

`Policies`: an error is the kinds of its tree in the order in which `errors.As` visits
them. Raw failures are marked, wrapped and joined in every order up to a bound, and every
built-in policy decides on the result. `marked` remembers which marks were ever applied,
independently of how the code finds them again. `PoliciesAsDocumented` says of each built-in
policy exactly when it retries: never a permanent failure; `RetryOnError` every other one;
the policies of a status exactly those statuses; of the transport failures `RetryOnTimeout`
those with a deadline in them or whose first network error is a timeout (`TimesOut`),
`RetryOnNetworkError` the rest; `DefaultRetryPolicy` as the documentation spells it out.

`Backoff`: `retryDelay`, `retryBackoff`, `jitterBackoff`, `doubleDuration` as operators, and a machine
that takes one configuration through its retries, with a new `RetryAfter` each time.
`Documented` is the reference: the exact power of two, cut at `MaxBackoff` or the largest
duration. The doubling loop and `PowerOfTwo` are recursive functions.

### Routing.tla

Receivers as the application builds them. A slice is a length over an array of a heap
(`arrays`), `append` writes in place while there is capacity, and the application keeps its slices,
and those of `Manager.Receivers`, and may write to them. Receivers come by `NewReceivers` or as a
map literal whose keys need not be the ids. `Broadcasts` allows every order that
`slices.SortFunc`, which is not stable, may produce.

### Templates.tla

Function maps live in a heap by reference; an option may name one of the application's
maps. `Parse` applies a list of options, and the application parses further templates from the same
maps, and changes them in between.

### MC modules

`MCManager`, `MCDelivery`, `MCSmtp`, `MCWebhook` hold the values of the constants.
`MCSetup` checks four machines that share no state, `Routing`, `Templates`, `Policies` and
`Backoff`: `subject` picks one, the others rest in an initial state.

### Proof modules

`ManagerProofs`, `ContractProofs`, `DeliveryProofs`, `RetryProofs`, `SetupProofs`,
`WebhookProofs` and `EmailProofs` hold the theorems of section 6. `DataLemmas` has what the last
steps of several of them share: induction, as facts about sets of numbers (the least element
of a set that is not empty), a function that follows the rounds of a loop, the folds and
`FlattenSeq` and `SetToSeq` of the community modules.

## 4. Runs

| Run | Instance | Shows |
|---|---|---|
| `manager_safety` | 3 Enqueue, 2 Start, 2 Shutdown calls, 2 workers, capacity 2, symmetry; 820 000 states | `TypeOK`, `SlotAccounting`, `ChannelsAreSafe`, `StoreMatchesQueue`, `DoneMeansDone`, `ImplementsContract`, `ComesToRest` |
| `manager_liveness` | 3 Enqueue calls, 1 worker, 1 Start, 1 Shutdown, capacity 1; 200 000 states | `AbortCompletes` and `ProducersReleased` with targets that return only when their context ends; `NobodyWaitsForever` with targets that return |
| `manager_abort_doc` | 2 Enqueue calls, 1 worker, capacity 2 | the documented discard is violated (section 5) |
| `delivery` | up to 2 receivers and 3 targets, counts from the least int to 2, 3 policies, 2 kinds of failure, panics, attempts accepted at once, late or never; 178 000 states | `SendsAreBounded`, `ReportTruthful`, `NilMeansReached`, `DuplicatesNeedRetries`, `RetryOnlyIfAllowed`, `ImplementsWorker`, `TargetsKeepPromise`, `DeliveryMovesOn`, `DeliveryEnds` |
| `delivery_count_doc` | 1 target, `Count` the largest int | the documented number of retries is violated |
| `delivery_panic_doc` | as `delivery` | the documented meaning of nil is violated |
| `email` | every TLS mode through every kind of proxy, every configuration with one defect, a peer that answers anything or nothing, every small body and every distribution of two addresses over To, Cc and Bcc; 59 000 states | `NothingInClear`, `AckDecides`, `WholeEnvelope`, `ClassifiedByCause`, `ImplementsAttempt`, `SessionComesToRest`, `SessionEnds`; of the message `HeadersTruthful`, `LinesPreserved` |
| `smtp_proxy_doc` | as `email` | the documented cancellation is violated during the CONNECT exchange |
| `smtp_permanent_doc` | as `email` | the documented end of permanent failures is violated: one that was read is reported as transport once the deadline has passed |
| `webhook` | configurations with one defect, every log mode, limits and `Retry-After` at both ends of the width, every status class; 35 000 states | `InvalidNeverSent`, `BoundedCapture`, `LogsDiscreet`, `RetryAfterKept`, `ImplementsAttempt` |
| `webhook_2xx_doc` | as `webhook` | the documented success of a 2xx response is violated |
| `setup` | 2 receivers, a slice with room for one more, ids of which one is empty, notifications that name up to 2; lists of up to 3 template options over 2 function maps; error trees of up to 5 nodes on both sides of each status boundary; durations of 6 bits, 7 retries; 1 526 000 states in all | `RoutedAsDocumented`, `ConfigFrozen`, `OptionsAsDocumented`, `MapsUntouched`, `MarksDecide`, `PoliciesAsDocumented`, `WaitsAsDocumented` |

`ChannelsAreSafe` (`NeverBlocks`, `NoPanic`), `SendsAreBounded` (`RetriesExhausted`, `OneLateSend`),
`ComesToRest`, `DeliveryMovesOn`, `SessionComesToRest` (with `NoConnectionLeft`), `NobodyWaitsForever`,
`ReportTruthful`, `DeliveryEnds`, `SessionEnds`, `HeadersTruthful`, `LogsDiscreet`,
`PoliciesAsDocumented`, `WaitsAsDocumented`, `RoutedAsDocumented` and `OptionsAsDocumented` are
conjunctions; the modules define and explain each part under a name of its own or in the comment.

Deadlock is checked in all runs: the specifications stutter explicitly only when every
call has returned and every goroutine has ended (`Terminated`), when a setup was rejected, or at a
named bound (as `Complete` does when an error has all the nodes `MaxErrors` allows).

*Bounds.* Manager: three calls on a capacity of two are the least that let one call wait for
a token while another is between its reservation and the lock and a third is
queued; two workers let one deliver while the other exits or both hold ids; two
`Shutdown` calls let a deadline of one race the drain of the other; two `Start`
calls reach the refusals. For liveness one worker that hangs, one entry queued and a
third call: that producer depends on `stopping` alone. Delivery: two targets of one receiver
and two receivers are the least that let a failure of one meet the others in both loops;
counts up to 2 allow a retry after a retry; a negative and the least count reach the
correction to one attempt. The proofs lift the invariants to all bounds. Email: two
recipients take the loop over them round twice; reply codes of every class, one of less than three
digits and one beyond 599 among them, and both sides of the proxy's list. Webhook and waits: values lie at and next to zero, the default, the
product limit and the largest integer of a small width, which behaves like 63 bits.
Seven retries let every starting value reach its cap or the saturation.
Errors: five nodes hold both marks and a join of two wrapped errors.
Routing: two receivers built from one slice that share its free place. Templates: three
options let one map be copied before and after another option of the same name.

*Fairness.* A goroutine that can run runs: weak fairness per goroutine. Locks starve
nobody; since calls are finitely many, weak fairness is enough for that. No
fairness is assumed of the application: calls need not be made, contexts and
deadlines need not end, `Start` need not be called. Callbacks return, as
`WithOnComplete` demands. Nothing is asked of the peers of a target either: they may
stay silent for ever. In `Manager` and `Redelivery`, `SpecHonorCtx` (`RSpecHonorCtx`) assumes
that a delivery (a `Send`) ends once its context has ended ("Custom targets must honor
ctx", `notify/manager.go:260`), and nothing of timers, since `MaxBackoff` and
`RetryAfter` may be arbitrarily long. Where more is needed the property says so itself:
`TargetsReturn => ...` (targets return by themselves and timers fire) and `DeadlinePasses => ...`
(the deadline of an attempt passes, `targets/email/email.go:383`).

Most liveness properties have the form `<>[](a => b)`. Flags are set and never cleared and a call
returns once, so this says the same as `a ~> b`, and for a whole run with one search.

## 5. What the code does against its documentation

`Shutdown` (`notify/manager.go:239`): if its context expires, "queued notifications
are discarded with ErrManagerStopped completion outcomes". `AbortDiscardsQueued`
states it and `manager_abort_doc` refutes it: the worker's `select`
(`notify/dispatcher.go:41`) has two ready cases, the ended context and the mailbox, and
may choose the mailbox. The notification then completes with `context.Canceled` (or
with the routing error) instead of `ErrManagerStopped`. It is still completed exactly
once, and no target is called.

`RetryConfig.Count` (`notify/types.go:138`): "the number of retries after the initial
attempt". `CountHonored` states it for every count, and `delivery_count_doc` refutes it for
the largest int: `cfg.Count+1` (`notify/retry.go:17`) wraps and `max` leaves a single
attempt. A caller who writes `math.MaxInt` for "keep trying" gets no retry at all.
`RetriesExhausted` shows, and `RetriesAreExhausted` proves, that this is the only count
concerned.

`Completion` (`notify/manager.go:49`): "Nil means delivery succeeded". `NilMeansDelivered`
states it and `delivery_panic_doc` refutes it: if `target.Send` panics, `outcome` is still
nil when the deferred function (`notify/dispatcher.go:65`) calls the callback. The program
then ends, but a callback that writes to durable storage has recorded a success.
`SuccessIsDelivery` proves that without a panic the sentence is true.

Custom targets (`docs/content/custom-targets.md:55`): "Honor `ctx` throughout network
operations so cancellation and shutdown can complete". `CancellationEnds` states it of the email
target and `smtp_proxy_doc` refutes it: while `connectHTTPProxy` writes its request and waits
for the answer (`targets/email/proxy.go:91`), nothing closes the connection of a canceled
context, as `closeConnOnContextDone` does later. Only the deadline ends the attempt.
`SessionEnds` shows that it does, and that cancellation ends every later stage; it and
`SessionComesToRest` leave the CONNECT exchange out, so `CancellationEnds` alone speaks of it.

Permanent failures of email (`docs/content/email.md:74`): network failures and temporary replies are
retryable with `DefaultRetryPolicy`, "permanent 5xx replies and certificate verification
failures are not"; `targets/email/email.go:785` has "permanent replies cannot retry".
`PermanentStaysPermanent` states it for a caller whose own context is alive, and
`smtp_permanent_doc` refutes it: the deferred function of `sendSMTP`
(`targets/email/email.go:390`) replaces any error by that of the context if it has ended in
the meantime. If it is the attempt's own deadline that passes, before the 550 that was read is returned,
the failure is `context.DeadlineExceeded`, a transport failure, and the message is tried again.
`ClassifiedByCause` states what remains true: without an ended context errors are classified
exactly by their cause, and a temporary one is never made permanent.

Webhooks (`docs/content/webhooks.md:68`): "HTTP 2xx responses succeed." `Http2xxSucceeds` states it and
`webhook_2xx_doc` refutes it: if the body of such a response cannot be read
(`targets/webhook/webhook.go:356`), the attempt is a transport failure, and the endpoint may
get the notification again. A test (`targets/webhook/webhook_test.go:195`) expects exactly this,
so it is the page, or the test, that has to change.

Three smaller things the models state as they are, inside properties that hold. Seconds of `Retry-After`
beyond an int64 are no wait at all, while fewer seconds give the longest one
(`targets/webhook/webhook.go:409`, `RetryAfterKept`). A header value with a control character
passes validation and fails in `net/http` as a transport failure, which may be retried
(`targets/webhook/webhook.go:456`; `InvalidNeverSent` shows that it is not sent and does not
speak against the retry). `WithTargets` appends to the
caller's slice (`notify/receiver.go:68`): two receivers built from one slice with spare
capacity share their next target until a manager is created, which copies them
(`ConfigFrozen`).

## 6. Proofs

Manager. For every finite set of calls, every finite non-empty set of workers and every capacity
of at least one (`CallsAssumption`, `WorkersAssumption`, `CapacityAssumption`; these
say only that there are finitely many calls and what `NewManager` enforces):

| Theorem | States |
|---|---|
| `TypeCorrect` | `TypeOK` |
| `NeverPanics` | `NoPanic` |
| `AdmissionStaysClosed` | `AdmissionCloses` |
| `SlotsBalance` | `SlotAccounting` |
| `StoreFaithful` | `StoreMatchesQueue` |
| `NothingBlocks`, with `NeverPanics` `ChannelsNeverFail` | `NeverBlocks`, `ChannelsAreSafe` |
| `NothingLeftAtDone` | `DoneMeansDone` |
| `RefusalIsClean` | `RefusedLeavesNoTrace` |
| `OnlyAbortsCancel` | `AbortInv` |
| `ManagerImplementsContract` | `ImplementsContract` |
| `ManagerComesToRest` | `ComesToRest` |

The argument. `AdmissionInv` says what `m.mu` protects: the holder is
in `Enqueue`'s critical section, past the check of the flag the manager is not
stopped, the channels are closed exactly when the flag is set, `finish` exists
exactly when `finishing` is set. It is inductive together with `TypeOK` and gives
`NoPanic` and `AdmissionCloses`.

The other invariants are not inductive: that a token is given back by `dequeue` says
something only if the id it belongs to is nowhere else. `OwnershipInv`
says so: an admitted id is once in the mailbox, or with one worker, or with `finish`,
and `finish` holds one only when all workers are gone. With it each action moves one
id between sets, and the store, the tokens and the callbacks follow the move:
`StoreMatchesQueue`, `SlotAccounting` and `CallbackInv` are proved action by action, and
their conjunction is `QueueInv`. `NeverBlocks` then counts: a mailbox without
repetitions, together with the sending call, injects into the holders of tokens
(`DistinctShort`), of which there are at most `Capacity`.

The refinement (`ContractProofs`) needs two facts more. The contract allows a cancellation or a
discard only after the application has aborted, and the code cancels `runCtx` in `finish` as well.
`AbortInv` says why nobody sees the difference: without an abort `runCtx` lives until `finish` has
drained the mailbox, a worker exits only when the mailbox is closed and empty, so no delivery ends
as cancelled, and `finish` finds something to discard only if nothing was ever started. `ToldInv`: a
callback that was made was told something. Their conjunction with the invariants above is `RefInv`.
Each action then maps to one step of the contract or to a stutter: the send to the mailbox is the
contract's enqueue, the receive its start of a delivery, the callback its result and the callback's
return its release. `QueueInv` gives the guards, above all that a worker's id is in no other place
when it moves.

`ComesToRest` is the part of `NobodyWaitsForever`, `ProducersReleased` and `AbortCompletes`
that is about single states and steps, so that it needs no fairness and can be proved. It has two halves.

*Where nothing can run* (`~Runnable`, the guards of all that the fairness of section 4 covers),
everybody has what they wait for (`RestIsExplained`; `RestHolds` proves it). The argument goes
backwards from the standstill. Whoever holds `m.mu` could go on, by `NeverBlocks`; so the lock is
free (`MutexIsFree`) and nobody waits for it. Of the workers that are left each waits for the
mailbox or is in a delivery (`WorkersAtRest`). In a stopped manager the mailbox is closed, so with
no delivery under way the workers are gone and `finish`, which a stop always starts, has run to its
end (`StoppedIsDone`). A cancelled context has made the `AfterFunc` stop the manager
(`CanceledIsDone`). A manager that is neither has an empty mailbox and, by `SlotAccounting`, all its
tokens, so no producer is blocked (`RunningIsEmpty`). This needs `CancelInv` besides `RefInv`: a
cancellation is under way to those who must hear of it, and no worker has left before.

*Every step* takes a call, a notification or a goroutine on and none back (`NothingGoesBack`,
`SomethingMoves`, proved as `StepMoves`). The stages are few: of an `Enqueue` call (`Admission`), of its
notification from the mailbox over its holder to the callback's return (`Journey`), of the other
goroutines. Without `OwnershipInv` a notification could go back, from one holder to another, or
have none before its callback was made (`JourneyFacts`).

Together: the manager takes finitely many steps (at most fourteen for each `Enqueue` call and its
notification, two to four for each other call and goroutine), and where it stops nobody is
forgotten. What is left to fairness is that it does not stop earlier. That `Runnable` is what
fairness runs, `RunnableIsRun`, is about `ENABLED`; TLC checks it inside `NobodyWaitsForever`.

Delivery. For every set of plans (any receivers with at least one target, which
`validateReceivers` enforces, any `Count`, any policy) and every width of int
(`PlansAssumption`, `MaxIntAssumption`, `FailuresAssumption`):

| Theorem | States |
|---|---|
| `DeliveryTypeCorrect` | `TypeOK` |
| `RetriesAreExhausted` | `RetriesExhausted` |
| `EveryTargetIsAccounted`, `AttemptsAreTruthful`, together `ReportsAreTrue` | `EveryTargetAccounted`, `AttemptsTruthful`, `ReportTruthful` |
| `SuccessIsDelivery` | `SuccessMeansDelivered` |
| `RetriesAreAllowed` | `RetryOnlyIfAllowed` |
| `AtMostOneLateSend`, with `RetriesAreExhausted` `SendsStayBounded` | `OneLateSend`, `SendsAreBounded` |
| `DeliveryMakesProgress` | `DeliveryMovesOn` |
| `DeliveryRefinesWorker` | `ImplementsWorker` |

The argument. `DeliveryInv` orders the targets as the loops visit them (`Earlier`) and
divides them: those before `<<r, t>>` have been dealt with (`Dealt`), those after it are
untouched, and `Current` relates `withRetry`'s variables to the log of the one in between.
`NextTarget` shows that the two nested loops visit the targets in exactly this order,
`EndTargetKeepsInv` that handing a target over preserves the division; the other steps
leave the target where it is. Late sends need only `LateInv`: before the end of the
context there are none, after it no check passes. The refinement needs one fact more: a
delivery that joins without any send had its context ended, and reports so
(`NothingSentMeansCanceled`).

`DeliveryMovesOn` is the part of `DeliveryEnds` that needs no fairness: the loops make progress with
every step, lexicographically in phase, target, attempt and stage of the attempt, and there are only the
plan's targets and the attempts that `Count` promises. `NextTarget` gives the order of the targets; that the
loops leave no attempts counted behind them is `CountedInv`.

Redelivery, under the same assumptions (a step of `Redelivery` is a step of `Delivery` or a
stutter of it, so everything above holds there, too):

| Theorem | States |
|---|---|
| `NilIsReached` | `NilMeansReached` |
| `OnlyRetriesDuplicate` | `DuplicatesNeedRetries` |
| `RetriesKeepPromise` | `TargetsKeepPromise`: per target, `withRetry` implements `TargetAttempt` |

The argument. `AckInv`: a success of a target is the acceptance of its last attempt.
`RetryInv`: a second attempt has a policy that allowed it. With `DeliveryInv`, which says that
no error of a target means its success, they give all three.

Policies. For every set of status codes and every bound on the size of an error tree
(`BoundAssumption`):

| Theorem | States |
|---|---|
| `PolicyTypeCorrect` | `TypeOK` |
| `MarksAlwaysDecide` | `MarksDecide` |
| `PermanentIsNeverRetried`, `TimeoutsAndNetworkErrors`, `UnclassifiedFailures`, `DefaultIsAsDocumented`, together `PoliciesAreAsDocumented` | the parts of `PoliciesAsDocumented` |

The argument. `MarksDecide` with the type is inductive. `DecidedByTree` restates it over the
nodes of a tree, where wrapping and joining are concatenations (`Wrapped`, `Joined`) and a mark
is one more node or none. Which network error decides between timeout and network failure is
`FirstNetError`: a tree that has one has a first one, and it is the one `errors.As` finds.

Backoff. For every width of durations, all sets of durations of that width and any number
of retries (`BackoffAssumption`): `WaitsAreAsDocumented` states `WaitsAsDocumented`.

The argument. The code doubles within the width and stops at a limit, the documentation takes
an exact power of two and cuts it. `RoundDoubles` shows for one round that what the code has, cut
at the limit, stays what is documented, cut at the limit, also where the product would overflow
and the code takes the largest duration; `BackoffIsExact` is the induction over the rounds.
Jitter then only shortens (`JitterShortens`).

Routing. For every set of targets, any slice the receivers are built from, any number of receivers
and of ids in a notification (`IdsAssumption`, `BaseAssumption`, `BoundsAssumption`):

| Theorem | States |
|---|---|
| `RoutesAsDocumented` | `RoutedAsDocumented` |
| `ConfigIsFrozen` | `ConfigFrozen` |

The argument. What the application does to the arrays it has changes no delivery because the
manager's receivers have arrays of their own: `OwnInv`. It is `normalizeReceivers` that brings
this about (every clone goes to a new array, in whatever order the map is walked), and every
later `append` or write through a slice of the application keeps it, since such a slice
stays within another array (`HeapInv`) or is empty. The loop over the ids of a notification is
followed round by round (`NamedIsALoop`): after each, the result has the known ids so far, once each.

Templates. For all sets of function maps, functions and options and lists of any length
(`TemplatesAssumption`):

| Theorem | States |
|---|---|
| `OptionsDecide` | `OptionsAsDocumented` |
| `MapsStayUntouched` | `MapsUntouched` |

The argument. `Reflects` says what a configuration amounts to after the first `k` options: for
each name the last option that gives it a function, the last missing-key policy,
whether the helpers were asked for, and the application's maps as they were. One more option
keeps it (`OneMoreOption`), `parseOptions` is the fold of them.

Webhook. For every set of configurations and responses and every width of int
(`WidthAssumption`, `ConfigsAssumption`, `ResponsesAssumption`):

| Theorem | States |
|---|---|
| `InvalidIsNeverSent` | `InvalidNeverSent` |
| `CaptureIsBounded` | `BoundedCapture` |
| `LogsAreDiscreet` | `LogsDiscreet` |
| `RetryAfterIsKept` | `RetryAfterKept` |
| `WebhookIsAnAttempt` | `ImplementsAttempt` |

The argument. `IInv`: an exchange is underway (`Underway`) with nothing logged or reported, or it
has ended in one of five ways (`Refused`, `RequestFailed`, `ReadFailed`, `Succeeded`,
`Rejected`), each with its verdict, its log records and the error it may show.
Every property is then a property of each ending; the limits need the case distinction
of the fixed-width arithmetic besides.

Email. For every set of configurations, with any number of recipients, and every set of reply codes
of up to three digits (`ConfigsAssumption`, `CodesAssumption`):

| Theorem | States |
|---|---|
| `SmtpTypeCorrect` | `TypeOK` |
| `NeverInClear` | `NothingInClear` |
| `EnvelopesAreWhole` | `WholeEnvelope` |
| `SuccessIsAcknowledged` | `AckDecides` |
| `ConnectionsAreClosed` | `NoConnectionLeft` |
| `SessionRunsToRest` | `SessionComesToRest` |
| `ErrorsKeepTheirCause` | `ClassifiedByCause` |
| `SessionIsAnAttempt` | `ImplementsAttempt` |
| `HeadersAreHonest` | `HeadersTruthful` |
| `LinesArePreserved` | `LinesPreserved` |

The argument. None of these is inductive: what is known at the end depends on the stage it was
learned in. `IInv` says it per stage. `ConfigInv`: only a valid, defaulted configuration is
dialed. `EnvelopeInv`: the loop over the recipients against what the server has accepted.
`SecureInv`: from which stage on the channel is encrypted in which mode. `ErrorInv`: no error
before `closing`, no verdict before `done`. `DoneInv`: how `SendResult` can have returned.
`ConnInv`: no connection before the dial, none left after `closing`. One lemma per group of
actions preserves it; the refinement needs `EnvelopeInv` (stored means sent) and `ErrorInv`
(success means stored).

`SessionComesToRest` is the part of `SessionEnds` that needs no fairness. `Progress` adds up the
stage (`Rank`), the recipients named so far and what happens once: the ends of the context and of
the deadline, the message stored, the watcher started and gone. Every step raises it, and it stays
within 26 and the number of recipients; the loop over the recipients stays at one stage but counts
them. Where neither the session nor its watcher can run, `WatchInv` says who waits for what: the
watcher is started after the CONNECT exchange, and if it is gone while the session goes on it has
closed the connection; so a session that stands still waits for a peer before its deadline, under a
live context or, without a watcher, for a proxy, which is the divergence of section 5.
`RunnableIsRun`, about `ENABLED`, is again TLC's, inside `SessionEnds`.

The message, for letters with finitely many headers and bodies of any length
(`LettersAssumption`). The invariant `MInv` is that of the session's first stage and the two properties;
only `Begin` builds a message, so the work is in the operators. The headers are a configured part and
one of the target's own, without a name in common (`LinesTogether`). For the body the three
replacements of `normalizeBody` are followed place by place: after the first two no `CR` is
left, the third pairs each `LF` with a `CR` before it (`Paired`), each pass keeps the words and the
line ends of the text before it, and `TextIsPreserved` puts the passes together.

Proved but in no run of their own: `AdmissionCloses`, `RefusedLeavesNoTrace`,
`SuccessMeansDelivered`, `AbortInv` and the type invariants of `Delivery`, `Policies` and `Smtp`;
the theorems say more than a small instance would.

Only model-checked: the liveness properties under fairness, `NobodyWaitsForever`,
`ProducersReleased`, `AbortCompletes`, `DeliveryEnds` and `SessionEnds`, which are out of the
provers' reach (they rest on `ENABLED`; their halves that are safety are `ComesToRest`,
`DeliveryMovesOn` and `SessionComesToRest`, which are proved), and the six disagreements of section
5, each a counterexample. Every invariant, action property and refinement that a passing run checks
is proved as well. The induction theorems of the library, which take an operator as a parameter,
cannot be used; where a proof is about a loop of any length, `DataLemmas` does the induction with
sets.

## 7. Not modelled

* The examples: programs without logic of their own.
* Templates: reading sources, rendering (both are library calls), and the helper
  functions. What options and function maps make of each other is modelled.
* Routing: names, retry settings and custom data of receivers. Custom data is cloned where
  target slices are; names are only shown. (Retry settings are `plan` in `Delivery`.)
* Inside libraries: `net/smtp`, `crypto/tls`, `net/http` and its redirects, `net/mail`. Their
  answers are external: any that the code tells apart.
* Callbacks that call back into the manager (`notify/manager.go:302`): the documentation
  of `WithOnComplete` forbids what would block, and the models assume callbacks that return.
* Logging other than that of the webhook target, the wording of errors, nil checks of the
  API.
