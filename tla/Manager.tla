------------------------------ MODULE Manager ------------------------------
(***************************************************************************)
(* The queueing core of notifykit: notify/manager.go together with the     *)
(* worker loop of notify/dispatcher.go and the map of notify/store.go.     *)
(*                                                                         *)
(* Goroutines: one per Enqueue call, one per Start call, one per Shutdown  *)
(* call, the workers, the finish goroutine and the context.AfterFunc that  *)
(* Start arms.  Every goroutine has a program counter; one action is one   *)
(* access to a shared object (a channel, the store, the mutex, a context). *)
(*                                                                         *)
(* The critical sections of Start and stop block on nothing and touch      *)
(* only fields that m.mu guards (or channels whose closing is observable   *)
(* only as a whole), so each is one action that needs m.mu free.  The      *)
(* critical section of Enqueue calls the store and sends on the mailbox,   *)
(* which workers use without m.mu; it is modelled step by step.            *)
(*                                                                         *)
(* A queue id is minted by each Enqueue call and is unique (uuid.NewV7),   *)
(* so the call itself serves as the id of its notification.                *)
(***************************************************************************)
EXTENDS Naturals, Sequences, FiniteSets

CONSTANTS
    Calls,      \* the Enqueue calls, and the queue ids they mint
    Workers,    \* the worker goroutines that Start launches (WithWorkers)
    Starts,     \* the Start calls
    Shutdowns,  \* the Shutdown calls
    Capacity,   \* WithQueueCapacity
    NoCall      \* "no notification" and "mutex free"

ASSUME CapacityAssumption == Capacity \in Nat \ {0}
ASSUME CallsAssumption == IsFiniteSet(Calls) /\ NoCall \notin Calls
ASSUME WorkersAssumption == IsFiniteSet(Workers) /\ Workers # {}

VARIABLES
    mu,            \* m.mu: the Enqueue call inside its critical section
    started, stopped, finishing,       \* the flags m.mu guards
    stopping, mailboxClosed, done,     \* which channels are closed
    slots,         \* number of tokens in the channel m.slots
    mailbox,       \* buffer of the channel m.mailbox
    store,         \* queue ids present in m.store.items
    runCtx,        \* m.runCtx: "none" (nil), "live" or "canceled"
    startCtxDone,  \* the context given to the successful Start has ended
    afterFunc,     \* the context.AfterFunc of Start
    enq,           \* program counter and result of each Enqueue call
    start,         \* the same of each Start call
    shut,          \* the same of each Shutdown call
    worker, job, verdict,   \* per worker: counter, queueID, outcome
    fin, finJob,   \* counter of the finish goroutine, the id it drains
    callbacks,     \* how many times onComplete was invoked for an id
    outcome,       \* Completion.Err of the last invocation
    panicked       \* a send on, or a close of, a closed channel happened

chanVars   == <<stopping, mailboxClosed, done, panicked>>
flagVars   == <<started, stopped, finishing>>
ctxVars    == <<runCtx, startCtxDone, afterFunc>>
workerVars == <<worker, job, verdict>>
finVars    == <<fin, finJob>>
logVars    == <<callbacks, outcome>>
vars == <<mu, flagVars, chanVars, slots, mailbox, store, ctxVars,
          enq, start, shut, workerVars, finVars, logVars>>

Admitting == {"lock", "put", "send", "freeStopped", "freeCanceled"}
Refused   == {"stopped", "canceled", "rejected"}
Returned  == Refused \union {"accepted"}

Outcomes == {"delivered", "failed", "canceled", "noReceivers", "managerStopped"}

(***************************************************************************)
(* Initially: what NewManager returns.                                     *)
(***************************************************************************)
Init ==
    /\ mu = NoCall
    /\ started = FALSE /\ stopped = FALSE /\ finishing = FALSE
    /\ stopping = FALSE /\ mailboxClosed = FALSE /\ done = FALSE
    /\ slots = 0 /\ mailbox = << >> /\ store = {}
    /\ runCtx = "none" /\ startCtxDone = FALSE /\ afterFunc = "unset"
    /\ enq = [c \in Calls |-> "idle"]
    /\ start = [s \in Starts |-> "idle"]
    /\ shut = [s \in Shutdowns |-> "idle"]
    /\ worker = [w \in Workers |-> "unborn"]
    /\ job = [w \in Workers |-> NoCall]
    /\ verdict = [w \in Workers |-> "none"]
    /\ fin = "none" /\ finJob = NoCall
    /\ callbacks = [c \in Calls |-> 0]
    /\ outcome = [c \in Calls |-> "none"]
    /\ panicked = FALSE

-----------------------------------------------------------------------------
(***************************************************************************)
(* Enqueue.  The caller's context belongs to the call alone and ending is  *)
(* for ever, so it needs no variable: each check of it may find it ended.  *)
(***************************************************************************)
EnqueueStep(c, from, to) == enq[c] = from /\ enq' = [enq EXCEPT ![c] = to]

\* The checks before the queue id is minted: all passed, or an early return
\* (nil context, ended context, nil notification, empty notification ID).
EnqueueCall(c) ==
    /\ \/ EnqueueStep(c, "idle", "reserve")
       \/ EnqueueStep(c, "idle", "rejected")
    /\ UNCHANGED <<mu, flagVars, chanVars, slots, mailbox, store, ctxVars,
                   start, shut, workerVars, finVars, logVars>>

\* Mutant: the token channel has no capacity.
EnqueueReserveUnbounded(c) ==
    /\ EnqueueStep(c, "reserve", "lock")
    /\ slots' = slots + 1
    /\ UNCHANGED <<mu, flagVars, chanVars, mailbox, store, ctxVars,
                   start, shut, workerVars, finVars, logVars>>

\* select: case m.slots <- struct{}{}
EnqueueReserve(c) ==
    /\ EnqueueStep(c, "reserve", "lock")
    /\ slots < Capacity
    /\ slots' = slots + 1
    /\ UNCHANGED <<mu, flagVars, chanVars, mailbox, store, ctxVars,
                   start, shut, workerVars, finVars, logVars>>

\* select: case <-m.stopping
EnqueueStopping(c) ==
    /\ EnqueueStep(c, "reserve", "stopped")
    /\ stopping
    /\ UNCHANGED <<mu, flagVars, chanVars, slots, mailbox, store, ctxVars,
                   start, shut, workerVars, finVars, logVars>>

\* select: case <-ctx.Done()
EnqueueCtxDone(c) ==
    /\ EnqueueStep(c, "reserve", "canceled")
    /\ UNCHANGED <<mu, flagVars, chanVars, slots, mailbox, store, ctxVars,
                   start, shut, workerVars, finVars, logVars>>

\* Mutant: the stop that may have happened since the reservation is forgotten.
EnqueueLockStale(c) ==
    /\ mu = NoCall
    /\ mu' = c
    /\ EnqueueStep(c, "lock", "put") \/ EnqueueStep(c, "lock", "freeCanceled")
    /\ UNCHANGED <<flagVars, chanVars, slots, mailbox, store, ctxVars,
                   start, shut, workerVars, finVars, logVars>>

\* m.mu.Lock() and the two checks made under it.
EnqueueLock(c) ==
    /\ mu = NoCall
    /\ mu' = c
    /\ IF stopped \/ runCtx = "canceled"
       THEN EnqueueStep(c, "lock", "freeStopped")
       ELSE \/ EnqueueStep(c, "lock", "put")
            \/ EnqueueStep(c, "lock", "freeCanceled")
    /\ UNCHANGED <<flagVars, chanVars, slots, mailbox, store, ctxVars,
                   start, shut, workerVars, finVars, logVars>>

\* Mutant: a refused call keeps its token.
EnqueueFreeLeaks(c) ==
    /\ \/ EnqueueStep(c, "freeStopped", "stopped")
       \/ EnqueueStep(c, "freeCanceled", "canceled")
    /\ mu' = NoCall
    /\ UNCHANGED <<flagVars, chanVars, slots, mailbox, store, ctxVars,
                   start, shut, workerVars, finVars, logVars>>

\* <-m.slots, the deferred unlock, and the error return.
EnqueueFree(c) ==
    /\ \/ EnqueueStep(c, "freeStopped", "stopped")
       \/ EnqueueStep(c, "freeCanceled", "canceled")
    /\ slots > 0
    /\ slots' = slots - 1
    /\ mu' = NoCall
    /\ UNCHANGED <<flagVars, chanVars, mailbox, store, ctxVars,
                   start, shut, workerVars, finVars, logVars>>

\* m.store.put(id, n)
EnqueuePut(c) ==
    /\ EnqueueStep(c, "put", "send")
    /\ store' = store \union {c}
    /\ UNCHANGED <<mu, flagVars, chanVars, slots, mailbox, ctxVars,
                   start, shut, workerVars, finVars, logVars>>

\* m.mailbox <- id: panics on a closed channel, blocks on a full one.
EnqueueSend(c) ==
    /\ EnqueueStep(c, "send", "unlock")
    /\ IF mailboxClosed
       THEN panicked' = TRUE /\ UNCHANGED mailbox
       ELSE /\ Len(mailbox) < Capacity
            /\ mailbox' = Append(mailbox, c)
            /\ UNCHANGED panicked
    /\ UNCHANGED <<mu, flagVars, stopping, mailboxClosed, done, slots, store,
                   ctxVars, start, shut, workerVars, finVars, logVars>>

\* The deferred unlock of a successful call.
EnqueueReturn(c) ==
    /\ EnqueueStep(c, "unlock", "accepted")
    /\ mu' = NoCall
    /\ UNCHANGED <<flagVars, chanVars, slots, mailbox, store, ctxVars,
                   start, shut, workerVars, finVars, logVars>>

-----------------------------------------------------------------------------
(***************************************************************************)
(* Start                                                                   *)
(***************************************************************************)
\* The ctx.Err() check made before m.mu is taken.
StartCall(s) ==
    /\ start[s] = "idle"
    /\ \E r \in {"lock", "errContext"} : start' = [start EXCEPT ![s] = r]
    /\ UNCHANGED <<mu, flagVars, chanVars, slots, mailbox, store, ctxVars,
                   enq, shut, workerVars, finVars, logVars>>

\* The critical section when the manager was started or stopped before.
StartRefused(s) ==
    /\ start[s] = "lock"
    /\ mu = NoCall
    /\ started \/ stopped
    /\ start' = [start EXCEPT ![s] = IF started THEN "errStarted" ELSE "errStopped"]
    /\ UNCHANGED <<mu, flagVars, chanVars, slots, mailbox, store, ctxVars,
                   enq, shut, workerVars, finVars, logVars>>

\* The critical section that launches the workers and finish.  The caller's
\* context may have ended since StartCall: then runCtx is canceled from birth.
StartLaunch(s) ==
    /\ start[s] = "lock"
    /\ mu = NoCall
    /\ ~started /\ ~stopped
    /\ started' = TRUE
    /\ finishing' = TRUE
    /\ startCtxDone' \in BOOLEAN
    /\ runCtx' = IF startCtxDone' THEN "canceled" ELSE "live"
    /\ afterFunc' = "armed"
    /\ worker' = [w \in Workers |-> "select"]
    /\ fin' = "wait"
    /\ start' = [start EXCEPT ![s] = "ok"]
    /\ UNCHANGED <<mu, stopped, chanVars, slots, mailbox, store, enq, shut,
                   job, verdict, finJob, logVars>>

\* The application ends the context it gave to Start; runCtx is its child.
CancelStartCtx ==
    /\ started
    /\ ~startCtxDone
    /\ startCtxDone' = TRUE
    /\ runCtx' = "canceled"
    /\ UNCHANGED <<mu, flagVars, chanVars, slots, mailbox, store, afterFunc,
                   enq, start, shut, workerVars, finVars, logVars>>

-----------------------------------------------------------------------------
(***************************************************************************)
(* stop(drain), and what calls it.  stop runs under m.mu; fin is set by    *)
(* the callers because finish itself is one of them.                       *)
(***************************************************************************)
StopEffects(drain) ==
    /\ stopped' = TRUE
    /\ runCtx' = IF ~drain /\ runCtx # "none" THEN "canceled" ELSE runCtx
    /\ finishing' = TRUE
    /\ UNCHANGED <<mu, started, done, slots, mailbox, store, startCtxDone,
                   enq, start, workerVars, finJob, logVars>>

\* The closing of m.stopping and m.mailbox, which panics on a closed one.
CloseBoth ==
    /\ stopping' = TRUE
    /\ mailboxClosed' = TRUE
    /\ panicked' = (panicked \/ stopping \/ mailboxClosed)

\* Mutant: every stop closes the channels.
StopClosesAgain(drain) == mu = NoCall /\ CloseBoth /\ StopEffects(drain)

\* Mutant: m.stopping is not closed, producers are not told.
StopTellsNobody(drain) ==
    /\ mu = NoCall
    /\ mailboxClosed' = TRUE
    /\ UNCHANGED <<stopping, panicked>>
    /\ StopEffects(drain)

Stop(drain) ==
    /\ mu = NoCall
    /\ IF stopped THEN UNCHANGED <<stopping, mailboxClosed, panicked>> ELSE CloseBoth
    /\ StopEffects(drain)

\* go m.finish(), unless a finish goroutine was launched before.
FinAfterStop == IF finishing THEN fin ELSE "wait"

\* context.AfterFunc(m.runCtx, func() { m.stop(false) })
AfterFuncStop ==
    /\ afterFunc = "armed"
    /\ runCtx = "canceled"
    /\ Stop(FALSE)
    /\ fin' = FinAfterStop
    /\ afterFunc' = "fired"
    /\ UNCHANGED shut

\* Mutant: Shutdown does not drain.
ShutdownStopAborts(s) ==
    /\ shut[s] = "idle"
    /\ Stop(FALSE)
    /\ fin' = FinAfterStop
    /\ shut' = [shut EXCEPT ![s] = "wait"]
    /\ UNCHANGED afterFunc

\* Shutdown: m.stop(true)
ShutdownStop(s) ==
    /\ shut[s] = "idle"
    /\ Stop(TRUE)
    /\ fin' = FinAfterStop
    /\ shut' = [shut EXCEPT ![s] = "wait"]
    /\ UNCHANGED afterFunc

\* Wait inside Shutdown: case <-m.done
ShutdownDone(s) ==
    /\ shut[s] = "wait"
    /\ done
    /\ shut' = [shut EXCEPT ![s] = "nil"]
    /\ UNCHANGED <<mu, flagVars, chanVars, slots, mailbox, store, ctxVars,
                   enq, start, workerVars, finVars, logVars>>

\* Wait inside Shutdown: case <-ctx.Done(), which may win even over m.done.
ShutdownExpire(s) ==
    /\ shut[s] = "wait"
    /\ shut' = [shut EXCEPT ![s] = "expired"]
    /\ UNCHANGED <<mu, flagVars, chanVars, slots, mailbox, store, ctxVars,
                   enq, start, workerVars, finVars, logVars>>

\* Mutant: the failed Wait cancels nothing.
ShutdownAbortDrains(s) ==
    /\ shut[s] = "expired"
    /\ Stop(TRUE)
    /\ fin' = FinAfterStop
    /\ shut' = [shut EXCEPT ![s] = "err"]
    /\ UNCHANGED afterFunc

\* Shutdown after Wait failed: m.stop(false)
ShutdownAbort(s) ==
    /\ shut[s] = "expired"
    /\ Stop(FALSE)
    /\ fin' = FinAfterStop
    /\ shut' = [shut EXCEPT ![s] = "err"]
    /\ UNCHANGED afterFunc

-----------------------------------------------------------------------------
(***************************************************************************)
(* The workers: dispatcher.start and dispatcher.dispatch.                  *)
(***************************************************************************)
WorkerStep(w, from, to) ==
    worker[w] = from /\ worker' = [worker EXCEPT ![w] = to]

\* select: case <-ctx.Done().  Go picks any ready case, so a worker whose
\* context has ended may still take the next id from the mailbox.
WorkerCanceled(w) ==
    /\ WorkerStep(w, "select", "exited")
    /\ runCtx = "canceled"
    /\ UNCHANGED <<mu, flagVars, chanVars, slots, mailbox, store, ctxVars,
                   enq, start, shut, job, verdict, finVars, logVars>>

\* select: case id, ok := <-d.mailbox with ok
WorkerReceive(w) ==
    /\ WorkerStep(w, "select", "get")
    /\ mailbox # << >>
    /\ job' = [job EXCEPT ![w] = Head(mailbox)]
    /\ mailbox' = Tail(mailbox)
    /\ UNCHANGED <<mu, flagVars, chanVars, slots, store, ctxVars,
                   enq, start, shut, verdict, finVars, logVars>>

\* select: the mailbox is closed and empty
WorkerDrained(w) ==
    /\ WorkerStep(w, "select", "exited")
    /\ mailbox = << >>
    /\ mailboxClosed
    /\ UNCHANGED <<mu, flagVars, chanVars, slots, mailbox, store, ctxVars,
                   enq, start, shut, job, verdict, finVars, logVars>>

\* d.store.get: an unknown id is dropped with a warning.
WorkerGet(w) ==
    /\ IF job[w] \in store
       THEN WorkerStep(w, "get", "delete") /\ UNCHANGED job
       ELSE WorkerStep(w, "get", "select") /\ job' = [job EXCEPT ![w] = NoCall]
    /\ UNCHANGED <<mu, flagVars, chanVars, slots, mailbox, store, ctxVars,
                   enq, start, shut, verdict, finVars, logVars>>

\* Mutant: a dispatched notification stays in the store.
WorkerDeleteForgets(w) ==
    /\ WorkerStep(w, "delete", "dequeue")
    /\ UNCHANGED <<mu, flagVars, chanVars, slots, mailbox, store, ctxVars,
                   enq, start, shut, job, verdict, finVars, logVars>>

\* d.store.delete
WorkerDelete(w) ==
    /\ WorkerStep(w, "delete", "dequeue")
    /\ store' = store \ {job[w]}
    /\ UNCHANGED <<mu, flagVars, chanVars, slots, mailbox, ctxVars,
                   enq, start, shut, job, verdict, finVars, logVars>>

\* Mutant: a dispatched notification keeps its token.
WorkerDequeueKeeps(w) ==
    /\ WorkerStep(w, "dequeue", "deliver")
    /\ UNCHANGED <<mu, flagVars, chanVars, slots, mailbox, store, ctxVars,
                   enq, start, shut, job, verdict, finVars, logVars>>

\* d.onDequeue: <-slots
WorkerDequeue(w) ==
    /\ WorkerStep(w, "dequeue", "deliver")
    /\ slots > 0
    /\ slots' = slots - 1
    /\ UNCHANGED <<mu, flagVars, chanVars, mailbox, store, ctxVars,
                   enq, start, shut, job, verdict, finVars, logVars>>

Decide(w, v) == verdict' = [verdict EXCEPT ![w] = v]

\* Routing, and the check of ctx that withRetry makes before the first Send.
\* validateReceivers leaves no receiver without a target, so a delivery that
\* finds the context ended here fails without having sent anything.
WorkerDeliver(w) ==
    /\ \/ WorkerStep(w, "deliver", "complete") /\ Decide(w, "noReceivers")
       \/ /\ runCtx = "canceled"
          /\ WorkerStep(w, "deliver", "complete") /\ Decide(w, "canceled")
       \/ /\ runCtx # "canceled"
          /\ WorkerStep(w, "deliver", "sending") /\ UNCHANGED verdict
    /\ UNCHANGED <<mu, flagVars, chanVars, slots, mailbox, store, ctxVars,
                   enq, start, shut, job, finVars, logVars>>

\* d.delivery.dispatch returns: a result of the targets, or the context's error.
WorkerDelivered(w) ==
    /\ WorkerStep(w, "sending", "complete")
    /\ \/ Decide(w, "delivered")
       \/ Decide(w, "failed")
    /\ UNCHANGED <<mu, flagVars, chanVars, slots, mailbox, store, ctxVars,
                   enq, start, shut, job, finVars, logVars>>

WorkerInterrupted(w) ==
    /\ runCtx = "canceled"
    /\ WorkerStep(w, "sending", "complete")
    /\ Decide(w, "canceled")
    /\ UNCHANGED <<mu, flagVars, chanVars, slots, mailbox, store, ctxVars,
                   enq, start, shut, job, finVars, logVars>>

Callback(c, err) ==
    /\ callbacks' = [callbacks EXCEPT ![c] = @ + 1]
    /\ outcome' = [outcome EXCEPT ![c] = err]

\* The deferred d.onComplete of dispatch is invoked ...
WorkerComplete(w) ==
    /\ WorkerStep(w, "complete", "callback")
    /\ Callback(job[w], verdict[w])
    /\ UNCHANGED <<mu, flagVars, chanVars, slots, mailbox, store, ctxVars,
                   enq, start, shut, job, verdict, finVars>>

\* ... and returns; the worker goes back to its select.
WorkerReturn(w) ==
    /\ WorkerStep(w, "callback", "select")
    /\ job' = [job EXCEPT ![w] = NoCall]
    /\ verdict' = [verdict EXCEPT ![w] = "none"]
    /\ UNCHANGED <<mu, flagVars, chanVars, slots, mailbox, store, ctxVars,
                   enq, start, shut, finVars, logVars>>

-----------------------------------------------------------------------------
(***************************************************************************)
(* The finish goroutine.                                                   *)
(***************************************************************************)
FinishStep(from, to) == fin = from /\ fin' = to

\* Mutant: finish does not wait for the workers.
FinishWaitSkips ==
    /\ FinishStep("wait", "stop")
    /\ UNCHANGED <<mu, flagVars, chanVars, slots, mailbox, store, ctxVars,
                   enq, start, shut, workerVars, finJob, logVars>>

\* m.workersDone.Wait(): no worker was launched, or all have returned.
FinishWait ==
    /\ FinishStep("wait", "stop")
    /\ \A w \in Workers : worker[w] \in {"unborn", "exited"}
    /\ UNCHANGED <<mu, flagVars, chanVars, slots, mailbox, store, ctxVars,
                   enq, start, shut, workerVars, finJob, logVars>>

\* m.stop(false)
FinishStop ==
    /\ FinishStep("stop", "drain")
    /\ Stop(FALSE)
    /\ UNCHANGED <<afterFunc, shut>>

\* for id := range m.mailbox
FinishReceive ==
    /\ FinishStep("drain", "take")
    /\ mailbox # << >>
    /\ finJob' = Head(mailbox)
    /\ mailbox' = Tail(mailbox)
    /\ UNCHANGED <<mu, flagVars, chanVars, slots, store, ctxVars,
                   enq, start, shut, workerVars, logVars>>

\* m.store.get and m.store.delete: no other goroutine uses this id any more.
\* An id the store does not know still gives its token back but gets no
\* completion, so there is nothing left to remember of it.
FinishTake ==
    /\ FinishStep("take", "slot")
    /\ store' = store \ {finJob}
    /\ finJob' = IF finJob \in store THEN finJob ELSE NoCall
    /\ UNCHANGED <<mu, flagVars, chanVars, slots, mailbox, ctxVars,
                   enq, start, shut, workerVars, logVars>>

\* <-m.slots
FinishSlot ==
    /\ FinishStep("slot", IF finJob = NoCall THEN "drain" ELSE "complete")
    /\ slots > 0
    /\ slots' = slots - 1
    /\ UNCHANGED <<mu, flagVars, chanVars, mailbox, store, ctxVars,
                   enq, start, shut, workerVars, finJob, logVars>>

\* m.dispatcher.onComplete with ErrManagerStopped is invoked ...
FinishComplete ==
    /\ FinishStep("complete", "callback")
    /\ Callback(finJob, "managerStopped")
    /\ UNCHANGED <<mu, flagVars, chanVars, slots, mailbox, store, ctxVars,
                   enq, start, shut, workerVars, finJob>>

\* ... and returns.
FinishReturn ==
    /\ FinishStep("callback", "drain")
    /\ finJob' = NoCall
    /\ UNCHANGED <<mu, flagVars, chanVars, slots, mailbox, store, ctxVars,
                   enq, start, shut, workerVars, logVars>>

\* The range ends on the closed, empty mailbox; close(m.done).
FinishClose ==
    /\ FinishStep("drain", "exited")
    /\ mailbox = << >>
    /\ mailboxClosed
    /\ done' = TRUE
    /\ panicked' = (panicked \/ done)
    /\ UNCHANGED <<mu, flagVars, stopping, mailboxClosed, slots, mailbox, store,
                   ctxVars, enq, start, shut, workerVars, finJob, logVars>>

-----------------------------------------------------------------------------
EnqueueNext(c) ==
    \/ EnqueueCall(c) \/ EnqueueReserve(c) \/ EnqueueStopping(c)
    \/ EnqueueCtxDone(c) \/ EnqueueLock(c) \/ EnqueueFree(c)
    \/ EnqueuePut(c) \/ EnqueueSend(c) \/ EnqueueReturn(c)

StartNext(s) == StartCall(s) \/ StartRefused(s) \/ StartLaunch(s)

ShutdownNext(s) ==
    \/ ShutdownStop(s) \/ ShutdownDone(s)
    \/ ShutdownExpire(s) \/ ShutdownAbort(s)

WorkerNext(w) ==
    \/ WorkerCanceled(w) \/ WorkerReceive(w) \/ WorkerDrained(w)
    \/ WorkerGet(w) \/ WorkerDelete(w) \/ WorkerDequeue(w)
    \/ WorkerDeliver(w) \/ WorkerDelivered(w) \/ WorkerInterrupted(w)
    \/ WorkerComplete(w) \/ WorkerReturn(w)

FinishNext ==
    \/ FinishWait \/ FinishStop \/ FinishReceive \/ FinishTake
    \/ FinishSlot \/ FinishComplete \/ FinishReturn \/ FinishClose

\* Every call has returned and every goroutine has ended.
AllReturned ==
    /\ \A c \in Calls : enq[c] \in Returned
    /\ \A s \in Starts : start[s] \notin {"idle", "lock"}
    /\ \A s \in Shutdowns : shut[s] \in {"nil", "err"}
    /\ \A w \in Workers : worker[w] \in {"unborn", "exited"}
    /\ fin = "exited"
    /\ afterFunc # "armed"

\* The program is over: nothing happens any more, and that is no deadlock.
Terminated == AllReturned /\ UNCHANGED vars

Next ==
    \/ \E c \in Calls : EnqueueNext(c)
    \/ \E s \in Starts : StartNext(s)
    \/ \E s \in Shutdowns : ShutdownNext(s)
    \/ \E w \in Workers : WorkerNext(w)
    \/ CancelStartCtx
    \/ AfterFuncStop
    \/ FinishNext
    \/ Terminated

Spec == Init /\ [][Next]_vars

-----------------------------------------------------------------------------
(***************************************************************************)
(* Fairness.  A goroutine that can run is run, and sync.Mutex starves      *)
(* nobody.  An Enqueue call need not be made and its context need not end; *)
(* Start and Shutdown need not be called; no deadline need expire.         *)
(***************************************************************************)
EnqueueProgress(c) ==
    \/ EnqueueReserve(c) \/ EnqueueStopping(c) \/ EnqueueLock(c)
    \/ EnqueueFree(c) \/ EnqueuePut(c) \/ EnqueueSend(c) \/ EnqueueReturn(c)

\* Once its context has ended, a delivery returns: "Custom targets must honor
\* ctx", says Wait.  Without an end of the context it may go on for ever.
WorkerProgress(w) ==
    \/ WorkerCanceled(w) \/ WorkerReceive(w) \/ WorkerDrained(w)
    \/ WorkerGet(w) \/ WorkerDelete(w) \/ WorkerDequeue(w) \/ WorkerDeliver(w)
    \/ WorkerInterrupted(w) \/ WorkerComplete(w) \/ WorkerReturn(w)

Scheduling ==
    /\ \A c \in Calls : WF_vars(EnqueueProgress(c))
    /\ \A s \in Starts : WF_vars(StartRefused(s) \/ StartLaunch(s))
    /\ \A s \in Shutdowns : WF_vars(ShutdownDone(s) \/ ShutdownAbort(s))
    /\ \A w \in Workers : WF_vars(WorkerProgress(w))
    /\ WF_vars(AfterFuncStop)
    /\ WF_vars(FinishNext)

\* Targets that return only because their context has ended.
SpecHonorCtx == Spec /\ Scheduling

\* Targets that always return: every delivery ends by itself.
TargetsReturn     == \A w \in Workers : WF_vars(WorkerDelivered(w))
SpecTargetsReturn == SpecHonorCtx /\ TargetsReturn

-----------------------------------------------------------------------------
(***************************************************************************)
(* Type invariant                                                          *)
(***************************************************************************)
EnqStates == {"idle", "reserve", "unlock"} \union Admitting \union Returned
StartStates == {"idle", "lock", "errContext", "errStarted", "errStopped", "ok"}
ShutStates == {"idle", "wait", "expired", "nil", "err"}
WorkerStates == {"unborn", "select", "get", "delete", "dequeue", "deliver",
                 "sending", "complete", "callback", "exited"}
FinStates == {"none", "wait", "stop", "drain", "take", "slot", "complete",
              "callback", "exited"}

\* Every variable has its type, the token channel is within its capacity.
TypeOK ==
    /\ mu \in Calls \union {NoCall}
    /\ started \in BOOLEAN /\ stopped \in BOOLEAN /\ finishing \in BOOLEAN
    /\ stopping \in BOOLEAN /\ mailboxClosed \in BOOLEAN /\ done \in BOOLEAN
    /\ slots \in 0..Capacity
    /\ mailbox \in Seq(Calls) /\ Len(mailbox) <= Capacity
    /\ store \subseteq Calls
    /\ runCtx \in {"none", "live", "canceled"}
    /\ startCtxDone \in BOOLEAN
    /\ afterFunc \in {"unset", "armed", "fired"}
    /\ enq \in [Calls -> EnqStates]
    /\ start \in [Starts -> StartStates]
    /\ shut \in [Shutdowns -> ShutStates]
    /\ worker \in [Workers -> WorkerStates]
    /\ job \in [Workers -> Calls \union {NoCall}]
    /\ verdict \in [Workers -> Outcomes \union {"none"}]
    /\ fin \in FinStates /\ finJob \in Calls \union {NoCall}
    /\ callbacks \in [Calls -> Nat]
    /\ outcome \in [Calls -> Outcomes \union {"none"}]
    /\ panicked \in BOOLEAN

(***************************************************************************)
(* Safety                                                                  *)
(***************************************************************************)
Elements(s) == {s[i] : i \in 1..Len(s)}
Queued == Elements(mailbox)
HeldBy(states) == {job[w] : w \in {v \in Workers : worker[v] \in states}}

\* Who holds one of the tokens of m.slots.
Holders ==
    {c \in Calls : enq[c] \in Admitting}
        \union Queued \union HeldBy({"get", "delete", "dequeue"})
        \union (IF fin \in {"take", "slot"} THEN {finJob} ELSE {})

\* The tokens in m.slots are exactly those of the calls being admitted, of the
\* queued ids and of the ids on their way from the mailbox to onDequeue: no
\* path (refusal after the reservation, dispatch, final drain) leaks a token
\* or gives one back twice.
SlotAccounting == slots = Cardinality(Holders)

\* Enqueue holds m.mu while it sends to the mailbox or takes its token back,
\* and Start, Shutdown and the AfterFunc wait for m.mu: "A reserved slot
\* guarantees that sending below cannot block".  The same for the receives
\* from m.slots in the workers and in finish.
NeverBlocks ==
    /\ \A c \in Calls :
        /\ enq[c] = "send" => ~mailboxClosed /\ Len(mailbox) < Capacity
        /\ enq[c] \in {"freeStopped", "freeCanceled"} => slots > 0
    /\ \A w \in Workers : worker[w] = "dequeue" => slots > 0
    /\ fin = "slot" => slots > 0

\* No goroutine sends on a closed mailbox, and stopping, mailbox and done are
\* each closed once, whatever the order of Enqueue, Start, Shutdown, the end
\* of Start's context and finish.
NoPanic == ~panicked

\* What goes over the channels, and their closing, fails in neither way.
ChannelsAreSafe == NeverBlocks /\ NoPanic

\* The store holds exactly the notifications an id of which is on its way to a
\* worker or to finish: a dequeued id is always found ("notification not
\* found" never happens) and a dispatched one is never left behind.
StoreMatchesQueue ==
    store = Queued \union {c \in Calls : enq[c] = "send"}
                \union HeldBy({"get", "delete"})
                \union (IF fin = "take" THEN {finJob} ELSE {})

\* When Wait returns nil, every accepted notification has had its callback,
\* exactly one, no callback is still running, every worker has exited and
\* nothing is left in the mailbox or the store.
DoneMeansDone ==
    done => /\ store = {} /\ mailbox = << >>
            /\ \A w \in Workers : worker[w] \in {"unborn", "exited"}
            /\ \A c \in Calls :
                callbacks[c] = IF enq[c] \in {"unlock", "accepted"} THEN 1 ELSE 0

\* An Enqueue call that returned an error leaves nothing behind: its
\* notification is not stored, not queued, not delivered and has no callback.
RefusedLeavesNoTrace ==
    \A c \in Calls : enq[c] \in Refused =>
        /\ c \notin store \union Queued
        /\ \A w \in Workers : job[w] # c
        /\ callbacks[c] = 0

(***************************************************************************)
(* Action properties                                                       *)
(***************************************************************************)
\* Once stop has closed admission, the queue and the store only shrink: an
\* Enqueue call that reserved its token before stop never slips in after it.
AdmissionCloses ==
    [][stopped => Len(mailbox') <= Len(mailbox) /\ store' \subseteq store]_vars

\* Shutdown's comment: if its context expires, "queued notifications are
\* discarded with ErrManagerStopped completion outcomes".  So once it has
\* returned that error no worker takes a queued notification any more.
AbortDiscardsQueued ==
    [][(\E s \in Shutdowns : shut[s] = "err")
        => \A w \in Workers : job[w] = NoCall => job'[w] = NoCall]_vars

(***************************************************************************)
(* Refinement: the goroutines implement the bounded queue of DeliveryQueue *)
(***************************************************************************)
ContractResult(c) ==
    IF callbacks[c] = 1 THEN outcome[c]
    ELSE IF callbacks[c] > 1 THEN "repeated"
    ELSE IF enq[c] \in Refused THEN "refused" ELSE "none"

Contract == INSTANCE DeliveryQueue WITH
    MaxQueued <- Capacity,
    MaxActive <- Cardinality(Workers),
    phase <- IF done THEN "done" ELSE IF stopped THEN "closed" ELSE "open",
    running <- started,
    aborted <- startCtxDone \/ \E s \in Shutdowns : shut[s] = "err",
    queue <- (IF fin \in {"take", "slot", "complete"} /\ finJob # NoCall
              THEN <<finJob>> ELSE << >>) \o mailbox,
    active <- HeldBy(WorkerStates \ {"unborn", "select", "exited"}),
    result <- [c \in Calls |-> ContractResult(c)]

\* Notifications leave the queue in the order they entered it, at most
\* Capacity are queued and at most one per worker is active, each is told
\* exactly one outcome, a cancellation or a discard happens only after an
\* abort (or without any Start), discards wait for the active deliveries, and
\* Wait is released last of all.
ImplementsContract == Contract!Spec

(***************************************************************************)
(* Coming to rest: what is behind the liveness below, as safety.           *)
(***************************************************************************)
\* How far an Enqueue call has come, ...
Admission(c) ==
    CASE enq[c] = "idle" -> 0
      [] enq[c] = "reserve" -> 1
      [] enq[c] = "lock" -> 2
      [] enq[c] \in {"put", "freeStopped", "freeCanceled"} -> 3
      [] enq[c] = "send" -> 4
      [] enq[c] = "unlock" -> 5
      [] OTHER -> 6

\* ... which stages its notification has passed after the queue, ...
WorkerStage(w) ==
    CASE worker[w] = "get" -> 1
      [] worker[w] = "delete" -> 2
      [] worker[w] = "dequeue" -> 3
      [] worker[w] = "deliver" -> 4
      [] worker[w] = "sending" -> 5
      [] worker[w] = "complete" -> 6
      [] worker[w] = "callback" -> 7
      [] OTHER -> 0

FinishStage ==
    CASE fin = "take" -> 1
      [] fin = "slot" -> 2
      [] fin = "complete" -> 3
      [] fin = "callback" -> 7
      [] OTHER -> 0

Holder(c) == CHOOSE w \in Workers : job[w] = c

Journey(c) ==
    IF \E w \in Workers : job[w] = c THEN WorkerStage(Holder(c))
    ELSE IF finJob = c THEN FinishStage
    ELSE IF callbacks[c] > 0 THEN 8 ELSE 0

\* ... and how far the other goroutines have.
Starting(s) == CASE start[s] = "idle" -> 0 [] start[s] = "lock" -> 1 [] OTHER -> 2
Closing(s)  ==
    CASE shut[s] = "idle" -> 0 [] shut[s] = "wait" -> 1 [] shut[s] = "expired" -> 2
      [] OTHER -> 3
Life(w)     == CASE worker[w] = "unborn" -> 0 [] worker[w] = "exited" -> 2 [] OTHER -> 1
Finishing   ==
    CASE fin = "none" -> 0 [] fin = "wait" -> 1 [] fin = "stop" -> 2 [] fin = "exited" -> 4
      [] OTHER -> 3
Canceling   == <<startCtxDone, afterFunc = "fired">>

NothingGoesBack ==
    /\ \A c \in Calls : Admission(c) <= Admission(c)' /\ Journey(c) <= Journey(c)'
    /\ \A s \in Starts : Starting(s) <= Starting(s)'
    /\ \A s \in Shutdowns : Closing(s) <= Closing(s)'
    /\ \A w \in Workers : Life(w) <= Life(w)'
    /\ Finishing <= Finishing'
    /\ \A i \in 1..2 : Canceling[i] => Canceling[i]'

SomethingMoves ==
    \/ \E c \in Calls : Admission(c) # Admission(c)' \/ Journey(c) # Journey(c)'
    \/ \E s \in Starts : Starting(s) # Starting(s)'
    \/ \E s \in Shutdowns : Closing(s) # Closing(s)'
    \/ \E w \in Workers : Life(w) # Life(w)'
    \/ Finishing # Finishing'
    \/ Canceling # Canceling'

\* A step that the scheduler owes somebody (Scheduling) is possible: the guards of
\* these actions.  What only the application or a target decides is not among them.
Runnable ==
    \/ \E c \in Calls :
         \/ enq[c] = "reserve" /\ (slots < Capacity \/ stopping)
         \/ enq[c] = "lock" /\ mu = NoCall
         \/ enq[c] \in {"freeStopped", "freeCanceled"} /\ slots > 0
         \/ enq[c] = "send" /\ (mailboxClosed \/ Len(mailbox) < Capacity)
         \/ enq[c] \in {"put", "unlock"}
    \/ \E s \in Starts : start[s] = "lock" /\ mu = NoCall
    \/ \E s \in Shutdowns :
         (shut[s] = "wait" /\ done) \/ (shut[s] = "expired" /\ mu = NoCall)
    \/ \E w \in Workers :
         \/ worker[w] = "select" /\ (runCtx = "canceled" \/ mailbox # << >> \/ mailboxClosed)
         \/ worker[w] = "dequeue" /\ slots > 0
         \/ worker[w] = "sending" /\ runCtx = "canceled"
         \/ worker[w] \in {"get", "delete", "deliver", "complete", "callback"}
    \/ afterFunc = "armed" /\ runCtx = "canceled" /\ mu = NoCall
    \/ fin = "wait" /\ \A w \in Workers : worker[w] \in {"unborn", "exited"}
    \/ fin = "stop" /\ mu = NoCall
    \/ fin = "drain" /\ (mailbox # << >> \/ mailboxClosed)
    \/ fin = "slot" /\ slots > 0
    \/ fin \in {"take", "complete", "callback"}

StoppedEnds ==
    stopped => done /\ \A s \in Shutdowns : shut[s] \in {"idle", "nil", "err"}
AcceptedCompleted ==
    started \/ stopped => \A c \in Calls : enq[c] = "accepted" => callbacks[c] > 0
BlockedAdmitted == started => \A c \in Calls : enq[c] # "reserve"
WaitersLeave == stopped => \A c \in Calls : enq[c] \in {"idle"} \union Returned
AbortDone ==
    startCtxDone \/ (\E s \in Shutdowns : shut[s] \in {"expired", "err"}) => done

\* Where nothing can run: a stopped manager has sent its producers away, an aborted
\* one is done, and if no delivery is under way nobody is owed anything.
RestIsExplained ==
    /\ WaitersLeave /\ AbortDone
    /\ (\A w \in Workers : worker[w] # "sending")
         => StoppedEnds /\ AcceptedCompleted /\ BlockedAdmitted

\* manager.go:139-226, 239-319; dispatcher.go:37-92.  Every step takes somebody on and
\* nobody back, so there are only finitely many: no two goroutines keep each other busy.
\* And where they stop, no one waits for another who waits as well.
ComesToRest ==
    [](~Runnable => RestIsExplained) /\ [][NothingGoesBack /\ SomethingMoves]_vars

(***************************************************************************)
(* Liveness                                                                *)
(***************************************************************************)
\* Flags are never cleared and calls return once, so what these properties say
\* stays true: a state comes from which on it holds.

\* What counts as able to run is what Scheduling will run.
RunnableIsRun ==
    Runnable <=> ENABLED (\/ \E c \in Calls : EnqueueProgress(c)
                          \/ \E s \in Starts : StartRefused(s) \/ StartLaunch(s)
                          \/ \E s \in Shutdowns : ShutdownDone(s) \/ ShutdownAbort(s)
                          \/ \E w \in Workers : WorkerProgress(w)
                          \/ AfterFuncStop \/ FinishNext)

\* If targets return, nobody waits for ever: a manager that was stopped, by whichever
\* path, comes to its end and so does every Shutdown that waits for it; an accepted
\* notification gets its completion if the manager is ever started or shut down; a
\* producer that waits on a full queue gets its turn once the manager runs.
NobodyWaitsForever ==
    /\ []RunnableIsRun
    /\ TargetsReturn => <>[](StoppedEnds /\ AcceptedCompleted /\ BlockedAdmitted)

\* A producer that waits on a full queue is sent away when the manager stops,
\* even if all workers hang in deliveries that only an abort will end.
ProducersReleased == <>[]WaitersLeave

\* Whatever the targets do short of ignoring their context, the end of Start's
\* context and the deadline of a Shutdown bring the manager to its end.
AbortCompletes == <>[]AbortDone
=============================================================================
