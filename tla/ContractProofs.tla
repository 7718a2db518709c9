--------------------------- MODULE ContractProofs ---------------------------
(***************************************************************************)
(* The goroutines of Manager implement the bounded queue of DeliveryQueue  *)
(* and come to rest with nobody forgotten, for every number of calls and   *)
(* workers and every capacity.                                             *)
(***************************************************************************)
EXTENDS ManagerProofs

(***************************************************************************)
(* Aborts: who may have cancelled the workers' context, and what follows.  *)
(***************************************************************************)
Aborted  == startCtxDone \/ \E s \in Shutdowns : shut[s] = "err"
Verdicts == {"delivered", "failed", "noReceivers", "canceled"}

\* Without an abort the workers' context is live until finish cancels it, and
\* finish comes after the last worker: a worker exits only on an empty, closed
\* mailbox and its deliveries end by themselves, so finish, unless nothing was
\* ever started, finds nothing to discard.
AbortInv ==
    /\ started => \A w \in Workers : worker[w] # "unborn"
    /\ ~started => runCtx = "none" /\ ~startCtxDone
    /\ \A s \in Shutdowns : shut[s] # "idle" => stopped
    /\ ~Aborted =>
        /\ runCtx = "canceled" => fin \in Draining
        /\ started => fin \notin FinHolding
        /\ \A w \in Workers : worker[w] = "exited" => mailbox = << >> /\ mailboxClosed
        /\ \A w \in Workers : verdict[w] # "canceled"
    /\ \A w \in Workers : worker[w] = "complete" => verdict[w] \in Verdicts

LEMMA InitAbort == Init => AbortInv
  BY DEF Init, AbortInv, FinHolding

LEMMA EnqueueAbort ==
  ASSUME TypeOK, AdmissionInv, AbortInv, NEW c \in Calls, EnqueueNext(c)
  PROVE  AbortInv'
<1> USE DEF flagVars, chanVars, ctxVars, workerVars, finVars
<1>1. /\ UNCHANGED <<started, stopped, runCtx, startCtxDone, shut, worker, verdict, fin, mailboxClosed>>
      /\ mailboxClosed => UNCHANGED mailbox
  BY DEF EnqueueNext, EnqueueCall, EnqueueReserve, EnqueueStopping, EnqueueCtxDone,
         EnqueueLock, EnqueueFree, EnqueuePut, EnqueueSend, EnqueueReturn
<1>2. Aborted' = Aborted
  BY <1>1 DEF Aborted
<1> QED
  BY <1>1, <1>2 DEF AbortInv

\* A stop that does not follow an abort is a graceful Shutdown's, or finish's
\* own, which runs when the workers have gone.
LEMMA StopAbort ==
  ASSUME TypeOK, AdmissionInv, AbortInv, NEW drain, Stop(drain), verdict' = verdict,
         fin' = FinAfterStop \/ (fin = "stop" /\ fin' = "drain"),
         Aborted => Aborted',
         ~Aborted' => drain \/ runCtx = "canceled" \/ fin' = "drain"
  PROVE  AbortInv'
<1>1. /\ UNCHANGED <<mailbox, started, startCtxDone, worker>>
      /\ stopped' /\ mailboxClosed'
      /\ runCtx' = IF ~drain /\ runCtx # "none" THEN "canceled" ELSE runCtx
  BY DEF Stop, StopEffects, CloseBoth, workerVars, AdmissionInv
<1>2. fin' \in FinHolding => fin \in FinHolding
  BY DEF FinAfterStop, FinHolding, AdmissionInv
<1>3. fin \in Draining => fin' \in Draining
  BY DEF FinAfterStop, AdmissionInv, Draining
<1>4. ~Aborted' /\ runCtx' = "canceled" => fin' \in Draining
  BY <1>1, <1>3 DEF AbortInv, Draining, FinAfterStop, AdmissionInv
<1> QED
  BY <1>1, <1>2, <1>4 DEF AbortInv

LEMMA LifecycleAbort ==
  ASSUME TypeOK, AdmissionInv, OwnershipInv, AbortInv, LifecycleNext
  PROVE  AbortInv'
<1> USE DEF flagVars, chanVars, ctxVars, workerVars, finVars
<1>1. ASSUME NEW s \in Starts, StartCall(s) \/ StartRefused(s) PROVE AbortInv'
  <2>1. UNCHANGED <<started, stopped, runCtx, startCtxDone, shut, worker, verdict, fin,
                    mailboxClosed, mailbox>>
    BY <1>1 DEF StartCall, StartRefused
  <2> QED
    BY <2>1 DEF AbortInv, Aborted
<1>2. ASSUME NEW s \in Starts, StartLaunch(s) PROVE AbortInv'
  <2>1. /\ started' /\ worker' = [w \in Workers |-> "select"] /\ fin' = "wait"
        /\ runCtx' = IF startCtxDone' THEN "canceled" ELSE "live"
        /\ UNCHANGED <<stopped, shut, verdict>> /\ ~started /\ ~stopped
    BY <1>2 DEF StartLaunch
  <2>2. ~Aborted /\ (~Aborted' => runCtx' = "live")
    BY <2>1 DEF AbortInv, Aborted
  <2> QED
    BY <2>1, <2>2 DEF AbortInv, FinHolding
<1>3. ASSUME NEW s \in Shutdowns, ShutdownStop(s) PROVE AbortInv'
  <2>1. /\ shut[s] = "idle" /\ shut' = [shut EXCEPT ![s] = "wait"] /\ Stop(TRUE)
        /\ fin' = FinAfterStop /\ UNCHANGED <<startCtxDone, verdict>>
    BY <1>3 DEF ShutdownStop, Stop, StopEffects
  <2>2. \A t \in Shutdowns : shut[t] = "err" => shut'[t] = "err"
    BY <2>1 DEF TypeOK
  <2>3. Aborted => Aborted'
    BY <2>1, <2>2 DEF Aborted
  <2> QED
    BY <2>1, <2>2, <2>3, StopAbort
<1>4. ASSUME NEW s \in Shutdowns, ShutdownAbort(s) PROVE AbortInv'
  <2>1. /\ shut' = [shut EXCEPT ![s] = "err"] /\ Stop(FALSE)
        /\ fin' = FinAfterStop /\ UNCHANGED <<startCtxDone, verdict>>
    BY <1>4 DEF ShutdownAbort, Stop, StopEffects
  <2>2. \A t \in Shutdowns : shut[t] = "err" => shut'[t] = "err"
    BY <2>1 DEF TypeOK
  <2>3. Aborted'
    BY <2>1 DEF Aborted, TypeOK
  <2> QED
    BY <2>1, <2>2, <2>3, StopAbort
<1>5. ASSUME NEW s \in Shutdowns, ShutdownDone(s) \/ ShutdownExpire(s) PROVE AbortInv'
  <2>1. /\ UNCHANGED <<started, stopped, runCtx, startCtxDone, worker, verdict, fin,
                       mailboxClosed, mailbox>>
        /\ shut[s] = "wait" /\ \A t \in Shutdowns : shut'[t] = IF t = s THEN shut'[s] ELSE shut[t]
        /\ shut'[s] \in {"nil", "expired"}
    BY <1>5 DEF ShutdownDone, ShutdownExpire, TypeOK
  <2>2. Aborted' = Aborted
    BY <2>1 DEF Aborted
  <2> QED
    BY <2>1, <2>2 DEF AbortInv
<1>6. CASE CancelStartCtx
  <2>1. /\ UNCHANGED <<started, stopped, shut, worker, verdict, fin>> /\ started /\ startCtxDone'
    BY <1>6 DEF CancelStartCtx
  <2> QED
    BY <2>1 DEF AbortInv, Aborted
<1>7. CASE AfterFuncStop
  <2>1. /\ UNCHANGED <<shut, startCtxDone, verdict>> /\ Stop(FALSE) /\ fin' = FinAfterStop
        /\ runCtx = "canceled"
    BY <1>7 DEF AfterFuncStop, Stop, StopEffects
  <2> QED
    BY <2>1, StopAbort DEF Aborted
<1> QED
  BY <1>1, <1>2, <1>3, <1>4, <1>5, <1>6, <1>7 DEF LifecycleNext, StartNext, ShutdownNext

LEMMA WorkerAbort ==
  ASSUME TypeOK, AdmissionInv, OwnershipInv, AbortInv, NEW w \in Workers, WorkerNext(w)
  PROVE  AbortInv'
<1> USE DEF WorkerStep, Decide, flagVars, chanVars, ctxVars, finVars
<1>1. /\ UNCHANGED <<started, stopped, runCtx, startCtxDone, shut, fin, mailboxClosed>>
      /\ Aborted' = Aborted
  <2>1. UNCHANGED <<started, stopped, runCtx, startCtxDone, shut, fin, mailboxClosed>>
    BY DEF WorkerNext, WorkerCanceled, WorkerReceive, WorkerDrained, WorkerGet,
           WorkerDelete, WorkerDequeue, WorkerDeliver, WorkerDelivered,
           WorkerInterrupted, WorkerComplete, WorkerReturn
  <2> QED
    BY <2>1 DEF Aborted
\* Workers act before finish drains, so a cancelled context means an abort.
<1>2. worker[w] \notin {"unborn", "exited"} /\ started /\ (runCtx = "canceled" => Aborted)
  <2>1. worker[w] \notin {"unborn", "exited"}
    BY DEF WorkerNext, WorkerCanceled, WorkerReceive, WorkerDrained, WorkerGet,
           WorkerDelete, WorkerDequeue, WorkerDeliver, WorkerDelivered,
           WorkerInterrupted, WorkerComplete, WorkerReturn
  <2>2. fin \in {"none", "wait"} /\ started
    BY <2>1 DEF OwnershipInv
  <2> QED
    BY <2>1, <2>2 DEF AbortInv, Draining
<1>3. /\ worker'[w] # "unborn"
      /\ \A v \in Workers : v # w => worker'[v] = worker[v] /\ verdict'[v] = verdict[v]
  BY DEF WorkerNext, WorkerCanceled, WorkerReceive, WorkerDrained, WorkerGet,
         WorkerDelete, WorkerDequeue, WorkerDeliver, WorkerDelivered,
         WorkerInterrupted, WorkerComplete, WorkerReturn, TypeOK
<1>4. /\ mailbox = << >> => mailbox' = << >>
      /\ worker'[w] = "exited" /\ ~Aborted => mailbox' = << >> /\ mailboxClosed
  BY <1>2 DEF WorkerNext, WorkerCanceled, WorkerReceive, WorkerDrained, WorkerGet,
         WorkerDelete, WorkerDequeue, WorkerDeliver, WorkerDelivered,
         WorkerInterrupted, WorkerComplete, WorkerReturn, TypeOK
<1>5. /\ verdict'[w] = "canceled" => verdict[w] = "canceled" \/ Aborted
      /\ worker'[w] = "complete" => verdict'[w] \in Verdicts
  BY <1>2 DEF WorkerNext, WorkerCanceled, WorkerReceive, WorkerDrained, WorkerGet,
         WorkerDelete, WorkerDequeue, WorkerDeliver, WorkerDelivered,
         WorkerInterrupted, WorkerComplete, WorkerReturn, TypeOK, Verdicts
<1> QED
  BY <1>1, <1>2, <1>3, <1>4, <1>5 DEF AbortInv

LEMMA FinishAbort ==
  ASSUME TypeOK, AdmissionInv, OwnershipInv, AbortInv, FinishNext
  PROVE  AbortInv'
<1> USE DEF FinishStep, flagVars, chanVars, ctxVars, workerVars
<1>1. CASE FinishStop
  <2>1. /\ UNCHANGED <<shut, startCtxDone, verdict>> /\ Stop(FALSE)
        /\ fin = "stop" /\ fin' = "drain"
    BY <1>1 DEF FinishStop, Stop, StopEffects
  <2> QED
    BY <2>1, StopAbort DEF Aborted
<1>2. CASE ~FinishStop
  <2>1. /\ UNCHANGED <<started, stopped, runCtx, startCtxDone, shut, worker, verdict, mailboxClosed>>
        /\ mailbox = << >> => mailbox' = << >>
        /\ fin \in Draining => fin' \in Draining
    BY <1>2 DEF FinishNext, FinishWait, FinishReceive, FinishTake, FinishSlot,
                FinishComplete, FinishReturn, FinishClose, Draining
  <2>2. Aborted' = Aborted
    BY <2>1 DEF Aborted
  <2>3. started /\ ~Aborted => mailbox = << >> \/ fin \in {"none", "wait"}
    BY WorkersAssumption DEF OwnershipInv, AbortInv
  <2>4. started /\ ~Aborted /\ fin \notin FinHolding => fin' \notin FinHolding
    BY <1>2, <2>3 DEF FinishNext, FinishWait, FinishReceive, FinishTake, FinishSlot,
                FinishComplete, FinishReturn, FinishClose, FinHolding
  <2> QED
    BY <2>1, <2>2, <2>4 DEF AbortInv
<1> QED
  BY <1>1, <1>2

LEMMA NextAbort ==
  ASSUME TypeOK, AdmissionInv, OwnershipInv, AbortInv, [Next]_vars
  PROVE  AbortInv'
<1>1. CASE UNCHANGED vars
  BY <1>1 DEF vars, flagVars, chanVars, ctxVars, workerVars, finVars, AbortInv, Aborted
<1> QED
  BY <1>1, NextCases, EnqueueAbort, LifecycleAbort, WorkerAbort, FinishAbort

\* manager.go, stop, Shutdown and finish; dispatcher.go, start.  Nothing but
\* the end of Start's context and a Shutdown whose deadline passed cancels a
\* delivery or takes a notification from a queue that workers were to drain.
THEOREM OnlyAbortsCancel == Spec => []AbortInv
<1>1. Spec => []OwnershipInv
  BY QueueSafe, PTL DEF QueueInv
<1> QED
  BY <1>1, TypeCorrect, AdmissionSafe, InitAbort, NextAbort, PTL DEF Spec

\* A completion says what became of the notification.
ToldInv == \A c \in Calls : callbacks[c] # 0 => outcome[c] # "none"

LEMMA InitTold == Init => ToldInv
  BY DEF Init, ToldInv

LEMMA NextTold ==
  ASSUME TypeOK, AdmissionInv, OwnershipInv, AbortInv, ToldInv, [Next]_vars
  PROVE  ToldInv'
<1> USE DEF logVars
<1>1. ASSUME UNCHANGED <<callbacks, outcome>> PROVE ToldInv'
  BY <1>1 DEF ToldInv
<1>2. ASSUME NEW h, NEW err, err # "none", Callback(h, err) PROVE ToldInv'
  BY <1>2 DEF ToldInv, Callback, TypeOK
<1>3. ASSUME NEW c \in Calls, EnqueueNext(c) PROVE ToldInv'
  BY <1>1, <1>3 DEF EnqueueNext, EnqueueCall, EnqueueReserve, EnqueueStopping, EnqueueCtxDone,
         EnqueueLock, EnqueueFree, EnqueuePut, EnqueueSend, EnqueueReturn
<1>4. CASE LifecycleNext
  BY <1>1, <1>4 DEF LifecycleNext, StartNext, StartCall, StartRefused, StartLaunch,
         ShutdownNext, ShutdownStop, ShutdownDone, ShutdownExpire, ShutdownAbort,
         CancelStartCtx, AfterFuncStop, Stop, StopEffects
<1>5. ASSUME NEW w \in Workers, WorkerNext(w) PROVE ToldInv'
  <2>1. CASE WorkerComplete(w)
    <3>1. Callback(job[w], verdict[w]) /\ verdict[w] \in Verdicts
      BY <2>1 DEF WorkerComplete, WorkerStep, AbortInv
    <3> QED
      BY <1>2, <3>1 DEF Verdicts
  <2>2. CASE ~WorkerComplete(w)
    BY <1>1, <1>5, <2>2 DEF WorkerNext, WorkerCanceled, WorkerReceive, WorkerDrained, WorkerGet,
         WorkerDelete, WorkerDequeue, WorkerDeliver, WorkerDelivered,
         WorkerInterrupted, WorkerReturn
  <2> QED
    BY <2>1, <2>2
<1>6. CASE FinishNext
  <2>1. CASE FinishComplete
    BY <1>2, <2>1 DEF FinishComplete
  <2>2. CASE ~FinishComplete
    BY <1>1, <1>6, <2>2 DEF FinishNext, FinishWait, FinishStop, FinishReceive, FinishTake,
         FinishSlot, FinishReturn, FinishClose, Stop, StopEffects
  <2> QED
    BY <2>1, <2>2
<1>7. CASE UNCHANGED vars
  BY <1>1, <1>7 DEF vars
<1> QED
  BY <1>3, <1>4, <1>5, <1>6, <1>7, NextCases

-----------------------------------------------------------------------------
(***************************************************************************)
(* The refinement mapping, by name.                                        *)
(***************************************************************************)
Discarding == {"take", "slot", "complete"}
Busy       == WorkerStates \ {"unborn", "select", "exited"}

APhase  == IF done THEN "done" ELSE IF stopped THEN "closed" ELSE "open"
AQueue  == (IF fin \in Discarding /\ finJob # NoCall THEN <<finJob>> ELSE << >>) \o mailbox
AActive == HeldBy(Busy)
AResult == [c \in Calls |-> ContractResult(c)]

RefInv == TypeOK /\ AdmissionInv /\ QueueInv /\ NeverBlocks /\ AbortInv /\ ToldInv

LEMMA BusyStates ==
  /\ Busy \intersect Idle = {}
  /\ \A x \in WorkerStates : x \in Busy <=> x \notin Idle
  BY DEF Busy, Idle

LEMMA Concats ==
  /\ \A s \in Seq(Calls) : << >> \o s = s
  /\ \A h \in Calls, s \in Seq(Calls) :
        /\ <<h>> \o s # << >> /\ Head(<<h>> \o s) = h /\ Tail(<<h>> \o s) = s
        /\ Elements(<<h>> \o s) = {h} \union Elements(s)
  /\ \A s \in Seq(Calls) : s # << >> => <<Head(s)>> \o Tail(s) = s
<1>1. \A s \in Seq(Calls) : << >> \o s = s
  BY ConcatEmptySeq
<1>2. ASSUME NEW h \in Calls, NEW s \in Seq(Calls)
      PROVE  /\ <<h>> \o s # << >> /\ Head(<<h>> \o s) = h /\ Tail(<<h>> \o s) = s
             /\ Elements(<<h>> \o s) = {h} \union Elements(s)
  <2> DEFINE t == <<h>> \o s
  <2>1. <<h>> \in Seq(Calls) /\ Len(<<h>>) = 1 /\ <<h>>[1] = h
    OBVIOUS
  <2>2. /\ t \in Seq(Calls) /\ Len(t) = Len(s) + 1 /\ Len(s) \in Nat
        /\ \A i \in 1..(Len(s) + 1) : t[i] = IF i <= 1 THEN h ELSE s[i - 1]
    BY <2>1, ConcatProperties, LenProperties
  <2> HIDE DEF t
  <2>3. t # << >> /\ Head(t) = h
    BY <2>2, EmptySeq
  <2>4. Tail(t) = s
    <3>1. /\ Tail(t) \in Seq(Calls) /\ Len(Tail(t)) = Len(s)
          /\ \A i \in 1..Len(s) : Tail(t)[i] = t[i + 1]
      BY <2>2, <2>3, HeadTailProperties
    <3>2. \A i \in 1..Len(s) : Tail(t)[i] = s[i]
      BY <2>2, <3>1
    <3> QED
      BY <3>1, <3>2, SeqEqual
  <2>5. Elements(t) = {h} \union Elements(s)
    <3>1. Elements(t) \subseteq {h} \union Elements(s)
      BY <2>2 DEF Elements
    <3>2. h \in Elements(t)
      BY <2>2 DEF Elements
    <3>3. ASSUME NEW i \in 1..Len(s) PROVE s[i] \in Elements(t)
      <4>1. i + 1 \in 1..Len(t) /\ t[i + 1] = s[i]
        BY <2>2
      <4> QED
        BY <4>1 DEF Elements
    <3> QED
      BY <3>1, <3>2, <3>3 DEF Elements
  <2> QED
    BY <2>3, <2>4, <2>5 DEF t
<1>3. ASSUME NEW s \in Seq(Calls), s # << >> PROVE <<Head(s)>> \o Tail(s) = s
  <2> DEFINE u == Tail(s)
  <2>1. /\ Head(s) \in Calls /\ Head(s) = s[1] /\ u \in Seq(Calls) /\ Len(u) = Len(s) - 1
        /\ Len(s) \in Nat /\ Len(s) > 0 /\ \A i \in 1..Len(u) : u[i] = s[i + 1]
    BY <1>3, HeadTailProperties, LenProperties, EmptySeq
  <2> HIDE DEF u
  <2> DEFINE t == <<Head(s)>> \o u
  <2>2. <<Head(s)>> \in Seq(Calls) /\ Len(<<Head(s)>>) = 1 /\ <<Head(s)>>[1] = Head(s)
    BY <2>1
  <2>3. /\ t \in Seq(Calls) /\ Len(t) = Len(s)
        /\ \A i \in 1..Len(s) : t[i] = IF i <= 1 THEN Head(s) ELSE u[i - 1]
    BY <2>1, <2>2, ConcatProperties
  <2> HIDE DEF t
  <2>4. \A i \in 1..Len(s) : t[i] = s[i]
    BY <2>1, <2>3
  <2>5. t = s
    BY <2>3, <2>4, SeqEqual
  <2> QED
    BY <2>5 DEF t, u
<1> QED
  BY <1>1, <1>2, <1>3, Zenon

\* What the mapped queue is.
LEMMA QueueFacts ==
  ASSUME TypeOK, OwnershipInv
  PROVE  /\ AQueue = IF fin \in Discarding THEN <<finJob>> \o mailbox ELSE mailbox
         /\ fin \in Discarding => finJob \in Calls
         /\ Elements(AQueue) = Queued \union (IF fin \in Discarding THEN {finJob} ELSE {})
<1>1. fin \in Discarding => finJob \in Calls /\ finJob # NoCall
  BY DEF TypeOK, OwnershipInv, FinHolding, Discarding
<1>2. mailbox \in Seq(Calls)
  BY DEF TypeOK
<1>3. CASE fin \in Discarding
  BY <1>1, <1>2, <1>3, Concats DEF AQueue, Queued
<1>4. CASE fin \notin Discarding
  BY <1>2, <1>4, Concats DEF AQueue, Queued
<1> QED
  BY <1>1, <1>3, <1>4

-----------------------------------------------------------------------------
(***************************************************************************)
(* One lemma per action of the contract.                                   *)
(***************************************************************************)
LEMMA AsStutter ==
  ASSUME UNCHANGED <<APhase, started, Aborted, AQueue, AActive, AResult>>
  PROVE  UNCHANGED Contract!vars
  BY DEF Contract!vars, APhase, Aborted, AQueue, AActive, AResult, Busy, Discarding

LEMMA AsAdmit ==
  ASSUME NEW c \in Calls, APhase = "open", AResult[c] = "none",
         c \notin Elements(AQueue) \union AActive, Len(AQueue) < Capacity,
         AQueue' = Append(AQueue, c), UNCHANGED <<APhase, started, Aborted, AActive, AResult>>
  PROVE  Contract!Next
<1>1. Contract!Admit(c)
  BY DEF Contract!Admit, Contract!Admitted, Elements, APhase, Aborted, AQueue, AActive, AResult,
         Busy, Discarding
<1> QED
  BY <1>1 DEF Contract!Next

LEMMA AsRefuse ==
  ASSUME NEW c \in Calls, AResult[c] = "none", c \notin Elements(AQueue) \union AActive,
         AResult' = [AResult EXCEPT ![c] = "refused"],
         UNCHANGED <<APhase, started, Aborted, AQueue, AActive>>
  PROVE  Contract!Next
<1>1. Contract!Refuse(c)
  BY DEF Contract!Refuse, Contract!Tell, Contract!Admitted, Elements, APhase, Aborted, AQueue,
         AActive, AResult, Busy, Discarding
<1> QED
  BY <1>1 DEF Contract!Next

LEMMA AsStart ==
  ASSUME APhase = "open", ~started, started' = TRUE, Aborted' \in {Aborted, TRUE},
         UNCHANGED <<APhase, AQueue, AActive, AResult>>
  PROVE  Contract!Next
<1>1. Contract!Start
  BY DEF Contract!Start, APhase, Aborted, AQueue, AActive, AResult, Busy, Discarding
<1> QED
  BY <1>1 DEF Contract!Next

\* The instance has its own copy of FiniteSets, hence its own name of Cardinality.
LEMMA AsDispatch ==
  ASSUME started, AQueue # << >>, Cardinality(AActive) < Cardinality(Workers),
         AActive' = AActive \union {Head(AQueue)}, AQueue' = Tail(AQueue),
         UNCHANGED <<APhase, started, Aborted, AResult>>
  PROVE  Contract!Next
<1>1. Contract!Dispatch
  BY DEF Contract!Dispatch, Contract!Cardinality, Cardinality, APhase, Aborted, AQueue, AActive, AResult, Busy, Discarding
<1> QED
  BY <1>1 DEF Contract!Next

LEMMA AsComplete ==
  ASSUME NEW c \in AActive, c \in Calls, AResult[c] = "none", NEW v \in Verdicts,
         v = "canceled" => Aborted, AResult' = [AResult EXCEPT ![c] = v],
         UNCHANGED <<APhase, started, Aborted, AQueue, AActive>>
  PROVE  Contract!Next
<1>1. Contract!Complete(c)
  BY DEF Contract!Complete, Contract!Tell, Contract!Settled, Verdicts, APhase, Aborted, AQueue,
         AActive, AResult, Busy, Discarding
<1> QED
  BY <1>1 DEF Contract!Next

LEMMA AsRelease ==
  ASSUME NEW c \in AActive, c \in Calls, AResult[c] # "none", AActive' = AActive \ {c},
         UNCHANGED <<APhase, started, Aborted, AQueue, AResult>>
  PROVE  Contract!Next
<1>1. Contract!Release(c)
  BY DEF Contract!Release, APhase, Aborted, AQueue, AActive, AResult, Busy, Discarding
<1> QED
  BY <1>1 DEF Contract!Next

LEMMA AsDiscard ==
  ASSUME APhase = "closed", Aborted \/ ~started, AActive = {}, AQueue # << >>,
         AResult' = [AResult EXCEPT ![Head(AQueue)] = "managerStopped"], AQueue' = Tail(AQueue),
         UNCHANGED <<APhase, started, Aborted, AActive>>
  PROVE  Contract!Next
<1>1. Contract!Discard
  BY DEF Contract!Discard, Contract!Tell, APhase, Aborted, AQueue, AActive, AResult, Busy, Discarding
<1> QED
  BY <1>1 DEF Contract!Next

LEMMA AsAbort ==
  ASSUME Aborted' = TRUE, UNCHANGED <<APhase, started, AQueue, AActive, AResult>>
  PROVE  Contract!Next
<1>1. Contract!Abort
  BY DEF Contract!Abort, APhase, Aborted, AQueue, AActive, AResult, Busy, Discarding
<1> QED
  BY <1>1 DEF Contract!Next

LEMMA AsClose ==
  ASSUME APhase = "open", APhase' = "closed",
         UNCHANGED <<started, Aborted, AQueue, AActive, AResult>>
  PROVE  Contract!Next
<1>1. Contract!Close
  BY DEF Contract!Close, APhase, Aborted, AQueue, AActive, AResult, Busy, Discarding
<1> QED
  BY <1>1 DEF Contract!Next

LEMMA AsFinish ==
  ASSUME APhase = "closed", APhase' = "done", AQueue = << >>, AActive = {},
         UNCHANGED <<started, Aborted, AQueue, AActive, AResult>>
  PROVE  Contract!Next
<1>1. Contract!Finish
  BY DEF Contract!Finish, APhase, Aborted, AQueue, AActive, AResult, Busy, Discarding
<1> QED
  BY <1>1 DEF Contract!Next

-----------------------------------------------------------------------------
(***************************************************************************)
(* The steps of the goroutines.                                            *)
(***************************************************************************)
\* What the application has been told of a notification.
LEMMA ResultFacts ==
  ASSUME RefInv, NEW c \in Calls
  PROVE  /\ enq[c] \notin Admitted \union Refused => AResult[c] = "none"
         /\ c \in Pending => AResult[c] = "none"
         /\ enq[c] \in Admitted /\ c \notin Pending => AResult[c] # "none"
<1> USE DEF RefInv, QueueInv
<1>1. callbacks[c] = IF enq[c] \in Admitted /\ c \notin Pending THEN 1 ELSE 0
  BY DEF CallbackInv
<1>2. c \in Pending => enq[c] \in Admitted
  BY CallsAssumption DEF Pending, OwnershipInv, HeldBy
<1>3. Admitted \intersect Refused = {}
  BY DEF Admitted, Refused
<1>4. AResult[c] = ContractResult(c)
  BY DEF AResult
<1>5. callbacks[c] = 0 => ContractResult(c) = IF enq[c] \in Refused THEN "refused" ELSE "none"
  BY DEF ContractResult
<1>6. callbacks[c] = 1 => ContractResult(c) = outcome[c] /\ outcome[c] # "none"
  BY DEF ContractResult, ToldInv
<1> QED
  BY <1>1, <1>2, <1>3, <1>4, <1>5, <1>6

\* Nobody is told anything.
LEMMA ResultKept ==
  ASSUME UNCHANGED <<callbacks, outcome>>,
         \A c \in Calls : enq'[c] \in Refused <=> enq[c] \in Refused
  PROVE  AResult' = AResult
<1>1. \A c \in Calls : ContractResult(c)' = ContractResult(c)
  BY DEF ContractResult
<1> QED
  BY <1>1 DEF AResult

\* A callback is invoked.
LEMMA ResultTold ==
  ASSUME TypeOK, NEW h \in Calls, callbacks[h] = 0, NEW err, Callback(h, err), enq' = enq
  PROVE  AResult' = [AResult EXCEPT ![h] = err]
<1>1. \A c \in Calls : /\ callbacks'[c] = IF c = h THEN 1 ELSE callbacks[c]
                       /\ outcome'[c] = IF c = h THEN err ELSE outcome[c]
  BY DEF Callback, TypeOK
<1>2. \A c \in Calls : ContractResult(c)' = IF c = h THEN err ELSE ContractResult(c)
  BY <1>1 DEF ContractResult
<1> QED
  BY <1>2 DEF AResult

LEMMA QueueKept ==
  UNCHANGED <<fin, finJob, mailbox>> => AQueue' = AQueue
  BY DEF AQueue

\* Enqueue: a refusal, the send that admits, or nothing to be seen.
LEMMA EnqueueRefines ==
  ASSUME RefInv, RefInv', NEW c \in Calls, EnqueueNext(c)
  PROVE  [Contract!Next]_Contract!vars
<1> USE DEF RefInv, QueueInv, EnqueueStep, flagVars, chanVars, ctxVars, workerVars, finVars, logVars
<1>1. UNCHANGED <<started, stopped, done, startCtxDone, shut, worker, job, fin, finJob, callbacks, outcome>>
  BY DEF EnqueueNext, EnqueueCall, EnqueueReserve, EnqueueStopping, EnqueueCtxDone,
         EnqueueLock, EnqueueFree, EnqueuePut, EnqueueSend, EnqueueReturn
<1>2. UNCHANGED <<APhase, started, Aborted, AActive>>
  BY <1>1, HeldSame DEF APhase, Aborted, AActive
<1>3. enq[c] \notin Admitted =>
        /\ c \notin Elements(AQueue) \union AActive
        /\ enq[c] \notin Refused => AResult[c] = "none"
  BY QueueFacts, NotAdmittedYet, ResultFacts DEF AActive
<1>4. CASE EnqueueSend(c)
  <2>1. /\ enq[c] = "send" /\ ~stopped /\ mailbox' = Append(mailbox, c)
        /\ enq' = [enq EXCEPT ![c] = "unlock"] /\ Len(mailbox) < Capacity
    BY <1>4 DEF EnqueueSend, AdmissionInv, NeverBlocks
  <2>2. fin \notin Discarding /\ ~done
    BY <2>1 DEF AdmissionInv, Draining, Discarding
  <2>3. AQueue = mailbox /\ AQueue' = mailbox'
    BY <1>1, <2>2, QueueFacts, Concats DEF AQueue, TypeOK
  <2>4. AResult' = AResult
    <3>1. \A d \in Calls : enq'[d] \in Refused <=> enq[d] \in Refused
      BY <2>1 DEF TypeOK, Refused
    <3> QED
      BY <1>1, <3>1, ResultKept
  <2>5. APhase = "open"
    BY <2>1, <2>2 DEF APhase
  <2>6. c \notin Elements(AQueue) \union AActive /\ AResult[c] = "none"
    BY <1>3, <2>1 DEF Admitted, Refused
  <2> QED
    BY <1>2, <2>1, <2>3, <2>4, <2>5, <2>6, AsAdmit
<1>5. CASE ~EnqueueSend(c)
  <2>1. /\ UNCHANGED mailbox /\ enq[c] \notin Refused
        /\ \A d \in Calls : d # c => enq'[d] = enq[d]
        /\ enq'[c] \in Refused => enq[c] \notin Admitted
    BY <1>5 DEF EnqueueNext, EnqueueCall, EnqueueReserve, EnqueueStopping, EnqueueCtxDone,
         EnqueueLock, EnqueueFree, EnqueuePut, EnqueueReturn, TypeOK, Refused, Admitted
  <2>2. AQueue' = AQueue
    BY <1>1, <2>1, QueueKept
  <2>3. CASE enq'[c] \in Refused
    <3>1. AResult[c] = "none" /\ c \notin Elements(AQueue) \union AActive
      BY <1>3, <2>1, <2>3
    <3>2. callbacks[c] = 0
      BY <2>1, <2>3 DEF CallbackInv
    <3>3. \A d \in Calls : ContractResult(d)' = IF d = c THEN "refused" ELSE ContractResult(d)
      BY <1>1, <2>1, <2>3, <3>2 DEF ContractResult
    <3>4. AResult' = [AResult EXCEPT ![c] = "refused"]
      BY <3>3 DEF AResult
    <3> QED
      BY <1>2, <2>2, <3>1, <3>4, AsRefuse
  <2>4. CASE enq'[c] \notin Refused
    <3>1. AResult' = AResult
      BY <1>1, <2>1, <2>4, ResultKept
    <3> QED
      BY <1>2, <2>2, <3>1, AsStutter
  <2> QED
    BY <2>3, <2>4
<1> QED
  BY <1>4, <1>5

\* stop: the contract closes, or has closed before.
LEMMA StopRefines ==
  ASSUME RefInv, NEW drain, Stop(drain),
         fin' = FinAfterStop \/ (fin = "stop" /\ fin' = "drain")
  PROVE  /\ UNCHANGED <<started, AQueue, AActive, AResult>> /\ stopped' /\ UNCHANGED <<done, startCtxDone>>
         /\ APhase' = APhase \/ (APhase = "open" /\ APhase' = "closed")
         /\ stopped => APhase' = APhase
<1> USE DEF RefInv, QueueInv
<1>1. /\ UNCHANGED <<started, done, startCtxDone, mailbox, enq, worker, job, finJob, callbacks, outcome>>
      /\ stopped'
  BY DEF Stop, StopEffects, workerVars, logVars
<1>2. fin' \in Discarding <=> fin \in Discarding
  BY DEF FinAfterStop, Discarding, AdmissionInv
<1>3. AQueue' = AQueue
  BY <1>1, <1>2 DEF AQueue
<1>4. AActive' = AActive /\ AResult' = AResult
  BY <1>1, HeldSame, ResultKept DEF AActive
<1>5. ~stopped => APhase = "open" /\ APhase' = "closed"
  BY <1>1 DEF APhase, AdmissionInv, Draining
<1>6. stopped => APhase' = APhase
  BY <1>1 DEF APhase
<1> QED
  BY <1>1, <1>3, <1>4, <1>5, <1>6

\* Start, Shutdown and the contexts.
LEMMA LifecycleRefines ==
  ASSUME RefInv, RefInv', LifecycleNext
  PROVE  [Contract!Next]_Contract!vars
<1> USE DEF RefInv, QueueInv, flagVars, chanVars, ctxVars, workerVars, finVars, logVars
<1>1. ASSUME NEW s \in Starts, StartCall(s) \/ StartRefused(s) PROVE [Contract!Next]_Contract!vars
  <2>1. UNCHANGED <<started, stopped, done, startCtxDone, shut, worker, job, fin, finJob, mailbox,
                    enq, callbacks, outcome>>
    BY <1>1 DEF StartCall, StartRefused
  <2>2. UNCHANGED <<APhase, Aborted, AQueue, AActive, AResult>>
    BY <2>1, HeldSame, ResultKept, QueueKept DEF APhase, Aborted, AActive
  <2> QED
    BY <2>1, <2>2, AsStutter
<1>2. ASSUME NEW s \in Starts, StartLaunch(s) PROVE [Contract!Next]_Contract!vars
  <2>1. /\ ~started /\ started' = TRUE /\ ~stopped /\ fin' = "wait" /\ startCtxDone' \in BOOLEAN
        /\ worker' = [w \in Workers |-> "select"]
        /\ UNCHANGED <<stopped, done, shut, job, finJob, mailbox, enq, callbacks, outcome>>
    BY <1>2 DEF StartLaunch
  <2>2. fin \notin Discarding /\ ~done /\ \A w \in Workers : worker[w] = "unborn"
    BY <2>1 DEF AdmissionInv, Draining, Discarding, OwnershipInv
  <2>3. AQueue' = AQueue
    BY <2>1, <2>2 DEF AQueue, Discarding
  <2>4. AActive' = AActive
    BY <2>1, <2>2, HeldSame DEF AActive, Busy
  <2>5. AResult' = AResult /\ APhase = "open" /\ APhase' = APhase
    BY <2>1, <2>2, ResultKept DEF APhase
  <2>6. Aborted' \in {Aborted, TRUE}
    BY <2>1 DEF AbortInv, Aborted
  <2> QED
    BY <2>1, <2>3, <2>4, <2>5, <2>6, AsStart
<1>3. ASSUME UNCHANGED Aborted, NEW drain, Stop(drain), fin' = FinAfterStop
      PROVE  [Contract!Next]_Contract!vars
  BY <1>3, StopRefines, AsStutter, AsClose
<1>4. ASSUME NEW s \in Shutdowns, ShutdownStop(s) PROVE [Contract!Next]_Contract!vars
  <2>1. /\ shut[s] = "idle" /\ shut' = [shut EXCEPT ![s] = "wait"] /\ Stop(TRUE)
        /\ fin' = FinAfterStop /\ UNCHANGED startCtxDone
    BY <1>4 DEF ShutdownStop, Stop, StopEffects
  <2>2. Aborted' = Aborted
    BY <2>1 DEF Aborted, TypeOK
  <2> QED
    BY <1>3, <2>1, <2>2
<1>5. ASSUME NEW s \in Shutdowns, ShutdownAbort(s) PROVE [Contract!Next]_Contract!vars
  <2>1. /\ shut[s] = "expired" /\ shut' = [shut EXCEPT ![s] = "err"] /\ Stop(FALSE)
        /\ fin' = FinAfterStop
    BY <1>5 DEF ShutdownAbort
  <2>2. Aborted' = TRUE
    BY <2>1 DEF Aborted, TypeOK
  <2>3. stopped
    BY <2>1 DEF AbortInv
  <2> QED
    BY <2>1, <2>2, <2>3, StopRefines, AsAbort
<1>6. ASSUME NEW s \in Shutdowns, ShutdownDone(s) \/ ShutdownExpire(s)
      PROVE  [Contract!Next]_Contract!vars
  <2>1. UNCHANGED <<started, stopped, done, startCtxDone, worker, job, fin, finJob, mailbox,
                    enq, callbacks, outcome>>
    BY <1>6 DEF ShutdownDone, ShutdownExpire
  <2>2. \A t \in Shutdowns : shut'[t] = "err" <=> shut[t] = "err"
    BY <1>6 DEF ShutdownDone, ShutdownExpire, TypeOK
  <2>3. UNCHANGED <<APhase, Aborted, AQueue, AActive, AResult>>
    BY <2>1, <2>2, HeldSame, ResultKept, QueueKept DEF APhase, Aborted, AActive
  <2> QED
    BY <2>1, <2>3, AsStutter
<1>7. CASE CancelStartCtx
  <2>1. /\ UNCHANGED <<started, stopped, done, worker, job, fin, finJob, mailbox, enq, callbacks, outcome>>
        /\ startCtxDone' = TRUE
    BY <1>7 DEF CancelStartCtx
  <2>2. UNCHANGED <<APhase, AQueue, AActive, AResult>> /\ Aborted' = TRUE
    BY <2>1, HeldSame, ResultKept, QueueKept DEF APhase, Aborted, AActive
  <2> QED
    BY <2>1, <2>2, AsAbort
<1>8. CASE AfterFuncStop
  <2>1. UNCHANGED <<shut, startCtxDone>> /\ Stop(FALSE) /\ fin' = FinAfterStop
    BY <1>8 DEF AfterFuncStop, Stop, StopEffects
  <2>2. Aborted' = Aborted
    BY <2>1 DEF Aborted
  <2> QED
    BY <1>3, <2>1, <2>2
<1> QED
  BY <1>1, <1>2, <1>4, <1>5, <1>6, <1>7, <1>8 DEF LifecycleNext, StartNext, ShutdownNext

\* There is room for one more active notification while a worker is idle.
LEMMA WorkerFree ==
  ASSUME TypeOK, NEW w \in Workers, worker[w] \notin Busy
  PROVE  Cardinality(AActive) < Cardinality(Workers)
<1> DEFINE B == {v \in Workers : worker[v] \in Busy}
           f == [v \in B |-> job[v]]
<1>1. IsFiniteSet(Workers \ {w}) /\ Cardinality(Workers \ {w}) = Cardinality(Workers) - 1
      /\ Cardinality(Workers) \in Nat
  BY WorkersAssumption, FS_RemoveElement, FS_CardinalityType
<1>2. B \subseteq Workers \ {w}
  OBVIOUS
<1>3. IsFiniteSet(B) /\ Cardinality(B) <= Cardinality(Workers \ {w}) /\ Cardinality(B) \in Nat
  BY <1>1, <1>2, FS_Subset, FS_CardinalityType
<1>4. AActive = {f[v] : v \in B}
  BY DEF AActive, HeldBy
<1>5. f \in Surjection(B, AActive)
  BY <1>4, Fun_IsSurj
<1>6. Cardinality(AActive) <= Cardinality(B) /\ Cardinality(AActive) \in Nat
  BY <1>3, <1>5, FS_Surjection, FS_CardinalityType
<1> QED
  BY <1>1, <1>3, <1>6

\* The completion callback of worker w returns: its id is active no more.
LEMMA HeldReleased ==
  ASSUME TypeOK, OwnershipInv, NEW w \in Workers, worker[w] \in Busy,
         worker' = [worker EXCEPT ![w] = "select"], job' = [job EXCEPT ![w] = NoCall]
  PROVE  AActive' = AActive \ {job[w]}
<1>1. \A v \in Workers : worker'[v] \in Busy <=> worker[v] \in Busy /\ v # w
  BY DEF TypeOK, Busy
<1>2. \A v \in Workers : v # w => job'[v] = job[v]
  BY DEF TypeOK
<1>3. \A v \in Workers : worker[v] \in Busy /\ v # w => job[v] # job[w]
  BY BusyStates DEF OwnershipInv, TypeOK
<1> QED
  BY <1>1, <1>2, <1>3 DEF AActive, HeldBy

\* dispatch: the oldest queued notification becomes active, is completed with
\* the outcome of its delivery and is active no more.
LEMMA WorkerRefines ==
  ASSUME RefInv, RefInv', NEW w \in Workers, WorkerNext(w)
  PROVE  [Contract!Next]_Contract!vars
<1> USE DEF RefInv, QueueInv, WorkerStep, flagVars, chanVars, ctxVars, finVars, logVars
<1>1. UNCHANGED <<started, stopped, done, startCtxDone, shut, enq, fin, finJob>>
  BY DEF WorkerNext, WorkerCanceled, WorkerReceive, WorkerDrained, WorkerGet,
         WorkerDelete, WorkerDequeue, WorkerDeliver, WorkerDelivered,
         WorkerInterrupted, WorkerComplete, WorkerReturn
<1>2. UNCHANGED <<APhase, started, Aborted>>
  BY <1>1 DEF APhase, Aborted
<1>3. worker[w] \notin {"unborn", "exited"}
  BY DEF WorkerNext, WorkerCanceled, WorkerReceive, WorkerDrained, WorkerGet,
         WorkerDelete, WorkerDequeue, WorkerDeliver, WorkerDelivered,
         WorkerInterrupted, WorkerComplete, WorkerReturn
<1>4. started /\ fin \notin Discarding
  BY <1>3 DEF OwnershipInv, Discarding
<1>5. AQueue = mailbox /\ AQueue' = mailbox'
  BY <1>1, <1>4, Concats DEF AQueue, TypeOK
<1>6. CASE WorkerReceive(w)
  <2>1. /\ worker[w] = "select" /\ worker' = [worker EXCEPT ![w] = "get"]
        /\ mailbox # << >> /\ mailbox' = Tail(mailbox)
        /\ job' = [job EXCEPT ![w] = Head(mailbox)] /\ UNCHANGED <<callbacks, outcome>>
    BY <1>6 DEF WorkerReceive
  <2>2. AActive' = AActive \union {Head(mailbox)}
    BY <2>1, HeldJoins DEF AActive, Busy, WorkerStates
  <2>3. Cardinality(AActive) < Cardinality(Workers)
    BY <2>1, WorkerFree DEF Busy
  <2>4. AResult' = AResult
    BY <1>1, <2>1, ResultKept
  <2> QED
    BY <1>2, <1>4, <1>5, <2>1, <2>2, <2>3, <2>4, AsDispatch
<1>7. CASE WorkerComplete(w)
  <2>1. /\ worker[w] = "complete" /\ worker' = [worker EXCEPT ![w] = "callback"]
        /\ UNCHANGED <<mailbox, job>> /\ Callback(job[w], verdict[w])
    BY <1>7 DEF WorkerComplete
  <2>2. job[w] \in Calls /\ job[w] \in AActive /\ job[w] \in Pending
    <3>1. job[w] # NoCall /\ job[w] \in Calls
      BY <2>1 DEF OwnershipInv, Idle, TypeOK
    <3>2. worker[w] \in Busy /\ worker[w] \in Undelivered
      BY <2>1 DEF Busy, WorkerStates, Undelivered
    <3> QED
      BY <3>1, <3>2, HeldIn DEF AActive, Pending, Undelivered
  <2>3. callbacks[job[w]] = 0
    BY <2>2 DEF CallbackInv
  <2>4. AResult' = [AResult EXCEPT ![job[w]] = verdict[w]] /\ AResult[job[w]] = "none"
    BY <1>1, <2>1, <2>2, <2>3, ResultTold, ResultFacts
  <2>5. AActive' = AActive
    <3>1. \A v \in Workers : worker'[v] \in Busy <=> worker[v] \in Busy
      BY <2>1 DEF Busy, WorkerStates, TypeOK
    <3> QED
      BY <2>1, <3>1, HeldSame DEF AActive
  <2>6. verdict[w] \in Verdicts /\ (verdict[w] = "canceled" => Aborted)
    BY <2>1 DEF AbortInv
  <2> QED
    BY <1>2, <1>5, <2>1, <2>2, <2>4, <2>5, <2>6, AsComplete
<1>8. CASE WorkerReturn(w)
  <2>1. /\ worker[w] = "callback" /\ worker' = [worker EXCEPT ![w] = "select"]
        /\ job' = [job EXCEPT ![w] = NoCall] /\ UNCHANGED <<mailbox, callbacks, outcome>>
    BY <1>8 DEF WorkerReturn
  <2>2. worker[w] \in Busy /\ job[w] # NoCall
    BY <2>1 DEF Busy, WorkerStates, OwnershipInv, Idle
  <2>3. job[w] \in Calls /\ job[w] \in AActive
    BY <2>2, HeldIn DEF TypeOK, AActive
  <2>4. enq[job[w]] \in Admitted /\ job[w] \notin Pending
    <3>1. enq[job[w]] \in Admitted /\ job[w] \notin Queued
      BY <2>2 DEF OwnershipInv
    <3>2. job[w] \notin HeldBy(Undelivered)
      BY <2>1, <2>2 DEF OwnershipInv, HeldBy, Undelivered
    <3> QED
      BY <1>4, <3>1, <3>2 DEF Pending, Undelivered, Discarding
  <2>5. AResult[job[w]] # "none" /\ AResult' = AResult
    BY <1>1, <2>1, <2>3, <2>4, ResultFacts, ResultKept
  <2>6. AActive' = AActive \ {job[w]}
    BY <2>1, <2>2, HeldReleased
  <2> QED
    BY <1>2, <1>5, <2>1, <2>3, <2>5, <2>6, AsRelease
<1>9. CASE ~WorkerReceive(w) /\ ~WorkerComplete(w) /\ ~WorkerReturn(w)
  <2>1. worker[w] = "get" => job[w] \in store
    BY HeldIn DEF StoreMatchesQueue
  <2>2. /\ UNCHANGED <<mailbox, job, callbacks, outcome>>
        /\ \A v \in Workers : worker'[v] \in Busy <=> worker[v] \in Busy
    BY <1>9, <2>1 DEF WorkerNext, WorkerCanceled, WorkerDrained, WorkerGet,
         WorkerDelete, WorkerDequeue, WorkerDeliver, WorkerDelivered,
         WorkerInterrupted, TypeOK, Busy, WorkerStates
  <2>3. AActive' = AActive
    BY <2>2, HeldSame DEF AActive
  <2>4. AResult' = AResult
    BY <1>1, <2>2, ResultKept
  <2> QED
    BY <1>2, <1>5, <2>2, <2>3, <2>4, AsStutter
<1> QED
  BY <1>6, <1>7, <1>8, <1>9

\* finish: what it takes from the mailbox is still queued until its callback,
\* and it has the queue to itself.
LEMMA FinishRefines ==
  ASSUME RefInv, RefInv', FinishNext
  PROVE  [Contract!Next]_Contract!vars
<1> USE DEF RefInv, QueueInv, FinishStep, flagVars, chanVars, ctxVars, workerVars, logVars
<1>1. UNCHANGED <<started, startCtxDone, shut, enq, worker, job>>
  BY DEF FinishNext, FinishWait, FinishStop, FinishReceive, FinishTake, FinishSlot,
         FinishComplete, FinishReturn, FinishClose, Stop, StopEffects
<1>2. UNCHANGED <<started, Aborted, AActive>>
  BY <1>1, HeldSame DEF Aborted, AActive
<1>3. mailbox \in Seq(Calls)
  BY DEF TypeOK
<1>4. CASE FinishStop
  <2>1. Stop(FALSE) /\ fin = "stop" /\ fin' = "drain"
    BY <1>4 DEF FinishStop
  <2> QED
    BY <1>2, <2>1, StopRefines, AsStutter, AsClose
<1>5. CASE FinishReceive
  <2>1. /\ fin = "drain" /\ fin' = "take" /\ mailbox # << >> /\ mailbox' = Tail(mailbox)
        /\ finJob' = Head(mailbox) /\ UNCHANGED <<stopped, done, callbacks, outcome>>
    BY <1>5 DEF FinishReceive
  <2>2. Head(mailbox) # NoCall
    BY <2>1, HeadFacts
  <2>3. AQueue = mailbox /\ AQueue' = <<Head(mailbox)>> \o Tail(mailbox)
    BY <1>3, <2>1, <2>2, Concats DEF AQueue, Discarding
  <2>4. AQueue' = AQueue
    BY <1>3, <2>1, <2>3, Concats
  <2>5. AResult' = AResult /\ APhase' = APhase
    BY <1>1, <2>1, ResultKept DEF APhase
  <2> QED
    BY <1>2, <2>4, <2>5, AsStutter
<1>6. CASE FinishComplete
  <2>1. /\ fin = "complete" /\ fin' = "callback" /\ UNCHANGED <<stopped, done, mailbox, finJob>>
        /\ Callback(finJob, "managerStopped")
    BY <1>6 DEF FinishComplete
  <2>2. finJob \in Calls /\ finJob \in Pending
    BY <2>1, QueueFacts DEF Discarding, Pending
  <2>3. callbacks[finJob] = 0
    BY <2>2 DEF CallbackInv
  <2>4. AResult' = [AResult EXCEPT ![finJob] = "managerStopped"]
    BY <1>1, <2>1, <2>2, <2>3, ResultTold
  <2>5. AQueue = <<finJob>> \o mailbox /\ AQueue' = mailbox
    BY <1>3, <2>1, QueueFacts, Concats DEF AQueue, Discarding
  <2>6. AQueue # << >> /\ Head(AQueue) = finJob /\ AQueue' = Tail(AQueue)
    BY <1>3, <2>2, <2>5, Concats
  <2>7. APhase = "closed" /\ APhase' = APhase
    BY <2>1 DEF APhase, AdmissionInv, Draining
  <2>8. AActive = {}
    BY <2>1, FinishAlone, BusyStates DEF AActive
  <2>9. Aborted \/ ~started
    BY <2>1 DEF AbortInv, FinHolding
  <2> QED
    BY <1>2, <2>4, <2>6, <2>7, <2>8, <2>9, AsDiscard
<1>7. CASE FinishClose
  <2>1. /\ fin = "drain" /\ fin' = "exited" /\ mailbox = << >> /\ done'
        /\ UNCHANGED <<stopped, mailbox, callbacks, outcome>>
    BY <1>7 DEF FinishClose
  <2>2. AQueue = << >> /\ AQueue' = << >>
    BY <1>3, <2>1, Concats DEF AQueue, Discarding
  <2>3. APhase = "closed" /\ APhase' = "done"
    BY <2>1 DEF APhase, AdmissionInv, Draining
  <2>4. AActive = {}
    BY <2>1, FinishAlone, BusyStates DEF AActive
  <2>5. AResult' = AResult
    BY <1>1, <2>1, ResultKept
  <2> QED
    BY <1>2, <2>2, <2>3, <2>4, <2>5, AsFinish
<1>8. CASE FinishWait \/ FinishTake \/ FinishSlot \/ FinishReturn
  <2>1. fin = "take" => finJob \in store
    BY DEF StoreMatchesQueue
  <2>2. fin = "slot" => finJob # NoCall
    BY DEF OwnershipInv, FinHolding
  <2>3. /\ UNCHANGED <<stopped, done, mailbox, callbacks, outcome>>
        /\ fin' \in Discarding <=> fin \in Discarding
        /\ fin \in Discarding => finJob' = finJob
    BY <1>8, <2>1, <2>2 DEF FinishWait, FinishTake, FinishSlot, FinishReturn, Discarding
  <2>4. AQueue' = AQueue
    BY <2>3 DEF AQueue
  <2>5. AResult' = AResult /\ APhase' = APhase
    BY <1>1, <2>3, ResultKept DEF APhase
  <2> QED
    BY <1>2, <2>4, <2>5, AsStutter
<1> QED
  BY <1>4, <1>5, <1>6, <1>7, <1>8 DEF FinishNext

LEMMA NextRefines ==
  ASSUME RefInv, RefInv', [Next]_vars
  PROVE  [Contract!Next]_Contract!vars
<1>1. CASE UNCHANGED vars
  <2>1. UNCHANGED <<started, stopped, done, startCtxDone, shut, worker, job, fin, finJob, mailbox,
                    enq, callbacks, outcome>>
    BY <1>1 DEF vars, flagVars, chanVars, ctxVars, workerVars, finVars, logVars
  <2>2. UNCHANGED <<APhase, Aborted, AQueue, AActive, AResult>>
    BY <2>1, HeldSame, ResultKept, QueueKept DEF APhase, Aborted, AActive
  <2> QED
    BY <2>1, <2>2, AsStutter
<1> QED
  BY <1>1, NextCases, EnqueueRefines, LifecycleRefines, WorkerRefines, FinishRefines

LEMMA InitRefines == Init => Contract!Init
<1> SUFFICES ASSUME Init PROVE Contract!Init
  OBVIOUS
<1>1. AQueue = << >>
  BY ConcatEmptySeq, EmptySeq DEF Init, AQueue, Discarding
<1>2. AActive = {}
  BY DEF Init, AActive, HeldBy, Busy
<1>3. AResult = [c \in Calls |-> "none"]
  BY DEF Init, AResult, ContractResult, Refused
<1>4. APhase = "open" /\ ~started /\ ~Aborted
  BY DEF Init, APhase, Aborted
<1> QED
  BY <1>1, <1>2, <1>3, <1>4
  DEF Init, Contract!Init, APhase, Aborted, AQueue, AActive, AResult, Busy, Discarding

-----------------------------------------------------------------------------
(***************************************************************************)
(* The theorems                                                            *)
(***************************************************************************)
LEMMA RefInvariant == Spec => []RefInv
<1>1. Spec => []OwnershipInv
  BY QueueSafe, PTL DEF QueueInv
<1>2. Spec => []ToldInv
  BY <1>1, TypeCorrect, AdmissionSafe, OnlyAbortsCancel, InitTold, NextTold, PTL DEF Spec
<1> QED
  BY <1>2, TypeCorrect, AdmissionSafe, QueueSafe, NothingBlocks, OnlyAbortsCancel, PTL DEF RefInv

\* manager.go and dispatcher.go against what docs/content/manager.md promises:
\* behind all the goroutines, channels and flags there is one bounded first-in
\* first-out queue that tells each accepted notification exactly one outcome,
\* cancels and discards only after an abort, and is done last of all.
THEOREM ManagerImplementsContract == Spec => ImplementsContract
  BY RefInvariant, InitRefines, NextRefines, PTL DEF Spec, ImplementsContract, Contract!Spec

-----------------------------------------------------------------------------
(***************************************************************************)
(* Coming to rest: where nothing can run                                   *)
(***************************************************************************)
\* A canceled context is on its way to the workers, to finish and, by the AfterFunc that
\* a Start armed, to a stop; and no worker has left before one of the two.
CancelInv ==
    /\ stopped => finishing
    /\ started => runCtx # "none" /\ afterFunc # "unset"
    /\ startCtxDone => runCtx = "canceled"
    /\ afterFunc = "fired" => stopped
    /\ \A s \in Shutdowns : shut[s] = "err" => runCtx # "live"
    /\ \A w \in Workers : worker[w] = "exited" => stopped \/ runCtx = "canceled"

LEMMA InitCancel == Init => CancelInv
  BY DEF Init, CancelInv

\* A stop leaves a live context live only if it drains.
LEMMA StopCancel ==
  ASSUME TypeOK, CancelInv, NEW drain \in BOOLEAN, Stop(drain), afterFunc' \in {afterFunc, "fired"},
         \A s \in Shutdowns : shut'[s] = "err" => shut[s] = "err" \/ ~drain
  PROVE  CancelInv'
<1>1. /\ UNCHANGED <<started, startCtxDone, worker>> /\ stopped' = TRUE /\ finishing' = TRUE
      /\ runCtx' = IF ~drain /\ runCtx # "none" THEN "canceled" ELSE runCtx
  BY DEF Stop, StopEffects, workerVars
<1> QED
  BY <1>1 DEF CancelInv

LEMMA LifecycleCancel ==
  ASSUME TypeOK, AbortInv, CancelInv, LifecycleNext
  PROVE  CancelInv'
<1> USE DEF flagVars, chanVars, ctxVars, workerVars, finVars
<1>1. ASSUME NEW s \in Starts, StartCall(s) \/ StartRefused(s) PROVE CancelInv'
  <2>1. UNCHANGED <<started, stopped, finishing, runCtx, startCtxDone, afterFunc, shut, worker>>
    BY <1>1 DEF StartCall, StartRefused
  <2> QED
    BY <2>1 DEF CancelInv
<1>2. ASSUME NEW s \in Starts, StartLaunch(s) PROVE CancelInv'
  <2>1. /\ ~stopped /\ UNCHANGED <<stopped, shut>> /\ finishing' = TRUE /\ afterFunc' = "armed"
        /\ runCtx' = IF startCtxDone' THEN "canceled" ELSE "live"
        /\ worker' = [w \in Workers |-> "select"]
    BY <1>2 DEF StartLaunch
  <2>2. \A d \in Shutdowns : shut[d] # "err"
    BY <2>1 DEF AbortInv
  <2> QED
    BY <2>1, <2>2 DEF CancelInv
<1>3. ASSUME NEW s \in Shutdowns, ShutdownStop(s) PROVE CancelInv'
  <2>1. Stop(TRUE) /\ UNCHANGED afterFunc /\ \A d \in Shutdowns : shut'[d] = "err" => shut[d] = "err"
    BY <1>3 DEF ShutdownStop, TypeOK
  <2> QED
    BY <2>1, StopCancel
<1>4. ASSUME NEW s \in Shutdowns, ShutdownAbort(s) PROVE CancelInv'
  BY <1>4, StopCancel DEF ShutdownAbort
<1>5. ASSUME NEW s \in Shutdowns, ShutdownDone(s) \/ ShutdownExpire(s) PROVE CancelInv'
  <2>1. /\ UNCHANGED <<started, stopped, finishing, runCtx, startCtxDone, afterFunc, worker>>
        /\ \A d \in Shutdowns : shut'[d] = "err" => shut[d] = "err"
    BY <1>5 DEF ShutdownDone, ShutdownExpire, TypeOK
  <2> QED
    BY <2>1 DEF CancelInv
<1>6. CASE CancelStartCtx
  <2>1. /\ UNCHANGED <<started, stopped, finishing, afterFunc, shut, worker>>
        /\ runCtx' = "canceled"
    BY <1>6 DEF CancelStartCtx
  <2> QED
    BY <2>1 DEF CancelInv
<1>7. CASE AfterFuncStop
  BY <1>7, StopCancel DEF AfterFuncStop
<1> QED
  BY <1>1, <1>2, <1>3, <1>4, <1>5, <1>6, <1>7 DEF LifecycleNext, StartNext, ShutdownNext

LEMMA WorkerCancel ==
  ASSUME TypeOK, AdmissionInv, CancelInv, NEW w \in Workers, WorkerNext(w)
  PROVE  CancelInv'
<1> USE DEF WorkerStep, flagVars, chanVars, ctxVars, finVars
<1>1. UNCHANGED <<started, stopped, finishing, runCtx, startCtxDone, afterFunc, shut>>
  BY DEF WorkerNext, WorkerCanceled, WorkerReceive, WorkerDrained, WorkerGet,
         WorkerDelete, WorkerDequeue, WorkerDeliver, WorkerDelivered,
         WorkerInterrupted, WorkerComplete, WorkerReturn
<1>2. /\ \A v \in Workers : v # w => worker'[v] = worker[v]
      /\ worker'[w] = "exited" => runCtx = "canceled" \/ stopped
  BY DEF WorkerNext, WorkerCanceled, WorkerReceive, WorkerDrained, WorkerGet,
         WorkerDelete, WorkerDequeue, WorkerDeliver, WorkerDelivered,
         WorkerInterrupted, WorkerComplete, WorkerReturn, TypeOK, AdmissionInv
<1> QED
  BY <1>1, <1>2 DEF CancelInv

LEMMA NextCancel ==
  ASSUME TypeOK, AdmissionInv, AbortInv, CancelInv, [Next]_vars
  PROVE  CancelInv'
<1> USE DEF flagVars, chanVars, ctxVars, workerVars, finVars
<1>1. ASSUME UNCHANGED <<started, stopped, finishing, runCtx, startCtxDone, afterFunc, shut, worker>>
      PROVE  CancelInv'
  BY <1>1 DEF CancelInv
<1>2. ASSUME NEW c \in Calls, EnqueueNext(c) PROVE CancelInv'
  BY <1>1, <1>2 DEF EnqueueNext, EnqueueCall, EnqueueReserve, EnqueueStopping, EnqueueCtxDone,
         EnqueueLock, EnqueueFree, EnqueuePut, EnqueueSend, EnqueueReturn
<1>3. CASE FinishStop
  BY <1>3, StopCancel DEF FinishStop
<1>4. CASE FinishNext /\ ~FinishStop
  BY <1>1, <1>4 DEF FinishNext, FinishWait, FinishReceive, FinishTake, FinishSlot,
         FinishComplete, FinishReturn, FinishClose
<1>5. CASE UNCHANGED vars
  BY <1>1, <1>5 DEF vars
<1> QED
  BY <1>2, <1>3, <1>4, <1>5, NextCases, LifecycleCancel, WorkerCancel

LEMMA RestInvariant == Spec => [](RefInv /\ CancelInv)
<1>1. RefInv /\ CancelInv /\ [Next]_vars => CancelInv'
  BY NextCancel DEF RefInv
<1> QED
  BY <1>1, InitCancel, RefInvariant, PTL DEF Spec

\* Nobody is kept in m.mu: whoever holds it can go on.
LEMMA MutexIsFree ==
  ASSUME RefInv, ~Runnable
  PROVE  mu = NoCall /\ \A c \in Calls : enq[c] \in {"idle", "reserve"} \union Returned
<1>1. \A c \in Calls : enq[c] \notin InSection
  BY DEF RefInv, NeverBlocks, Runnable, InSection
<1>2. mu = NoCall
  BY <1>1 DEF RefInv, AdmissionInv, TypeOK
<1>3. \A c \in Calls : enq[c] # "lock"
  BY <1>2 DEF Runnable
<1> QED
  BY <1>1, <1>2, <1>3 DEF RefInv, TypeOK, EnqStates, Admitting, InSection

\* Where the workers and finish can be then.
LEMMA WorkersAtRest ==
  ASSUME RefInv, ~Runnable
  PROVE  /\ \A w \in Workers :
              /\ worker[w] \in {"unborn", "select", "sending", "exited"}
              /\ worker[w] = "select" => runCtx # "canceled" /\ mailbox = << >> /\ ~stopped
              /\ worker[w] = "sending" => runCtx # "canceled"
         /\ fin \in {"none", "wait", "exited"}
         /\ fin = "wait" => \E w \in Workers : worker[w] \in {"select", "sending"}
<1>1. ASSUME NEW w \in Workers
      PROVE  /\ worker[w] \in {"unborn", "select", "sending", "exited"}
             /\ worker[w] = "select" => runCtx # "canceled" /\ mailbox = << >> /\ ~stopped
             /\ worker[w] = "sending" => runCtx # "canceled"
  BY DEF RefInv, NeverBlocks, Runnable, TypeOK, WorkerStates, AdmissionInv
<1>2. fin \in {"none", "wait", "exited"}
  <2>1. fin # "drain"
    BY DEF Runnable, RefInv, AdmissionInv, Draining
  <2> QED
    BY <2>1, MutexIsFree DEF RefInv, NeverBlocks, Runnable, TypeOK, FinStates
<1>3. fin = "wait" => \E w \in Workers : worker[w] \in {"select", "sending"}
  BY <1>1 DEF Runnable
<1> QED
  BY <1>1, <1>2, <1>3

\* A stopped manager whose deliveries have ended is done.
LEMMA StoppedIsDone ==
  ASSUME RefInv, CancelInv, ~Runnable, stopped, \A w \in Workers : worker[w] # "sending"
  PROVE  done
<1>1. fin # "wait" /\ fin # "none"
  BY WorkersAtRest DEF CancelInv, RefInv, AdmissionInv
<1> QED
  BY <1>1, WorkersAtRest DEF RefInv, AdmissionInv

\* So is one whose context has ended, for then no delivery is left at rest.
LEMMA CanceledIsDone ==
  ASSUME RefInv, CancelInv, ~Runnable, startCtxDone \/ \E s \in Shutdowns : shut[s] \in {"expired", "err"}
  PROVE  done
<1>1. \A s \in Shutdowns : shut[s] # "expired"
  BY MutexIsFree DEF Runnable
<1>2. CASE startCtxDone
  <2>1. runCtx = "canceled" /\ started
    BY <1>2 DEF CancelInv, RefInv, AbortInv
  <2>2. stopped
    BY <2>1, MutexIsFree DEF CancelInv, Runnable, RefInv, TypeOK
  <2>3. \A w \in Workers : worker[w] # "sending"
    BY <2>1, WorkersAtRest
  <2> QED
    BY <2>2, <2>3, StoppedIsDone
<1>3. CASE \E s \in Shutdowns : shut[s] = "err"
  <2>1. stopped
    BY <1>3 DEF RefInv, AbortInv
  <2>2. runCtx \in {"none", "canceled"}
    BY <1>3 DEF CancelInv, RefInv, TypeOK
  <2>3. runCtx = "none" => \A w \in Workers : worker[w] = "unborn"
    BY DEF CancelInv, RefInv, QueueInv, OwnershipInv
  <2>4. \A w \in Workers : worker[w] # "sending"
    BY <2>2, <2>3, WorkersAtRest
  <2> QED
    BY <2>1, <2>4, StoppedIsDone
<1> QED
  BY <1>1, <1>2, <1>3

\* A running manager whose deliveries have ended has an empty queue and free tokens.
LEMMA RunningIsEmpty ==
  ASSUME RefInv, CancelInv, ~Runnable, started, ~stopped, \A w \in Workers : worker[w] # "sending"
  PROVE  /\ Pending = {} /\ Holders = {} /\ slots = 0
<1>1. runCtx # "canceled"
  BY MutexIsFree DEF CancelInv, Runnable, RefInv, TypeOK
<1>2. \A w \in Workers : worker[w] = "select"
  BY <1>1, WorkersAtRest DEF CancelInv, RefInv, AbortInv
<1>3. mailbox = << >>
  BY <1>2, WorkersAtRest, WorkersAssumption
<1>4. Queued = {}
  BY <1>3, EmptySeq DEF Queued, Elements
<1>5. \A S : "select" \notin S => HeldBy(S) = {}
  BY <1>2 DEF HeldBy
<1>6. fin = "wait"
  BY WorkersAtRest DEF RefInv, AdmissionInv, Draining
<1>7. Pending = {}
  BY <1>4, <1>5, <1>6 DEF Pending
<1>8. Holders = {}
  BY <1>4, <1>5, <1>6, MutexIsFree DEF Holders, Admitting, Returned, Refused
<1> QED
  BY <1>7, <1>8, FS_EmptySet DEF RefInv, QueueInv, SlotAccounting

LEMMA RestHolds == RefInv /\ CancelInv => (~Runnable => RestIsExplained)
<1> SUFFICES ASSUME RefInv, CancelInv, ~Runnable
             PROVE  /\ WaitersLeave /\ AbortDone
                    /\ (\A w \in Workers : worker[w] # "sending")
                         => StoppedEnds /\ AcceptedCompleted /\ BlockedAdmitted
  BY DEF RestIsExplained
<1>1. WaitersLeave
  BY MutexIsFree DEF WaitersLeave, Runnable, RefInv, AdmissionInv
<1>2. AbortDone
  BY CanceledIsDone DEF AbortDone
<1>3. ASSUME \A w \in Workers : worker[w] # "sending"
      PROVE  StoppedEnds /\ AcceptedCompleted /\ BlockedAdmitted
  <2>1. StoppedEnds
    <3>1. ASSUME stopped, NEW s \in Shutdowns PROVE shut[s] \in {"idle", "nil", "err"}
      <4>1. done
        BY <1>3, <3>1, StoppedIsDone
      <4> QED
        BY <4>1, MutexIsFree DEF Runnable, RefInv, TypeOK, ShutStates
    <3> QED
      BY <1>3, <3>1, StoppedIsDone DEF StoppedEnds
  <2>2. AcceptedCompleted
    <3>1. CASE stopped
      <4>1. DoneMeansDone /\ done
        BY <1>3, <3>1, StoppedIsDone, DoneMeansDoneHolds DEF RefInv
      <4> QED
        BY <4>1 DEF DoneMeansDone, AcceptedCompleted
    <3>2. CASE started /\ ~stopped
      <4>1. Pending = {}
        BY <1>3, <3>2, RunningIsEmpty
      <4> QED
        BY <4>1 DEF RefInv, QueueInv, CallbackInv, Admitted, AcceptedCompleted
    <3> QED
      BY <3>1, <3>2 DEF AcceptedCompleted
  <2>3. BlockedAdmitted
    <3>1. CASE stopped
      BY <1>1, <3>1 DEF BlockedAdmitted, WaitersLeave, Returned, Refused
    <3>2. CASE started /\ ~stopped
      <4>1. slots = 0 /\ 0 < Capacity
        BY <1>3, <3>2, RunningIsEmpty, CapacityAssumption
      <4> QED
        BY <4>1 DEF BlockedAdmitted, Runnable
    <3> QED
      BY <3>1, <3>2 DEF BlockedAdmitted
  <2> QED
    BY <2>1, <2>2, <2>3
<1> QED
  BY <1>1, <1>2, <1>3

-----------------------------------------------------------------------------
(***************************************************************************)
(* Coming to rest: every step takes somebody on                            *)
(***************************************************************************)
\* What Journey counts, without the choice of a worker: there is only one to choose.
JourneyFacts ==
    \A c \in Calls :
        /\ \A w \in Workers : job[w] = c => Journey(c) = WorkerStage(w)
        /\ (\A w \in Workers : job[w] # c) =>
             Journey(c) = IF finJob = c THEN FinishStage ELSE IF callbacks[c] > 0 THEN 8 ELSE 0

LEMMA JourneyIs == OwnershipInv => JourneyFacts
<1> SUFFICES ASSUME OwnershipInv, NEW c \in Calls
             PROVE  /\ \A w \in Workers : job[w] = c => Journey(c) = WorkerStage(w)
                    /\ (\A w \in Workers : job[w] # c) =>
                         Journey(c) = IF finJob = c THEN FinishStage
                                      ELSE IF callbacks[c] > 0 THEN 8 ELSE 0
  BY DEF JourneyFacts
<1>1. ASSUME NEW w \in Workers, job[w] = c PROVE Journey(c) = WorkerStage(w)
  <2>1. \A v \in Workers : job[v] = c => v = w
    BY <1>1, CallsAssumption DEF OwnershipInv
  <2>2. Holder(c) = w
    BY <1>1, <2>1 DEF Holder
  <2> QED
    BY <1>1, <2>2 DEF Journey
<1> QED
  BY <1>1 DEF Journey

LEMMA JourneyStays == OwnershipInv' => JourneyFacts'
<1>1. (OwnershipInv => JourneyFacts)'
  BY JourneyIs, PTL
<1> QED
  BY <1>1

LEMMA StageRanges ==
  /\ \A c : Admission(c) \in 0..6
  /\ \A s : Starting(s) \in 0..2 /\ Closing(s) \in 0..3
  /\ \A w : WorkerStage(w) \in 0..7 /\ Life(w) \in 0..2
  /\ FinishStage \in 0..7 /\ Finishing \in 0..4
<1>1. \A c : Admission(c) \in 0..6
  BY DEF Admission
<1>2. \A s : Starting(s) \in 0..2 /\ Closing(s) \in 0..3
  BY DEF Starting, Closing
<1>3. \A w : WorkerStage(w) \in 0..7 /\ Life(w) \in 0..2
  BY DEF WorkerStage, Life
<1>4. FinishStage \in 0..7 /\ Finishing \in 0..4
  BY DEF FinishStage, Finishing
<1> QED
  BY <1>1, <1>2, <1>3, <1>4

LEMMA StageRangesStay ==
  /\ \A c : Admission(c)' \in 0..6
  /\ \A s : Starting(s)' \in 0..2 /\ Closing(s)' \in 0..3
  /\ \A w : WorkerStage(w)' \in 0..7 /\ Life(w)' \in 0..2
  /\ FinishStage' \in 0..7 /\ Finishing' \in 0..4
<1>1. \A c : Admission(c)' \in 0..6
  BY DEF Admission
<1>2. \A s : Starting(s)' \in 0..2 /\ Closing(s)' \in 0..3
  BY DEF Starting, Closing
<1>3. \A w : WorkerStage(w)' \in 0..7 /\ Life(w)' \in 0..2
  BY DEF WorkerStage, Life
<1>4. FinishStage' \in 0..7 /\ Finishing' \in 0..4
  BY DEF FinishStage, Finishing
<1> QED
  BY <1>1, <1>2, <1>3, <1>4

LEMMA JourneyRange == JourneyFacts => \A c \in Calls : Journey(c) \in 0..8
<1> SUFFICES ASSUME JourneyFacts, NEW c \in Calls PROVE Journey(c) \in 0..8
  OBVIOUS
<1>1. CASE \E w \in Workers : job[w] = c
  BY <1>1, StageRanges DEF JourneyFacts
<1>2. CASE \A w \in Workers : job[w] # c
  BY <1>2, StageRanges DEF JourneyFacts
<1> QED
  BY <1>1, <1>2

\* What a step leaves alone does not go back.
LEMMA Steady ==
  /\ UNCHANGED enq => \A c \in Calls : Admission(c) <= Admission(c)'
  /\ UNCHANGED start => \A s \in Starts : Starting(s) <= Starting(s)'
  /\ UNCHANGED shut => \A s \in Shutdowns : Closing(s) <= Closing(s)'
  /\ UNCHANGED worker => \A w \in Workers : Life(w) <= Life(w)'
  /\ UNCHANGED fin => Finishing <= Finishing'
  /\ UNCHANGED <<startCtxDone, afterFunc>> => \A i \in 1..2 : Canceling[i] => Canceling[i]'
<1>1. UNCHANGED enq => \A c \in Calls : Admission(c)' = Admission(c)
  BY DEF Admission
<1>2. UNCHANGED start => \A s \in Starts : Starting(s)' = Starting(s)
  BY DEF Starting
<1>3. UNCHANGED shut => \A s \in Shutdowns : Closing(s)' = Closing(s)
  BY DEF Closing
<1>4. UNCHANGED worker => \A w \in Workers : Life(w)' = Life(w)
  BY DEF Life
<1>5. UNCHANGED fin => Finishing' = Finishing
  BY DEF Finishing
<1>6. UNCHANGED <<startCtxDone, afterFunc>> => Canceling' = Canceling
  BY DEF Canceling
<1> QED
  BY <1>1, <1>2, <1>3, <1>4, <1>5, <1>6, StageRanges

\* A notification whose holder stays where it is does not move.
LEMMA JourneySame ==
  ASSUME JourneyFacts, JourneyFacts', NEW c \in Calls,
         \A w \in Workers : job'[w] = c <=> job[w] = c,
         \A w \in Workers : job[w] = c => worker'[w] = worker[w],
         finJob' = c <=> finJob = c, finJob = c => fin' = fin, callbacks'[c] = callbacks[c]
  PROVE  Journey(c)' = Journey(c)
<1>1. CASE \E w \in Workers : job[w] = c
  <2>1. PICK w \in Workers : job[w] = c
    BY <1>1
  <2>2. WorkerStage(w)' = WorkerStage(w)
    BY <2>1 DEF WorkerStage
  <2> QED
    BY <2>1, <2>2 DEF JourneyFacts
<1>2. CASE \A w \in Workers : job[w] # c
  <2>1. finJob = c => FinishStage' = FinishStage
    BY DEF FinishStage
  <2> QED
    BY <1>2, <2>1 DEF JourneyFacts
<1> QED
  BY <1>1, <1>2

\* ... so if no holder moves, none does.
LEMMA JourneysSame ==
  ASSUME JourneyFacts, JourneyFacts', UNCHANGED <<job, finJob, callbacks>>,
         \A w \in Workers : job[w] \in Calls => worker'[w] = worker[w],
         finJob \in Calls => fin' = fin
  PROVE  \A c \in Calls : Journey(c)' = Journey(c)
  BY JourneySame

LEMMA EnqueueMoves ==
  ASSUME TypeOK, JourneyFacts, JourneyFacts', NEW c \in Calls, EnqueueNext(c)
  PROVE  NothingGoesBack /\ SomethingMoves
<1> USE DEF flagVars, chanVars, ctxVars, workerVars, finVars, logVars
<1>1. UNCHANGED <<start, shut, worker, job, fin, finJob, callbacks, startCtxDone, afterFunc>>
  BY DEF EnqueueNext, EnqueueCall, EnqueueReserve, EnqueueStopping, EnqueueCtxDone,
         EnqueueLock, EnqueueFree, EnqueuePut, EnqueueSend, EnqueueReturn
<1>2. \E from, to : EnqueueStep(c, from, to) /\
        \/ from = "idle" /\ to \in {"reserve", "rejected"}
        \/ from = "reserve" /\ to \in {"lock", "stopped", "canceled"}
        \/ from = "lock" /\ to \in {"put", "freeStopped", "freeCanceled"}
        \/ from = "put" /\ to = "send"
        \/ from = "send" /\ to = "unlock"
        \/ from \in {"freeStopped", "freeCanceled"} /\ to \in {"stopped", "canceled"}
        \/ from = "unlock" /\ to = "accepted"
  BY DEF EnqueueNext, EnqueueCall, EnqueueReserve, EnqueueStopping, EnqueueCtxDone,
         EnqueueLock, EnqueueFree, EnqueuePut, EnqueueSend, EnqueueReturn
<1>3. \A d \in Calls : d # c => Admission(d)' = Admission(d)
  BY <1>2 DEF EnqueueStep, Admission, TypeOK
<1>4. Admission(c) < Admission(c)'
  BY <1>2 DEF EnqueueStep, Admission, TypeOK
<1>5. \A d \in Calls : Journey(d)' = Journey(d)
  BY <1>1, JourneysSame
<1>6. \A d \in Calls : Admission(d) <= Admission(d)' /\ Journey(d) <= Journey(d)'
  BY <1>3, <1>4, <1>5, StageRanges, StageRangesStay, JourneyRange
<1> QED
  BY <1>1, <1>4, <1>6, Steady, StageRanges DEF NothingGoesBack, SomethingMoves

\* A stop starts finish, unless it has been started, and takes nothing back.
LEMMA StopMoves ==
  ASSUME AdmissionInv, NEW drain, Stop(drain), fin' = FinAfterStop
  PROVE  Finishing <= Finishing' /\ UNCHANGED <<start, worker, enq, startCtxDone>>
<1>1. fin' = fin \/ (fin = "none" /\ fin' = "wait")
  BY DEF FinAfterStop, AdmissionInv
<1>2. Finishing <= Finishing'
  <2>1. CASE fin' = fin
    BY <2>1, Steady
  <2>2. CASE fin = "none" /\ fin' = "wait"
    BY <2>2 DEF Finishing
  <2> QED
    BY <1>1, <2>1, <2>2
<1> QED
  BY <1>2 DEF Stop, StopEffects, workerVars

LEMMA LifecycleJourneys ==
  ASSUME TypeOK, AdmissionInv, OwnershipInv, JourneyFacts, JourneyFacts', LifecycleNext
  PROVE  \A c \in Calls : Admission(c) <= Admission(c)' /\ Journey(c) <= Journey(c)'
<1>1. /\ UNCHANGED <<enq, mailbox, job, finJob, store, slots, callbacks>>
      /\ \A w \in Workers : worker'[w] = worker[w] \/ {worker[w], worker'[w]} \subseteq Idle
      /\ fin' = fin \/ {fin, fin'} \subseteq {"none", "wait"}
  BY LifecycleFrame
<1>2. \A w \in Workers : job[w] \in Calls => worker'[w] = worker[w]
  BY <1>1, CallsAssumption DEF OwnershipInv
<1>3. finJob \in Calls => fin' = fin
  BY <1>1, CallsAssumption DEF OwnershipInv, FinHolding
<1>4. \A c \in Calls : Journey(c)' = Journey(c)
  BY <1>1, <1>2, <1>3, JourneysSame
<1> QED
  BY <1>1, <1>4, Steady, JourneyRange

LEMMA CancelingMoves ==
  ASSUME startCtxDone => startCtxDone', afterFunc = "fired" => afterFunc' = "fired"
  PROVE  \A i \in 1..2 : Canceling[i] => Canceling[i]'
<1>1. /\ Canceling[1] = startCtxDone /\ Canceling[2] = (afterFunc = "fired")
      /\ Canceling[1]' = startCtxDone' /\ Canceling[2]' = (afterFunc' = "fired")
  BY DEF Canceling
<1>2. \A i \in 1..2 : i = 1 \/ i = 2
  OBVIOUS
<1> QED
  BY <1>1, <1>2

LEMMA LifecycleMoves ==
  ASSUME TypeOK, AdmissionInv, OwnershipInv, AbortInv, CancelInv, JourneyFacts, JourneyFacts',
         LifecycleNext
  PROVE  NothingGoesBack /\ SomethingMoves
<1> USE DEF flagVars, chanVars, ctxVars, workerVars, finVars, logVars
<1>1. \A c \in Calls : Admission(c) <= Admission(c)' /\ Journey(c) <= Journey(c)'
  BY LifecycleJourneys
<1>2. ASSUME NEW s \in Starts, start[s] \in {"idle", "lock"}, NEW to \in StartStates \ {"idle"},
             to # start[s], start' = [start EXCEPT ![s] = to]
      PROVE  /\ \A x \in Starts : Starting(x) <= Starting(x)'
             /\ Starting(s) < Starting(s)'
  <2>1. \A x \in Starts : x # s => Starting(x)' = Starting(x)
    BY <1>2 DEF Starting, TypeOK
  <2>2. Starting(s) < Starting(s)'
    BY <1>2 DEF Starting, TypeOK, StartStates
  <2> QED
    BY <2>1, <2>2, StageRanges, StageRangesStay
<1>3. ASSUME NEW s \in Shutdowns, NEW to, shut' = [shut EXCEPT ![s] = to],
             \/ shut[s] = "idle" /\ to = "wait"
             \/ shut[s] = "wait" /\ to \in {"nil", "expired"}
             \/ shut[s] = "expired" /\ to = "err"
      PROVE  /\ \A x \in Shutdowns : Closing(x) <= Closing(x)'
             /\ Closing(s) < Closing(s)'
  <2>1. \A x \in Shutdowns : x # s => Closing(x)' = Closing(x)
    BY <1>3 DEF Closing, TypeOK
  <2>2. Closing(s) < Closing(s)'
    BY <1>3 DEF Closing, TypeOK
  <2> QED
    BY <2>1, <2>2, StageRanges, StageRangesStay
<1>4. ASSUME NEW s \in Starts, StartCall(s) \/ StartRefused(s)
      PROVE  NothingGoesBack /\ SomethingMoves
  <2>1. UNCHANGED <<shut, worker, fin, startCtxDone, afterFunc>>
    BY <1>4 DEF StartCall, StartRefused
  <2>2. \E to \in StartStates \ {"idle"} :
          start[s] \in {"idle", "lock"} /\ to # start[s] /\ start' = [start EXCEPT ![s] = to]
    BY <1>4 DEF StartCall, StartRefused, StartStates
  <2>3. (\A x \in Starts : Starting(x) <= Starting(x)') /\ Starting(s) < Starting(s)'
    BY <1>2, <2>2
  <2> QED
    BY <1>1, <2>1, <2>3, Steady, StageRanges DEF NothingGoesBack, SomethingMoves
<1>5. ASSUME NEW s \in Starts, StartLaunch(s) PROVE NothingGoesBack /\ SomethingMoves
  <2>1. /\ start[s] = "lock" /\ start' = [start EXCEPT ![s] = "ok"] /\ UNCHANGED shut
        /\ worker' = [w \in Workers |-> "select"] /\ fin' = "wait" /\ ~started /\ ~stopped
    BY <1>5 DEF StartLaunch
  <2>2. (\A x \in Starts : Starting(x) <= Starting(x)') /\ Starting(s) < Starting(s)'
    BY <1>2, <2>1 DEF StartStates
  <2>3. \A w \in Workers : Life(w) <= Life(w)'
    BY <2>1 DEF OwnershipInv, Life
  <2>4. Finishing <= Finishing'
    <3>1. fin = "none"
      BY <2>1 DEF AdmissionInv, OwnershipInv
    <3> QED
      BY <2>1, <3>1 DEF Finishing
  <2>5. \A i \in 1..2 : Canceling[i] => Canceling[i]'
    BY <2>1, CancelingMoves DEF AbortInv, CancelInv
  <2> QED
    BY <1>1, <2>1, <2>2, <2>3, <2>4, <2>5, Steady, StageRanges DEF NothingGoesBack, SomethingMoves
<1>6. ASSUME NEW s \in Shutdowns, ShutdownStop(s) \/ ShutdownAbort(s)
      PROVE  NothingGoesBack /\ SomethingMoves
  <2>1. /\ (\E drain \in BOOLEAN : Stop(drain)) /\ fin' = FinAfterStop /\ UNCHANGED afterFunc
        /\ \E to : /\ shut' = [shut EXCEPT ![s] = to]
                   /\ (shut[s] = "idle" /\ to = "wait") \/ (shut[s] = "expired" /\ to = "err")
    BY <1>6 DEF ShutdownStop, ShutdownAbort
  <2>2. (\A x \in Shutdowns : Closing(x) <= Closing(x)') /\ Closing(s) < Closing(s)'
    BY <1>3, <2>1
  <2>3. Finishing <= Finishing' /\ UNCHANGED <<start, worker, enq, startCtxDone>>
    BY <2>1, StopMoves
  <2> QED
    BY <1>1, <2>1, <2>2, <2>3, Steady, StageRanges DEF NothingGoesBack, SomethingMoves
<1>7. ASSUME NEW s \in Shutdowns, ShutdownDone(s) \/ ShutdownExpire(s)
      PROVE  NothingGoesBack /\ SomethingMoves
  <2>1. /\ UNCHANGED <<start, worker, fin, startCtxDone, afterFunc>>
        /\ \E to : /\ shut' = [shut EXCEPT ![s] = to]
                   /\ shut[s] = "wait" /\ to \in {"nil", "expired"}
    BY <1>7 DEF ShutdownDone, ShutdownExpire
  <2>2. (\A x \in Shutdowns : Closing(x) <= Closing(x)') /\ Closing(s) < Closing(s)'
    BY <1>3, <2>1
  <2> QED
    BY <1>1, <2>1, <2>2, Steady, StageRanges DEF NothingGoesBack, SomethingMoves
<1>8. CASE CancelStartCtx
  <2>1. /\ UNCHANGED <<start, shut, worker, fin, afterFunc>> /\ ~startCtxDone /\ startCtxDone' = TRUE
    BY <1>8 DEF CancelStartCtx
  <2>2. \A i \in 1..2 : Canceling[i] => Canceling[i]'
    BY <2>1, CancelingMoves
  <2>3. Canceling # Canceling'
    BY <2>1 DEF Canceling
  <2> QED
    BY <1>1, <2>1, <2>2, <2>3, Steady DEF NothingGoesBack, SomethingMoves
<1>9. CASE AfterFuncStop
  <2>1. /\ Stop(FALSE) /\ fin' = FinAfterStop /\ UNCHANGED shut
        /\ afterFunc = "armed" /\ afterFunc' = "fired"
    BY <1>9 DEF AfterFuncStop
  <2>2. Finishing <= Finishing' /\ UNCHANGED <<start, worker, enq, startCtxDone>>
    BY <2>1, StopMoves
  <2>3. \A i \in 1..2 : Canceling[i] => Canceling[i]'
    BY <2>1, <2>2, CancelingMoves
  <2>4. Canceling # Canceling'
    BY <2>1 DEF Canceling
  <2> QED
    BY <1>1, <2>1, <2>2, <2>3, <2>4, Steady DEF NothingGoesBack, SomethingMoves
<1> QED
  BY <1>4, <1>5, <1>6, <1>7, <1>8, <1>9 DEF LifecycleNext, StartNext, ShutdownNext

\* One notification moves and the others stay.
LEMMA OneJourney ==
  ASSUME JourneyFacts, JourneyFacts', NEW h \in Calls, Journey(h) < Journey(h)',
         \A c \in Calls : c # h =>
            /\ \A w \in Workers : job'[w] = c <=> job[w] = c
            /\ \A w \in Workers : job[w] = c => worker'[w] = worker[w]
            /\ finJob' = c <=> finJob = c
            /\ finJob = c => fin' = fin
            /\ callbacks'[c] = callbacks[c]
  PROVE  \A c \in Calls : Journey(c) <= Journey(c)'
<1>1. \A c \in Calls : c # h => Journey(c)' = Journey(c)
  BY JourneySame
<1>2. Journey(h)' \in 0..8
  <2>1. (JourneyFacts => \A c \in Calls : Journey(c) \in 0..8)'
    BY JourneyRange, PTL
  <2> QED
    BY <2>1
<1> QED
  BY <1>1, <1>2, JourneyRange

\* A worker touches nothing but its own notification.
LEMMA WorkerOwn ==
  ASSUME TypeOK, OwnershipInv, NEW w \in Workers, WorkerNext(w)
  PROVE  /\ UNCHANGED <<enq, start, shut, fin, finJob, startCtxDone, afterFunc>>
         /\ \A v \in Workers : v # w => worker'[v] = worker[v] /\ job'[v] = job[v]
         /\ worker[w] \notin {"unborn", "exited"} /\ worker'[w] # "unborn"
         /\ fin \in {"none", "wait"} /\ finJob = NoCall
<1> USE DEF WorkerStep, flagVars, chanVars, ctxVars, finVars
<1>1. UNCHANGED <<enq, start, shut, fin, finJob, startCtxDone, afterFunc>>
  BY DEF WorkerNext, WorkerCanceled, WorkerReceive, WorkerDrained, WorkerGet,
         WorkerDelete, WorkerDequeue, WorkerDeliver, WorkerDelivered,
         WorkerInterrupted, WorkerComplete, WorkerReturn
<1>2. \A v \in Workers : v # w => worker'[v] = worker[v] /\ job'[v] = job[v]
  BY DEF WorkerNext, WorkerCanceled, WorkerReceive, WorkerDrained, WorkerGet,
         WorkerDelete, WorkerDequeue, WorkerDeliver, WorkerDelivered,
         WorkerInterrupted, WorkerComplete, WorkerReturn, TypeOK
<1>3. worker[w] \notin {"unborn", "exited"} /\ worker'[w] # "unborn"
  BY DEF WorkerNext, WorkerCanceled, WorkerReceive, WorkerDrained, WorkerGet,
         WorkerDelete, WorkerDequeue, WorkerDeliver, WorkerDelivered,
         WorkerInterrupted, WorkerComplete, WorkerReturn, TypeOK
<1>4. fin \in {"none", "wait"} /\ finJob = NoCall
  BY <1>3 DEF OwnershipInv, FinHolding
<1> QED
  BY <1>1, <1>2, <1>3, <1>4

LEMMA WorkerMoves ==
  ASSUME RefInv, JourneyFacts, JourneyFacts', NEW w \in Workers, WorkerNext(w)
  PROVE  NothingGoesBack /\ SomethingMoves
<1> USE DEF WorkerStep, flagVars, chanVars, ctxVars, finVars, logVars
<1>0. TypeOK /\ OwnershipInv /\ StoreMatchesQueue /\ CallbackInv
  BY DEF RefInv, QueueInv
<1>1. /\ UNCHANGED <<enq, start, shut, fin, finJob, startCtxDone, afterFunc>>
      /\ \A v \in Workers : v # w => worker'[v] = worker[v] /\ job'[v] = job[v]
      /\ worker[w] \notin {"unborn", "exited"} /\ worker'[w] # "unborn"
      /\ fin \in {"none", "wait"} /\ finJob = NoCall
  BY <1>0, WorkerOwn
<1>2. \A v \in Workers : Life(v) <= Life(v)'
  <2>1. \A v \in Workers : v # w => Life(v)' = Life(v)
    BY <1>1 DEF Life
  <2>2. Life(w) = 1 /\ Life(w)' \in {1, 2}
    BY <1>1 DEF Life
  <2> QED
    BY <2>1, <2>2, StageRanges
<1>3. ASSUME \A c \in Calls : Journey(c) <= Journey(c)' PROVE NothingGoesBack
  BY <1>1, <1>2, <1>3, Steady DEF NothingGoesBack
\* The steps with a notification in hand, ...
<1>4. ASSUME NEW to \in {"delete", "dequeue", "deliver", "sending", "complete", "callback"},
             worker' = [worker EXCEPT ![w] = to], job' = job, WorkerStage(w) < WorkerStage(w)',
             worker[w] \notin Idle,
             \A c \in Calls : c # job[w] => callbacks'[c] = callbacks[c]
      PROVE  NothingGoesBack /\ SomethingMoves
  <2>1. job[w] \in Calls
    BY <1>0, <1>4 DEF OwnershipInv, TypeOK
  <2>2. PICK h \in Calls : h = job[w]
    BY <2>1
  <2>3. Journey(h) < Journey(h)'
    <3>1. Journey(h)' = WorkerStage(w)' /\ Journey(h) = WorkerStage(w)
      BY <1>4, <2>2 DEF JourneyFacts
    <3> QED
      BY <1>4, <3>1
  <2>4. \A c \in Calls : c # h => \A v \in Workers : job[v] = c => worker'[v] = worker[v]
    BY <1>1, <2>2
  <2>5. \A c \in Calls : Journey(c) <= Journey(c)'
    BY <1>1, <1>4, <2>2, <2>3, <2>4, OneJourney
  <2>6. Journey(h) # Journey(h)'
    BY <2>2, <2>3, JourneyRange
  <2> QED
    BY <1>3, <2>5, <2>6 DEF SomethingMoves
<1>5. CASE WorkerDelete(w) \/ WorkerDequeue(w) \/ WorkerDelivered(w) \/ WorkerInterrupted(w)
  BY <1>0, <1>4, <1>5 DEF WorkerDelete, WorkerDequeue, WorkerDelivered, WorkerInterrupted,
     WorkerStage, TypeOK, Idle
<1>6. CASE WorkerDeliver(w)
  BY <1>0, <1>4, <1>6 DEF WorkerDeliver, WorkerStage, TypeOK, Idle
<1>7. CASE WorkerComplete(w)
  BY <1>0, <1>4, <1>7 DEF WorkerComplete, Callback, WorkerStage, TypeOK, Idle
<1>8. CASE WorkerGet(w)
  <2>1. job[w] \in store
    BY <1>0, <1>8, HeldIn DEF WorkerGet, StoreMatchesQueue
  <2> QED
    BY <1>0, <1>4, <1>8, <2>1 DEF WorkerGet, WorkerStage, TypeOK, Idle
\* ... the one that takes it, ...
<1>9. CASE WorkerReceive(w)
  <2>1. PICK h : h = Head(mailbox)
    OBVIOUS
  <2>2. /\ h \in Calls /\ h \in Queued
        /\ worker[w] = "select" /\ worker' = [worker EXCEPT ![w] = "get"]
        /\ job' = [job EXCEPT ![w] = h] /\ UNCHANGED callbacks
    BY <1>0, <1>9, <2>1, HeadFacts DEF WorkerReceive, OwnershipInv
  <2>3. /\ job[w] = NoCall /\ \A v \in Workers : job[v] # h
        /\ callbacks[h] = 0
    BY <1>0, <2>2, CallsAssumption DEF OwnershipInv, Idle, CallbackInv, Pending
  <2>4. Journey(h) = 0
    BY <1>1, <2>2, <2>3, CallsAssumption DEF JourneyFacts
  <2>5. Journey(h)' = 1
    <3>1. job'[w] = h /\ worker'[w] = "get"
      BY <1>0, <2>2 DEF TypeOK
    <3>2. Journey(h)' = WorkerStage(w)'
      BY <2>2, <3>1 DEF JourneyFacts
    <3> QED
      BY <3>1, <3>2 DEF WorkerStage
  <2>6. job'[w] = h
    BY <1>0, <2>2 DEF TypeOK
  <2>7. \A c \in Calls : Journey(c) <= Journey(c)'
    BY <1>1, <2>2, <2>3, <2>4, <2>5, <2>6, OneJourney, CallsAssumption
  <2> QED
    BY <1>3, <2>2, <2>4, <2>5, <2>7 DEF SomethingMoves
\* ... the one that lets go of it, ...
<1>10. CASE WorkerReturn(w)
  <2>1. PICK h : h = job[w]
    OBVIOUS
  <2>2. /\ worker[w] = "callback" /\ worker' = [worker EXCEPT ![w] = "select"]
        /\ job' = [job EXCEPT ![w] = NoCall] /\ UNCHANGED callbacks
    BY <1>10 DEF WorkerReturn
  <2>3. h \in Calls /\ \A v \in Workers : v # w => job[v] # h
    BY <1>0, <2>1, <2>2 DEF OwnershipInv, TypeOK, Idle
  <2>4. callbacks[h] = 1
    <3>1. h \notin Queued /\ enq[h] \in Admitted
      BY <1>0, <2>1, <2>3, CallsAssumption DEF OwnershipInv
    <3>2. h \notin HeldBy(Undelivered)
      BY <2>2, <2>3, <2>1 DEF HeldBy, Undelivered
    <3>3. h \notin Pending
      BY <1>1, <3>1, <3>2 DEF Pending, Undelivered
    <3> QED
      BY <1>0, <2>3, <3>1, <3>3 DEF CallbackInv
  <2>5. Journey(h) = 7
    BY <2>1, <2>2, <2>3 DEF JourneyFacts, WorkerStage
  <2>6. job'[w] = NoCall /\ \A v \in Workers : job'[v] # h
    BY <1>0, <1>1, <2>2, <2>3, CallsAssumption DEF TypeOK
  <2>7. Journey(h)' = 8
    BY <1>1, <2>2, <2>3, <2>4, <2>6, CallsAssumption DEF JourneyFacts
  <2>8. \A c \in Calls : Journey(c) <= Journey(c)'
    BY <1>1, <2>1, <2>2, <2>3, <2>5, <2>6, <2>7, OneJourney, CallsAssumption
  <2> QED
    BY <1>3, <2>3, <2>5, <2>7, <2>8 DEF SomethingMoves
\* ... and the one that ends the worker.
<1>11. CASE WorkerCanceled(w) \/ WorkerDrained(w)
  <2>1. /\ worker[w] = "select" /\ worker' = [worker EXCEPT ![w] = "exited"]
        /\ UNCHANGED <<job, callbacks>>
    BY <1>11 DEF WorkerCanceled, WorkerDrained
  <2>2. \A v \in Workers : job[v] \in Calls => worker'[v] = worker[v]
    BY <1>0, <1>1, <2>1, CallsAssumption DEF OwnershipInv, Idle
  <2>3. \A c \in Calls : Journey(c)' = Journey(c)
    BY <1>1, <2>1, <2>2, JourneysSame
  <2>4. Life(w) = 1 /\ Life(w)' = 2
    BY <1>0, <2>1 DEF Life, TypeOK
  <2> QED
    BY <1>3, <2>3, <2>4, JourneyRange DEF SomethingMoves
<1> QED
  BY <1>5, <1>6, <1>7, <1>8, <1>9, <1>10, <1>11 DEF WorkerNext

\* finish works alone: where it holds a notification, no worker does.
LEMMA FinishMoves ==
  ASSUME RefInv, JourneyFacts, JourneyFacts', FinishNext
  PROVE  NothingGoesBack /\ SomethingMoves
<1> USE DEF FinishStep, flagVars, chanVars, ctxVars, workerVars, logVars
<1>0. TypeOK /\ OwnershipInv /\ StoreMatchesQueue /\ CallbackInv
  BY DEF RefInv, QueueInv
<1>1. UNCHANGED <<enq, start, shut, worker, job, startCtxDone, afterFunc>>
  BY DEF FinishNext, FinishWait, FinishStop, FinishReceive, FinishTake, FinishSlot,
         FinishComplete, FinishReturn, FinishClose, Stop, StopEffects
<1>2. fin \notin {"none", "wait"} => \A w \in Workers : job[w] = NoCall
  BY <1>0 DEF OwnershipInv, Idle
<1>3. ASSUME \A c \in Calls : Journey(c) <= Journey(c)', Finishing <= Finishing'
      PROVE  NothingGoesBack
  BY <1>1, <1>3, Steady DEF NothingGoesBack
\* The steps without a notification in hand, ...
<1>4. CASE FinishWait \/ FinishStop \/ FinishClose
  <2>1. /\ \/ fin = "wait" /\ fin' = "stop"
           \/ fin = "stop" /\ fin' = "drain"
           \/ fin = "drain" /\ fin' = "exited"
        /\ UNCHANGED <<finJob, callbacks>>
    BY <1>4 DEF FinishWait, FinishStop, FinishClose, Stop, StopEffects
  <2>2. finJob = NoCall
    BY <1>0, <2>1 DEF OwnershipInv, FinHolding
  <2>3. \A c \in Calls : Journey(c)' = Journey(c)
    BY <1>1, <2>1, <2>2, JourneysSame, CallsAssumption
  <2>4. Finishing < Finishing'
    BY <2>1 DEF Finishing
  <2> QED
    BY <1>3, <2>3, <2>4, StageRanges, StageRangesStay, JourneyRange DEF SomethingMoves
\* ... the ones that take a notification on, ...
<1>5. ASSUME fin \in {"drain", "take", "slot", "complete", "callback"},
             fin' \in {"drain", "take", "slot", "complete", "callback"},
             NEW h \in Calls, finJob \in {h, NoCall}, finJob' \in {h, NoCall},
             \A c \in Calls : c # h => callbacks'[c] = callbacks[c],
             Journey(h) < Journey(h)'
      PROVE  NothingGoesBack /\ SomethingMoves
  <2>1. \A c \in Calls : Journey(c) <= Journey(c)'
    BY <1>1, <1>2, <1>5, OneJourney, CallsAssumption
  <2>2. Finishing' = Finishing
    BY <1>5 DEF Finishing
  <2> QED
    BY <1>3, <1>5, <2>1, <2>2, StageRanges, JourneyRange DEF SomethingMoves
<1>6. ASSUME NEW h \in Calls, fin \in {"take", "slot", "complete"},
             fin' \in {"slot", "complete", "callback"}, FinishStage < FinishStage',
             finJob = h, finJob' = h, \A c \in Calls : c # h => callbacks'[c] = callbacks[c]
      PROVE  NothingGoesBack /\ SomethingMoves
  <2>1. \A w \in Workers : job[w] # h /\ job'[w] # h
    BY <1>1, <1>2, <1>6, CallsAssumption
  <2>2. Journey(h) = FinishStage /\ Journey(h)' = FinishStage'
    BY <1>6, <2>1 DEF JourneyFacts
  <2> QED
    BY <1>5, <1>6, <2>2
<1>7. CASE FinishTake \/ FinishSlot \/ FinishComplete
  <2>1. PICK h : h = finJob
    OBVIOUS
  <2>2. h \in Calls /\ fin \in {"take", "slot", "complete"}
    BY <1>0, <1>7, <2>1 DEF FinishTake, FinishSlot, FinishComplete, OwnershipInv, FinHolding, TypeOK
  <2>3. fin = "take" => h \in store
    BY <1>0, <2>1 DEF StoreMatchesQueue
  <2>4. /\ finJob' = h /\ \A c \in Calls : c # h => callbacks'[c] = callbacks[c]
        /\ (fin = "take" /\ fin' = "slot") \/ (fin = "slot" /\ fin' = "complete")
             \/ (fin = "complete" /\ fin' = "callback")
    BY <1>0, <1>7, <2>1, <2>2, <2>3, CallsAssumption
    DEF FinishTake, FinishSlot, FinishComplete, Callback, TypeOK
  <2>5. FinishStage < FinishStage'
    BY <2>4 DEF FinishStage
  <2> QED
    BY <1>6, <2>1, <2>2, <2>4, <2>5
\* ... the one that takes it from the mailbox ...
<1>8. CASE FinishReceive
  <2>1. PICK h : h = Head(mailbox)
    OBVIOUS
  <2>2. fin = "drain" /\ fin' = "take" /\ finJob' = h /\ UNCHANGED callbacks /\ finJob = NoCall
    BY <1>0, <1>8, <2>1 DEF FinishReceive, OwnershipInv, FinHolding
  <2>3. h \in Calls /\ h \in Queued
    BY <1>0, <1>8, <2>1, HeadFacts DEF FinishReceive
  <2>4. callbacks[h] = 0
    BY <1>0, <2>3 DEF CallbackInv, Pending
  <2>5. \A w \in Workers : job[w] # h /\ job'[w] # h
    BY <1>1, <1>2, <2>2, <2>3, CallsAssumption
  <2>6. Journey(h) = 0
    BY <2>2, <2>3, <2>4, <2>5, CallsAssumption DEF JourneyFacts
  <2>7. Journey(h)' = 1
    <3>1. Journey(h)' = FinishStage'
      BY <2>2, <2>3, <2>5 DEF JourneyFacts
    <3> QED
      BY <2>2, <3>1 DEF FinishStage
  <2> QED
    BY <1>5, <2>2, <2>3, <2>6, <2>7
\* ... and the one that lets go of it.
<1>9. CASE FinishReturn
  <2>1. PICK h : h = finJob
    OBVIOUS
  <2>2. fin = "callback" /\ fin' = "drain" /\ finJob' = NoCall /\ UNCHANGED callbacks
    BY <1>9 DEF FinishReturn
  <2>3. h \in Calls /\ enq[h] \in Admitted /\ h \notin Queued
    BY <1>0, <2>1, <2>2 DEF OwnershipInv, FinHolding, TypeOK
  <2>4. \A w \in Workers : job[w] # h /\ job'[w] # h
    BY <1>1, <1>2, <2>2, <2>3, CallsAssumption
  <2>5. callbacks[h] = 1
    <3>1. h \notin Pending
      BY <2>2, <2>3, <2>4 DEF Pending, HeldBy
    <3> QED
      BY <1>0, <2>3, <3>1 DEF CallbackInv
  <2>6. Journey(h) = 7
    BY <2>1, <2>2, <2>3, <2>4 DEF JourneyFacts, FinishStage
  <2>7. Journey(h)' = 8
    BY <2>2, <2>3, <2>4, <2>5, CallsAssumption DEF JourneyFacts
  <2> QED
    BY <1>5, <2>1, <2>2, <2>3, <2>6, <2>7
<1> QED
  BY <1>4, <1>7, <1>8, <1>9 DEF FinishNext

\* A step of Next moves somebody on, except the stutter of the ended program.
LEMMA StepMoves ==
  ASSUME RefInv, CancelInv, RefInv', [Next]_vars
  PROVE  [NothingGoesBack /\ SomethingMoves]_vars
<1>1. TypeOK /\ AdmissionInv /\ AbortInv /\ OwnershipInv
  BY DEF RefInv, QueueInv
<1>2. JourneyFacts
  BY <1>1, JourneyIs
<1>3. JourneyFacts'
  BY JourneyStays DEF RefInv, QueueInv
<1>4. ASSUME NEW c \in Calls, EnqueueNext(c) PROVE NothingGoesBack /\ SomethingMoves
  BY <1>1, <1>2, <1>3, <1>4, EnqueueMoves
<1>5. CASE LifecycleNext
  BY <1>1, <1>2, <1>3, <1>5, LifecycleMoves
<1>6. ASSUME NEW w \in Workers, WorkerNext(w) PROVE NothingGoesBack /\ SomethingMoves
  BY <1>2, <1>3, <1>6, WorkerMoves
<1>7. CASE FinishNext
  BY <1>2, <1>3, <1>7, FinishMoves
<1> QED
  BY <1>4, <1>5, <1>6, <1>7, NextCases

\* notify/manager.go and notify/dispatcher.go, the safety half of "nobody waits for
\* ever": every step of a goroutine takes a call, a notification or a goroutine on and
\* none back, and where no goroutine can run, a stopped manager has sent its producers
\* away and an aborted one is done; if moreover no delivery is under way, every Shutdown
\* has returned, every accepted notification is completed and no producer is blocked.
THEOREM ManagerComesToRest == Spec => ComesToRest
<1>1. RefInv /\ CancelInv => (~Runnable => RestIsExplained)
  BY RestHolds
<1>2. RefInv /\ CancelInv /\ RefInv' /\ [Next]_vars => [NothingGoesBack /\ SomethingMoves]_vars
  BY StepMoves
<1> QED
  BY <1>1, <1>2, RestInvariant, PTL DEF Spec, ComesToRest
=============================================================================
