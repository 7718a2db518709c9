-------------------------- MODULE ManagerProofs ---------------------------
(***************************************************************************)
(* Proofs about Manager, for every number of calls, workers and every      *)
(* capacity: its type, admission, and where a notification and a token of  *)
(* m.slots are - nothing is lost or kept twice.                            *)
(***************************************************************************)
EXTENDS Manager, FiniteSetTheorems, SequenceTheorems, FunctionTheorems, TLAPS

(***************************************************************************)
(* Type correctness                                                        *)
(***************************************************************************)
LEMMA InitTypeOK == Init => TypeOK
<1> SUFFICES ASSUME Init PROVE TypeOK
  OBVIOUS
<1>1. slots \in 0..Capacity /\ Len(mailbox) <= Capacity
  BY CapacityAssumption, EmptySeq DEF Init
<1>2. mailbox \in Seq(Calls) /\ store \subseteq Calls
  BY EmptySeq DEF Init
<1>3. enq \in [Calls -> EnqStates] /\ start \in [Starts -> StartStates]
        /\ shut \in [Shutdowns -> ShutStates]
  BY DEF Init, EnqStates, StartStates, ShutStates
<1>4. worker \in [Workers -> WorkerStates] /\ fin \in FinStates
        /\ verdict \in [Workers -> Outcomes \union {"none"}]
        /\ outcome \in [Calls -> Outcomes \union {"none"}]
  BY DEF Init, WorkerStates, FinStates
<1> QED
  BY <1>1, <1>2, <1>3, <1>4 DEF Init, TypeOK

\* A step that only moves one call through Enqueue.
LEMMA EnqueueStepType ==
  ASSUME TypeOK, NEW c \in Calls, NEW from, NEW to \in EnqStates,
         EnqueueStep(c, from, to)
  PROVE  enq' \in [Calls -> EnqStates]
  BY DEF TypeOK, EnqueueStep

LEMMA EnqueueTypeOK ==
  ASSUME TypeOK, NEW c \in Calls, EnqueueNext(c)
  PROVE  TypeOK'
<1>1. enq' \in [Calls -> EnqStates]
  BY EnqueueStepType
  DEF EnqueueNext, EnqueueCall, EnqueueReserve, EnqueueStopping, EnqueueCtxDone,
      EnqueueLock, EnqueueFree, EnqueuePut, EnqueueSend, EnqueueReturn,
      EnqStates, Admitting, Returned, Refused
<1> USE DEF TypeOK, flagVars, chanVars, ctxVars, workerVars, finVars, logVars
<1>2. CASE EnqueueCall(c) \/ EnqueueStopping(c) \/ EnqueueCtxDone(c)
  BY <1>1, <1>2 DEF EnqueueCall, EnqueueStopping, EnqueueCtxDone
<1>3. CASE EnqueueReserve(c)
  BY <1>1, <1>3, CapacityAssumption DEF EnqueueReserve
<1>4. CASE EnqueueLock(c)
  BY <1>1, <1>4 DEF EnqueueLock
<1>5. CASE EnqueueFree(c)
  BY <1>1, <1>5, CapacityAssumption DEF EnqueueFree
<1>6. CASE EnqueuePut(c)
  BY <1>1, <1>6 DEF EnqueuePut
<1>7. CASE EnqueueSend(c)
  <2>1. CASE mailboxClosed
    BY <1>1, <1>7, <2>1 DEF EnqueueSend
  <2>2. CASE ~mailboxClosed
    <3>1. mailbox' = Append(mailbox, c) /\ Len(mailbox) < Capacity
      BY <1>7, <2>2 DEF EnqueueSend
    <3>2. mailbox' \in Seq(Calls) /\ Len(mailbox') <= Capacity
      BY <3>1, AppendProperties, CapacityAssumption
    <3> QED
      BY <1>1, <1>7, <2>2, <3>2 DEF EnqueueSend
  <2> QED
    BY <2>1, <2>2
<1>8. CASE EnqueueReturn(c)
  BY <1>1, <1>8 DEF EnqueueReturn
<1> QED
  BY <1>2, <1>3, <1>4, <1>5, <1>6, <1>7, <1>8 DEF EnqueueNext

LEMMA StartTypeOK ==
  ASSUME TypeOK, NEW s \in Starts, StartNext(s)
  PROVE  TypeOK'
<1> USE DEF TypeOK, flagVars, chanVars, ctxVars, workerVars, finVars, logVars
<1>1. start' \in [Starts -> StartStates]
  BY DEF StartNext, StartCall, StartRefused, StartLaunch, StartStates
<1>2. CASE StartCall(s)
  BY <1>1, <1>2 DEF StartCall
<1>3. CASE StartRefused(s)
  BY <1>1, <1>3 DEF StartRefused
<1>4. CASE StartLaunch(s)
  <2>1. worker' \in [Workers -> WorkerStates] /\ fin' \in FinStates
    BY <1>4 DEF StartLaunch, WorkerStates, FinStates
  <2> QED
    BY <1>1, <1>4, <2>1 DEF StartLaunch
<1> QED
  BY <1>2, <1>3, <1>4 DEF StartNext

LEMMA StopTypeOK ==
  ASSUME TypeOK, NEW drain, Stop(drain)
  PROVE  /\ stopped' \in BOOLEAN /\ stopping' \in BOOLEAN
         /\ mailboxClosed' \in BOOLEAN /\ panicked' \in BOOLEAN
         /\ finishing' \in BOOLEAN
         /\ runCtx' \in {"none", "live", "canceled"}
  BY DEF Stop, StopEffects, CloseBoth, TypeOK

LEMMA FinAfterStopType == TypeOK => FinAfterStop \in FinStates
  BY DEF TypeOK, FinAfterStop, FinStates

LEMMA ShutdownTypeOK ==
  ASSUME TypeOK, NEW s \in Shutdowns, ShutdownNext(s)
  PROVE  TypeOK'
<1>1. shut' \in [Shutdowns -> ShutStates]
  BY DEF TypeOK, ShutdownNext, ShutdownStop, ShutdownDone, ShutdownExpire,
         ShutdownAbort, ShutStates
<1>2. CASE ShutdownStop(s)
  BY <1>1, <1>2, StopTypeOK, FinAfterStopType
  DEF TypeOK, ShutdownStop, Stop, StopEffects, workerVars, logVars
<1>3. CASE ShutdownDone(s) \/ ShutdownExpire(s)
  BY <1>1, <1>3 DEF TypeOK, ShutdownDone, ShutdownExpire,
                    flagVars, chanVars, ctxVars, workerVars, finVars, logVars
<1>4. CASE ShutdownAbort(s)
  BY <1>1, <1>4, StopTypeOK, FinAfterStopType
  DEF TypeOK, ShutdownAbort, Stop, StopEffects, workerVars, logVars
<1> QED
  BY <1>2, <1>3, <1>4 DEF ShutdownNext

LEMMA CancelTypeOK ==
  ASSUME TypeOK, CancelStartCtx \/ AfterFuncStop
  PROVE  TypeOK'
<1>1. CASE CancelStartCtx
  BY <1>1 DEF TypeOK, CancelStartCtx, flagVars, chanVars, workerVars, finVars, logVars
<1>2. CASE AfterFuncStop
  BY <1>2, StopTypeOK, FinAfterStopType
  DEF TypeOK, AfterFuncStop, Stop, StopEffects, workerVars, logVars
<1> QED
  BY <1>1, <1>2

LEMMA CallbackType ==
  ASSUME TypeOK, NEW c, NEW err \in Outcomes \union {"none"}, Callback(c, err)
  PROVE  /\ callbacks' \in [Calls -> Nat]
         /\ outcome' \in [Calls -> Outcomes \union {"none"}]
<1>1. callbacks \in [Calls -> Nat] /\ outcome \in [Calls -> Outcomes \union {"none"}]
  BY DEF TypeOK
<1>2. callbacks' \in [Calls -> Nat]
  <2>1. \A n \in Nat : n + 1 \in Nat
    OBVIOUS
  <2>2. c \in Calls => callbacks[c] + 1 \in Nat
    BY <1>1, <2>1
  <2> QED
    BY <1>1, <2>2, Zenon DEF Callback
<1>3. outcome' \in [Calls -> Outcomes \union {"none"}]
  BY <1>1 DEF Callback
<1> QED
  BY <1>2, <1>3

LEMMA WorkerTypeOK ==
  ASSUME TypeOK, NEW w \in Workers, WorkerNext(w)
  PROVE  TypeOK'
<1> USE DEF TypeOK, flagVars, chanVars, ctxVars, finVars, logVars
<1>1. worker' \in [Workers -> WorkerStates]
  BY DEF WorkerNext, WorkerCanceled, WorkerReceive, WorkerDrained, WorkerGet,
         WorkerDelete, WorkerDequeue, WorkerDeliver, WorkerDelivered,
         WorkerInterrupted, WorkerComplete, WorkerReturn, WorkerStep, WorkerStates
<1>2. verdict' \in [Workers -> Outcomes \union {"none"}]
  BY DEF WorkerNext, WorkerCanceled, WorkerReceive, WorkerDrained, WorkerGet,
         WorkerDelete, WorkerDequeue, WorkerDeliver, WorkerDelivered,
         WorkerInterrupted, WorkerComplete, WorkerReturn, Decide, Outcomes
<1>3. CASE WorkerCanceled(w) \/ WorkerDrained(w)
  BY <1>1, <1>3 DEF WorkerCanceled, WorkerDrained
<1>4. CASE WorkerReceive(w)
  <2>1. Head(mailbox) \in Calls /\ mailbox' \in Seq(Calls) /\ Len(mailbox') <= Capacity
    BY <1>4, HeadTailProperties, CapacityAssumption DEF WorkerReceive
  <2> QED
    BY <1>1, <1>4, <2>1 DEF WorkerReceive
<1>5. CASE WorkerGet(w)
  BY <1>1, <1>5 DEF WorkerGet
<1>6. CASE WorkerDelete(w)
  BY <1>1, <1>6 DEF WorkerDelete
<1>7. CASE WorkerDequeue(w)
  BY <1>1, <1>7, CapacityAssumption DEF WorkerDequeue
<1>8. CASE WorkerDeliver(w) \/ WorkerDelivered(w) \/ WorkerInterrupted(w)
  BY <1>1, <1>2, <1>8 DEF WorkerDeliver, WorkerDelivered, WorkerInterrupted
<1>9. CASE WorkerComplete(w)
  BY <1>1, <1>9, CallbackType DEF WorkerComplete
<1>10. CASE WorkerReturn(w)
  BY <1>1, <1>2, <1>10 DEF WorkerReturn
<1> QED
  BY <1>3, <1>4, <1>5, <1>6, <1>7, <1>8, <1>9, <1>10 DEF WorkerNext

LEMMA FinishTypeOK ==
  ASSUME TypeOK, FinishNext
  PROVE  TypeOK'
<1>1. fin' \in FinStates
  BY DEF FinishNext, FinishWait, FinishStop, FinishReceive, FinishTake, FinishSlot,
         FinishComplete, FinishReturn, FinishClose, FinishStep, FinStates
<1> USE DEF TypeOK, flagVars, chanVars, ctxVars, workerVars, logVars
<1>2. CASE FinishWait
  BY <1>1, <1>2 DEF FinishWait
<1>8. CASE FinishReturn
  BY <1>1, <1>8 DEF FinishReturn
<1>9. CASE FinishClose
  BY <1>1, <1>9 DEF FinishClose
<1>3. CASE FinishStop
  BY <1>1, <1>3, StopTypeOK DEF FinishStop, Stop, StopEffects
<1>4. CASE FinishReceive
  <2>1. Head(mailbox) \in Calls /\ mailbox' \in Seq(Calls) /\ Len(mailbox') <= Capacity
    BY <1>4, HeadTailProperties, CapacityAssumption DEF FinishReceive
  <2> QED
    BY <1>1, <1>4, <2>1 DEF FinishReceive
<1>5. CASE FinishTake
  BY <1>1, <1>5 DEF FinishTake
<1>6. CASE FinishSlot
  BY <1>1, <1>6, CapacityAssumption DEF FinishSlot
<1>7. CASE FinishComplete
  <2>1. callbacks' \in [Calls -> Nat] /\ outcome' \in [Calls -> Outcomes \union {"none"}]
    BY <1>7, CallbackType DEF FinishComplete, Outcomes
  <2> QED
    BY <1>1, <1>7, <2>1 DEF FinishComplete
<1> QED
  BY <1>2, <1>3, <1>4, <1>5, <1>6, <1>7, <1>8, <1>9 DEF FinishNext

LEMMA StutterTypeOK == TypeOK /\ UNCHANGED vars => TypeOK'
  BY DEF TypeOK, vars, flagVars, chanVars, ctxVars, workerVars, finVars, logVars

LEMMA NextTypeOK == TypeOK /\ [Next]_vars => TypeOK'
  BY EnqueueTypeOK, StartTypeOK, ShutdownTypeOK, WorkerTypeOK, CancelTypeOK,
     FinishTypeOK, StutterTypeOK DEF Next, Terminated

\* Every reachable state is well typed; in particular the token channel and the
\* mailbox never exceed their capacity (manager.go, NewManager).
THEOREM TypeCorrect == Spec => []TypeOK
  BY InitTypeOK, NextTypeOK, PTL DEF Spec


-----------------------------------------------------------------------------
(***************************************************************************)
(* Admission: what m.mu protects.                                          *)
(***************************************************************************)
InSection == {"put", "send", "freeStopped", "freeCanceled", "unlock"}
Draining  == {"drain", "take", "slot", "complete", "callback", "exited"}

\* The channels are closed by stop alone, together with the flag; whoever holds
\* m.mu is in Enqueue's critical section and nobody else is; inside it, past
\* the check of the flag, the manager is not stopped.  finish runs at most
\* once, drains only after a stop, and alone closes m.done.
AdmissionInv ==
    /\ stopping = stopped /\ mailboxClosed = stopped
    /\ \A c \in Calls : enq[c] \in InSection <=> mu = c
    /\ \A c \in Calls : enq[c] \in {"put", "send"} => ~stopped
    /\ finishing <=> fin # "none"
    /\ started => finishing
    /\ fin \in Draining => stopped
    /\ done <=> fin = "exited"
    /\ NoPanic

LEMMA InitAdmissionInv == Init => AdmissionInv
<1> SUFFICES ASSUME Init PROVE AdmissionInv
  OBVIOUS
<1>1. \A c \in Calls : enq[c] = "idle" /\ mu # c
  BY CallsAssumption DEF Init
<1>2. \A c \in Calls : enq[c] \notin InSection /\ enq[c] \notin {"put", "send"}
  BY <1>1 DEF InSection
<1> QED
  BY <1>1, <1>2 DEF Init, AdmissionInv, Draining, NoPanic

LEMMA EnqueueAdmissionInv ==
  ASSUME TypeOK, AdmissionInv, NEW c \in Calls, EnqueueNext(c)
  PROVE  AdmissionInv'
<1> USE CallsAssumption
    DEF AdmissionInv, InSection, NoPanic, TypeOK, EnqueueStep,
        flagVars, chanVars, finVars
<1>1. CASE EnqueueCall(c) \/ EnqueueReserve(c) \/ EnqueueStopping(c) \/ EnqueueCtxDone(c)
  BY <1>1 DEF EnqueueCall, EnqueueReserve, EnqueueStopping, EnqueueCtxDone
<1>2. CASE EnqueueLock(c)
  BY <1>2 DEF EnqueueLock
<1>3. CASE EnqueueFree(c)
  <2>1. /\ UNCHANGED <<started, stopped, finishing, stopping, mailboxClosed, done, panicked, fin>>
        /\ mu' = NoCall /\ enq[c] \in InSection
    BY <1>3 DEF EnqueueFree
  <2>2. \A d \in Calls : enq'[d] = IF d = c THEN enq'[c] ELSE enq[d]
    BY <1>3 DEF EnqueueFree
  <2>3. enq'[c] \in {"stopped", "canceled"}
    BY <1>3 DEF EnqueueFree
  <2>4. \A d \in Calls : enq'[d] \notin InSection /\ enq'[d] \notin {"put", "send"}
    BY <2>1, <2>2, <2>3
  <2> QED
    BY <2>1, <2>4
<1>4. CASE EnqueuePut(c)
  BY <1>4 DEF EnqueuePut
<1>6. CASE EnqueueSend(c)
  BY <1>6 DEF EnqueueSend
<1>5. CASE EnqueueReturn(c)
  BY <1>5 DEF EnqueueReturn
<1> QED
  BY <1>1, <1>2, <1>3, <1>4, <1>5, <1>6 DEF EnqueueNext

\* stop never meets an Enqueue call in its critical section.
LEMMA StopAdmissionInv ==
  ASSUME TypeOK, AdmissionInv, NEW drain, Stop(drain),
         fin' = FinAfterStop \/ (fin = "stop" /\ fin' = "drain")
  PROVE  AdmissionInv'
<1>1. /\ stopped' /\ stopping' /\ mailboxClosed' /\ finishing'
      /\ UNCHANGED <<mu, enq, started, done>>
  BY DEF Stop, StopEffects, CloseBoth, AdmissionInv
<1>2. ~panicked'
  BY DEF Stop, StopEffects, CloseBoth, AdmissionInv, NoPanic
<1>3. \A c \in Calls : enq[c] \notin InSection
  BY CallsAssumption DEF Stop, AdmissionInv
<1>4. fin' # "none" /\ (done' <=> fin' = "exited")
  BY <1>1 DEF AdmissionInv, FinAfterStop
<1> QED
  BY <1>1, <1>2, <1>3, <1>4 DEF AdmissionInv, NoPanic, InSection

LEMMA OthersAdmissionInv ==
  ASSUME TypeOK, AdmissionInv, Next
  PROVE  \/ AdmissionInv'
         \/ \E c \in Calls : EnqueueNext(c)
<1> USE DEF flagVars, chanVars, finVars
<1>1. ASSUME NEW s \in Starts, StartNext(s) PROVE AdmissionInv'
  BY <1>1 DEF StartNext, StartCall, StartRefused, StartLaunch, AdmissionInv, NoPanic, Draining
<1>2. ASSUME NEW s \in Shutdowns, ShutdownNext(s) PROVE AdmissionInv'
  <2>1. CASE ShutdownStop(s) \/ ShutdownAbort(s)
    BY <2>1, StopAdmissionInv DEF ShutdownStop, ShutdownAbort
  <2>2. CASE ShutdownDone(s) \/ ShutdownExpire(s)
    BY <2>2 DEF ShutdownDone, ShutdownExpire, AdmissionInv, NoPanic
  <2> QED
    BY <1>2, <2>1, <2>2 DEF ShutdownNext
<1>3. ASSUME NEW w \in Workers, WorkerNext(w) PROVE AdmissionInv'
  BY <1>3 DEF WorkerNext, WorkerCanceled, WorkerReceive, WorkerDrained, WorkerGet,
         WorkerDelete, WorkerDequeue, WorkerDeliver, WorkerDelivered,
         WorkerInterrupted, WorkerComplete, WorkerReturn, AdmissionInv, NoPanic
<1>4. CASE CancelStartCtx
  BY <1>4 DEF CancelStartCtx, AdmissionInv, NoPanic
<1>5. CASE AfterFuncStop
  BY <1>5, StopAdmissionInv DEF AfterFuncStop
<1>6. CASE FinishNext
  <2>1. CASE FinishStop
    BY <2>1, StopAdmissionInv DEF FinishStop, FinishStep
  <2>2. CASE FinishWait
    BY <2>2 DEF FinishWait, FinishStep, AdmissionInv, NoPanic, Draining
  <2>3. CASE FinishReceive \/ FinishTake \/ FinishSlot \/ FinishComplete \/ FinishReturn
    BY <2>3 DEF FinishReceive, FinishTake, FinishSlot, FinishComplete, FinishReturn,
                FinishStep, AdmissionInv, NoPanic, Draining
  <2>4. CASE FinishClose
    BY <2>4 DEF FinishClose, FinishStep, AdmissionInv, NoPanic, Draining
  <2> QED
    BY <1>6, <2>1, <2>2, <2>3, <2>4 DEF FinishNext
<1>7. CASE Terminated
  BY <1>7 DEF Terminated, vars, AdmissionInv, NoPanic
<1> QED
  BY <1>1, <1>2, <1>3, <1>4, <1>5, <1>6, <1>7 DEF Next

LEMMA NextAdmissionInv == TypeOK /\ AdmissionInv /\ [Next]_vars => AdmissionInv'
<1>1. ASSUME AdmissionInv, UNCHANGED vars PROVE AdmissionInv'
  BY <1>1 DEF vars, flagVars, chanVars, finVars, AdmissionInv, NoPanic
<1> QED
  BY <1>1, EnqueueAdmissionInv, OthersAdmissionInv

THEOREM AdmissionSafe == Spec => []AdmissionInv
<1>1. Spec => []TypeOK
  BY TypeCorrect
<1> QED
  BY <1>1, InitAdmissionInv, NextAdmissionInv, PTL DEF Spec

\* However Enqueue, Start, Shutdown, the end of Start's context and finish
\* interleave, nobody sends on the closed mailbox and no channel is closed
\* twice (manager.go, stop, Enqueue and finish).
THEOREM NeverPanics == Spec => []NoPanic
  BY AdmissionSafe, PTL DEF AdmissionInv

LEMMA NextAdmissionCloses ==
  TypeOK /\ AdmissionInv /\ stopped /\ Next
    => Len(mailbox') <= Len(mailbox) /\ store' \subseteq store
<1> SUFFICES ASSUME TypeOK, AdmissionInv, stopped, Next
             PROVE  Len(mailbox') <= Len(mailbox) /\ store' \subseteq store
  OBVIOUS
<1> DEFINE Smaller == mailbox' = mailbox \/ (mailbox # << >> /\ mailbox' = Tail(mailbox))
<1>1. Smaller => Len(mailbox') <= Len(mailbox)
  BY HeadTailProperties, LenProperties DEF TypeOK
<1>2. ASSUME NEW c \in Calls, EnqueueNext(c) PROVE Smaller /\ store' \subseteq store
  <2>1. ~EnqueuePut(c) /\ ~EnqueueSend(c)
    BY DEF AdmissionInv, EnqueuePut, EnqueueSend, EnqueueStep
  <2> QED
    BY <1>2, <2>1 DEF EnqueueNext, EnqueueCall, EnqueueReserve, EnqueueStopping,
                      EnqueueCtxDone, EnqueueLock, EnqueueFree, EnqueueReturn
<1>3. ASSUME NEW s \in Starts, StartNext(s) PROVE Smaller /\ store' \subseteq store
  BY <1>3 DEF StartNext, StartCall, StartRefused, StartLaunch
<1>4. ASSUME NEW s \in Shutdowns, ShutdownNext(s) PROVE Smaller /\ store' \subseteq store
  BY <1>4 DEF ShutdownNext, ShutdownStop, ShutdownAbort, ShutdownDone, ShutdownExpire,
              Stop, StopEffects
<1>5. ASSUME NEW w \in Workers, WorkerNext(w) PROVE Smaller /\ store' \subseteq store
  BY <1>5 DEF WorkerNext, WorkerCanceled, WorkerReceive, WorkerDrained, WorkerGet,
              WorkerDelete, WorkerDequeue, WorkerDeliver, WorkerDelivered,
              WorkerInterrupted, WorkerComplete, WorkerReturn
<1>6. CancelStartCtx \/ AfterFuncStop \/ Terminated => Smaller /\ store' \subseteq store
  BY DEF CancelStartCtx, AfterFuncStop, Stop, StopEffects, Terminated, vars
<1>7. FinishNext => Smaller /\ store' \subseteq store
  BY DEF FinishNext, FinishWait, FinishStop, FinishReceive, FinishTake, FinishSlot,
         FinishComplete, FinishReturn, FinishClose, Stop, StopEffects
<1> QED
  BY <1>1, <1>2, <1>3, <1>4, <1>5, <1>6, <1>7 DEF Next

\* After stop has closed admission no Enqueue call stores or queues anything,
\* not even one that had reserved its token before (manager.go, "Admission and
\* mailbox closure share the lock").
THEOREM AdmissionStaysClosed == Spec => AdmissionCloses
<1>1. TypeOK /\ AdmissionInv /\ [Next]_vars
        => [stopped => Len(mailbox') <= Len(mailbox) /\ store' \subseteq store]_vars
  BY NextAdmissionCloses
<1> QED
  BY <1>1, TypeCorrect, AdmissionSafe, PTL DEF Spec, AdmissionCloses

(***************************************************************************)
(* Sequences without repetition                                            *)
(***************************************************************************)
Distinct(s) == \A i, j \in 1..Len(s) : s[i] = s[j] => i = j

LEMMA AppendDistinct ==
  ASSUME NEW S, NEW s \in Seq(S), NEW c \in S, c \notin Elements(s), Distinct(s)
  PROVE  Distinct(Append(s, c)) /\ Elements(Append(s, c)) = Elements(s) \union {c}
<1> DEFINE t == Append(s, c)
<1>1. /\ Len(s) \in Nat /\ Len(t) = Len(s) + 1 /\ t[Len(s) + 1] = c
      /\ \A i \in 1..Len(s) : t[i] = s[i]
  BY AppendProperties, LenProperties
<1>2. \A i \in 1..Len(t) : i \in 1..Len(s) \/ i = Len(s) + 1
  BY <1>1
<1>3. \A i \in 1..Len(s) : s[i] # c
  BY DEF Elements
<1>4. Distinct(t)
  BY <1>1, <1>2, <1>3 DEF Distinct
<1>5. 1..Len(t) = 1..Len(s) \union {Len(s) + 1}
  BY <1>1
<1>6. Elements(t) = Elements(s) \union {c}
  BY <1>1, <1>5, Zenon DEF Elements
<1> QED
  BY <1>4, <1>6

LEMMA TailDistinct ==
  ASSUME NEW S, NEW s \in Seq(S), s # << >>, Distinct(s)
  PROVE  /\ Head(s) \in Elements(s) /\ Head(s) \in S
         /\ Distinct(Tail(s)) /\ Elements(Tail(s)) = Elements(s) \ {Head(s)}
<1> DEFINE t == Tail(s)
<1>1. /\ Len(s) \in Nat /\ Len(s) > 0 /\ Head(s) = s[1] /\ Head(s) \in S
      /\ Len(t) = Len(s) - 1
      /\ \A i \in 1..Len(t) : t[i] = s[i + 1]
  BY HeadTailProperties, LenProperties, EmptySeq
<1>2. \A i \in 1..Len(t) : i + 1 \in 1..Len(s) /\ i + 1 # 1
  BY <1>1
<1>3. \A i \in 1..Len(s) : i = 1 \/ (i - 1 \in 1..Len(t) /\ s[i] = t[i - 1])
  BY <1>1
<1>4. 1 \in 1..Len(s)
  BY <1>1
<1>5. Distinct(t)
  BY <1>1, <1>2 DEF Distinct
<1>6. Elements(t) \subseteq Elements(s) \ {Head(s)}
  BY <1>1, <1>2, <1>4 DEF Distinct, Elements
<1>7. Elements(s) \ {Head(s)} \subseteq Elements(t)
  BY <1>1, <1>3 DEF Elements
<1> QED
  BY <1>1, <1>4, <1>5, <1>6, <1>7 DEF Elements

\* A repetition-free sequence over a finite set that lacks one of its elements
\* is shorter than the set is large.
LEMMA DistinctShort ==
  ASSUME NEW S, NEW s \in Seq(S), Distinct(s), NEW T, IsFiniteSet(T),
         Elements(s) \subseteq T, NEW c \in T, c \notin Elements(s)
  PROVE  Len(s) < Cardinality(T)
<1> DEFINE f == [i \in 1..Len(s) |-> s[i]]
<1>1. IsFiniteSet(T \ {c}) /\ Cardinality(T \ {c}) = Cardinality(T) - 1
        /\ Cardinality(T) \in Nat
  BY FS_RemoveElement, FS_CardinalityType
<1>2. f \in [1..Len(s) -> T \ {c}]
  BY DEF Elements
<1>3. f \in Injection(1..Len(s), T \ {c})
  BY <1>2, Fun_IsInj DEF Distinct
<1>4. Cardinality(1..Len(s)) <= Cardinality(T \ {c})
  BY <1>1, <1>3, FS_Injection
<1>5. Len(s) \in Nat /\ Cardinality(1..Len(s)) = Len(s)
  BY LenProperties, FS_Interval
<1> QED
  BY <1>1, <1>4, <1>5

-----------------------------------------------------------------------------
(***************************************************************************)
(* Ownership: where an admitted notification is.                           *)
(***************************************************************************)
Admitted   == {"unlock", "accepted"}
Idle       == {"unborn", "select", "exited"}
FinHolding == {"take", "slot", "complete", "callback"}

\* Handed to nobody's callback yet.
Pending ==
    Queued \union HeldBy({"get", "delete", "dequeue", "deliver", "sending", "complete"})
        \union (IF fin \in {"take", "slot", "complete"} THEN {finJob} ELSE {})

\* An admitted notification is in one place only: once in the mailbox, with one
\* worker or with finish, which starts only when the workers are gone.
OwnershipInv ==
    /\ Distinct(mailbox)
    /\ \A c \in Queued : enq[c] \in Admitted
    /\ \A w \in Workers : worker[w] \in Idle <=> job[w] = NoCall
    /\ \A w \in Workers : job[w] # NoCall => enq[job[w]] \in Admitted /\ job[w] \notin Queued
    /\ \A v, w \in Workers : job[v] = job[w] /\ job[v] # NoCall => v = w
    /\ fin \in FinHolding <=> finJob # NoCall
    /\ finJob # NoCall => enq[finJob] \in Admitted /\ finJob \notin Queued
    /\ fin \notin {"none", "wait"} => \A w \in Workers : worker[w] \in {"unborn", "exited"}
    /\ finishing => started \/ stopped
    /\ ~started => \A w \in Workers : worker[w] = "unborn"
    /\ fin = "exited" => mailbox = << >>

\* Each admitted notification has had its callback once it is past its owner's
\* call of it, and no other has.
CallbackInv ==
    \A c \in Calls :
        callbacks[c] = IF enq[c] \in Admitted /\ c \notin Pending THEN 1 ELSE 0

QueueInv == OwnershipInv /\ StoreMatchesQueue /\ CallbackInv /\ SlotAccounting

LEMMA InitOwnership == Init => OwnershipInv
<1> SUFFICES ASSUME Init PROVE OwnershipInv
  OBVIOUS
<1>1. Len(mailbox) = 0
  BY EmptySeq DEF Init
<1>2. Queued = {} /\ Distinct(mailbox)
  BY <1>1 DEF Queued, Elements, Distinct
<1> QED
  BY <1>2 DEF Init, OwnershipInv, Idle, FinHolding

\* Steps that move no notification.
LEMMA FrameOwnership ==
  ASSUME TypeOK, OwnershipInv,
         UNCHANGED <<mailbox, job, finJob>>,
         \A w \in Workers : worker'[w] \in Idle <=> worker[w] \in Idle,
         fin' \in FinHolding <=> fin \in FinHolding,
         \A c \in Calls : enq[c] \in Admitted => enq'[c] \in Admitted,
         fin' \notin {"none", "wait"} => \A w \in Workers : worker'[w] \in {"unborn", "exited"},
         finishing' => started' \/ stopped',
         ~started' => \A w \in Workers : worker'[w] = "unborn",
         fin' = "exited" => mailbox = << >>
  PROVE  OwnershipInv'
<1>1. Queued' = Queued /\ Queued \subseteq Calls
  BY DEF Queued, Elements, TypeOK
<1>2. Distinct(mailbox)'
  BY DEF OwnershipInv, Distinct
<1> QED
  BY <1>1, <1>2 DEF OwnershipInv, TypeOK

\* The oldest queued notification is in one place only.
LEMMA HeadFacts ==
  ASSUME TypeOK, OwnershipInv, mailbox # << >>, mailbox' = Tail(mailbox)
  PROVE  /\ Head(mailbox) \in Calls /\ Head(mailbox) # NoCall
         /\ Head(mailbox) \in Queued /\ enq[Head(mailbox)] \in Admitted
         /\ Queued' = Queued \ {Head(mailbox)}
         /\ Distinct(mailbox)'
         /\ \A w \in Workers : job[w] # Head(mailbox)
         /\ finJob # Head(mailbox)
<1>1. /\ Head(mailbox) \in Calls /\ Head(mailbox) \in Queued
      /\ Queued' = Queued \ {Head(mailbox)} /\ Distinct(mailbox)'
  BY TailDistinct DEF TypeOK, OwnershipInv, Queued
<1> QED
  BY <1>1, CallsAssumption DEF OwnershipInv

LEMMA EnqueueOwnership ==
  ASSUME TypeOK, AdmissionInv, OwnershipInv, NEW c \in Calls, EnqueueNext(c)
  PROVE  OwnershipInv'
<1> USE DEF EnqueueStep, flagVars, workerVars, finVars
<1>1. CASE ~EnqueueSend(c)
  <2>1. /\ UNCHANGED <<mailbox, worker, job, fin, finJob, started, stopped, finishing>>
        /\ \A d \in Calls : enq[d] \in Admitted => enq'[d] \in Admitted
    BY <1>1 DEF EnqueueNext, EnqueueCall, EnqueueReserve, EnqueueStopping,
            EnqueueCtxDone, EnqueueLock, EnqueueFree, EnqueuePut, EnqueueReturn,
            TypeOK, Admitted
  <2> QED
    BY <2>1, FrameOwnership DEF OwnershipInv
<1>2. CASE EnqueueSend(c)
  <2>1. /\ mailbox' = Append(mailbox, c) /\ enq[c] = "send"
        /\ enq' = [enq EXCEPT ![c] = "unlock"]
        /\ UNCHANGED <<worker, job, fin, finJob, started, stopped, finishing>>
        /\ ~stopped
    BY <1>2 DEF EnqueueSend, AdmissionInv
  <2>2. c \notin Queued /\ finJob # c /\ \A w \in Workers : job[w] # c
    BY <2>1, CallsAssumption DEF OwnershipInv, Admitted
  <2>3. Queued' = Queued \union {c} /\ Distinct(mailbox)' /\ Queued \subseteq Calls
    <3>1. mailbox \in Seq(Calls) /\ Distinct(mailbox) /\ c \notin Elements(mailbox)
      BY <2>2 DEF TypeOK, OwnershipInv, Queued
    <3>2. Distinct(mailbox') /\ Elements(mailbox') = Elements(mailbox) \union {c}
      BY <2>1, <3>1, AppendDistinct
    <3>3. Elements(mailbox) \subseteq Calls
      BY <3>1 DEF Elements
    <3> QED
      BY <3>1, <3>2, <3>3 DEF Queued, Distinct
  <2>4. fin # "exited"
    BY <2>1 DEF AdmissionInv, Draining
  <2>5. enq'[c] \in Admitted /\ \A d \in Calls : enq[d] \in Admitted => enq'[d] \in Admitted
    BY <2>1 DEF TypeOK, Admitted
  <2>6. \A d \in Queued' : enq'[d] \in Admitted
    BY <2>3, <2>5 DEF OwnershipInv
  <2>7. \A w \in Workers :
          job'[w] # NoCall => enq'[job'[w]] \in Admitted /\ job'[w] \notin Queued'
    BY <2>1, <2>2, <2>3, <2>5 DEF OwnershipInv, TypeOK
  <2>8. finJob' # NoCall => enq'[finJob'] \in Admitted /\ finJob' \notin Queued'
    BY <2>1, <2>2, <2>3, <2>5 DEF OwnershipInv, TypeOK
  <2> QED
    BY <2>1, <2>3, <2>4, <2>6, <2>7, <2>8 DEF OwnershipInv
<1> QED
  BY <1>1, <1>2

LEMMA StopOwnership ==
  ASSUME TypeOK, AdmissionInv, OwnershipInv, NEW drain, Stop(drain),
         UNCHANGED finJob,
         fin' = FinAfterStop \/ (fin = "stop" /\ fin' = "drain")
  PROVE  OwnershipInv'
<1>1. /\ UNCHANGED <<mailbox, worker, job, finJob, started, enq>> /\ stopped'
  BY DEF Stop, StopEffects, workerVars
<1>2. /\ fin' \in FinHolding <=> fin \in FinHolding
      /\ fin' \notin {"none", "wait"} => fin \notin {"none", "wait"}
      /\ fin' = "exited" => fin = "exited"
  BY DEF FinAfterStop, FinHolding, AdmissionInv
<1> QED
  BY <1>1, <1>2, FrameOwnership DEF OwnershipInv

LEMMA StartOwnership ==
  ASSUME TypeOK, AdmissionInv, OwnershipInv, NEW s \in Starts, StartNext(s)
  PROVE  OwnershipInv'
<1> USE DEF flagVars, workerVars, finVars
<1>1. CASE StartCall(s) \/ StartRefused(s)
  BY <1>1, FrameOwnership DEF StartCall, StartRefused, OwnershipInv
<1>2. CASE StartLaunch(s)
  <2>1. /\ UNCHANGED <<mailbox, job, finJob, stopped, enq>>
        /\ worker' = [w \in Workers |-> "select"] /\ fin' = "wait" /\ started'
        /\ ~started /\ ~stopped
    BY <1>2 DEF StartLaunch
  <2>2. fin = "none" /\ \A w \in Workers : worker[w] = "unborn"
    BY <2>1 DEF OwnershipInv, AdmissionInv
  <2> QED
    BY <2>1, <2>2, FrameOwnership DEF Idle, FinHolding
<1> QED
  BY <1>1, <1>2 DEF StartNext

LEMMA ShutdownOwnership ==
  ASSUME TypeOK, AdmissionInv, OwnershipInv, NEW s \in Shutdowns, ShutdownNext(s)
  PROVE  OwnershipInv'
<1>1. CASE ShutdownStop(s) \/ ShutdownAbort(s)
  BY <1>1, StopOwnership DEF ShutdownStop, ShutdownAbort, Stop, StopEffects
<1>2. CASE ShutdownDone(s) \/ ShutdownExpire(s)
  BY <1>2, FrameOwnership
  DEF ShutdownDone, ShutdownExpire, OwnershipInv, flagVars, workerVars, finVars
<1> QED
  BY <1>1, <1>2 DEF ShutdownNext

LEMMA WorkerOwnership ==
  ASSUME TypeOK, AdmissionInv, OwnershipInv, StoreMatchesQueue,
         NEW w \in Workers, WorkerNext(w)
  PROVE  OwnershipInv'
<1> USE DEF WorkerStep, flagVars, finVars
<1>0. fin \in {"none", "wait"} \/ (fin # "exited" => worker[w] \in {"unborn", "exited"})
  BY DEF OwnershipInv
<1>1. fin \in {"none", "wait"} /\ started
  <2>1. worker[w] \notin {"unborn", "exited"}
    BY DEF WorkerNext, WorkerCanceled, WorkerReceive, WorkerDrained, WorkerGet,
         WorkerDelete, WorkerDequeue, WorkerDeliver, WorkerDelivered,
         WorkerInterrupted, WorkerComplete, WorkerReturn
  <2> QED
    BY <2>1 DEF OwnershipInv
<1>2. CASE WorkerReceive(w)
  <2> DEFINE h == Head(mailbox)
  <2>1. /\ worker[w] = "select" /\ worker' = [worker EXCEPT ![w] = "get"]
        /\ mailbox # << >> /\ mailbox' = Tail(mailbox) /\ job' = [job EXCEPT ![w] = h]
        /\ UNCHANGED <<fin, finJob, enq, started, stopped, finishing>>
    BY <1>2 DEF WorkerReceive
  <2>2. /\ h \in Calls /\ h # NoCall /\ enq[h] \in Admitted /\ h \notin Queued'
        /\ Queued' \subseteq Queued /\ Distinct(mailbox)'
        /\ \A v \in Workers : job[v] # h
    BY <2>1, HeadFacts
  <2>3. \A v \in Workers : worker'[v] \in Idle <=> job'[v] = NoCall
    BY <2>1, <2>2 DEF OwnershipInv, TypeOK, Idle
  <2>4. \A v \in Workers : job'[v] # NoCall => enq'[job'[v]] \in Admitted /\ job'[v] \notin Queued'
    BY <2>1, <2>2 DEF OwnershipInv, TypeOK
  <2>5. \A u, v \in Workers : job'[u] = job'[v] /\ job'[u] # NoCall => u = v
    BY <2>1, <2>2 DEF OwnershipInv, TypeOK
  <2> QED
    BY <1>1, <2>1, <2>2, <2>3, <2>4, <2>5 DEF OwnershipInv
<1>3. CASE WorkerReturn(w)
  <2>1. /\ worker[w] = "callback" /\ worker' = [worker EXCEPT ![w] = "select"]
        /\ job' = [job EXCEPT ![w] = NoCall]
        /\ UNCHANGED <<mailbox, fin, finJob, enq, started, stopped, finishing>>
    BY <1>3 DEF WorkerReturn
  <2>2. Queued' = Queued /\ Distinct(mailbox)'
    BY <2>1 DEF Queued, Elements, OwnershipInv, Distinct
  <2>3. \A v \in Workers : worker'[v] \in Idle <=> job'[v] = NoCall
    BY <2>1 DEF OwnershipInv, TypeOK, Idle
  <2> QED
    BY <1>1, <2>1, <2>2, <2>3 DEF OwnershipInv, TypeOK
<1>4. CASE ~WorkerReceive(w) /\ ~WorkerReturn(w)
  <2>1. worker[w] = "get" => job[w] \in store
    BY DEF StoreMatchesQueue, HeldBy
  <2>2. /\ UNCHANGED <<mailbox, job, fin, finJob, enq, started, stopped, finishing>>
        /\ \A v \in Workers : worker'[v] \in Idle <=> worker[v] \in Idle
    BY <1>4, <2>1 DEF WorkerNext, WorkerCanceled, WorkerDrained, WorkerGet,
         WorkerDelete, WorkerDequeue, WorkerDeliver, WorkerDelivered,
         WorkerInterrupted, WorkerComplete, Idle, TypeOK
  <2> QED
    BY <1>1, <2>2, FrameOwnership DEF OwnershipInv
<1> QED
  BY <1>2, <1>3, <1>4

LEMMA FinishOwnership ==
  ASSUME TypeOK, AdmissionInv, OwnershipInv, StoreMatchesQueue, FinishNext
  PROVE  OwnershipInv'
<1> USE DEF FinishStep, flagVars, workerVars
<1>1. CASE FinishWait
  BY <1>1, FrameOwnership DEF FinishWait, FinHolding, OwnershipInv
<1>2. CASE FinishStop
  BY <1>2, StopOwnership DEF FinishStop, Stop, StopEffects
<1>3. CASE FinishReceive
  <2>1. /\ fin = "drain" /\ fin' = "take" /\ mailbox # << >> /\ mailbox' = Tail(mailbox)
        /\ finJob' = Head(mailbox)
        /\ UNCHANGED <<worker, job, enq, started, stopped, finishing>>
    BY <1>3 DEF FinishReceive
  <2> QED
    BY <2>1, HeadFacts DEF OwnershipInv, FinHolding
<1>4. CASE FinishTake \/ FinishSlot \/ FinishComplete
  <2>1. fin = "take" => finJob \in store
    BY DEF StoreMatchesQueue
  <2>2. fin \in FinHolding => finJob # NoCall
    BY DEF OwnershipInv
  <2>3. /\ fin \in FinHolding /\ fin' \in FinHolding
        /\ UNCHANGED <<mailbox, worker, job, finJob, enq, started, stopped, finishing>>
    BY <1>4, <2>1, <2>2 DEF FinishTake, FinishSlot, FinishComplete, FinHolding
  <2> QED
    BY <2>3, FrameOwnership DEF OwnershipInv, FinHolding
<1>5. CASE FinishReturn
  <2>1. /\ fin = "callback" /\ fin' = "drain" /\ finJob' = NoCall
        /\ UNCHANGED <<mailbox, worker, job, enq, started, stopped, finishing>>
    BY <1>5 DEF FinishReturn
  <2>2. Queued' = Queued /\ Distinct(mailbox)'
    BY <2>1 DEF Queued, Elements, OwnershipInv, Distinct
  <2> QED
    BY <2>1, <2>2 DEF OwnershipInv, FinHolding
<1>6. CASE FinishClose
  <2>1. fin = "drain" /\ fin' = "exited" /\ mailbox = << >>
        /\ UNCHANGED <<mailbox, worker, job, finJob, enq, started, stopped, finishing>>
    BY <1>6 DEF FinishClose
  <2> QED
    BY <2>1, FrameOwnership DEF OwnershipInv, FinHolding
<1> QED
  BY <1>1, <1>2, <1>3, <1>4, <1>5, <1>6 DEF FinishNext

LEMMA NextOwnership ==
  ASSUME TypeOK, AdmissionInv, OwnershipInv, StoreMatchesQueue, [Next]_vars
  PROVE  OwnershipInv'
<1>1. CASE CancelStartCtx
  BY <1>1, FrameOwnership
  DEF CancelStartCtx, OwnershipInv, flagVars, workerVars, finVars
<1>2. CASE AfterFuncStop
  BY <1>2, StopOwnership DEF AfterFuncStop, Stop, StopEffects
<1>3. CASE UNCHANGED vars
  BY <1>3, FrameOwnership DEF vars, OwnershipInv, flagVars, workerVars, finVars
<1> QED
  BY <1>1, <1>2, <1>3, EnqueueOwnership, StartOwnership, ShutdownOwnership,
     WorkerOwnership, FinishOwnership DEF Next, Terminated

-----------------------------------------------------------------------------
(***************************************************************************)
(* What the workers hold.                                                  *)
(***************************************************************************)
LEMMA HeldSame ==
  ASSUME NEW S, job' = job, \A w \in Workers : worker'[w] \in S <=> worker[w] \in S
  PROVE  HeldBy(S)' = HeldBy(S)
  BY DEF HeldBy

\* Worker w goes on to a state outside S and keeps its id.
LEMMA HeldLeaves ==
  ASSUME TypeOK, OwnershipInv, NEW S, NEW w \in Workers, NEW to, to \notin S,
         worker' = [worker EXCEPT ![w] = to], job' = job,
         worker[w] \in S, S \intersect Idle = {}
  PROVE  HeldBy(S)' = HeldBy(S) \ {job[w]}
<1>1. \A v \in Workers : worker'[v] \in S <=> worker[v] \in S /\ v # w
  BY DEF TypeOK
<1>2. \A v \in Workers : worker[v] \in S /\ v # w => job[v] # job[w]
  BY DEF OwnershipInv
<1> QED
  BY <1>1, <1>2 DEF HeldBy

\* Worker w, idle before, now holds h.
LEMMA HeldJoins ==
  ASSUME TypeOK, NEW S, NEW w \in Workers, NEW to \in S, NEW h,
         worker' = [worker EXCEPT ![w] = to], job' = [job EXCEPT ![w] = h],
         worker[w] \notin S
  PROVE  HeldBy(S)' = HeldBy(S) \union {h}
<1>1. \A v \in Workers : worker'[v] \in S <=> worker[v] \in S \/ v = w
  BY DEF TypeOK
<1>2. job'[w] = h /\ \A v \in Workers : v # w => job'[v] = job[v]
  BY DEF TypeOK
<1> QED
  BY <1>1, <1>2 DEF HeldBy

\* Worker w lets go of its id in a state outside S.
LEMMA HeldForgets ==
  ASSUME TypeOK, NEW S, NEW w \in Workers, NEW to, to \notin S, NEW h,
         worker' = [worker EXCEPT ![w] = to], job' = [job EXCEPT ![w] = h],
         worker[w] \notin S
  PROVE  HeldBy(S)' = HeldBy(S)
<1>1. \A v \in Workers : worker'[v] \in S <=> worker[v] \in S
  BY DEF TypeOK
<1>2. \A v \in Workers : worker[v] \in S => job'[v] = job[v]
  BY DEF TypeOK
<1> QED
  BY <1>1, <1>2 DEF HeldBy

LEMMA HeldIn == \A S : \A w \in Workers : worker[w] \in S => job[w] \in HeldBy(S)
  BY DEF HeldBy

\* finish drains when no worker holds anything.
LEMMA FinishAlone ==
  ASSUME OwnershipInv, fin \notin {"none", "wait"}, NEW S, S \intersect Idle = {}
  PROVE  HeldBy(S) = {}
  BY DEF OwnershipInv, HeldBy, Idle

-----------------------------------------------------------------------------
(***************************************************************************)
(* The store.                                                              *)
(***************************************************************************)
LEMMA InitStore == Init => StoreMatchesQueue
<1> SUFFICES ASSUME Init PROVE StoreMatchesQueue
  OBVIOUS
<1>1. Queued = {}
  BY EmptySeq DEF Init, Queued, Elements
<1> QED
  BY <1>1 DEF Init, StoreMatchesQueue, HeldBy

LEMMA StoreFrame ==
  ASSUME StoreMatchesQueue, UNCHANGED <<mailbox, job, finJob, store>>,
         \A w \in Workers : worker'[w] \in {"get", "delete"} <=> worker[w] \in {"get", "delete"},
         fin' = "take" <=> fin = "take",
         \A c \in Calls : enq'[c] = "send" <=> enq[c] = "send"
  PROVE  StoreMatchesQueue'
<1>1. HeldBy({"get", "delete"})' = HeldBy({"get", "delete"})
  BY HeldSame
<1>2. Queued' = Queued
  BY DEF Queued, Elements
<1>3. {c \in Calls : enq[c] = "send"}' = {c \in Calls : enq[c] = "send"}
  OBVIOUS
<1> QED
  BY <1>1, <1>2, <1>3 DEF StoreMatchesQueue

LEMMA EnqueueStore ==
  ASSUME TypeOK, AdmissionInv, OwnershipInv, StoreMatchesQueue,
         NEW c \in Calls, EnqueueNext(c)
  PROVE  StoreMatchesQueue'
<1> USE DEF EnqueueStep, flagVars, workerVars, finVars
<1>0. UNCHANGED <<worker, job, fin, finJob>>
  BY DEF EnqueueNext, EnqueueCall, EnqueueReserve, EnqueueStopping, EnqueueCtxDone,
         EnqueueLock, EnqueueFree, EnqueuePut, EnqueueSend, EnqueueReturn
<1>1. CASE ~EnqueuePut(c) /\ ~EnqueueSend(c)
  <2>1. UNCHANGED <<mailbox, store>> /\ \A d \in Calls : enq'[d] = "send" <=> enq[d] = "send"
    BY <1>1 DEF EnqueueNext, EnqueueCall, EnqueueReserve, EnqueueStopping,
                EnqueueCtxDone, EnqueueLock, EnqueueFree, EnqueueReturn, TypeOK
  <2> QED
    BY <1>0, <2>1, StoreFrame
<1>2. HeldBy({"get", "delete"})' = HeldBy({"get", "delete"})
  BY <1>0, HeldSame
<1>3. CASE EnqueuePut(c)
  <2>1. Queued' = Queued /\ store' = store \union {c}
    BY <1>3 DEF EnqueuePut, Queued, Elements
  <2>2. {d \in Calls : enq'[d] = "send"} = {d \in Calls : enq[d] = "send"} \union {c}
    BY <1>3 DEF EnqueuePut, TypeOK
  <2> QED
    BY <1>0, <1>2, <2>1, <2>2 DEF StoreMatchesQueue
<1>4. CASE EnqueueSend(c)
  <2>1. ~mailboxClosed /\ enq[c] = "send" /\ store' = store
    BY <1>4 DEF EnqueueSend, AdmissionInv
  <2>2. Queued' = Queued \union {c}
    <3>1. mailbox \in Seq(Calls) /\ Distinct(mailbox) /\ c \notin Elements(mailbox)
      BY <2>1 DEF TypeOK, OwnershipInv, Queued, Admitted
    <3>2. mailbox' = Append(mailbox, c)
      BY <1>4, <2>1 DEF EnqueueSend
    <3> QED
      BY <3>1, <3>2, AppendDistinct DEF Queued
  <2>3. {d \in Calls : enq'[d] = "send"} = {d \in Calls : enq[d] = "send"} \ {c}
    BY <1>4 DEF EnqueueSend, TypeOK
  <2> QED
    BY <1>0, <1>2, <2>1, <2>2, <2>3 DEF StoreMatchesQueue
<1> QED
  BY <1>1, <1>3, <1>4

LEMMA WorkerStore ==
  ASSUME TypeOK, AdmissionInv, OwnershipInv, StoreMatchesQueue,
         NEW w \in Workers, WorkerNext(w)
  PROVE  StoreMatchesQueue'
<1> USE DEF WorkerStep, finVars
<1>1. UNCHANGED <<enq, fin, finJob>>
  BY DEF WorkerNext, WorkerCanceled, WorkerReceive, WorkerDrained, WorkerGet,
         WorkerDelete, WorkerDequeue, WorkerDeliver, WorkerDelivered,
         WorkerInterrupted, WorkerComplete, WorkerReturn
<1>2. CASE WorkerReceive(w)
  <2>1. /\ worker[w] = "select" /\ worker' = [worker EXCEPT ![w] = "get"]
        /\ mailbox # << >> /\ mailbox' = Tail(mailbox)
        /\ job' = [job EXCEPT ![w] = Head(mailbox)] /\ store' = store
    BY <1>2 DEF WorkerReceive
  <2>2. HeldBy({"get", "delete"})' = HeldBy({"get", "delete"}) \union {Head(mailbox)}
    BY <2>1, HeldJoins
  <2>3. Queued' = Queued \ {Head(mailbox)} /\ Head(mailbox) \in Queued
    BY <2>1, HeadFacts
  <2> QED
    BY <1>1, <2>1, <2>2, <2>3 DEF StoreMatchesQueue
<1>3. CASE WorkerDelete(w)
  <2>1. /\ worker[w] = "delete" /\ worker' = [worker EXCEPT ![w] = "dequeue"]
        /\ UNCHANGED <<mailbox, job>> /\ store' = store \ {job[w]}
    BY <1>3 DEF WorkerDelete
  <2>2. HeldBy({"get", "delete"})' = HeldBy({"get", "delete"}) \ {job[w]}
    BY <2>1, HeldLeaves DEF Idle
  <2>3. Queued' = Queued /\ job[w] \notin Queued /\ enq[job[w]] # "send"
    BY <2>1 DEF Queued, Elements, OwnershipInv, Idle, Admitted
  <2>4. fin # "take"
    BY <2>1 DEF OwnershipInv
  <2> QED
    BY <1>1, <2>1, <2>2, <2>3, <2>4 DEF StoreMatchesQueue
<1>4. CASE ~WorkerReceive(w) /\ ~WorkerDelete(w) /\ ~WorkerReturn(w)
  <2>1. worker[w] = "get" => job[w] \in store
    BY HeldIn DEF StoreMatchesQueue
  <2>2. /\ UNCHANGED <<mailbox, job, store>>
        /\ \A v \in Workers : worker'[v] \in {"get", "delete"} <=> worker[v] \in {"get", "delete"}
    BY <1>4, <2>1 DEF WorkerNext, WorkerCanceled, WorkerDrained, WorkerGet,
         WorkerDequeue, WorkerDeliver, WorkerDelivered,
         WorkerInterrupted, WorkerComplete, TypeOK
  <2> QED
    BY <1>1, <2>2, StoreFrame
<1>5. CASE WorkerReturn(w)
  <2>1. HeldBy({"get", "delete"})' = HeldBy({"get", "delete"})
    BY <1>5, HeldForgets DEF WorkerReturn
  <2>2. Queued' = Queued /\ store' = store
    BY <1>5 DEF WorkerReturn, Queued, Elements
  <2> QED
    BY <1>1, <2>1, <2>2 DEF StoreMatchesQueue
<1> QED
  BY <1>2, <1>3, <1>4, <1>5

LEMMA FinishStore ==
  ASSUME TypeOK, AdmissionInv, OwnershipInv, StoreMatchesQueue, FinishNext
  PROVE  StoreMatchesQueue'
<1> USE DEF FinishStep, flagVars, workerVars
<1>1. UNCHANGED <<enq, worker, job>>
  BY DEF FinishNext, FinishWait, FinishStop, FinishReceive, FinishTake, FinishSlot,
         FinishComplete, FinishReturn, FinishClose, Stop, StopEffects
<1>2. CASE FinishReceive
  <2>1. /\ fin = "drain" /\ fin' = "take" /\ mailbox # << >> /\ mailbox' = Tail(mailbox)
        /\ finJob' = Head(mailbox) /\ store' = store
    BY <1>2 DEF FinishReceive
  <2>2. Queued' = Queued \ {Head(mailbox)} /\ Head(mailbox) \in Queued
    BY <2>1, HeadFacts
  <2>3. HeldBy({"get", "delete"})' = HeldBy({"get", "delete"})
    BY <1>1, HeldSame
  <2> QED
    BY <1>1, <2>1, <2>2, <2>3 DEF StoreMatchesQueue
<1>3. CASE FinishTake
  <2>1. /\ fin = "take" /\ fin' = "slot" /\ UNCHANGED mailbox /\ store' = store \ {finJob}
    BY <1>3 DEF FinishTake
  <2>2. Queued' = Queued /\ finJob \notin Queued /\ enq[finJob] # "send"
    BY <2>1 DEF Queued, Elements, OwnershipInv, FinHolding, Admitted
  <2>3. HeldBy({"get", "delete"}) = {} /\ HeldBy({"get", "delete"})' = {}
    BY <1>1, <2>1, HeldSame, FinishAlone DEF Idle
  <2> QED
    BY <1>1, <2>1, <2>2, <2>3 DEF StoreMatchesQueue
<1>4. CASE FinishReturn
  <2>1. HeldBy({"get", "delete"})' = HeldBy({"get", "delete"})
    BY <1>1, HeldSame
  <2> QED
    BY <1>1, <1>4, <2>1 DEF FinishReturn, StoreMatchesQueue, Queued, Elements
<1>5. CASE FinishWait \/ FinishStop \/ FinishSlot \/ FinishComplete \/ FinishClose
  <2>1. UNCHANGED <<mailbox, finJob, store>> /\ (fin' = "take" <=> fin = "take")
    BY <1>5 DEF FinishWait, FinishStop, FinishSlot, FinishComplete, FinishClose,
                Stop, StopEffects
  <2> QED
    BY <1>1, <2>1, StoreFrame
<1> QED
  BY <1>2, <1>3, <1>4, <1>5 DEF FinishNext

\* Steps of Start, of Shutdown and of the contexts.
LifecycleNext ==
    \/ \E s \in Starts : StartNext(s)
    \/ \E s \in Shutdowns : ShutdownNext(s)
    \/ CancelStartCtx \/ AfterFuncStop

\* They touch no notification and no token; at most they begin the workers.
LEMMA LifecycleFrame ==
  ASSUME TypeOK, AdmissionInv, OwnershipInv, LifecycleNext
  PROVE  /\ UNCHANGED <<enq, mailbox, job, finJob, store, slots, callbacks>>
         /\ \A w \in Workers : worker'[w] = worker[w] \/ {worker[w], worker'[w]} \subseteq Idle
         /\ fin' = fin \/ {fin, fin'} \subseteq {"none", "wait"}
<1> USE DEF flagVars, workerVars, finVars, logVars
<1>1. ASSUME NEW s \in Starts, StartCall(s) \/ StartRefused(s)
      PROVE  UNCHANGED <<enq, mailbox, job, finJob, store, slots, callbacks, worker, fin>>
  BY <1>1 DEF StartCall, StartRefused
<1>2. ASSUME NEW s \in Starts, StartLaunch(s)
      PROVE  /\ UNCHANGED <<enq, mailbox, job, finJob, store, slots, callbacks>>
             /\ \A w \in Workers : {worker[w], worker'[w]} \subseteq Idle
             /\ {fin, fin'} \subseteq {"none", "wait"}
  BY <1>2 DEF StartLaunch, OwnershipInv, AdmissionInv, Idle
<1>3. ASSUME NEW drain, Stop(drain), UNCHANGED finJob, fin' = FinAfterStop
      PROVE  /\ UNCHANGED <<enq, mailbox, job, finJob, store, slots, callbacks, worker>>
             /\ fin' = fin \/ {fin, fin'} \subseteq {"none", "wait"}
  BY <1>3 DEF Stop, StopEffects, FinAfterStop, AdmissionInv
<1>4. ASSUME NEW s \in Shutdowns, ShutdownStop(s) \/ ShutdownAbort(s)
      PROVE  /\ UNCHANGED <<enq, mailbox, job, finJob, store, slots, callbacks, worker>>
             /\ fin' = fin \/ {fin, fin'} \subseteq {"none", "wait"}
  BY <1>3, <1>4 DEF ShutdownStop, ShutdownAbort, Stop, StopEffects
<1>5. ASSUME NEW s \in Shutdowns, ShutdownDone(s) \/ ShutdownExpire(s)
      PROVE  UNCHANGED <<enq, mailbox, job, finJob, store, slots, callbacks, worker, fin>>
  BY <1>5 DEF ShutdownDone, ShutdownExpire
<1>6. CancelStartCtx
        => UNCHANGED <<enq, mailbox, job, finJob, store, slots, callbacks, worker, fin>>
  BY DEF CancelStartCtx
<1>7. AfterFuncStop
        => /\ UNCHANGED <<enq, mailbox, job, finJob, store, slots, callbacks, worker>>
           /\ fin' = fin \/ {fin, fin'} \subseteq {"none", "wait"}
  BY <1>3 DEF AfterFuncStop, Stop, StopEffects
<1> QED
  BY <1>1, <1>2, <1>4, <1>5, <1>6, <1>7 DEF LifecycleNext, StartNext, ShutdownNext

LEMMA NextCases ==
  [Next]_vars =>
    \/ \E c \in Calls : EnqueueNext(c)
    \/ LifecycleNext
    \/ \E w \in Workers : WorkerNext(w)
    \/ FinishNext
    \/ UNCHANGED vars
  BY DEF Next, LifecycleNext, Terminated

LEMMA NextStore ==
  ASSUME TypeOK, AdmissionInv, OwnershipInv, StoreMatchesQueue, [Next]_vars
  PROVE  StoreMatchesQueue'
<1>1. CASE LifecycleNext
  BY <1>1, LifecycleFrame, StoreFrame DEF Idle
<1>2. CASE UNCHANGED vars
  BY <1>2, StoreFrame DEF vars, workerVars, finVars
<1> QED
  BY <1>1, <1>2, NextCases, EnqueueStore, WorkerStore, FinishStore

-----------------------------------------------------------------------------
(***************************************************************************)
(* The tokens of m.slots.                                                  *)
(***************************************************************************)
Reserved == {c \in Calls : enq[c] \in Admitting}
OnTheWay == HeldBy({"get", "delete", "dequeue"})

LEMMA HoldersFinite ==
  ASSUME TypeOK, OwnershipInv
  PROVE  Holders \subseteq Calls /\ IsFiniteSet(Holders) /\ Cardinality(Holders) \in Nat
<1>1. Queued \subseteq Calls
  BY DEF TypeOK, Queued, Elements
<1>2. OnTheWay \subseteq Calls
  BY DEF TypeOK, OwnershipInv, OnTheWay, HeldBy, Idle
<1>3. fin \in {"take", "slot"} => finJob \in Calls
  BY DEF TypeOK, OwnershipInv, FinHolding
<1>4. Holders \subseteq Calls
  BY <1>1, <1>2, <1>3 DEF Holders, OnTheWay
<1> QED
  BY <1>4, CallsAssumption, FS_Subset, FS_CardinalityType

LEMMA InitSlots == Init => SlotAccounting
<1> SUFFICES ASSUME Init PROVE SlotAccounting
  OBVIOUS
<1>1. Queued = {}
  BY EmptySeq DEF Init, Queued, Elements
<1>2. Holders = {}
  BY <1>1 DEF Init, Holders, HeldBy, Admitting
<1> QED
  BY <1>2, FS_EmptySet DEF Init, SlotAccounting

\* A call that has not been admitted yet is nowhere else.
LEMMA NotAdmittedYet ==
  ASSUME OwnershipInv, NEW c \in Calls, enq[c] \notin Admitted
  PROVE  /\ c \notin Queued /\ finJob # c
         /\ \A S : c \notin HeldBy(S)
  BY CallsAssumption DEF OwnershipInv, HeldBy

LEMMA EnqueueSlots ==
  ASSUME TypeOK, AdmissionInv, OwnershipInv, SlotAccounting,
         NEW c \in Calls, EnqueueNext(c)
  PROVE  SlotAccounting'
<1> USE DEF EnqueueStep, flagVars, workerVars, finVars
<1>0. UNCHANGED <<worker, job, fin, finJob>> /\ OnTheWay' = OnTheWay
  <2>1. UNCHANGED <<worker, job, fin, finJob>>
    BY DEF EnqueueNext, EnqueueCall, EnqueueReserve, EnqueueStopping, EnqueueCtxDone,
           EnqueueLock, EnqueueFree, EnqueuePut, EnqueueSend, EnqueueReturn
  <2> QED
    BY <2>1, HeldSame DEF OnTheWay
<1>1. CASE EnqueueReserve(c)
  <2>1. slots' = slots + 1 /\ Queued' = Queued /\ enq[c] = "reserve"
    BY <1>1 DEF EnqueueReserve, Queued, Elements
  <2>2. Reserved' = Reserved \union {c} /\ c \notin Reserved
    BY <1>1 DEF EnqueueReserve, Reserved, TypeOK, Admitting
  <2>3. c \notin Holders
    BY <2>1, <2>2, NotAdmittedYet DEF Holders, Reserved, Admitted
  <2>4. Holders' = Holders \union {c}
    BY <1>0, <2>1, <2>2 DEF Holders, Reserved, OnTheWay
  <2> QED
    BY <2>1, <2>3, <2>4, HoldersFinite, FS_AddElement DEF SlotAccounting
<1>2. CASE EnqueueFree(c)
  <2>1. /\ slots' = slots - 1 /\ Queued' = Queued
        /\ enq[c] \in {"freeStopped", "freeCanceled"}
    BY <1>2 DEF EnqueueFree, Queued, Elements
  <2>2. Reserved' = Reserved \ {c} /\ c \in Reserved
    BY <1>2 DEF EnqueueFree, Reserved, TypeOK, Admitting
  <2>3. Holders' = Holders \ {c} /\ c \in Holders
    BY <1>0, <2>1, <2>2, NotAdmittedYet DEF Holders, Reserved, OnTheWay, Admitted
  <2> QED
    BY <2>1, <2>3, HoldersFinite, FS_RemoveElement DEF SlotAccounting
<1>3. CASE EnqueueSend(c)
  <2>1. /\ ~mailboxClosed /\ enq[c] = "send" /\ slots' = slots
        /\ enq' = [enq EXCEPT ![c] = "unlock"]
    BY <1>3 DEF EnqueueSend, AdmissionInv
  <2>2. Queued' = Queued \union {c}
    <3>1. mailbox \in Seq(Calls) /\ Distinct(mailbox) /\ c \notin Elements(mailbox)
      BY <2>1 DEF TypeOK, OwnershipInv, Queued, Admitted
    <3>2. mailbox' = Append(mailbox, c)
      BY <1>3, <2>1 DEF EnqueueSend
    <3> QED
      BY <3>1, <3>2, AppendDistinct DEF Queued
  <2>3. Reserved' = Reserved \ {c} /\ c \in Reserved
    BY <2>1 DEF Reserved, TypeOK, Admitting
  <2>4. Holders' = Holders
    BY <1>0, <2>2, <2>3 DEF Holders, Reserved, OnTheWay
  <2> QED
    BY <2>1, <2>4 DEF SlotAccounting
<1>4. CASE ~EnqueueReserve(c) /\ ~EnqueueFree(c) /\ ~EnqueueSend(c)
  <2>1. UNCHANGED <<mailbox, slots>>
    BY <1>4 DEF EnqueueNext, EnqueueCall, EnqueueStopping,
                EnqueueCtxDone, EnqueueLock, EnqueuePut, EnqueueReturn
  <2>2. \A d \in Calls : enq'[d] \in Admitting <=> enq[d] \in Admitting
    BY <1>4 DEF EnqueueNext, EnqueueCall, EnqueueStopping,
                EnqueueCtxDone, EnqueueLock, EnqueuePut, EnqueueReturn, TypeOK, Admitting
  <2>3. Reserved' = Reserved /\ Queued' = Queued
    BY <2>1, <2>2 DEF Reserved, Queued, Elements
  <2>4. Holders' = Holders
    BY <1>0, <2>3 DEF Holders, Reserved, OnTheWay
  <2> QED
    BY <2>1, <2>4 DEF SlotAccounting
<1> QED
  BY <1>1, <1>2, <1>3, <1>4

LEMMA WorkerSlots ==
  ASSUME TypeOK, AdmissionInv, OwnershipInv, StoreMatchesQueue, SlotAccounting,
         NEW w \in Workers, WorkerNext(w)
  PROVE  SlotAccounting'
<1> USE DEF WorkerStep, finVars
<1>1. UNCHANGED <<enq, fin, finJob>> /\ Reserved' = Reserved
  BY DEF WorkerNext, WorkerCanceled, WorkerReceive, WorkerDrained, WorkerGet,
         WorkerDelete, WorkerDequeue, WorkerDeliver, WorkerDelivered,
         WorkerInterrupted, WorkerComplete, WorkerReturn, Reserved
<1>2. CASE WorkerReceive(w)
  <2>1. /\ worker[w] = "select" /\ worker' = [worker EXCEPT ![w] = "get"]
        /\ mailbox # << >> /\ mailbox' = Tail(mailbox)
        /\ job' = [job EXCEPT ![w] = Head(mailbox)] /\ slots' = slots
    BY <1>2 DEF WorkerReceive
  <2>2. OnTheWay' = OnTheWay \union {Head(mailbox)}
    BY <2>1, HeldJoins DEF OnTheWay
  <2>3. Queued' = Queued \ {Head(mailbox)} /\ Head(mailbox) \in Queued
    BY <2>1, HeadFacts
  <2>4. Holders' = Holders
    BY <1>1, <2>2, <2>3 DEF Holders, Reserved, OnTheWay
  <2> QED
    BY <2>1, <2>4 DEF SlotAccounting
<1>3. CASE WorkerDequeue(w)
  <2>1. /\ worker[w] = "dequeue" /\ worker' = [worker EXCEPT ![w] = "deliver"]
        /\ UNCHANGED <<mailbox, job>> /\ slots' = slots - 1
    BY <1>3 DEF WorkerDequeue
  <2>2. OnTheWay' = OnTheWay \ {job[w]} /\ job[w] \in OnTheWay
    BY <2>1, HeldLeaves, HeldIn DEF OnTheWay, Idle
  <2>3. Queued' = Queued /\ job[w] \notin Queued /\ enq[job[w]] \notin Admitting
    BY <2>1 DEF Queued, Elements, OwnershipInv, Idle, Admitted, Admitting
  <2>4. fin \notin {"take", "slot"}
    BY <2>1 DEF OwnershipInv
  <2>5. Holders' = Holders \ {job[w]} /\ job[w] \in Holders
    BY <1>1, <2>2, <2>3, <2>4 DEF Holders, Reserved, OnTheWay
  <2> QED
    BY <2>1, <2>5, HoldersFinite, FS_RemoveElement DEF SlotAccounting
<1>4. CASE ~WorkerReceive(w) /\ ~WorkerDequeue(w)
  <2>1. OnTheWay' = OnTheWay
    <3>1. worker[w] = "get" => job[w] \in store
      BY HeldIn DEF StoreMatchesQueue
    <3>2. CASE WorkerReturn(w)
      BY <3>2, HeldForgets DEF WorkerReturn, OnTheWay
    <3>3. CASE ~WorkerReturn(w)
      <4>1. /\ job' = job
            /\ \A v \in Workers : worker'[v] \in {"get", "delete", "dequeue"}
                                    <=> worker[v] \in {"get", "delete", "dequeue"}
        BY <1>4, <3>1, <3>3
        DEF WorkerNext, WorkerCanceled, WorkerDrained, WorkerGet,
            WorkerDelete, WorkerDeliver, WorkerDelivered,
            WorkerInterrupted, WorkerComplete, TypeOK
      <4> QED
        BY <4>1, HeldSame DEF OnTheWay
    <3> QED
      BY <3>2, <3>3
  <2>2. UNCHANGED <<mailbox, slots>>
    BY <1>4 DEF WorkerNext, WorkerCanceled, WorkerDrained, WorkerGet,
            WorkerDelete, WorkerDeliver, WorkerDelivered,
            WorkerInterrupted, WorkerComplete, WorkerReturn
  <2>3. Holders' = Holders
    BY <1>1, <2>1, <2>2 DEF Holders, Reserved, OnTheWay, Queued, Elements
  <2> QED
    BY <2>2, <2>3 DEF SlotAccounting
<1> QED
  BY <1>2, <1>3, <1>4

LEMMA FinishSlots ==
  ASSUME TypeOK, AdmissionInv, OwnershipInv, StoreMatchesQueue, SlotAccounting, FinishNext
  PROVE  SlotAccounting'
<1> USE DEF FinishStep, flagVars, workerVars
<1>1. UNCHANGED <<enq, worker, job>> /\ Reserved' = Reserved /\ OnTheWay' = OnTheWay
  <2>1. UNCHANGED <<enq, worker, job>>
    BY DEF FinishNext, FinishWait, FinishStop, FinishReceive, FinishTake, FinishSlot,
           FinishComplete, FinishReturn, FinishClose, Stop, StopEffects
  <2> QED
    BY <2>1, HeldSame DEF Reserved, OnTheWay
<1>2. CASE FinishReceive
  <2>1. /\ fin = "drain" /\ fin' = "take" /\ mailbox # << >> /\ mailbox' = Tail(mailbox)
        /\ finJob' = Head(mailbox) /\ slots' = slots
    BY <1>2 DEF FinishReceive
  <2>2. Queued' = Queued \ {Head(mailbox)} /\ Head(mailbox) \in Queued
    BY <2>1, HeadFacts
  <2>3. Holders' = Holders
    BY <1>1, <2>1, <2>2 DEF Holders, Reserved, OnTheWay
  <2> QED
    BY <2>1, <2>3 DEF SlotAccounting
<1>3. CASE FinishSlot
  <2>1. /\ fin = "slot" /\ fin' \notin {"take", "slot"} /\ UNCHANGED <<mailbox, finJob>>
        /\ slots' = slots - 1
    BY <1>3 DEF FinishSlot
  <2>2. /\ Queued' = Queued /\ finJob \notin Queued /\ enq[finJob] \notin Admitting
    BY <2>1 DEF Queued, Elements, OwnershipInv, FinHolding, Admitted, Admitting
  <2>3. OnTheWay = {}
    BY <2>1, FinishAlone DEF OnTheWay, Idle
  <2>4. Holders' = Holders \ {finJob} /\ finJob \in Holders
    BY <1>1, <2>1, <2>2, <2>3 DEF Holders, Reserved, OnTheWay
  <2> QED
    BY <2>1, <2>4, HoldersFinite, FS_RemoveElement DEF SlotAccounting
<1>4. CASE ~FinishReceive /\ ~FinishSlot
  <2>1. fin = "take" => finJob \in store
    BY DEF StoreMatchesQueue
  <2>2. /\ UNCHANGED <<mailbox, slots>>
        /\ fin \in {"take", "slot"} => finJob' = finJob
        /\ fin' \in {"take", "slot"} <=> fin \in {"take", "slot"}
    BY <1>4, <2>1 DEF FinishNext, FinishWait, FinishStop, FinishTake,
                FinishComplete, FinishReturn, FinishClose, Stop, StopEffects
  <2>3. Holders' = Holders
    BY <1>1, <2>2 DEF Holders, Reserved, OnTheWay, Queued, Elements
  <2> QED
    BY <2>2, <2>3 DEF SlotAccounting
<1> QED
  BY <1>2, <1>3, <1>4

LEMMA SlotFrame ==
  ASSUME SlotAccounting, UNCHANGED <<enq, mailbox, job, finJob, slots>>,
         \A w \in Workers : worker'[w] = worker[w] \/ {worker[w], worker'[w]} \subseteq Idle,
         fin' = fin \/ {fin, fin'} \subseteq {"none", "wait"}
  PROVE  SlotAccounting'
<1>1. OnTheWay' = OnTheWay
  BY HeldSame DEF OnTheWay, Idle
<1>2. Holders' = Holders
  BY <1>1 DEF Holders, OnTheWay, Queued, Elements
<1> QED
  BY <1>2 DEF SlotAccounting

LEMMA NextSlots ==
  ASSUME TypeOK, AdmissionInv, OwnershipInv, StoreMatchesQueue, SlotAccounting, [Next]_vars
  PROVE  SlotAccounting'
<1>1. CASE LifecycleNext
  BY <1>1, LifecycleFrame, SlotFrame
<1>2. CASE UNCHANGED vars
  BY <1>2, SlotFrame DEF vars, workerVars, finVars
<1> QED
  BY <1>1, <1>2, NextCases, EnqueueSlots, WorkerSlots, FinishSlots

-----------------------------------------------------------------------------
(***************************************************************************)
(* The completion callbacks.                                               *)
(***************************************************************************)
Undelivered == {"get", "delete", "dequeue", "deliver", "sending", "complete"}

LEMMA InitCallbacks == Init => CallbackInv
  BY DEF Init, CallbackInv, Admitted

LEMMA CallbackFrame ==
  ASSUME TypeOK, CallbackInv, UNCHANGED callbacks, Pending' = Pending,
         \A c \in Calls : enq'[c] \in Admitted <=> enq[c] \in Admitted
  PROVE  CallbackInv'
  BY DEF CallbackInv

\* The callback of a pending id.
LEMMA CallbackOnce ==
  ASSUME TypeOK, CallbackInv, NEW h \in Pending, h \in Calls, enq[h] \in Admitted,
         NEW err, Callback(h, err), enq' = enq, Pending' = Pending \ {h}
  PROVE  CallbackInv'
<1>1. callbacks[h] = 0
  BY DEF CallbackInv
<1>2. callbacks' = [callbacks EXCEPT ![h] = 1]
  BY <1>1 DEF Callback
<1>3. \A c \in Calls : callbacks'[c] = IF c = h THEN 1 ELSE callbacks[c]
  BY <1>2 DEF TypeOK
<1> QED
  BY <1>3 DEF CallbackInv

LEMMA EnqueueCallbacks ==
  ASSUME TypeOK, AdmissionInv, OwnershipInv, CallbackInv,
         NEW c \in Calls, EnqueueNext(c)
  PROVE  CallbackInv'
<1> USE DEF EnqueueStep, workerVars, finVars, logVars
<1>0. UNCHANGED <<worker, job, fin, finJob, callbacks>>
  BY DEF EnqueueNext, EnqueueCall, EnqueueReserve, EnqueueStopping, EnqueueCtxDone,
         EnqueueLock, EnqueueFree, EnqueuePut, EnqueueSend, EnqueueReturn
<1>1. HeldBy(Undelivered)' = HeldBy(Undelivered)
  BY <1>0, HeldSame
<1>2. CASE EnqueueSend(c)
  <2>1. ~mailboxClosed /\ enq[c] = "send" /\ enq' = [enq EXCEPT ![c] = "unlock"]
    BY <1>2 DEF EnqueueSend, AdmissionInv
  <2>2. Queued' = Queued \union {c}
    <3>1. mailbox \in Seq(Calls) /\ Distinct(mailbox) /\ c \notin Elements(mailbox)
      BY <2>1 DEF TypeOK, OwnershipInv, Queued, Admitted
    <3>2. mailbox' = Append(mailbox, c)
      BY <1>2, <2>1 DEF EnqueueSend
    <3> QED
      BY <3>1, <3>2, AppendDistinct DEF Queued
  <2>3. Pending' = Pending \union {c}
    BY <1>0, <1>1, <2>2 DEF Pending, Undelivered
  <2>4. callbacks[c] = 0
    BY <2>1 DEF CallbackInv, Admitted
  <2>5. \A d \in Calls : d # c => enq'[d] = enq[d]
    BY <2>1 DEF TypeOK
  <2> QED
    BY <1>0, <2>3, <2>4, <2>5 DEF CallbackInv
<1>3. CASE ~EnqueueSend(c)
  <2>1. /\ UNCHANGED mailbox
        /\ \A d \in Calls : enq'[d] \in Admitted <=> enq[d] \in Admitted
    BY <1>3 DEF EnqueueNext, EnqueueCall, EnqueueReserve, EnqueueStopping,
            EnqueueCtxDone, EnqueueLock, EnqueueFree, EnqueuePut, EnqueueReturn,
            TypeOK, Admitted
  <2>2. Pending' = Pending
    BY <1>0, <1>1, <2>1 DEF Pending, Undelivered, Queued, Elements
  <2> QED
    BY <1>0, <2>1, <2>2, CallbackFrame
<1> QED
  BY <1>2, <1>3

LEMMA WorkerCallbacks ==
  ASSUME TypeOK, AdmissionInv, OwnershipInv, StoreMatchesQueue, CallbackInv,
         NEW w \in Workers, WorkerNext(w)
  PROVE  CallbackInv'
<1> USE DEF WorkerStep, finVars, logVars
<1>1. UNCHANGED <<enq, fin, finJob>>
  BY DEF WorkerNext, WorkerCanceled, WorkerReceive, WorkerDrained, WorkerGet,
         WorkerDelete, WorkerDequeue, WorkerDeliver, WorkerDelivered,
         WorkerInterrupted, WorkerComplete, WorkerReturn
<1>2. CASE WorkerReceive(w)
  <2>1. /\ worker[w] = "select" /\ worker' = [worker EXCEPT ![w] = "get"]
        /\ mailbox # << >> /\ mailbox' = Tail(mailbox)
        /\ job' = [job EXCEPT ![w] = Head(mailbox)] /\ callbacks' = callbacks
    BY <1>2 DEF WorkerReceive
  <2>2. HeldBy(Undelivered)' = HeldBy(Undelivered) \union {Head(mailbox)}
    BY <2>1, HeldJoins DEF Undelivered
  <2>3. Queued' = Queued \ {Head(mailbox)} /\ Head(mailbox) \in Queued
    BY <2>1, HeadFacts
  <2>4. Pending' = Pending
    BY <1>1, <2>2, <2>3 DEF Pending, Undelivered
  <2> QED
    BY <1>1, <2>1, <2>4, CallbackFrame
<1>3. CASE WorkerComplete(w)
  <2>1. /\ worker[w] = "complete" /\ worker' = [worker EXCEPT ![w] = "callback"]
        /\ UNCHANGED <<mailbox, job>> /\ Callback(job[w], verdict[w])
    BY <1>3 DEF WorkerComplete
  <2>2. /\ HeldBy(Undelivered)' = HeldBy(Undelivered) \ {job[w]}
        /\ job[w] \in HeldBy(Undelivered)
    BY <2>1, HeldLeaves, HeldIn DEF Undelivered, Idle
  <2>3. /\ Queued' = Queued /\ job[w] \notin Queued
        /\ enq[job[w]] \in Admitted /\ job[w] \in Calls
    BY <2>1 DEF Queued, Elements, OwnershipInv, Idle, TypeOK
  <2>4. fin \notin {"take", "slot", "complete"}
    BY <2>1 DEF OwnershipInv
  <2>5. Pending' = Pending \ {job[w]} /\ job[w] \in Pending
    BY <1>1, <2>2, <2>3, <2>4 DEF Pending, Undelivered
  <2> QED
    BY <1>1, <2>1, <2>3, <2>5, CallbackOnce
<1>4. CASE ~WorkerReceive(w) /\ ~WorkerComplete(w)
  <2>1. HeldBy(Undelivered)' = HeldBy(Undelivered)
    <3>1. worker[w] = "get" => job[w] \in store
      BY HeldIn DEF StoreMatchesQueue
    <3>2. CASE WorkerReturn(w)
      BY <3>2, HeldForgets DEF WorkerReturn, Undelivered
    <3>3. CASE ~WorkerReturn(w)
      <4>1. /\ job' = job
            /\ \A v \in Workers : worker'[v] \in Undelivered <=> worker[v] \in Undelivered
        BY <1>4, <3>1, <3>3
        DEF WorkerNext, WorkerCanceled, WorkerDrained, WorkerGet,
            WorkerDelete, WorkerDequeue, WorkerDeliver, WorkerDelivered,
            WorkerInterrupted, TypeOK, Undelivered
      <4> QED
        BY <4>1, HeldSame
    <3> QED
      BY <3>2, <3>3
  <2>2. UNCHANGED <<mailbox, callbacks>>
    BY <1>4 DEF WorkerNext, WorkerCanceled, WorkerDrained, WorkerGet,
            WorkerDelete, WorkerDequeue, WorkerDeliver, WorkerDelivered,
            WorkerInterrupted, WorkerReturn
  <2>3. Pending' = Pending
    BY <1>1, <2>1, <2>2 DEF Pending, Undelivered, Queued, Elements
  <2> QED
    BY <1>1, <2>2, <2>3, CallbackFrame
<1> QED
  BY <1>2, <1>3, <1>4

LEMMA FinishCallbacks ==
  ASSUME TypeOK, AdmissionInv, OwnershipInv, StoreMatchesQueue, CallbackInv, FinishNext
  PROVE  CallbackInv'
<1> USE DEF FinishStep, workerVars, logVars
<1>1. UNCHANGED <<enq, worker, job>> /\ HeldBy(Undelivered)' = HeldBy(Undelivered)
  <2>1. UNCHANGED <<enq, worker, job>>
    BY DEF FinishNext, FinishWait, FinishStop, FinishReceive, FinishTake, FinishSlot,
           FinishComplete, FinishReturn, FinishClose, Stop, StopEffects
  <2> QED
    BY <2>1, HeldSame
<1>2. CASE FinishReceive
  <2>1. /\ fin = "drain" /\ fin' = "take" /\ mailbox # << >> /\ mailbox' = Tail(mailbox)
        /\ finJob' = Head(mailbox) /\ callbacks' = callbacks
    BY <1>2 DEF FinishReceive
  <2>2. Queued' = Queued \ {Head(mailbox)} /\ Head(mailbox) \in Queued
    BY <2>1, HeadFacts
  <2>3. Pending' = Pending
    BY <1>1, <2>1, <2>2 DEF Pending, Undelivered
  <2> QED
    BY <1>1, <2>1, <2>3, CallbackFrame
<1>3. CASE FinishComplete
  <2>1. /\ fin = "complete" /\ fin' = "callback" /\ UNCHANGED <<mailbox, finJob>>
        /\ Callback(finJob, "managerStopped")
    BY <1>3 DEF FinishComplete
  <2>2. /\ Queued' = Queued /\ finJob \notin Queued
        /\ enq[finJob] \in Admitted /\ finJob \in Calls
    BY <2>1 DEF Queued, Elements, OwnershipInv, FinHolding, TypeOK
  <2>3. HeldBy(Undelivered) = {}
    BY <2>1, FinishAlone DEF Undelivered, Idle
  <2>4. Pending' = Pending \ {finJob} /\ finJob \in Pending
    BY <1>1, <2>1, <2>2, <2>3 DEF Pending, Undelivered
  <2> QED
    BY <1>1, <2>1, <2>2, <2>4, CallbackOnce
<1>4. CASE ~FinishReceive /\ ~FinishComplete
  <2>1. fin = "take" => finJob \in store
    BY DEF StoreMatchesQueue
  <2>2. fin \in {"slot", "take"} => finJob # NoCall
    BY DEF OwnershipInv, FinHolding
  <2>3. /\ UNCHANGED <<mailbox, callbacks>>
        /\ fin \in {"take", "slot", "complete"} => finJob' = finJob
        /\ fin' \in {"take", "slot", "complete"} <=> fin \in {"take", "slot", "complete"}
    BY <1>4, <2>1, <2>2 DEF FinishNext, FinishWait, FinishStop, FinishTake,
                FinishSlot, FinishReturn, FinishClose, Stop, StopEffects
  <2>4. Pending' = Pending
    BY <1>1, <2>3 DEF Pending, Undelivered, Queued, Elements
  <2> QED
    BY <1>1, <2>3, <2>4, CallbackFrame
<1> QED
  BY <1>2, <1>3, <1>4

LEMMA NextCallbacks ==
  ASSUME TypeOK, AdmissionInv, OwnershipInv, StoreMatchesQueue, CallbackInv, [Next]_vars
  PROVE  CallbackInv'
<1>1. ASSUME UNCHANGED <<enq, mailbox, job, finJob, callbacks>>,
             \A w \in Workers : worker'[w] = worker[w] \/ {worker[w], worker'[w]} \subseteq Idle,
             fin' = fin \/ {fin, fin'} \subseteq {"none", "wait"}
      PROVE  CallbackInv'
  <2>1. HeldBy(Undelivered)' = HeldBy(Undelivered)
    BY <1>1, HeldSame DEF Undelivered, Idle
  <2>2. Pending' = Pending
    BY <1>1, <2>1 DEF Pending, Undelivered, Queued, Elements
  <2> QED
    BY <1>1, <2>2, CallbackFrame
<1>2. CASE LifecycleNext
  BY <1>1, <1>2, LifecycleFrame
<1>3. CASE UNCHANGED vars
  BY <1>1, <1>3 DEF vars, workerVars, finVars, logVars
<1> QED
  BY <1>2, <1>3, NextCases, EnqueueCallbacks, WorkerCallbacks, FinishCallbacks

-----------------------------------------------------------------------------
(***************************************************************************)
(* The theorems                                                            *)
(***************************************************************************)
THEOREM QueueSafe == Spec => []QueueInv
<1>1. Init => QueueInv
  BY InitOwnership, InitStore, InitCallbacks, InitSlots DEF QueueInv
<1>2. TypeOK /\ AdmissionInv /\ QueueInv /\ [Next]_vars => QueueInv'
  BY NextOwnership, NextStore, NextCallbacks, NextSlots DEF QueueInv
<1> QED
  BY <1>1, <1>2, TypeCorrect, AdmissionSafe, PTL DEF Spec

\* No token of m.slots is lost or given back twice (manager.go, Enqueue and
\* finish; dispatcher.go, onDequeue).
THEOREM SlotsBalance == Spec => []SlotAccounting
  BY QueueSafe, PTL DEF QueueInv

\* The store never loses a queued notification and never keeps a dispatched one.
THEOREM StoreFaithful == Spec => []StoreMatchesQueue
  BY QueueSafe, PTL DEF QueueInv

LEMMA NeverBlocksHolds ==
  ASSUME TypeOK, AdmissionInv, QueueInv
  PROVE  NeverBlocks
<1> USE DEF QueueInv
<1>1. slots = Cardinality(Holders) /\ IsFiniteSet(Holders) /\ slots <= Capacity
        /\ slots \in Nat /\ Capacity \in Nat
  BY HoldersFinite, CapacityAssumption DEF SlotAccounting, TypeOK
<1>2. ASSUME NEW h \in Holders PROVE slots > 0
  <2>1. Cardinality(Holders \ {h}) = Cardinality(Holders) - 1
          /\ Cardinality(Holders \ {h}) \in Nat
    BY <1>1, FS_RemoveElement, FS_CardinalityType
  <2> QED
    BY <1>1, <2>1
<1>3. ASSUME NEW c \in Calls, enq[c] = "send"
      PROVE  ~mailboxClosed /\ Len(mailbox) < Capacity
  <2>1. ~mailboxClosed
    BY <1>3 DEF AdmissionInv
  <2>2. c \in Holders /\ c \notin Elements(mailbox)
    BY <1>3, NotAdmittedYet DEF Holders, Admitting, Admitted, Queued
  <2>3. mailbox \in Seq(Calls) /\ Distinct(mailbox) /\ Elements(mailbox) \subseteq Holders
    BY DEF TypeOK, OwnershipInv, Holders, Queued
  <2>4. Len(mailbox) < Cardinality(Holders) /\ Len(mailbox) \in Nat
    BY <1>1, <2>2, <2>3, DistinctShort, LenProperties
  <2> QED
    BY <1>1, <2>1, <2>4
<1>4. \A c \in Calls : enq[c] \in {"freeStopped", "freeCanceled"} => slots > 0
  BY <1>2 DEF Holders, Admitting
<1>5. \A w \in Workers : worker[w] = "dequeue" => slots > 0
  BY <1>2, HeldIn DEF Holders
<1>6. fin = "slot" => slots > 0
  BY <1>2 DEF Holders
<1> QED
  BY <1>3, <1>4, <1>5, <1>6 DEF NeverBlocks

\* "A reserved slot guarantees that sending below cannot block, even with
\* concurrent producers" (manager.go, Enqueue), for any capacity; nor does any
\* receive from m.slots block.
THEOREM NothingBlocks == Spec => []NeverBlocks
  BY QueueSafe, TypeCorrect, AdmissionSafe, NeverBlocksHolds, PTL

\* Neither way in which a channel fails happens: no send, receive or close blocks a
\* holder of m.mu, and none hits a closed channel.
THEOREM ChannelsNeverFail == Spec => []ChannelsAreSafe
  BY NothingBlocks, NeverPanics, PTL DEF ChannelsAreSafe

LEMMA DoneMeansDoneHolds ==
  ASSUME TypeOK, AdmissionInv, QueueInv
  PROVE  DoneMeansDone
<1> SUFFICES ASSUME done
             PROVE  /\ store = {} /\ mailbox = << >>
                    /\ \A w \in Workers : worker[w] \in {"unborn", "exited"}
                    /\ \A c \in Calls :
                        callbacks[c] = IF enq[c] \in {"unlock", "accepted"} THEN 1 ELSE 0
  BY DEF DoneMeansDone
<1> USE DEF QueueInv
<1>1. fin = "exited" /\ stopped
  BY DEF AdmissionInv, Draining
<1>2. mailbox = << >> /\ \A w \in Workers : worker[w] \in {"unborn", "exited"}
  BY <1>1 DEF OwnershipInv
<1>3. Queued = {}
  BY <1>2, EmptySeq DEF Queued, Elements
<1>4. HeldBy({"get", "delete"}) = {} /\ HeldBy(Undelivered) = {}
  BY <1>1, FinishAlone DEF Idle, Undelivered
<1>5. \A c \in Calls : enq[c] # "send"
  BY <1>1 DEF AdmissionInv
<1>6. store = {}
  BY <1>1, <1>3, <1>4, <1>5 DEF StoreMatchesQueue
<1>7. Pending = {}
  BY <1>1, <1>3, <1>4 DEF Pending, Undelivered
<1> QED
  BY <1>2, <1>6, <1>7 DEF CallbackInv, Admitted

\* When m.done is closed nothing is left: each accepted notification has had
\* exactly one callback, none is running, and the queue is empty.
THEOREM NothingLeftAtDone == Spec => []DoneMeansDone
  BY QueueSafe, TypeCorrect, AdmissionSafe, DoneMeansDoneHolds, PTL

LEMMA RefusedHolds ==
  ASSUME TypeOK, AdmissionInv, QueueInv
  PROVE  RefusedLeavesNoTrace
<1> SUFFICES ASSUME NEW c \in Calls, enq[c] \in Refused
             PROVE  /\ c \notin store \union Queued
                    /\ \A w \in Workers : job[w] # c
                    /\ callbacks[c] = 0
  BY DEF RefusedLeavesNoTrace
<1> USE DEF QueueInv
<1>1. enq[c] \notin Admitted /\ enq[c] # "send"
  BY DEF Refused, Admitted
<1>2. c \notin Queued /\ finJob # c /\ \A S : c \notin HeldBy(S)
  BY <1>1, NotAdmittedYet
<1>3. c \notin store
  BY <1>1, <1>2 DEF StoreMatchesQueue
<1>4. \A w \in Workers : job[w] # c
  BY <1>1, CallsAssumption DEF OwnershipInv
<1> QED
  BY <1>1, <1>2, <1>3, <1>4 DEF CallbackInv

\* An Enqueue call that reports an error has had no effect.
THEOREM RefusalIsClean == Spec => []RefusedLeavesNoTrace
  BY QueueSafe, TypeCorrect, AdmissionSafe, RefusedHolds, PTL
=============================================================================
