-------------------------- MODULE DeliveryProofs --------------------------
(***************************************************************************)
(* Proofs about Delivery, for every plan and every width of int, and about *)
(* Redelivery: what the invariant of one delivery says of results, and the *)
(* promise of an attempt says of acceptance, together.                     *)
(***************************************************************************)
EXTENDS Redelivery, SequenceTheorems, TLAPS

(***************************************************************************)
(* Plans, targets and their order                                          *)
(***************************************************************************)
\* MaxAttempts is positive and an int, and what the documentation promises
\* unless the increment wraps.
LEMMA MaxAttemptsRange ==
  ASSUME NEW count \in -(MaxInt + 1)..MaxInt
  PROVE  /\ MaxAttempts(count) \in 1..MaxInt
         /\ count < MaxInt => MaxAttempts(count) = Promised(count)
  BY MaxIntAssumption DEF MaxAttempts, Wrap, Promised

Budget(x) == MaxAttempts(plan[x[1]].count)

LEMMA PlanFacts ==
  ASSUME plan \in Plans, NEW i \in 1..Len(plan)
  PROVE  /\ Len(plan) \in Nat
         /\ plan[i].targets \in Nat \ {0}
         /\ plan[i].count \in -(MaxInt + 1)..MaxInt
         /\ plan[i].retries \subseteq Failures
<1>1. plan \in Seq(Receivers)
  BY PlansAssumption
<1>2. plan[i] \in Receivers
  BY <1>1, ElementOfSeq
<1> QED
  BY <1>1, <1>2, LenProperties DEF Receivers

LEMMA TargetFacts ==
  ASSUME plan \in Plans, NEW x \in Targets
  PROVE  /\ x = <<x[1], x[2]>>
         /\ x[1] \in 1..Len(plan) /\ x[2] \in 1..plan[x[1]].targets
         /\ Budget(x) \in 1..MaxInt
         /\ plan[x[1]].count < MaxInt => Budget(x) = Promised(plan[x[1]].count)
         /\ plan[x[1]].retries \subseteq Failures
<1>1. PICK i \in 1..Len(plan) : x \in {<<i, j>> : j \in 1..plan[i].targets}
  BY DEF Targets
<1>2. PICK j \in 1..plan[i].targets : x = <<i, j>>
  BY <1>1
<1>3. x[1] = i /\ x[2] = j
  BY <1>2
<1> QED
  BY <1>2, <1>3, PlanFacts, MaxAttemptsRange DEF Budget

LEMMA IsTarget ==
  ASSUME NEW i \in 1..Len(plan), NEW j \in 1..plan[i].targets
  PROVE  <<i, j>> \in Targets
  BY DEF Targets

\* The order of dispatch.
Earlier(x, y) == x[1] < y[1] \/ (x[1] = y[1] /\ x[2] < y[2])

LEMMA EarlierIsOrder ==
  ASSUME plan \in Plans, NEW x \in Targets, NEW y \in Targets
  PROVE  /\ x = y \/ Earlier(x, y) \/ Earlier(y, x)
         /\ Earlier(x, y) => x # y /\ ~Earlier(y, x)
  BY TargetFacts, PlanFacts DEF Earlier

(***************************************************************************)
(* The inductive invariant                                                 *)
(***************************************************************************)
Retrying == {"attempt", "wait", "check", "call"}
Unwinding == {"panicking", "crashed"}
Loop == Retrying \union {"sending", "judge"} \union Unwinding
Over == {"join", "callback", "done"}

TypeInv ==
    /\ plan \in Plans
    /\ pc \in {"start"} \union Loop \union Over
    /\ plan # << >> => Here \in Targets
    /\ pc \in Loop \union {"join"} => plan # << >>
    /\ executed \in 0..MaxInt
    /\ ctxDone \in BOOLEAN
    /\ errs \subseteq Errors
    /\ outcome \in {"nil", "noReceivers", "failed", "canceled"}
    /\ told \in {"none", "nil", "noReceivers", "failed", "canceled"}
    /\ sent \in [Targets -> Nat]
    /\ result \in [Targets -> Results]

Dealt(x) ==
    /\ (result[x] # "ok") <=> (\E e \in errs : e.at = x)
    /\ sent[x] = 0 => ctxDone /\ result[x] = "none"

Untouched(x) ==
    /\ sent[x] = 0 /\ result[x] = "none"
    /\ \A e \in errs : e.at # x

Behind(x) == pc \in Over \/ (pc \in Loop /\ Earlier(x, Here))
Ahead(x)  == pc = "start" \/ (pc \in Loop /\ Earlier(Here, x))

\* The target of the iteration: what withRetry's variables say of it.
Current ==
    pc \in Loop =>
        /\ \A e \in errs : e.at # Here
        /\ pc \in Retrying \union {"judge"} => sent[Here] = executed
        /\ pc \in {"sending"} \union Unwinding => sent[Here] = executed + 1
        /\ pc # "judge" => executed < Budget(Here)
        /\ pc \in Retrying \union {"sending"} =>
             \/ executed = 0 /\ result[Here] = "none"
             \/ executed > 0 /\ result[Here] \in plan[r].retries
        /\ pc = "judge" => /\ executed \in 1..Budget(Here)
                           /\ result[Here] \in Failures \union {"ok"}
        /\ pc \in Unwinding => result[Here] = "panic"

ErrsInv ==
    /\ \A e \in errs :
        /\ e.attempts = sent[e.at]
        /\ e.err = "ctx" => ctxDone
        /\ e.err # "ctx" => e.err = result[e.at]
        /\ e.err \in plan[e.at[1]].retries => sent[e.at] = Budget(e.at)
    /\ \A e, f \in errs : e.at = f.at => e = f

SentInv == \A x \in Targets : sent[x] <= Budget(x)

OutcomeInv ==
    /\ pc \in {"callback", "done"} /\ outcome = "nil" => errs = {}
    /\ pc = "done" => told = outcome
    /\ pc \notin {"callback", "done"} => outcome = "nil"

DeliveryInv ==
    /\ TypeInv
    /\ \A x \in Targets : (Behind(x) => Dealt(x)) /\ (Ahead(x) => Untouched(x))
    /\ pc = "start" => r = 1 /\ t = 1 /\ executed = 0 /\ errs = {}
    /\ Current
    /\ ErrsInv
    /\ SentInv
    /\ OutcomeInv

LEMMA InitDeliveryInv == Init => DeliveryInv
<1> SUFFICES ASSUME Init PROVE DeliveryInv
  OBVIOUS
<1>1. plan # << >> => Here \in Targets
  <2> SUFFICES ASSUME plan # << >> PROVE Here \in Targets
    OBVIOUS
  <2>1. plan \in Seq(Receivers)
    BY PlansAssumption DEF Init
  <2>2. 1 \in 1..Len(plan)
    BY <2>1, EmptySeq, LenProperties
  <2>3. 1 \in 1..plan[1].targets
    BY <2>2, PlanFacts DEF Init
  <2> QED
    BY <2>2, <2>3, IsTarget DEF Here, Init
<1>2. TypeInv
  <2>1. "none" \in Results
    BY DEF Results
  <2>2. sent \in [Targets -> Nat] /\ result \in [Targets -> Results]
    BY <2>1 DEF Init
  <2>3. executed \in 0..MaxInt /\ errs \subseteq Errors
    BY MaxIntAssumption DEF Init
  <2>5. ctxDone \in BOOLEAN
    BY DEF Init
  <2>4. pc \in {"start"} /\ pc \notin Loop
    BY DEF Init, Loop, Retrying, Unwinding
  <2> QED
    BY <1>1, <2>2, <2>3, <2>4, <2>5 DEF Init, TypeInv
<1>3. SentInv
  BY <1>2, TargetFacts DEF SentInv, Init
<1> QED
  BY <1>2, <1>3 DEF Init, DeliveryInv, Behind, Ahead, Dealt, Untouched, Current, ErrsInv,
     OutcomeInv, Loop, Over, Retrying, Unwinding

(***************************************************************************)
(* The end of a target                                                     *)
(***************************************************************************)
\* EndTarget moves on to the next target in the order of dispatch, and joins
\* after the last one.
LEMMA NextTarget ==
  ASSUME plan \in Plans, Here \in Targets, NEW err, EndTarget(err), plan' = plan
  PROVE  \/ /\ pc' = "attempt" /\ Here' \in Targets
            /\ \A x \in Targets : Earlier(x, Here') <=> (Earlier(x, Here) \/ x = Here)
         \/ /\ pc' = "join" /\ Here' \in Targets
            /\ \A x \in Targets : Earlier(x, Here) \/ x = Here
<1>1. Here = <<r, t>> /\ Here[1] = r /\ Here[2] = t /\ Here' = <<r', t'>>
        /\ Here'[1] = r' /\ Here'[2] = t'
  BY DEF Here
<1>2. r \in 1..Len(plan) /\ t \in 1..plan[r].targets /\ Len(plan) \in Nat
        /\ plan[r].targets \in Nat \ {0}
  BY <1>1, TargetFacts, PlanFacts
<1>3. \A x \in Targets : /\ x[1] \in 1..Len(plan) /\ x[2] \in 1..plan[x[1]].targets
                         /\ x = <<x[1], x[2]>> /\ plan[x[1]].targets \in Nat
  BY TargetFacts, PlanFacts
<1>4. CASE t < plan[r].targets
  <2>1. pc' = "attempt" /\ r' = r /\ t' = t + 1
    BY <1>4 DEF EndTarget
  <2>2. <<r', t'>> \in Targets
    BY <2>1, <1>2, <1>4, IsTarget
  <2>3. \A x \in Targets : Earlier(x, Here') <=> (Earlier(x, Here) \/ x = Here)
    BY <1>1, <1>2, <1>3, <2>1 DEF Earlier
  <2> QED
    BY <1>1, <2>1, <2>2, <2>3
<1>5. CASE ~(t < plan[r].targets) /\ r < Len(plan)
  <2>1. pc' = "attempt" /\ r' = r + 1 /\ t' = 1
    BY <1>5 DEF EndTarget
  <2>2. r' \in 1..Len(plan)
    BY <2>1, <1>2, <1>5
  <2>3. <<r', t'>> \in Targets
    BY <2>1, <2>2, PlanFacts, IsTarget
  <2>4. \A x \in Targets : Earlier(x, Here') <=> (Earlier(x, Here) \/ x = Here)
    BY <1>1, <1>2, <1>3, <1>5, <2>1 DEF Earlier
  <2> QED
    BY <1>1, <2>1, <2>3, <2>4
<1>6. CASE ~(t < plan[r].targets) /\ ~(r < Len(plan))
  <2>1. pc' = "join" /\ r' = r /\ t' = t
    BY <1>6 DEF EndTarget
  <2>2. \A x \in Targets : Earlier(x, Here) \/ x = Here
    BY <1>1, <1>2, <1>3, <1>6 DEF Earlier
  <2> QED
    BY <1>1, <2>1, <2>2
<1> QED
  BY <1>4, <1>5, <1>6

\* Ending a target keeps the invariant if the error says what became of it.
LEMMA EndTargetKeepsInv ==
  ASSUME DeliveryInv, pc \in Retrying \union {"judge"}, NEW err, EndTarget(err),
         UNCHANGED <<plan, ctxDone, outcome, told, logVars>>,
         result[Here] = "ok" <=> err = "none",
         err # "none" => \/ err = "ctx" /\ ctxDone
                         \/ /\ err \in Failures /\ err = result[Here] /\ executed > 0
                            /\ err \in plan[r].retries => executed = Budget(Here)
  PROVE  DeliveryInv'
<1> DEFINE mine == [at |-> Here, attempts |-> executed, err |-> err]
<1>1. /\ TypeInv /\ pc \in Loop /\ Here \in Targets /\ plan # << >>
      /\ Here[1] = r /\ plan \in Plans
  BY DEF DeliveryInv, TypeInv, Loop, Here
<1>2. Targets' = Targets /\ sent' = sent /\ result' = result /\ executed' = 0
  BY DEF Targets, logVars, EndTarget
<1>3. errs' = errs \union (IF err = "none" THEN {} ELSE {mine})
  BY DEF EndTarget
<1>4. \A e \in errs : e.at # Here /\ e.at \in Targets
  BY <1>1 DEF DeliveryInv, Current, TypeInv, Errors
<1>5. sent[Here] = executed /\ executed \in 0..MaxInt
  BY DEF DeliveryInv, Current, TypeInv, Loop, Retrying
<1>6. \/ /\ pc' = "attempt" /\ Here' \in Targets
         /\ \A x \in Targets : Earlier(x, Here') <=> (Earlier(x, Here) \/ x = Here)
      \/ /\ pc' = "join" /\ Here' \in Targets
         /\ \A x \in Targets : Earlier(x, Here) \/ x = Here
  BY <1>1, NextTarget
<1>7. TypeInv'
  <2>1. err # "none" => mine \in Errors
    BY <1>1, <1>5 DEF Errors
  <2>2. errs' \subseteq Errors'
    BY <1>2, <1>3, <2>1, <1>1 DEF TypeInv, Errors
  <2> QED
    BY <1>1, <1>2, <1>6, <2>2, MaxIntAssumption DEF TypeInv, Loop, Retrying, Over, Results
<1>8. \A x \in Targets : (Behind(x)' => Dealt(x)') /\ (Ahead(x)' => Untouched(x)')
  <2> SUFFICES ASSUME NEW x \in Targets
               PROVE  (Behind(x)' => Dealt(x)') /\ (Ahead(x)' => Untouched(x)')
    OBVIOUS
  <2>1. Behind(x)' => Earlier(x, Here) \/ x = Here
    BY <1>6 DEF Behind, Loop, Retrying, Over
  <2>2. Ahead(x)' => Earlier(Here, x)
    <3> SUFFICES ASSUME Ahead(x)' PROVE Earlier(Here, x)
      OBVIOUS
    <3>1. pc' = "attempt" /\ Earlier(Here', x) /\ Here' \in Targets
      BY <1>6 DEF Ahead, Loop, Retrying, Unwinding
    <3>2. ~Earlier(x, Here')
      BY <3>1, <1>1, EarlierIsOrder
    <3> QED
      BY <3>1, <3>2, <1>1, <1>6, EarlierIsOrder
  <2>3. CASE x = Here
    <3>1. Dealt(x)'
      <4>1. (\E e \in errs' : e.at = x) <=> err # "none"
        <5>1. CASE err = "none"
          BY <5>1, <1>3, <1>4, <2>3
        <5>2. CASE err # "none"
          <6>1. mine \in errs' /\ mine.at = x
            BY <5>2, <1>3, <2>3
          <6> QED
            BY <5>2, <6>1
        <5> QED
          BY <5>1, <5>2
      <4>2. sent[x] = 0 => ctxDone' /\ result[x] = "none"
        <5> SUFFICES ASSUME sent[x] = 0 PROVE ctxDone /\ result[Here] = "none"
          BY <2>3
        <5>1. executed = 0
          BY <1>5, <2>3
        <5>2. result[Here] = "none"
          BY <5>1, <1>1 DEF DeliveryInv, Current, Retrying
        <5> QED
          BY <5>1, <5>2
      <4> QED
        BY <4>1, <4>2, <1>2, <2>3 DEF Dealt
    <3>2. ~Earlier(Here, x)
      BY <2>3, <1>1, EarlierIsOrder
    <3> QED
      BY <3>1, <3>2, <2>2
  <2>4. CASE x # Here
    <3>1. (\E e \in errs' : e.at = x) <=> (\E e \in errs : e.at = x)
      BY <1>3, <2>4
    <3>2. Earlier(x, Here) => Dealt(x)'
      BY <3>1, <1>1, <1>2 DEF DeliveryInv, Behind, Dealt
    <3>3. Earlier(Here, x) => Untouched(x)'
      BY <3>1, <1>1, <1>2 DEF DeliveryInv, Ahead, Untouched
    <3> QED
      BY <2>1, <2>2, <2>4, <3>2, <3>3
  <2> QED
    BY <2>3, <2>4
<1>9. Current'
  <2> SUFFICES ASSUME pc' \in Loop PROVE Current'
    BY DEF Current
  <2>1. pc' = "attempt" /\ Here' \in Targets
    BY <1>6 DEF Loop, Retrying, Unwinding
  <2>2. ~Earlier(Here', Here') /\ Here' # Here
    BY <2>1, <1>1, <1>6, EarlierIsOrder
  <2>3. Earlier(Here, Here')
    BY <2>1, <2>2, <1>1, <1>6, EarlierIsOrder
  <2>4. Ahead(Here')
    BY <2>3, <1>1 DEF Ahead
  <2>5. Untouched(Here')
    BY <2>1, <2>4 DEF DeliveryInv
  <2>6. \A e \in errs' : e.at # Here'
    BY <1>3, <2>2, <2>5 DEF Untouched
  <2>7. Budget(Here)' \in 1..MaxInt
    <3>1. MaxAttempts(plan[Here'[1]].count) \in 1..MaxInt
      BY <2>1, <1>1, TargetFacts DEF Budget
    <3> QED
      BY <3>1 DEF Budget
  <2> QED
    BY <1>2, <2>1, <2>5, <2>6, <2>7 DEF Current, Untouched, Loop, Retrying, Unwinding
<1>10. ErrsInv'
  <2>1. ErrsInv
    BY DEF DeliveryInv
  <2>2. plan' = plan /\ ctxDone' = ctxDone
    OBVIOUS
  <2>3. \A x : Budget(x)' = Budget(x)
    BY DEF Budget
  <2>4. err # "none" =>
          /\ mine.attempts = sent[mine.at]
          /\ mine.err = "ctx" => ctxDone
          /\ mine.err # "ctx" => mine.err = result[mine.at]
          /\ mine.err \in plan[mine.at[1]].retries => sent[mine.at] = Budget(mine.at)
    <3>1. plan[r].retries \subseteq Failures
      BY <1>1, TargetFacts
    <3> QED
      BY <1>1, <1>5, <3>1, FailuresAssumption
  <2> QED
    BY <1>2, <1>3, <1>4, <2>1, <2>2, <2>3, <2>4 DEF ErrsInv
<1>11. SentInv'
  BY <1>2 DEF DeliveryInv, SentInv, Budget
<1>12. OutcomeInv' /\ pc' # "start"
  <2>1. outcome' = outcome /\ outcome = "nil"
    BY DEF DeliveryInv, OutcomeInv, Retrying
  <2> QED
    BY <1>6, <2>1 DEF OutcomeInv
<1> QED
  BY <1>2, <1>7, <1>8, <1>9, <1>10, <1>11, <1>12 DEF DeliveryInv

(***************************************************************************)
(* The other steps                                                         *)
(***************************************************************************)
\* A step that leaves the target where it is, and what has been said of it.
LEMMA SameTargetKeepsInv ==
  ASSUME DeliveryInv, UNCHANGED <<plan, r, t, executed, errs, logVars>>,
         ctxDone' \in BOOLEAN, ctxDone => ctxDone',
         \/ pc' = pc /\ UNCHANGED <<outcome, told>>
         \/ /\ pc = "start" /\ pc' = "attempt" /\ plan # << >>
            /\ UNCHANGED <<outcome, told>>
         \/ /\ pc \in Retrying /\ pc' \in Retrying /\ UNCHANGED <<outcome, told>>
         \/ /\ pc = "judge" /\ pc' = "attempt" /\ UNCHANGED <<outcome, told>>
            /\ executed < Budget(Here) /\ result[Here] \in plan[r].retries
  PROVE  DeliveryInv'
<1>1. TypeInv /\ plan \in Plans
  BY DEF DeliveryInv, TypeInv
<1>2. Targets' = Targets /\ sent' = sent /\ result' = result /\ errs' = errs
        /\ plan' = plan /\ Here' = Here /\ executed' = executed
  BY DEF Targets, logVars, Here
<1>3. pc' \in Loop => pc \in Loop \/ (pc = "start" /\ plan # << >>)
  BY DEF Loop, Retrying, Unwinding
<1>4. TypeInv'
  BY <1>1, <1>2, <1>3 DEF TypeInv, Errors, Loop, Retrying, Over, Results
<1>5. \A x \in Targets : (Behind(x)' => Dealt(x)') /\ (Ahead(x)' => Untouched(x)')
  <2> SUFFICES ASSUME NEW x \in Targets
               PROVE  (Behind(x)' => Dealt(x)') /\ (Ahead(x)' => Untouched(x)')
    OBVIOUS
  <2>1. (Dealt(x) => Dealt(x)') /\ (Untouched(x) => Untouched(x)')
    BY <1>2 DEF Dealt, Untouched
  <2>2. Ahead(x)' => Ahead(x)
    BY <1>2, <1>3 DEF Ahead, Loop, Retrying
  <2>3. Behind(x)' => Behind(x)
    <3>1. CASE pc = "start"
      <4>1. Here[1] = 1 /\ Here[2] = 1
        BY <3>1 DEF DeliveryInv, Here
      <4>2. ~Earlier(x, Here)
        BY <4>1, <1>1, TargetFacts DEF Earlier
      <4>3. pc' \notin Over
        BY <3>1 DEF Over, Retrying
      <4> QED
        BY <1>2, <4>2, <4>3 DEF Behind
    <3>2. CASE pc # "start"
      BY <1>2, <1>3, <3>2 DEF Behind, Over, Retrying, Loop
    <3> QED
      BY <3>1, <3>2
  <2> QED
    BY <2>1, <2>2, <2>3 DEF DeliveryInv
<1>6. Current'
  <2>1. \A x : Budget(x)' = Budget(x)
    BY <1>2 DEF Budget
  <2>2. CASE pc = "start"
    <3> SUFFICES ASSUME pc' \in Loop PROVE Current'
      BY DEF Current
    <3>1. pc' = "attempt" /\ plan # << >>
      BY <2>2 DEF Loop, Retrying, Unwinding
    <3>2. Here \in Targets /\ executed = 0 /\ Ahead(Here)
      BY <2>2, <3>1 DEF DeliveryInv, TypeInv, Ahead
    <3>3. Untouched(Here) /\ Budget(Here) \in 1..MaxInt
      BY <1>1, <3>2, TargetFacts DEF DeliveryInv
    <3>4. Budget(Here)' \in 1..MaxInt
      BY <1>2, <3>3 DEF Budget
    <3> QED
      BY <1>2, <3>1, <3>2, <3>3, <3>4 DEF Current, Untouched, Loop, Retrying, Unwinding
  <2>3. CASE pc # "start"
    <3>1. Current /\ Budget(Here)' = Budget(Here)
      BY <1>2 DEF DeliveryInv, Budget
    <3>2. CASE pc' = pc
      BY <1>2, <3>1, <3>2 DEF Current
    <3>3. CASE pc \in Retrying /\ pc' \in Retrying
      BY <1>2, <3>1, <3>3 DEF Current, Loop, Retrying, Unwinding
    <3>4. CASE pc = "judge" /\ pc' = "attempt" /\ executed < Budget(Here)
               /\ result[Here] \in plan[r].retries
      BY <1>2, <3>1, <3>4 DEF Current, Loop, Retrying, Unwinding
    <3> QED
      BY <2>3, <3>2, <3>3, <3>4
  <2> QED
    BY <2>2, <2>3
<1>7. ErrsInv' /\ SentInv'
  BY <1>2 DEF DeliveryInv, ErrsInv, SentInv, Budget
<1>8. OutcomeInv'
  BY <1>2 DEF DeliveryInv, OutcomeInv, Retrying
<1> QED
  BY <1>2, <1>4, <1>5, <1>6, <1>7, <1>8 DEF DeliveryInv, Retrying

LEMMA CallKeepsInv ==
  ASSUME DeliveryInv, Call
  PROVE  DeliveryInv'
<1>1. TypeInv /\ plan \in Plans /\ pc = "call" /\ Here \in Targets /\ Here[1] = r
        /\ pc \in Loop
  BY DEF DeliveryInv, TypeInv, Call, Goto, Loop, Retrying, Here
<1>2. /\ Targets' = Targets /\ result' = result /\ errs' = errs /\ plan' = plan
      /\ Here' = Here /\ executed' = executed /\ pc' = "sending" /\ ctxDone' = ctxDone
      /\ outcome' = outcome /\ told' = told
  BY DEF Targets, Here, Call, Goto
<1>3. sent' = [sent EXCEPT ![Here] = executed + 1] /\ sent'[Here] = executed + 1
        /\ executed \in 0..MaxInt
  BY <1>1 DEF Call, DeliveryInv, Current, TypeInv, Retrying
<1>4. \A x \in Targets : x # Here => sent'[x] = sent[x]
  BY <1>1, <1>3 DEF TypeInv
<1>5. \A e \in errs : e.at # Here /\ e.at \in Targets
  BY <1>1 DEF DeliveryInv, Current, TypeInv, Errors
<1>6. TypeInv'
  <2>1. sent' \in [Targets' -> Nat]
    BY <1>1, <1>2, <1>3, MaxIntAssumption DEF TypeInv
  <2>2. result' \in [Targets' -> Results'] /\ errs' \subseteq Errors'
    BY <1>1, <1>2 DEF TypeInv, Results, Errors
  <2> QED
    BY <1>1, <1>2, <2>1, <2>2 DEF TypeInv, Loop
<1>7. \A x \in Targets : (Behind(x)' => Dealt(x)') /\ (Ahead(x)' => Untouched(x)')
  <2> SUFFICES ASSUME NEW x \in Targets
               PROVE  (Behind(x)' => Dealt(x)') /\ (Ahead(x)' => Untouched(x)')
    OBVIOUS
  <2>1. ~Earlier(Here, Here)
    BY <1>1, EarlierIsOrder
  <2>2. (Behind(x)' => Behind(x) /\ x # Here) /\ (Ahead(x)' => Ahead(x) /\ x # Here)
    BY <1>1, <1>2, <2>1 DEF Behind, Ahead, Over
  <2> QED
    BY <1>2, <1>4, <2>2 DEF DeliveryInv, Dealt, Untouched
<1>8. Current'
  <2>1. Budget(Here)' = Budget(Here)
    BY <1>2 DEF Budget
  <2>2. r' = r /\ (\A e \in errs : e.at # Here) /\ executed < Budget(Here)
          /\ \/ executed = 0 /\ result[Here] = "none"
             \/ executed > 0 /\ result[Here] \in plan[r].retries
    BY <1>1 DEF DeliveryInv, Current, Retrying, Call
  <2> QED
    BY <1>2, <1>3, <2>1, <2>2 DEF Current, Retrying, Unwinding
<1>9. ErrsInv'
  BY <1>2, <1>4, <1>5 DEF DeliveryInv, ErrsInv, Budget
<1>10. SentInv'
  <2>1. executed + 1 <= Budget(Here)
    BY <1>1, <1>3, TargetFacts DEF DeliveryInv, Current
  <2> QED
    BY <1>2, <1>3, <1>4, <2>1 DEF DeliveryInv, SentInv, Budget
<1>11. OutcomeInv' /\ pc' # "start"
  BY <1>1, <1>2 DEF DeliveryInv, OutcomeInv
<1> QED
  BY <1>2, <1>6, <1>7, <1>8, <1>9, <1>10, <1>11 DEF DeliveryInv

LEMMA SendKeepsInv ==
  ASSUME DeliveryInv, SendReturns \/ SendPanics
  PROVE  DeliveryInv'
<1>1. TypeInv /\ plan \in Plans /\ pc = "sending" /\ Here \in Targets /\ Here[1] = r
        /\ pc \in Loop
  BY DEF DeliveryInv, TypeInv, SendReturns, SendPanics, Goto, Loop, Here
<1>2. /\ Targets' = Targets /\ sent' = sent /\ errs' = errs /\ plan' = plan
      /\ Here' = Here /\ ctxDone' = ctxDone /\ pc' \in {"judge", "panicking"}
      /\ outcome' = outcome /\ told' = told
  BY DEF Targets, Here, SendReturns, SendPanics, Goto
<1>3. executed \in 0..MaxInt /\ executed < Budget(Here) /\ sent[Here] = executed + 1
        /\ Budget(Here) \in 1..MaxInt
  BY <1>1, TargetFacts DEF DeliveryInv, Current, TypeInv
<1>4. PICK res \in Results : result' = [result EXCEPT ![Here] = res]
        /\ \/ pc' = "judge" /\ executed' = executed + 1 /\ res \in Failures \union {"ok"}
           \/ pc' = "panicking" /\ executed' = executed /\ res = "panic"
  BY DEF SendReturns, SendPanics, Goto, Results
<1>5. result'[Here] = res /\ \A x \in Targets : x # Here => result'[x] = result[x]
  BY <1>1, <1>4 DEF TypeInv
<1>6. \A e \in errs : e.at # Here /\ e.at \in Targets
  BY <1>1 DEF DeliveryInv, Current, TypeInv, Errors
<1>7. TypeInv'
  <2>1. result' \in [Targets' -> Results'] /\ errs' \subseteq Errors'
    BY <1>1, <1>2, <1>4 DEF TypeInv, Results, Errors
  <2>2. executed' \in 0..MaxInt
    BY <1>3, <1>4, MaxIntAssumption
  <2> QED
    BY <1>1, <1>2, <2>1, <2>2 DEF TypeInv, Loop, Unwinding
<1>8. \A x \in Targets : (Behind(x)' => Dealt(x)') /\ (Ahead(x)' => Untouched(x)')
  <2> SUFFICES ASSUME NEW x \in Targets
               PROVE  (Behind(x)' => Dealt(x)') /\ (Ahead(x)' => Untouched(x)')
    OBVIOUS
  <2>1. ~Earlier(Here, Here)
    BY <1>1, EarlierIsOrder
  <2>2. (Behind(x)' => Behind(x) /\ x # Here) /\ (Ahead(x)' => Ahead(x) /\ x # Here)
    BY <1>1, <1>2, <2>1 DEF Behind, Ahead, Over
  <2> QED
    BY <1>2, <1>5, <2>2 DEF DeliveryInv, Dealt, Untouched
<1>9. Current'
  <2>1. Budget(Here)' = Budget(Here)
    BY <1>2 DEF Budget
  <2>2. CASE pc' = "judge"
    <3>1. executed' = executed + 1 /\ result'[Here] \in Failures \union {"ok"}
      BY <1>4, <1>5, <2>2
    <3>2. executed' \in 1..Budget(Here)
      BY <1>3, <3>1
    <3> QED
      BY <1>2, <1>3, <1>6, <2>1, <2>2, <3>1, <3>2 DEF Current, Retrying, Unwinding
  <2>3. CASE pc' = "panicking"
    <3>1. executed' = executed /\ result'[Here] = "panic"
      BY <1>4, <1>5, <2>3
    <3> QED
      BY <1>2, <1>3, <1>6, <2>1, <2>3, <3>1 DEF Current, Retrying, Unwinding
  <2> QED
    BY <1>2, <2>2, <2>3
<1>10. ErrsInv'
  BY <1>2, <1>5, <1>6 DEF DeliveryInv, ErrsInv, Budget
<1>11. SentInv'
  BY <1>2 DEF DeliveryInv, SentInv, Budget
<1>12. OutcomeInv' /\ pc' # "start"
  BY <1>1, <1>2 DEF DeliveryInv, OutcomeInv
<1> QED
  BY <1>2, <1>7, <1>8, <1>9, <1>10, <1>11, <1>12 DEF DeliveryInv

\* The steps after the loops, and the one that skips them.
LEMMA FinalKeepsInv ==
  ASSUME DeliveryInv,
         \/ Begin /\ plan = << >>
         \/ Join \/ Callback \/ CallbackInPanic
  PROVE  DeliveryInv'
<1>1. TypeInv /\ plan \in Plans
  BY DEF DeliveryInv, TypeInv
<1>2. /\ UNCHANGED <<plan, ctxDone, r, t, executed, errs, sent, result>>
      /\ Targets' = Targets /\ Here' = Here
  BY DEF Begin, Join, Callback, CallbackInPanic, logVars, Targets, Here
<1>3. \/ pc = "start" /\ plan = << >> /\ pc' = "callback" /\ outcome' = "noReceivers"
         /\ told' = told
      \/ /\ pc = "join" /\ pc' = "callback" /\ outcome' \in {"nil", "failed", "canceled"}
         /\ outcome' = "nil" => errs = {}
         /\ told' = told
      \/ pc = "callback" /\ pc' = "done" /\ outcome' = outcome /\ told' = outcome
      \/ pc = "panicking" /\ pc' = "crashed" /\ outcome' = outcome /\ told' = outcome
  BY DEF Begin, Join, Callback, CallbackInPanic, Goto
<1>4. TypeInv'
  <2>1. Results' = Results /\ Errors' = Errors
    BY <1>2 DEF Results, Errors
  <2>2. pc' \in {"start"} \union Loop \union Over /\ (pc' \in Loop \union {"join"} => pc \in Loop)
    BY <1>3 DEF Loop, Retrying, Unwinding, Over
  <2>3. outcome' \in {"nil", "noReceivers", "failed", "canceled"}
        /\ told' \in {"none", "nil", "noReceivers", "failed", "canceled"}
    BY <1>1, <1>3 DEF TypeInv
  <2> QED
    BY <1>1, <1>2, <2>1, <2>2, <2>3 DEF TypeInv
<1>5. \A x \in Targets : (Behind(x)' => Dealt(x)') /\ (Ahead(x)' => Untouched(x)')
  <2> SUFFICES ASSUME NEW x \in Targets
               PROVE  (Behind(x)' => Dealt(x)') /\ (Ahead(x)' => Untouched(x)')
    OBVIOUS
  <2>1. pc # "start"
    <3> SUFFICES ASSUME pc = "start" PROVE FALSE
      OBVIOUS
    <3>1. plan = << >>
      BY <1>3
    <3>2. x[1] \in 1..0
      BY <1>1, <3>1, TargetFacts
    <3> QED
      BY <3>2
  <2>2. (Behind(x)' => Behind(x)) /\ (Ahead(x)' => Ahead(x))
    BY <1>2, <1>3, <2>1 DEF Behind, Ahead, Loop, Retrying, Unwinding, Over
  <2>3. (Dealt(x) => Dealt(x)') /\ (Untouched(x) => Untouched(x)')
    BY <1>2 DEF Dealt, Untouched
  <2> QED
    BY <2>2, <2>3 DEF DeliveryInv
<1>6. Current'
  <2>1. Current /\ Budget(Here)' = Budget(Here)
    BY <1>2 DEF DeliveryInv, Budget
  <2>2. CASE pc = "panicking" /\ pc' = "crashed"
    BY <1>2, <2>1, <2>2 DEF Current, Loop, Retrying, Unwinding
  <2>3. CASE pc' \in Over
    BY <2>3 DEF Current, Loop, Retrying, Unwinding, Over
  <2> QED
    BY <1>3, <2>2, <2>3 DEF Over
<1>7. ErrsInv' /\ SentInv'
  BY <1>2 DEF DeliveryInv, ErrsInv, SentInv, Budget
<1>8. OutcomeInv' /\ pc' # "start"
  BY <1>2, <1>3 DEF DeliveryInv, OutcomeInv
<1> QED
  BY <1>2, <1>4, <1>5, <1>6, <1>7, <1>8 DEF DeliveryInv

\* withRetry's own steps: another state of the same iteration, or its end.
LEMMA RetryKeepsInv ==
  ASSUME DeliveryInv, Attempt \/ WaitInterrupted \/ Check \/ Judge
  PROVE  DeliveryInv'
<1>1. TypeInv /\ Current /\ plan \in Plans /\ ctxDone \in BOOLEAN
  BY DEF DeliveryInv, TypeInv
<1>2. pc \in Retrying \union {"judge"}
  BY DEF Attempt, WaitInterrupted, Check, Judge, Goto, Retrying
<1>3. Here \in Targets /\ Here[1] = r /\ pc \in Loop
  BY <1>1, <1>2 DEF TypeInv, Loop, Here
<1>4. plan[r].retries \subseteq Failures /\ Budget(Here) = MaxAttempts(plan[r].count)
        /\ Budget(Here) \in Nat /\ executed \in Nat
  BY <1>1, <1>3, TargetFacts DEF TypeInv, Budget
<1>5. pc \in Retrying => result[Here] # "ok" /\ executed < Budget(Here)
  BY <1>1, <1>3, <1>4, FailuresAssumption DEF Current, Retrying
<1>6. CASE Attempt
  <2>1. pc = "attempt" /\ ~(executed >= MaxAttempts(plan[r].count))
    BY <1>4, <1>5, <1>6 DEF Attempt, Retrying
  <2>2. pc \in Retrying /\ pc' \in Retrying
    BY <1>6, <2>1 DEF Attempt, Retrying
  <2>3. UNCHANGED <<plan, ctxDone, r, t, executed, errs, outcome, told, logVars>>
    BY <1>6, <2>1 DEF Attempt
  <2> QED
    BY <1>1, <2>2, <2>3, SameTargetKeepsInv
<1>7. CASE WaitInterrupted
  <2>1. EndTarget("ctx") /\ ctxDone /\ pc \in Retrying
        /\ UNCHANGED <<plan, ctxDone, outcome, told, logVars>>
    BY <1>7 DEF WaitInterrupted, Retrying
  <2> QED
    BY <1>5, <2>1, EndTargetKeepsInv
<1>8. CASE Check
  <2>1. CASE ctxDone
    <3>1. EndTarget("ctx") /\ pc \in Retrying
          /\ UNCHANGED <<plan, ctxDone, outcome, told, logVars>>
      BY <1>8, <2>1 DEF Check, Retrying
    <3> QED
      BY <1>5, <2>1, <3>1, EndTargetKeepsInv
  <2>2. CASE ~ctxDone
    <3>1. pc \in Retrying /\ pc' \in Retrying
          /\ UNCHANGED <<plan, ctxDone, r, t, executed, errs, outcome, told, logVars>>
      BY <1>8, <2>2 DEF Check, Retrying
    <3> QED
      BY <1>1, <3>1, SameTargetKeepsInv
  <2> QED
    BY <2>1, <2>2
<1>9. CASE Judge
  <2>1. pc = "judge" /\ UNCHANGED <<plan, ctxDone, outcome, told, logVars>>
    BY <1>9 DEF Judge
  <2>2. executed \in 1..Budget(Here) /\ result[Here] \in Failures \union {"ok"}
    BY <1>1, <1>3, <2>1 DEF Current
  <2>3. CASE result[Here] = "ok"
    <3>1. EndTarget("none")
      BY <1>9, <2>3 DEF Judge
    <3> QED
      BY <1>2, <2>1, <2>3, <3>1, EndTargetKeepsInv
  <2>4. CASE result[Here] # "ok" /\ ctxDone
    <3>1. EndTarget("ctx")
      BY <1>9, <2>4 DEF Judge
    <3> QED
      BY <1>2, <2>1, <2>4, <3>1, EndTargetKeepsInv
  <2>5. CASE /\ result[Here] # "ok" /\ ~ctxDone
             /\ executed >= MaxAttempts(plan[r].count) \/ result[Here] \notin plan[r].retries
    <3>1. EndTarget(result[Here])
      BY <1>9, <2>5 DEF Judge
    <3>2. result[Here] \in Failures /\ result[Here] # "none" /\ executed > 0
      BY <2>2, <2>5, FailuresAssumption
    <3>3. result[Here] \in plan[r].retries => executed = Budget(Here)
      BY <1>4, <2>2, <2>5
    <3> QED
      BY <1>2, <2>1, <2>5, <3>1, <3>2, <3>3, EndTargetKeepsInv
  <2>6. CASE /\ result[Here] # "ok" /\ ~ctxDone
             /\ executed < MaxAttempts(plan[r].count) /\ result[Here] \in plan[r].retries
    <3>1. pc' = "attempt" /\ UNCHANGED <<r, t, executed, errs>>
      BY <1>4, <1>9, <2>6 DEF Judge
    <3> QED
      BY <1>1, <1>4, <2>1, <2>6, <3>1, SameTargetKeepsInv
  <2> QED
    BY <1>4, <2>3, <2>4, <2>5, <2>6
<1> QED
  BY <1>6, <1>7, <1>8, <1>9

LEMMA NextKeepsInv == DeliveryInv /\ [Next]_vars => DeliveryInv'
<1> SUFFICES ASSUME DeliveryInv, [Next]_vars PROVE DeliveryInv'
  OBVIOUS
<1>1. ctxDone \in BOOLEAN
  BY DEF DeliveryInv, TypeInv
<1>2. CASE CtxEnds \/ UNCHANGED vars
  <2>1. UNCHANGED <<plan, r, t, executed, errs, logVars, pc, outcome, told>>
    BY <1>2 DEF CtxEnds, vars, progVars
  <2>2. ctxDone' \in BOOLEAN
    BY <1>1, <1>2 DEF CtxEnds, vars
  <2>3. ctxDone => ctxDone'
    BY <1>2 DEF CtxEnds, vars
  <2> QED
    BY <2>1, <2>2, <2>3, SameTargetKeepsInv
<1>3. CASE Begin /\ plan # << >>
  <2>1. /\ pc = "start" /\ pc' = "attempt"
        /\ UNCHANGED <<plan, ctxDone, r, t, executed, errs, outcome, told, logVars>>
    BY <1>3 DEF Begin, Goto
  <2> QED
    BY <1>1, <1>3, <2>1, SameTargetKeepsInv
<1>4. CASE TimerFires
  <2>1. /\ pc \in Retrying /\ pc' \in Retrying
        /\ UNCHANGED <<plan, ctxDone, r, t, executed, errs, outcome, told, logVars>>
    BY <1>4 DEF TimerFires, Goto, Retrying
  <2> QED
    BY <1>1, <2>1, SameTargetKeepsInv
<1> QED
  BY <1>2, <1>3, <1>4, CallKeepsInv, SendKeepsInv, FinalKeepsInv, RetryKeepsInv
  DEF Next, Worker, Terminated

THEOREM DeliveryInvariant == Spec => []DeliveryInv
<1> QED
  BY InitDeliveryInv, NextKeepsInv, PTL DEF Spec

(***************************************************************************)
(* The properties                                                          *)
(***************************************************************************)
\* Before the context has ended no send is late; afterwards no check passes.
LateInv ==
    /\ ctxDone \in BOOLEAN
    /\ lateSends \in Nat
    /\ ~ctxDone => lateSends = 0
    /\ pc = "call" => lateSends = 0
    /\ lateSends <= 1

LEMMA LateInvariant == Spec => []LateInv
<1>1. Init => LateInv
  <2>1. Init => ctxDone \in BOOLEAN
    BY DEF Init
  <2> QED
    BY <2>1 DEF Init, LateInv
<1>2. LateInv /\ [Next]_vars => LateInv'
  <2> SUFFICES ASSUME LateInv, [Next]_vars PROVE LateInv'
    OBVIOUS
  <2>1. CASE Call
    BY <2>1 DEF Call, Goto, LateInv
  <2>2. CASE Check
    BY <2>2 DEF Check, EndTarget, logVars, LateInv
  <2>3. CASE ~Call /\ ~Check
    <3>1. lateSends' = lateSends /\ (pc' = "call" => pc = "call")
      BY <2>3 DEF Next, Worker, vars, progVars, logVars, Terminated, CtxEnds, Begin, Attempt, Goto,
         TimerFires, WaitInterrupted, EndTarget, SendReturns, SendPanics, Judge, Join, Callback,
         CallbackInPanic
    <3>2. ctxDone' = ctxDone \/ (ctxDone' = TRUE)
      BY <2>3 DEF Next, Worker, vars, Terminated, CtxEnds, Begin, Attempt,
         TimerFires, WaitInterrupted, SendReturns, SendPanics, Judge, Join, Callback,
         CallbackInPanic
    <3> QED
      BY <3>1, <3>2 DEF LateInv
  <2> QED
    BY <2>1, <2>2, <2>3
<1> QED
  BY <1>1, <1>2, PTL DEF Spec

\* No delivery takes more sends than an int can count, and the loop variables
\* stay within the plan.
THEOREM DeliveryTypeCorrect == Spec => []TypeOK
<1>1. DeliveryInv /\ LateInv => TypeOK
  <2> SUFFICES ASSUME DeliveryInv, LateInv PROVE TypeOK
    OBVIOUS
  <2>1. TypeInv /\ SentInv /\ lateSends \in Nat
    BY DEF DeliveryInv, LateInv
  <2>2. \A x \in Targets : sent[x] \in 0..MaxInt
    BY <2>1, TargetFacts, MaxIntAssumption DEF TypeInv, SentInv
  <2>3. sent \in [Targets -> 0..MaxInt]
    BY <2>1, <2>2 DEF TypeInv
  <2> QED
    BY <2>1, <2>3 DEF TypeInv, TypeOK, Loop, Retrying, Unwinding, Over
<1> QED
  BY <1>1, DeliveryInvariant, LateInvariant, PTL

\* DeliveryError tells the number of sends of its own target, and the last error.
THEOREM AttemptsAreTruthful == Spec => []AttemptsTruthful
<1>1. DeliveryInv => AttemptsTruthful
  BY DEF DeliveryInv, ErrsInv, AttemptsTruthful
<1> QED
  BY <1>1, DeliveryInvariant, PTL

\* A target sees at most Count + 1 sends, and as many if its failures are all
\* retryable and the context lives, for every Count but the largest int.
THEOREM RetriesAreExhausted == Spec => []RetriesExhausted
<1>1. DeliveryInv => RetriesExhausted
  BY TargetFacts DEF DeliveryInv, TypeInv, SentInv, ErrsInv, RetriesExhausted
<1> QED
  BY <1>1, DeliveryInvariant, PTL

\* No target is forgotten or reported twice, whatever becomes of the others.
THEOREM EveryTargetIsAccounted == Spec => []EveryTargetAccounted
<1>1. DeliveryInv => EveryTargetAccounted
  BY DEF DeliveryInv, ErrsInv, EveryTargetAccounted, Behind, Over, Dealt
<1> QED
  BY <1>1, DeliveryInvariant, PTL

\* The report of a delivery is complete and true.
THEOREM ReportsAreTrue == Spec => []ReportTruthful
BY EveryTargetIsAccounted, AttemptsAreTruthful, PTL DEF ReportTruthful

\* Unless a target panics, a nil outcome means that every target acknowledged.
THEOREM SuccessIsDelivery == Spec => []SuccessMeansDelivered
<1>1. DeliveryInv => SuccessMeansDelivered
  BY DEF DeliveryInv, OutcomeInv, SuccessMeansDelivered, Behind, Over, Dealt
<1> QED
  BY <1>1, DeliveryInvariant, PTL

\* Only a failure the policy retries leads to another send to its target.
THEOREM RetriesAreAllowed == Spec => RetryOnlyIfAllowed
<1> DEFINE Allowed ==
      \A x \in Targets : sent[x] > 0 /\ sent'[x] # sent[x] =>
          result[x] \in plan[x[1]].retries /\ \A e \in errs : e.at # x
<1>1. DeliveryInv /\ [Next]_vars => [Allowed]_vars
  <2> SUFFICES ASSUME DeliveryInv, Next PROVE Allowed
    BY DEF vars
  <2>1. CASE Call
    <3>1. pc = "call" /\ Here[1] = r /\ Current
      BY <2>1 DEF Call, Goto, Here, DeliveryInv
    <3>2. /\ sent[Here] = executed
          /\ executed = 0 \/ result[Here] \in plan[r].retries
          /\ \A e \in errs : e.at # Here
      BY <3>1 DEF Current, Loop, Retrying
    <3>3. \A x \in Targets : x # Here => sent'[x] = sent[x]
      BY <2>1 DEF Call, DeliveryInv, TypeInv
    <3> QED
      BY <3>1, <3>2, <3>3
  <2>2. CASE ~Call
    <3>1. sent' = sent
      BY <2>2 DEF Next, Worker, vars, logVars, Terminated, CtxEnds, Begin, Attempt, TimerFires,
         WaitInterrupted, Check, SendReturns, SendPanics, Judge, Join, Callback, CallbackInPanic
    <3> QED
      BY <3>1
  <2> QED
    BY <2>1, <2>2
<1>2. Spec => [][Allowed]_vars
  BY <1>1, DeliveryInvariant, PTL DEF Spec
<1> QED
  BY <1>2 DEF RetryOnlyIfAllowed

\* Once the context has ended at most one more send begins, over all targets.
THEOREM AtMostOneLateSend == Spec => []OneLateSend
<1>1. LateInv => OneLateSend
  BY DEF LateInv, OneLateSend
<1> QED
  BY <1>1, LateInvariant, PTL

\* There are as many sends as Count and the context allow, and no others.
THEOREM SendsStayBounded == Spec => []SendsAreBounded
BY RetriesAreExhausted, AtMostOneLateSend, PTL DEF SendsAreBounded

(***************************************************************************)
(* Coming to rest                                                          *)
(***************************************************************************)
\* The last target leaves no attempts behind.
CountedInv == pc \in Over => executed = 0

LEMMA NextCounted == DeliveryInv /\ CountedInv /\ [Next]_vars => CountedInv'
<1> SUFFICES ASSUME DeliveryInv, CountedInv, [Next]_vars PROVE CountedInv'
  OBVIOUS
<1>1. ASSUME NEW err, EndTarget(err) PROVE CountedInv'
  BY <1>1 DEF EndTarget, CountedInv
<1>2. CASE executed' = executed /\ (pc' \in Over => pc \in Over)
  BY <1>2 DEF CountedInv
<1>3. CASE Begin
  BY <1>3 DEF Begin, Goto, CountedInv, DeliveryInv
<1>4. CASE Attempt \/ WaitInterrupted \/ Check \/ Judge
  BY <1>1, <1>2, <1>4 DEF Attempt, WaitInterrupted, Check, Judge, Over
<1>5. CASE \/ CtxEnds \/ Call \/ Join \/ Callback \/ CallbackInPanic \/ TimerFires \/ SendPanics
           \/ Terminated \/ UNCHANGED vars
  BY <1>2, <1>5 DEF CtxEnds, Call, Join, Callback, CallbackInPanic, TimerFires, SendPanics,
     Terminated, vars, progVars, Goto, Over
<1>6. CASE SendReturns
  BY <1>6 DEF SendReturns, Goto, CountedInv, Over
<1> QED
  BY <1>3, <1>4, <1>5, <1>6 DEF Next, Worker

LEMMA CountedInvariant == Spec => [](DeliveryInv /\ CountedInv)
<1>1. Init => CountedInv
  BY DEF Init, CountedInv, Over
<1> QED
  BY <1>1, NextCounted, DeliveryInvariant, PTL DEF Spec

LEMMA StaysWithinPlan == DeliveryInv /\ CountedInv => WithinPlan
<1> SUFFICES ASSUME DeliveryInv, CountedInv, plan # << >>
             PROVE  Here \in Targets /\ executed <= Promised(plan[r].count)
  BY DEF WithinPlan
<1>1. /\ Here \in Targets /\ Here[1] = r /\ plan \in Plans /\ executed \in Nat
      /\ pc \in {"start"} \union Loop \union Over
  BY MaxIntAssumption DEF DeliveryInv, TypeInv, Here
<1>2. r \in 1..Len(plan) /\ plan[r].count \in -(MaxInt + 1)..MaxInt
  BY <1>1, TargetFacts, PlanFacts
<1>3. Budget(Here) \in Nat /\ Budget(Here) <= Promised(plan[r].count)
  <2> DEFINE count == plan[r].count
  <2>1. Budget(Here) = MaxAttempts(count)
    BY <1>1 DEF Budget
  <2>2. MaxAttempts(count) \in 1..MaxInt /\ (count < MaxInt => MaxAttempts(count) = Promised(count))
    BY <1>2, MaxAttemptsRange
  <2>3. count = MaxInt => Promised(count) = MaxInt + 1
    BY MaxIntAssumption DEF Promised
  <2>4. Promised(count) \in Int
    BY <1>2, MaxIntAssumption DEF Promised
  <2> HIDE DEF count
  <2>5. MaxAttempts(count) <= Promised(count)
    <3>1. CASE count < MaxInt
      BY <2>2, <3>1, MaxIntAssumption
    <3>2. CASE count = MaxInt
      BY <2>2, <2>3, <3>2, MaxIntAssumption
    <3>3. count < MaxInt \/ count = MaxInt
      BY <1>2, MaxIntAssumption DEF count
    <3> QED
      BY <3>1, <3>2, <3>3
  <2> QED
    BY <2>1, <2>2, <2>5, MaxIntAssumption DEF count
<1>4. executed <= Budget(Here)
  <2>1. CASE pc \in {"start"} \union Over
    BY <1>3, <2>1 DEF DeliveryInv, CountedInv
  <2>2. CASE pc \in Loop
    BY <1>1, <1>3, <2>2 DEF DeliveryInv, Current
  <2> QED
    BY <1>1, <2>1, <2>2
<1>5. Promised(plan[r].count) \in Int
  BY <1>2, MaxIntAssumption DEF Promised
<1> QED
  BY <1>1, <1>3, <1>4, <1>5

LEMMA EndTargetMovesOn ==
  ASSUME DeliveryInv, pc \in Retrying \union {"judge"}, NEW err, EndTarget(err)
  PROVE  MovesOn
<1>1. r \in Nat /\ t \in Nat
  <2>1. Here \in Targets /\ plan \in Plans /\ Here[1] = r /\ Here[2] = t
    BY DEF DeliveryInv, TypeInv, Loop, Here
  <2> QED
    BY <2>1, TargetFacts, PlanFacts
<1>2. Phase = 1
  BY DEF Phase, Retrying
<1>3. CASE pc' = "join"
  BY <1>2, <1>3 DEF Phase, MovesOn
<1>4. CASE pc' = "attempt" /\ (r' = r + 1 \/ (r' = r /\ t' = t + 1))
  BY <1>1, <1>2, <1>4 DEF Phase, MovesOn, LaterTarget
<1> QED
  BY <1>3, <1>4 DEF EndTarget

\* From one stage of an attempt to a later one.
LEMMA StageMovesOn ==
  ASSUME pc \in Retrying \union {"judge"}, pc' \in Retrying \union {"sending"},
         UNCHANGED <<r, t, executed>>, AttemptStage < AttemptStage'
  PROVE  MovesOn
<1>1. Phase = 1 /\ Phase' = 1
  BY DEF Phase, Retrying
<1> QED
  BY <1>1 DEF MovesOn, Further, Here

LEMMA StepMovesOn ==
  DeliveryInv /\ [Next]_vars => [MovesOn /\ (ctxDone => ctxDone')]_vars
<1> SUFFICES ASSUME DeliveryInv, Next, ~UNCHANGED vars PROVE MovesOn /\ (ctxDone => ctxDone')
  OBVIOUS
<1>1. CASE CtxEnds
  BY <1>1 DEF CtxEnds, MovesOn
<1>2. ctxDone => ctxDone'
  BY <1>1 DEF Next, Worker, CtxEnds, Terminated, vars, Begin, Attempt, TimerFires, WaitInterrupted,
     Check, Call, SendReturns, SendPanics, Judge, Join, Callback, CallbackInPanic
<1>3. CASE Begin \/ Join \/ Callback \/ CallbackInPanic \/ SendPanics
  BY <1>3 DEF Begin, Join, Callback, CallbackInPanic, SendPanics, Goto, MovesOn, Phase
<1>4. CASE TimerFires \/ Call
  BY <1>4, StageMovesOn DEF TimerFires, Call, Goto, Retrying, AttemptStage
<1>5. CASE WaitInterrupted
  BY <1>5, EndTargetMovesOn DEF WaitInterrupted, Retrying
<1>6. CASE Attempt
  BY <1>6, EndTargetMovesOn, StageMovesOn DEF Attempt, Retrying, AttemptStage
<1>7. CASE Check
  BY <1>7, EndTargetMovesOn, StageMovesOn DEF Check, Retrying, AttemptStage
<1>8. CASE Judge
  BY <1>8, EndTargetMovesOn, StageMovesOn DEF Judge, Retrying, AttemptStage
<1>9. CASE SendReturns
  <2>1. /\ pc = "sending" /\ pc' = "judge" /\ executed' = executed + 1 /\ Here' = Here
        /\ executed \in Nat
    BY <1>9, MaxIntAssumption DEF SendReturns, Goto, Here, DeliveryInv, TypeInv
  <2>2. Phase = 1 /\ Phase' = 1
    BY <2>1 DEF Phase
  <2> QED
    BY <1>2, <2>1, <2>2 DEF MovesOn, Further
<1> QED
  BY <1>1, <1>2, <1>3, <1>4, <1>5, <1>6, <1>7, <1>8, <1>9 DEF Next, Worker, Terminated

\* Whatever the targets, the timers and the context do, no delivery repeats itself: every
\* step brings it nearer to the end of the plan, and it never leaves the plan or the
\* attempts that Count promises, for every plan and every Count.
THEOREM DeliveryMakesProgress == Spec => DeliveryMovesOn
<1>1. Spec => []WithinPlan
  BY CountedInvariant, StaysWithinPlan, PTL
<1>2. Spec => [][MovesOn /\ (ctxDone => ctxDone')]_vars
  BY DeliveryInvariant, StepMovesOn, PTL DEF Spec
<1> QED
  BY <1>1, <1>2 DEF DeliveryMovesOn

(***************************************************************************)
(* Refinement of WorkerDelivery                                            *)
(***************************************************************************)
\* Joining without a send means that the context had ended for every target.
LEMMA NothingSentMeansCanceled ==
  ASSUME DeliveryInv, Join, \A x \in Targets : ~(sent[x] > 0)
  PROVE  ctxDone /\ outcome' = "canceled" /\ plan # << >>
<1>1. pc = "join" /\ TypeInv
  BY DEF Join, Goto, DeliveryInv
<1>2. plan # << >> /\ Here \in Targets
  BY <1>1 DEF TypeInv
<1>3. sent[Here] = 0
  BY <1>1, <1>2 DEF TypeInv
<1>4. Dealt(Here)
  BY <1>1, <1>2 DEF DeliveryInv, Behind, Over
<1>5. ctxDone /\ result[Here] = "none"
  BY <1>3, <1>4 DEF Dealt
<1>6. PICK e \in errs : e.at = Here
  BY <1>4, <1>5 DEF Dealt
<1>7. e.err \in Failures \union {"ctx"}
  BY <1>1, <1>6 DEF TypeInv, Errors
<1>8. e.err = "ctx"
  BY <1>5, <1>6, <1>7, FailuresAssumption DEF DeliveryInv, ErrsInv
<1>9. outcome' = "canceled"
  BY <1>6, <1>8 DEF Join
<1> QED
  BY <1>2, <1>5, <1>9

LEMMA StepRefines ==
  ASSUME DeliveryInv, [Next]_vars
  PROVE  [Assumed!Next]_(Assumed!vars)
<1> DEFINE e == plan = << >>
           Same == At' = At /\ Verdict' = Verdict
<1> SUFFICES \/ Same /\ ctxDone' = ctxDone /\ e' = e
             \/ Same /\ ~ctxDone /\ ctxDone' = TRUE /\ e' = e
             \/ /\ ctxDone' = ctxDone /\ e' = e /\ At' = "complete"
                /\ \/ At = "deliver" /\ e /\ Verdict' = "noReceivers"
                   \/ At = "deliver" /\ ~e /\ ctxDone /\ Verdict' = "canceled"
                   \/ At = "sending" /\ Verdict' \in {"delivered", "failed"}
                   \/ At = "sending" /\ ctxDone /\ Verdict' = "canceled"
             \/ /\ ctxDone' = ctxDone /\ e' = e
                /\ At = "deliver" /\ At' = "sending" /\ ~e /\ ~ctxDone /\ Verdict' = Verdict
  BY DEF Assumed!Next, Assumed!vars, Assumed!End, Assumed!Deliver, Assumed!Decide,
     Assumed!Delivered, Assumed!Interrupted, At, Verdict
<1>1. TypeInv /\ OutcomeInv
  BY DEF DeliveryInv
<1>2. plan' = plan /\ Targets' = Targets
  BY DEF Next, Worker, vars, Terminated, CtxEnds, Begin, Attempt, TimerFires, WaitInterrupted,
     Check, Call, SendReturns, SendPanics, Judge, Join, Callback, CallbackInPanic, Targets
<1>3. CASE CtxEnds
  <2>1. sent' = sent /\ pc' = pc /\ outcome' = outcome
    BY <1>3 DEF CtxEnds, progVars, logVars
  <2>2. Same
    BY <1>2, <2>1 DEF At, Verdict, AtCallback
  <2> QED
    BY <1>2, <1>3, <2>2 DEF CtxEnds
<1>4. CASE Begin /\ plan = << >>
  <2>1. pc = "start" /\ pc' = "callback" /\ outcome' = "noReceivers" /\ ctxDone' = ctxDone
    BY <1>4 DEF Begin, Goto
  <2>2. Targets = {}
    BY <1>1, <1>4, TargetFacts DEF TypeInv
  <2>3. At = "deliver" /\ At' = "complete" /\ Verdict' = "noReceivers"
    BY <2>1, <2>2 DEF At, Verdict, AtCallback
  <2> QED
    BY <1>2, <1>4, <2>1, <2>3
<1>5. CASE Check /\ ~ctxDone
  <2>1. pc = "check" /\ pc' = "call" /\ sent' = sent /\ outcome' = outcome /\ ctxDone' = ctxDone
    BY <1>5 DEF Check, logVars
  <2>2. plan # << >>
    BY <1>1, <2>1 DEF TypeInv, Loop, Retrying
  <2>3. At' = "sending" /\ At \in {"sending", "deliver"} /\ Verdict' = Verdict
    BY <2>1 DEF At, Verdict, AtCallback
  <2> QED
    BY <1>2, <1>5, <2>1, <2>2, <2>3
<1>6. CASE Call
  <2>1. pc = "call" /\ pc' = "sending" /\ ctxDone' = ctxDone /\ outcome' = outcome
    BY <1>6 DEF Call, Goto
  <2>2. Here \in Targets
    BY <1>1, <2>1 DEF TypeInv, Loop, Retrying
  <2>3. sent'[Here] > 0
    BY <1>1, <1>6, <2>2 DEF Call, TypeInv
  <2>4. Same
    BY <1>2, <2>1, <2>2, <2>3 DEF At, Verdict, AtCallback
  <2> QED
    BY <1>2, <2>1, <2>4
<1>7. CASE Join
  <2>1. /\ pc = "join" /\ pc' = "callback" /\ ctxDone' = ctxDone /\ sent' = sent
        /\ outcome' \in {"nil", "failed", "canceled"}
    BY <1>7 DEF Join, Goto, logVars
  <2>2. outcome' = "canceled" => ctxDone
    BY <1>7 DEF Join, DeliveryInv, ErrsInv
  <2>3. At' = "complete" /\ Verdict' = IF outcome' = "nil" THEN "delivered" ELSE outcome'
    BY <2>1 DEF At, Verdict, AtCallback
  <2>4. CASE \E x \in Targets : sent[x] > 0
    <3>1. At = "sending"
      BY <2>1, <2>4 DEF At, AtCallback
    <3> QED
      BY <1>2, <2>1, <2>2, <2>3, <3>1
  <2>5. CASE \A x \in Targets : ~(sent[x] > 0)
    <3>1. At = "deliver"
      BY <2>1, <2>5 DEF At, AtCallback
    <3>2. ctxDone /\ outcome' = "canceled" /\ plan # << >>
      BY <1>7, <2>5, NothingSentMeansCanceled
    <3> QED
      BY <1>2, <2>1, <2>3, <3>1, <3>2
  <2> QED
    BY <2>4, <2>5
<1>8. CASE CallbackInPanic
  <2>1. /\ pc = "panicking" /\ pc' = "crashed" /\ ctxDone' = ctxDone /\ sent' = sent
        /\ outcome' = outcome
    BY <1>8 DEF CallbackInPanic, Goto, logVars
  <2>2. Here \in Targets /\ sent[Here] = executed + 1 /\ executed \in 0..MaxInt
    BY <1>1, <2>1 DEF TypeInv, DeliveryInv, Current, Loop, Unwinding
  <2>3. At = "sending"
    BY <2>1, <2>2, MaxIntAssumption DEF At, AtCallback
  <2>4. outcome = "nil"
    BY <1>1, <2>1 DEF OutcomeInv
  <2>5. At' = "complete" /\ Verdict' = "delivered"
    BY <2>1, <2>4 DEF At, Verdict, AtCallback
  <2> QED
    BY <1>2, <2>1, <2>3, <2>5
<1>9. CASE /\ ~CtxEnds /\ ~Call /\ ~Join /\ ~CallbackInPanic
           /\ ~(Begin /\ plan = << >>) /\ ~(Check /\ ~ctxDone)
  <2>1. sent' = sent /\ outcome' = outcome /\ ctxDone' = ctxDone
    BY <1>9 DEF Next, Worker, vars, progVars, logVars, Terminated, Begin, Attempt, TimerFires,
       WaitInterrupted, Check, SendReturns, SendPanics, Judge, Callback
  <2>2. (pc' = "call" <=> pc = "call") /\ (AtCallback' <=> AtCallback)
    BY <1>9 DEF Next, Worker, vars, progVars, Terminated, Begin, Attempt, TimerFires, Goto,
       WaitInterrupted, Check, SendReturns, SendPanics, Judge, Callback, EndTarget, AtCallback
  <2>3. Same
    BY <1>2, <2>1, <2>2 DEF At, Verdict
  <2> QED
    BY <1>2, <2>1, <2>3
<1> QED
  BY <1>3, <1>4, <1>5, <1>6, <1>7, <1>8, <1>9

\* Every delivery, whatever the plan and whatever the targets do, is one of those
\* Manager reckons with.
THEOREM DeliveryRefinesWorker == Spec => ImplementsWorker
<1>1. Init => Assumed!Init
  <2> SUFFICES ASSUME Init PROVE Assumed!Init
    OBVIOUS
  <2>1. pc = "start" /\ ctxDone = FALSE /\ \A x \in Targets : ~(sent[x] > 0)
    BY DEF Init
  <2> QED
    BY <2>1 DEF Assumed!Init, At, Verdict, AtCallback
<1>2. DeliveryInv /\ [Next]_vars => [Assumed!Next]_(Assumed!vars)
  BY StepRefines
<1> QED
  BY <1>1, <1>2, DeliveryInvariant, PTL DEF Spec, Assumed!Spec, ImplementsWorker

(***************************************************************************)
(* Deliveries whose targets may accept what they call a failure            *)
(***************************************************************************)

\* A success is the word of the other side about the last attempt.
AckInv == \A x \in Targets : result[x] = "ok" => sent[x] > 0 /\ <<x, sent[x]>> \in accepted

\* A second attempt has a reason.
RetryInv == \A x \in Targets : sent[x] > 1 => plan[x[1]].retries # {}

-----------------------------------------------------------------------------
LEMMA StepIsDelivery == [RNext]_<<vars, accepted>> => [Next]_vars
BY DEF RNext, Accept, Answer, Proceed, Next

LEMMA IsDelivery == RSpec => Spec
<1>1. RInit => Init BY DEF RInit
<1> QED BY <1>1, StepIsDelivery, PTL DEF RSpec, Spec

\* Steps by what they do to the counts and the results.
LEMMA StepCases ==
    ASSUME DeliveryInv, [Next]_vars
    PROVE  /\ plan' = plan /\ Targets' = Targets
           /\ Call \/ SendReturns \/ SendPanics \/ UNCHANGED <<sent, result>>
<1>1. UNCHANGED plan
  BY DEF Next, Worker, vars, Terminated, CtxEnds, Begin, Attempt, TimerFires, WaitInterrupted,
     Check, Call, SendReturns, SendPanics, Judge, Join, Callback, CallbackInPanic
<1>2. Targets' = Targets BY <1>1 DEF Targets
<1>3. Call \/ SendReturns \/ SendPanics \/ UNCHANGED <<sent, result>>
  BY DEF Next, Worker, vars, logVars, Terminated, CtxEnds, Begin, Attempt, TimerFires,
     WaitInterrupted, Check, Judge, Join, Callback, CallbackInPanic
<1> QED BY <1>1, <1>2, <1>3

LEMMA AckKept == DeliveryInv /\ AckInv /\ [RNext]_<<vars, accepted>> => AckInv'
<1> SUFFICES ASSUME DeliveryInv, AckInv, [RNext]_<<vars, accepted>>, NEW x \in Targets',
                    result'[x] = "ok"
             PROVE  sent'[x] > 0 /\ <<x, sent'[x]>> \in accepted'
  BY DEF AckInv
<1>1. [Next]_vars BY StepIsDelivery
<1>2. plan' = plan /\ x \in Targets BY <1>1, StepCases
<1>3. sent \in [Targets -> Nat] /\ result \in [Targets -> Results] /\ Current
  BY DEF DeliveryInv, TypeInv
<1>4. accepted \subseteq accepted' BY DEF RNext, Accept, Answer, Proceed
<1>5. CASE UNCHANGED <<sent, result>> BY <1>2, <1>4, <1>5 DEF AckInv
<1>6. CASE Call
  <2>1. pc = "call" /\ result' = result /\ sent' = [sent EXCEPT ![Here] = @ + 1]
    BY <1>6 DEF Call, Goto
  <2>2. result[Here] # "ok"
    <3>1. result[Here] = "none" \/ (Here[1] = r /\ result[Here] \in plan[Here[1]].retries)
      BY <1>3, <2>1 DEF Current, Loop, Retrying, Here
    <3>2. Here \in Targets /\ plan \in Plans
      BY <2>1 DEF DeliveryInv, TypeInv, Loop, Retrying
    <3>3. plan[Here[1]].retries \subseteq Failures
      BY <3>2, TargetFacts, PlanFacts
    <3> QED BY <3>1, <3>3, FailuresAssumption
  <2> QED BY <1>2, <1>3, <1>4, <2>1, <2>2 DEF AckInv
<1>7. CASE SendReturns \/ SendPanics
  <2>1. sent' = sent /\ pc = "sending" /\ (\A y \in Targets : y # Here => result'[y] = result[y])
    BY <1>3, <1>7 DEF SendReturns, SendPanics, Goto
  <2>2. CASE x # Here BY <1>2, <1>4, <2>1, <2>2 DEF AckInv
  <2>3. CASE x = Here
    <3>1. sent[Here] = executed + 1 /\ executed \in Nat
      BY <1>3, <2>1 DEF Current, Loop, DeliveryInv, TypeInv
    <3>2. SendReturns /\ ~SendPanics
      BY <1>2, <1>3, <1>7, <2>3 DEF SendPanics
    <3>3. Answer
      BY <2>1, <3>2 DEF RNext, Accept, Proceed, vars, progVars, SendReturns, Goto, CtxEnds, Worker, Begin,
         Attempt, TimerFires, WaitInterrupted, Check, Call, Judge, Join, Callback,
         CallbackInPanic, Terminated, Ended
    <3>4. <<Here, sent[Here]>> \in accepted BY <2>3, <3>3 DEF Answer
    <3> QED BY <1>4, <2>1, <2>3, <3>1, <3>4
  <2> QED BY <2>2, <2>3
<1> QED BY <1>1, <1>5, <1>6, <1>7, StepCases

LEMMA RetryKept == DeliveryInv /\ RetryInv /\ [RNext]_<<vars, accepted>> => RetryInv'
<1> SUFFICES ASSUME DeliveryInv, RetryInv, [RNext]_<<vars, accepted>>, NEW x \in Targets',
                    sent'[x] > 1
             PROVE  plan'[x[1]].retries # {}
  BY DEF RetryInv
<1>1. [Next]_vars BY StepIsDelivery
<1>2. plan' = plan /\ x \in Targets BY <1>1, StepCases
<1>3. sent \in [Targets -> Nat] /\ Current BY DEF DeliveryInv, TypeInv
<1>4. CASE sent'[x] = sent[x] BY <1>2, <1>4 DEF RetryInv
<1>5. CASE sent'[x] # sent[x]
  <2>1. Call BY <1>1, <1>5, StepCases DEF SendReturns, SendPanics
  <2>2. pc = "call" /\ sent' = [sent EXCEPT ![Here] = @ + 1] BY <2>1 DEF Call, Goto
  <2>3. x = Here /\ sent[Here] > 0 BY <1>2, <1>3, <1>5, <2>2
  <2>4. sent[Here] = executed /\ (executed = 0 \/ result[Here] \in plan[r].retries)
    BY <1>3, <2>2 DEF Current, Loop, Retrying
  <2> QED BY <1>2, <2>3, <2>4 DEF Here
<1> QED BY <1>4, <1>5

LEMMA RedeliveryInvariant == RSpec => [](DeliveryInv /\ AckInv /\ RetryInv)
<1>1. RInit => AckInv /\ RetryInv BY DEF RInit, Init, AckInv, RetryInv
<1>2. RSpec => []DeliveryInv BY IsDelivery, DeliveryInvariant, PTL
<1> QED BY <1>1, <1>2, AckKept, RetryKept, PTL DEF RSpec

-----------------------------------------------------------------------------
\* A completion without error means that the other side of every target of every
\* receiver has the notification, for every plan and every loss of answers.
THEOREM NilIsReached == RSpec => []NilMeansReached
<1>1. DeliveryInv /\ AckInv => NilMeansReached
  <2> SUFFICES ASSUME DeliveryInv, AckInv, pc = "done", told = "nil", NEW x \in Targets
               PROVE  Reached(x)
    BY DEF NilMeansReached
  <2>1. result[x] = "ok"
    BY DEF DeliveryInv, OutcomeInv, Behind, Over, Dealt
  <2>2. sent[x] \in Nat BY DEF DeliveryInv, TypeInv
  <2>3. sent[x] \in 1..sent[x] /\ <<x, sent[x]>> \in accepted BY <2>1, <2>2 DEF AckInv
  <2> QED BY <2>3 DEF Reached
<1> QED BY <1>1, RedeliveryInvariant, PTL

\* Without retries, by count or by policy, no notification is accepted twice by
\* one target, for every plan.
THEOREM OnlyRetriesDuplicate == RSpec => []DuplicatesNeedRetries
<1>1. DeliveryInv /\ RetryInv => DuplicatesNeedRetries
  <2> SUFFICES ASSUME DeliveryInv, RetryInv, NEW x \in Targets,
                      plan[x[1]].count \in -(MaxInt + 1)..0 \/ plan[x[1]].retries = {}
               PROVE  sent[x] \in 0..1
    BY DEF DuplicatesNeedRetries
  <2>1. plan \in Plans /\ sent[x] \in Nat BY DEF DeliveryInv, TypeInv
  <2>2. CASE plan[x[1]].retries = {} BY <2>1, <2>2 DEF RetryInv
  <2>3. CASE plan[x[1]].count \in -(MaxInt + 1)..0
    <3>1. sent[x] <= Budget(x) BY DEF DeliveryInv, SentInv
    <3>2. plan[x[1]].count < MaxInt /\ plan[x[1]].count \in -(MaxInt + 1)..MaxInt
      BY <2>3, MaxIntAssumption
    <3>3. MaxAttempts(plan[x[1]].count) = 1
      BY <2>3, <3>2, MaxAttemptsRange DEF Promised
    <3> QED BY <2>1, <3>1, <3>3 DEF Budget
  <2> QED BY <2>2, <2>3
<1> QED BY <1>1, RedeliveryInvariant, PTL

-----------------------------------------------------------------------------
(* Each target keeps the promise of an attempt                             *)

LEMMA FinishedIsBehind == DeliveryInv => \A x \in Targets : Finished(x) <=> Behind(x)
<1> SUFFICES ASSUME DeliveryInv, NEW x \in Targets PROVE Finished(x) <=> Behind(x)
  OBVIOUS
<1>1. pc \in {"start"} \union Loop \union Over BY DEF DeliveryInv, TypeInv
<1>2. pc \in Loop => Here \in Targets BY DEF DeliveryInv, TypeInv
<1>3. x[1] < r \/ (x[1] = r /\ x[2] < t) <=> Earlier(x, Here) BY DEF Earlier, Here
<1> QED BY <1>1, <1>3 DEF Finished, Behind, Loop, Over, Retrying, Unwinding

\* A step either returns from withRetry for the target at hand, or it leaves the
\* errors and the finished targets as they are.
LEMMA StepEnds ==
    ASSUME DeliveryInv, [Next]_vars
    PROVE  \/ /\ pc \in Retrying \union {"judge"}
              /\ \E err : EndTarget(err)
              /\ UNCHANGED <<sent, result>>
           \/ errs' = errs /\ \A x \in Targets : Behind(x)' <=> Behind(x)
<1>1. plan' = plan /\ TypeInv BY StepCases DEF DeliveryInv
<1>2. CASE (\E err : EndTarget(err)) /\ (Attempt \/ WaitInterrupted \/ Check \/ Judge)
  BY <1>2 DEF Attempt, WaitInterrupted, Check, Judge, Retrying, logVars
<1>3. CASE Begin /\ plan # << >>
  <2>1. pc = "start" /\ pc' = "attempt" /\ UNCHANGED <<r, t, errs>> BY <1>3 DEF Begin, Goto
  <2>2. r = 1 /\ t = 1 BY <2>1 DEF DeliveryInv
  <2>3. ASSUME NEW x \in Targets PROVE ~Behind(x)' /\ ~Behind(x)
    <3>1. x[1] >= 1 /\ x[2] >= 1 /\ x[1] \in Nat /\ x[2] \in Nat
      BY <1>1, TargetFacts, PlanFacts DEF TypeInv
    <3> QED BY <2>1, <2>2, <3>1 DEF Behind, Earlier, Here, Loop, Over, Retrying, Unwinding
  <2> QED BY <2>1, <2>3
<1>4. CASE Begin /\ plan = << >>
  <2>1. Targets = {} BY <1>4 DEF Targets
  <2> QED BY <1>4, <2>1 DEF Begin
<1>5. CASE /\ UNCHANGED <<r, t, errs>>
           /\ \/ pc \in Loop /\ pc' \in Loop
              \/ pc \in Over /\ pc' \in Over
              \/ pc' = pc
  BY <1>5 DEF Behind, Earlier, Here, Loop, Over, Retrying, Unwinding
<1>6. CASE Attempt \/ WaitInterrupted \/ Check \/ Judge
  <2>1. (\E err : EndTarget(err)) \/ (UNCHANGED <<r, t, errs>> /\ pc \in Loop /\ pc' \in Loop)
    <3>1. CASE Judge
      <4>1. CASE result[Here] = "ok" BY <3>1, <4>1 DEF Judge
      <4>2. CASE result[Here] # "ok" /\ ctxDone BY <3>1, <4>2 DEF Judge
      <4>3. CASE result[Here] # "ok" /\ ~ctxDone
        <5>1. EndTarget(result[Here]) \/ (pc' = "attempt" /\ UNCHANGED <<r, t, executed, errs>>)
          BY <3>1, <4>3 DEF Judge
        <5> QED BY <3>1, <5>1 DEF Judge, Loop, Retrying
      <4> QED BY <4>1, <4>2, <4>3
    <3>2. CASE Attempt \/ WaitInterrupted \/ Check
      BY <3>2 DEF Attempt, WaitInterrupted, Check, Loop, Retrying
    <3> QED BY <1>6, <3>1, <3>2
  <2> QED BY <1>2, <1>5, <1>6, <2>1
<1>7. CASE TimerFires \/ Call \/ SendReturns \/ SendPanics \/ CallbackInPanic
  BY <1>5, <1>7 DEF TimerFires, Call, SendReturns, SendPanics, CallbackInPanic, Goto, Loop, Retrying, Unwinding
<1>8. CASE CtxEnds \/ Join \/ Callback \/ UNCHANGED vars
  BY <1>5, <1>8 DEF CtxEnds, Join, Callback, vars, progVars, Goto, Over
<1> QED
  BY <1>3, <1>4, <1>6, <1>7, <1>8 DEF Next, Worker, Terminated

\* What withRetry has said of a target stays.
LEMMA FinishedStays ==
    ASSUME DeliveryInv, [Next]_vars, NEW x \in Targets, Behind(x)
    PROVE  Behind(x)' /\ ErrsOf(x)' = ErrsOf(x)
<1>1. CASE errs' = errs /\ (Behind(x)' <=> Behind(x)) BY <1>1 DEF ErrsOf
<1>2. CASE pc \in Retrying \union {"judge"} /\ \E err : EndTarget(err)
  <2>1. plan \in Plans /\ pc \in Loop /\ Here \in Targets /\ plan' = plan
    BY <1>2, StepCases DEF DeliveryInv, TypeInv, Loop
  <2>2. PICK err : EndTarget(err) BY <1>2
  <2>3. Earlier(x, Here) BY <1>2 DEF Behind, Over, Retrying
  <2>4. x # Here BY <2>1, <2>3, EarlierIsOrder
  <2>5. ErrsOf(x)' = ErrsOf(x)
    <3>1. errs' = errs \/ errs' = errs \union {[at |-> Here, attempts |-> executed, err |-> err]}
      BY <2>2 DEF EndTarget
    <3> QED BY <2>4, <3>1 DEF ErrsOf
  <2>6. (pc' = "attempt" /\ Earlier(x, Here')) \/ pc' = "join"
    BY <2>1, <2>2, <2>3, NextTarget
  <2>7. Earlier(x, Here') <=> Earlier(x, Here)' BY DEF Earlier
  <2> QED BY <2>5, <2>6, <2>7 DEF Behind, Loop, Over, Retrying
<1> QED BY <1>1, <1>2, StepEnds

LEMMA OutcomeFacts ==
    DeliveryInv /\ AckInv => \A x \in Targets :
        /\ Outcome(x) = "none" <=> ~Behind(x)
        /\ Outcome(x) \in {"none", "ok", "transport", "permanent", "unclassified"}
        /\ Outcome(x) = "ok" => Reached(x)
<1> SUFFICES ASSUME DeliveryInv, AckInv, NEW x \in Targets
             PROVE  /\ Outcome(x) = "none" <=> ~Behind(x)
                    /\ Outcome(x) \in {"none", "ok", "transport", "permanent", "unclassified"}
                    /\ Outcome(x) = "ok" => Reached(x)
  OBVIOUS
<1>1. Finished(x) <=> Behind(x) BY FinishedIsBehind
<1>2. Behind(x) => Dealt(x) BY DEF DeliveryInv
<1>3. Dealt(x) /\ ~(\E e \in errs : e.at = x) => Reached(x)
  <2>1. sent[x] \in Nat BY DEF DeliveryInv, TypeInv
  <2> QED BY <2>1 DEF Dealt, AckInv, Reached
<1>4. Outcome(x) = "ok" => Finished(x) /\ ~(\E e \in errs : e.at = x) BY DEF Outcome, ErrsOf
<1> QED BY <1>1, <1>2, <1>3, <1>4 DEF Outcome

\* The same facts after a step.
LEMMA LaterFacts ==
    DeliveryInv' /\ AckInv' => \A x \in Targets' :
        /\ Finished(x)' <=> Behind(x)'
        /\ Outcome(x)' \in {"none", "ok", "transport", "permanent", "unclassified"}
        /\ Outcome(x)' = "ok" => Reached(x)'
<1>1. (DeliveryInv => \A x \in Targets : Finished(x) <=> Behind(x))'
  BY FinishedIsBehind, PTL
<1>2. (DeliveryInv /\ AckInv => \A x \in Targets :
        /\ Outcome(x) = "none" <=> ~Behind(x)
        /\ Outcome(x) \in {"none", "ok", "transport", "permanent", "unclassified"}
        /\ Outcome(x) = "ok" => Reached(x))'
  BY OutcomeFacts, PTL
<1> QED BY <1>1, <1>2

\* Every step is, for every target, one of an attempt.
LEMMA StepKeepsPromise ==
    ASSUME DeliveryInv, AckInv, [RNext]_<<vars, accepted>>,
           DeliveryInv', AckInv', NEW x \in Targets
    PROVE  [Whole(x)!Next]_(Whole(x)!vars)
<1>1. [Next]_vars BY StepIsDelivery
<1>2. plan' = plan /\ x \in Targets' BY <1>1, StepCases
<1>3. sent \in [Targets -> Nat] BY DEF DeliveryInv, TypeInv
<1>4. CASE Outcome(x)' = Outcome(x)
  <2>1. Reached(x) => Reached(x)'
    <3>1. accepted \subseteq accepted' BY DEF RNext, Accept, Answer, Proceed
    <3>2. sent[x] \in Nat /\ sent'[x] \in {sent[x], sent[x] + 1}
      <4>1. UNCHANGED sent \/ sent' = [sent EXCEPT ![Here] = @ + 1]
        BY <1>1, StepCases DEF Call, SendReturns, SendPanics
      <4> QED BY <1>3, <4>1
    <3> QED BY <3>1, <3>2 DEF Reached
  <2>2. CASE Reached(x)' = Reached(x) BY <1>4, <2>2 DEF Whole!vars
  <2>3. CASE Reached(x) = FALSE /\ Reached(x)' = TRUE
    BY <1>4, <2>3 DEF Whole!Next, Whole!Accept
  <2> QED BY <2>1, <2>2, <2>3 DEF Reached
<1>5. CASE Outcome(x)' # Outcome(x)
  <2>1. /\ Outcome(x)' \in {"none", "ok", "transport", "permanent", "unclassified"}
        /\ Outcome(x)' = "ok" => Reached(x)'
    BY <1>2, LaterFacts
  <2>2. ~Behind(x)
    <3> SUFFICES ASSUME Behind(x) PROVE Outcome(x)' = Outcome(x) BY <1>5
    <3>1. Behind(x)' /\ ErrsOf(x)' = ErrsOf(x) BY <1>1, FinishedStays
    <3>2. Finished(x) /\ Finished(x)' BY <1>2, <3>1, FinishedIsBehind, LaterFacts
    <3> QED BY <3>1, <3>2 DEF Outcome
  <2>3. Outcome(x) = "none" BY <2>2, OutcomeFacts
  <2>4. UNCHANGED <<sent, accepted>>
    <3>1. CASE Call \/ SendReturns \/ SendPanics
      <4>1. UNCHANGED <<r, t, errs>> /\ pc \in Loop /\ pc' \in Loop
        BY <3>1 DEF Call, SendReturns, SendPanics, Goto, Loop, Retrying, Unwinding
      <4>2. Finished(x)' <=> Finished(x)
        BY <4>1 DEF Finished, Loop, Retrying, Unwinding
      <4> QED BY <1>5, <4>1, <4>2 DEF Outcome, ErrsOf
    <3>2. CASE UNCHANGED <<sent, result>> /\ ~SendReturns
      <4>1. CASE UNCHANGED vars
        BY <1>5, <4>1 DEF Outcome, Finished, ErrsOf, vars, progVars
      <4>2. CASE ~UNCHANGED vars
        <5>1. Proceed BY <3>2, <4>2 DEF RNext, Answer, Accept, vars
        <5> QED BY <3>2, <5>1 DEF Proceed
      <4> QED BY <4>1, <4>2
    <3> QED BY <1>1, <3>1, <3>2, StepCases
  <2>5. Reached(x)' = Reached(x) BY <2>4 DEF Reached
  <2> QED BY <1>5, <2>1, <2>3, <2>5 DEF Whole!Next, Whole!Return, Whole!Verdicts
<1> QED BY <1>4, <1>5

\* Retries make an attempt out of attempts: for every target of every plan,
\* withRetry returns once, and with success only if the other side has accepted.
THEOREM RetriesKeepPromise == RSpec => TargetsKeepPromise
<1> DEFINE Kept == \A x \in Targets : [Whole(x)!Next]_(Whole(x)!vars)
<1>1. RInit => \A x \in Targets : Whole(x)!Init
  <2> SUFFICES ASSUME RInit, NEW x \in Targets PROVE Whole(x)!Init OBVIOUS
  <2>1. r = 1 /\ t = 1 /\ pc = "start" /\ accepted = {} BY DEF RInit, Init
  <2> QED BY <2>1 DEF Whole!Init, Outcome, Finished, Reached
<1>2. /\ [RNext]_<<vars, accepted>>
      /\ DeliveryInv /\ AckInv /\ DeliveryInv' /\ AckInv'
      => [Kept]_<<vars, accepted>>
  <2> SUFFICES ASSUME [RNext]_<<vars, accepted>>, DeliveryInv, AckInv, DeliveryInv', AckInv'
               PROVE  Kept
    OBVIOUS
  <2> QED BY StepKeepsPromise
<1>3. RSpec => [][Kept]_<<vars, accepted>>
  BY <1>2, RedeliveryInvariant, PTL DEF RSpec
<1>4. RSpec => RInit BY DEF RSpec
<1> QED BY <1>1, <1>3, <1>4 DEF TargetsKeepPromise
=============================================================================
