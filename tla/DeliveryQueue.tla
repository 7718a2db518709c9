--------------------------- MODULE DeliveryQueue ---------------------------
(***************************************************************************)
(* What notify.Manager promises to the application, without goroutines,    *)
(* channels, locks or program counters: a bounded first-in first-out queue *)
(* whose entries are each accounted for exactly once.  Sources of the      *)
(* promise: the doc comments of manager.go and docs/content/manager.md.    *)
(***************************************************************************)
EXTENDS Naturals, Sequences, FiniteSets

CONSTANTS
    Calls,       \* the notifications offered to the manager
    MaxQueued,   \* WithQueueCapacity: queued, excluding active deliveries
    MaxActive    \* WithWorkers: notifications processed concurrently

VARIABLES
    phase,       \* "open" to new notifications, "closed", then "done"
    running,     \* Start has succeeded
    aborted,     \* Start's context ended, or a Shutdown deadline passed
    queue,       \* admitted and not yet handed to a worker, oldest first
    active,      \* handed to a worker
    result       \* what the application was told of each notification

vars == <<phase, running, aborted, queue, active, result>>

Settled == {"delivered", "failed", "noReceivers"}
Results == Settled \union {"none", "refused", "canceled", "managerStopped"}

Admitted == {queue[i] : i \in 1..Len(queue)} \union active
Tell(c, r) == result' = [result EXCEPT ![c] = r]

Init ==
    /\ phase = "open" /\ running = FALSE /\ aborted = FALSE
    /\ queue = << >> /\ active = {}
    /\ result = [c \in Calls |-> "none"]

\* Delivery may begin with a context that has ended already.
Start ==
    /\ phase = "open" /\ ~running
    /\ running' = TRUE
    /\ aborted' \in {aborted, TRUE}
    /\ UNCHANGED <<phase, queue, active, result>>

Admit(c) ==
    /\ phase = "open"
    /\ result[c] = "none" /\ c \notin Admitted
    /\ Len(queue) < MaxQueued
    /\ queue' = Append(queue, c)
    /\ UNCHANGED <<phase, running, aborted, active, result>>

Refuse(c) ==
    /\ result[c] = "none" /\ c \notin Admitted
    /\ Tell(c, "refused")
    /\ UNCHANGED <<phase, running, aborted, queue, active>>

\* Workers take the oldest entry, whatever the phase.
Dispatch ==
    /\ running
    /\ queue # << >>
    /\ Cardinality(active) < MaxActive
    /\ active' = active \union {Head(queue)}
    /\ queue' = Tail(queue)
    /\ UNCHANGED <<phase, running, aborted, result>>

\* The completion callback begins.  Only an abort cancels a delivery.
Complete(c) ==
    /\ c \in active
    /\ result[c] = "none"
    /\ \/ \E r \in Settled : Tell(c, r)
       \/ aborted /\ Tell(c, "canceled")
    /\ UNCHANGED <<phase, running, aborted, queue, active>>

\* The completion callback returns.
Release(c) ==
    /\ c \in active
    /\ result[c] # "none"
    /\ active' = active \ {c}
    /\ UNCHANGED <<phase, running, aborted, queue, result>>

\* Queued work is discarded only once nothing is active any more, and only
\* if there was an abort or nothing ever ran: a graceful shutdown drains.
Discard ==
    /\ phase = "closed"
    /\ aborted \/ ~running
    /\ active = {} /\ queue # << >>
    /\ Tell(Head(queue), "managerStopped")
    /\ queue' = Tail(queue)
    /\ UNCHANGED <<phase, running, aborted, active>>

Abort ==
    /\ aborted' = TRUE
    /\ UNCHANGED <<phase, running, queue, active, result>>

Close ==
    /\ phase = "open"
    /\ phase' = "closed"
    /\ UNCHANGED <<running, aborted, queue, active, result>>

\* What Wait waits for.
Finish ==
    /\ phase = "closed"
    /\ queue = << >> /\ active = {}
    /\ phase' = "done"
    /\ UNCHANGED <<running, aborted, queue, active, result>>

Next ==
    \/ \E c \in Calls : Admit(c) \/ Refuse(c) \/ Complete(c) \/ Release(c)
    \/ Start \/ Dispatch \/ Discard \/ Abort \/ Close \/ Finish

Spec == Init /\ [][Next]_vars
=============================================================================
