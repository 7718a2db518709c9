----------------------------- MODULE MCDelivery -----------------------------
(***************************************************************************)
(* Small instances of Redelivery, and with it of Delivery, for TLC.        *)
(***************************************************************************)
EXTENDS Redelivery

Receiver(targets, count, retries) ==
    [targets |-> targets, count |-> count, retries |-> retries]

\* As the default policy has it: it retries transport failures only.
MCFailures == {"transport", "permanent"}
Policies   == {{}, {"transport"}, MCFailures}
MCMaxInt   == 3

OneReceiver ==
    {<<Receiver(n, c, p)>> : n \in 1..2, c \in {-4, -1, 0, 1, 2}, p \in Policies}
TwoReceivers ==
    {<<Receiver(2, 1, {"transport"}), Receiver(1, 2, MCFailures)>>,
     <<Receiver(1, 0, MCFailures), Receiver(2, -1, {"transport"})>>}

MCPlans == {<< >>} \union OneReceiver \union TwoReceivers

\* The largest count.
MCExtreme == {<<Receiver(1, MCMaxInt, {"transport"})>>}
=============================================================================
