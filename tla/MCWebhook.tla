------------------------------- MODULE MCWebhook -------------------------------
(* Small instances of WebhookIngestion for TLC. *)
EXTENDS WebhookIngestion, TLC

CONSTANTS n1, n2, e1, e2, m1, m2, m3, s1, anna

OneSlot == Nodes \X {1}

(* Two events that share a message, as when Meta batches a redelivery anew; *)
(* the first brings a message to a number no tenant has, the second a       *)
(* status and another message of the same customer.                         *)
Overlapping == e1 :> <<m1, m3>> @@ e2 :> <<s1, m1, m2>>

OneCustomer == [m \in {m1, m2, m3} |-> anna]
Times == m1 :> 1 @@ m2 :> 2 @@ m3 :> 3
=============================================================================
