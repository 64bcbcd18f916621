-------------------------------- MODULE MCStatus --------------------------------
(* Small instances of StatusWebhook for TLC. *)
EXTENDS StatusWebhook, TLC

CONSTANTS m1, m2, i1, x1, x2, x3

Of(m, s) == [msg |-> m, status |-> s]

(* One message is delivered and read, another one is reported failed by two *)
(* webhooks, and a customer writes.                                         *)
Mixed ==
  x1 :> <<Of(m1, "delivered")>> @@ x2 :> <<Of(m1, "read"), Of(m2, "failed")>>
    @@ x3 :> <<Of(m2, "failed"), i1>>
===============================================================================
