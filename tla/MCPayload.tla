------------------------------ MODULE MCPayload ------------------------------
(* Templates of up to three components for TLC. *)
EXTENDS TemplatePayload

Texts == {<<>>, <<"digit">>, <<"named">>, <<"digit", "digit">>, <<"digit", "named">>}

Headers ==
  {[type |-> "HEADER", format |-> "TEXT", media |-> "none", text |-> t] : t \in {<<>>, <<"digit">>, <<"named">>}}
  \cup {[type |-> "HEADER", format |-> "IMAGE", media |-> m, text |-> <<>>] : m \in {"none", "example", "id"}}
Bodies  == {[type |-> "BODY", format |-> "none", media |-> "none", text |-> t] : t \in Texts}
Footers == {[type |-> "FOOTER", format |-> "none", media |-> "none", text |-> <<>>]}
ButtonKinds == [kind : {"URL"}, url : {<<>>, <<"digit">>, <<"named">>, <<"named", "digit">>}, hasText : BOOLEAN]
               \cup [kind : {"QUICK_REPLY"}, url : {<<>>}, hasText : {TRUE}]
ButtonRows == {[type |-> "BUTTONS", buttons |-> bs] :
                 bs \in {<<x>> : x \in ButtonKinds} \cup {<<x, y>> : x, y \in ButtonKinds}}

Small ==
  {<<b>> : b \in Bodies} \cup {<<h>> : h \in Headers}
  \cup {<<b, c>> : b, c \in Bodies}
  \cup UNION {{<<h, b, u>>, <<u, b, h>>, <<b, u, h>>} : h \in Headers, b \in Bodies, u \in ButtonRows}
  \cup UNION {{<<h, f, b>>, <<b, f, h>>} : h \in Headers, f \in Footers, b \in Bodies}
=============================================================================
