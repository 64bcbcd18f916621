--------------------------- MODULE TemplatePayload ---------------------------
(***************************************************************************)
(* The two readings of a template's components: buildMetaTemplatePayload   *)
(* turns them into the template that Meta gets, and buildComponents turns  *)
(* them, and the variables of a recipient, into the parameters of a        *)
(* message.  The two must agree, or Meta refuses the message.              *)
(*                                                                         *)
(* A text is the sequence of its placeholders: a "digit" one is {{1}}, and *)
(* a "named" one anything else in double braces, {{ 1 }} and {{name}}.     *)
(* Media of a header is what the component has to send it by.              *)
(*                                                                         *)
(* Templates of category AUTHENTICATION are left out: their body and       *)
(* footer go to Meta as options without a text.                            *)
(***************************************************************************)
EXTENDS Naturals, SequencesExt

CONSTANT Templates   \* sequences of components, in any order

VARIABLES
  local,    \* the components of the row
  atMeta,   \* the components Meta has accepted; none yet: << >>
  pulled,   \* local is what a sync brought
  sent      \* the parameters of a message; not sent: << >>

vars == <<local, atMeta, pulled, sent>>

Types == {"HEADER", "BODY", "FOOTER", "BUTTONS"}
Media == {"none", "example", "url", "id"}

OfType(cs, t) == SelectSeq(cs, LAMBDA c : c.type = t)

-----------------------------------------------------------------------------
(* buildMetaTemplatePayload.                                                *)

(* Placeholders become {{1}}, {{2}} and so on. *)
Normalised(text) == [k \in DOMAIN text |-> "digit"]

(* What has nothing to send is submitted with a dummy handle, as an example. *)
Mapped(c) ==
  IF c.type = "HEADER" /\ c.format = "IMAGE"
  THEN [c EXCEPT !.media = "example"]
  ELSE [c EXCEPT !.text = Normalised(@)]

(* The last component of a type is the one that counts. *)
LastOf(cs, t) ==
  LET found == OfType(cs, t) IN IF found = <<>> THEN <<>> ELSE <<Mapped(Last(found))>>

(* Of all button components, the buttons that have a text; a url stays as it *)
(* is.                                                                       *)
Buttons(cs) ==
  LET all == FlattenSeq([k \in DOMAIN OfType(cs, "BUTTONS") |-> OfType(cs, "BUTTONS")[k].buttons])
      kept == SelectSeq(all, LAMBDA b : b.hasText)
  IN IF kept = <<>> THEN <<>> ELSE <<[type |-> "BUTTONS", buttons |-> kept]>>

Payload(cs) ==
  LastOf(cs, "HEADER") \o LastOf(cs, "BODY") \o LastOf(cs, "FOOTER") \o Buttons(cs)

-----------------------------------------------------------------------------
(* buildComponents.                                                         *)

(* A stable sort: header, body, buttons, then the rest. *)
Ordered(cs) ==
  OfType(cs, "HEADER") \o OfType(cs, "BODY") \o OfType(cs, "BUTTONS") \o OfType(cs, "FOOTER")

Count(text, mark) == Len(SelectSeq(text, LAMBDA p : p = mark))

Part(at, n) == [at |-> at, media |-> "none", params |-> n]

(* A header of an image is sent by its id, else by a link. *)
HeaderParts(c) ==
  CASE c.format = "IMAGE" /\ c.media # "none" -> <<[Part(<<"header", 0>>, 0) EXCEPT !.media = c.media]>>
    [] c.format = "TEXT" /\ Count(c.text, "digit") > 0 -> <<Part(<<"header", 0>>, Count(c.text, "digit"))>>
    [] OTHER -> <<>>

(* The index is the one among all buttons; a url without {{1}} has no part. *)
ButtonParts(c) ==
  LET part(k) == IF c.buttons[k].kind = "URL" /\ Count(c.buttons[k].url, "digit") > 0
                 THEN <<Part(<<"button", k - 1>>, Count(c.buttons[k].url, "digit"))>> ELSE <<>>
  IN FlattenSeq([k \in DOMAIN c.buttons |-> part(k)])

Parts(cs) ==
  LET parts(c) == CASE c.type = "HEADER" -> HeaderParts(c)
                    [] c.type = "BODY" -> <<Part(<<"body", 0>>, Count(c.text, "digit"))>>
                    [] c.type = "BUTTONS" -> ButtonParts(c)
                    [] OTHER -> <<>>
  IN FlattenSeq([k \in DOMAIN Ordered(cs) |-> parts(Ordered(cs)[k])])

(* Mutant: the buttons start over with the first variable. *)
FilledAgain(parts) ==
  [k \in DOMAIN parts |->
     [at |-> parts[k].at, media |-> parts[k].media,
      variables |-> [v \in 1 .. parts[k].params |-> v]]]

(* varIndex++: each parameter takes the next variable. *)
Filled(parts) ==
  LET before(k) == FoldLeft(LAMBDA sum, p : sum + p.params, 0, SubSeq(parts, 1, k - 1))
  IN [k \in DOMAIN parts |->
        [at |-> parts[k].at, media |-> parts[k].media,
         variables |-> [v \in 1 .. parts[k].params |-> before(k) + v]]]

-----------------------------------------------------------------------------
Init ==
  /\ local \in Templates
  /\ atMeta = <<>> /\ pulled = FALSE /\ sent = <<>>

(* A template without a body is not submitted. *)
Submit ==
  /\ atMeta = <<>>
  /\ OfType(local, "BODY") # <<>>
  /\ atMeta' = Payload(local)
  /\ UNCHANGED <<local, pulled, sent>>

(* The media of a header is downloaded, saved and uploaded to Meta; either  *)
(* may fail, and the sync goes on with what there is.                       *)
CachedHeader(c, media) ==
  IF c.type = "HEADER" /\ c.format = "IMAGE" THEN [c EXCEPT !.media = media] ELSE c

Pull ==
  /\ atMeta # <<>> /\ ~ pulled /\ sent = <<>>
  /\ \E media \in {"example", "url", "id"} :
       local' = [k \in DOMAIN atMeta |-> CachedHeader(atMeta[k], media)]
  /\ pulled' = TRUE
  /\ UNCHANGED <<atMeta, sent>>

(* sendTemplateMessage; a campaign may bring the header's media id. *)
Send ==
  /\ atMeta # <<>> /\ sent = <<>>
  /\ \E own \in BOOLEAN :
       sent' = Filled(Parts([k \in DOMAIN local |->
                  IF own THEN CachedHeader(local[k], "id") ELSE local[k]]))
  /\ UNCHANGED <<local, atMeta, pulled>>

Next == Submit \/ Pull \/ Send

Spec == Init /\ [][Next]_vars

-----------------------------------------------------------------------------
(* What Meta wants with a message: a parameter for each placeholder, and the *)
(* media of a header.                                                        *)
Wanted ==
  {<<<<"header", 0>>, atMeta[k].format = "IMAGE", Len(atMeta[k].text)>> :
      k \in {j \in DOMAIN atMeta : atMeta[j].type = "HEADER"
                /\ (atMeta[j].format = "IMAGE" \/ atMeta[j].text # <<>>)}}
  \cup {<<<<"body", 0>>, FALSE, Len(atMeta[k].text)>> : k \in {j \in DOMAIN atMeta : atMeta[j].type = "BODY"}}
  \cup UNION {{<<<<"button", b - 1>>, FALSE, Len(atMeta[k].buttons[b].url)>> :
                  b \in {x \in DOMAIN atMeta[k].buttons : atMeta[k].buttons[x].kind = "URL"
                            /\ atMeta[k].buttons[x].url # <<>>}} :
              k \in {j \in DOMAIN atMeta : atMeta[j].type = "BUTTONS"}}

Given == {<<sent[k].at, sent[k].media # "none", Len(sent[k].variables)>> : k \in DOMAIN sent}

(* The urls of the buttons have numbered placeholders only. *)
NumberedUrls(cs) ==
  \A k \in DOMAIN cs : cs[k].type = "BUTTONS" =>
    \A b \in DOMAIN cs[k].buttons : Count(cs[k].buttons[b].url, "named") = 0

(* One component of a type, no named placeholder, media for an image, and a  *)
(* text on every button.                                                     *)
Plain(cs) ==
  /\ \A t \in Types : Len(OfType(cs, t)) <= 1
  /\ \A k \in DOMAIN cs :
       IF cs[k].type = "BUTTONS" THEN \A b \in DOMAIN cs[k].buttons : cs[k].buttons[b].hasText
       ELSE /\ Count(cs[k].text, "named") = 0
            /\ cs[k].format = "IMAGE" => cs[k].media # "none"

(* A message has a parameter for each placeholder of the template that Meta  *)
(* has, at its place, and the media of its header.  A template that has not  *)
(* come back from Meta yet must be a plain one for that: its named           *)
(* placeholders, duplicates and empty buttons are read differently.  A named *)
(* placeholder in a button's url is not numbered on the way to Meta and      *)
(* never gets a parameter, so the urls must have numbered ones.  In any case *)
(* the variables are used up in the order in which Meta shows the            *)
(* placeholders, each once, whatever the order of the components was.        *)
SendFits ==
  /\ sent # <<>> /\ NumberedUrls(atMeta) /\ (pulled \/ Plain(local)) =>
       /\ Given = Wanted
       /\ Len(sent) = Cardinality(Wanted)
  /\ LET used == FlattenSeq([k \in DOMAIN sent |-> sent[k].variables])
     IN used = [v \in DOMAIN used |-> v]

=============================================================================
