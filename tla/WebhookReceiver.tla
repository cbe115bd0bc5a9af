--------------------------- MODULE WebhookReceiver ---------------------------
(***************************************************************************)
(* A receiver of webhooks that lets through only deliveries which          *)
(* WebhookVerifier accepts (webhook-sdk/src/verification.rs).              *)
(*                                                                         *)
(* An HMAC is the pair of the secret and the body it was computed from; a  *)
(* header value is a text of one of a few forms, which may encode an HMAC. *)
(* On the way a request can be repeated, lose or garble its header, have   *)
(* it rewritten in capitals, or have its body changed.                     *)
(***************************************************************************)
CONSTANTS Secret, Notification, secret   \* secret is the one shared with the anchor

ASSUME ReceiverAssumption == secret \in Secret

VARIABLES announced, wire, acted

receiverVars == <<announced, wire, acted>>

Hmac == Secret \X Notification

HeaderText == {"absent", "not_hex", "lowercase", "uppercase"}

Header == [text : HeaderText, mac : Hmac]

compute_signature(s, body) == [text |-> "lowercase", mac |-> <<s, body>>]

\* Wrong on purpose: the signature is not compared with the one of this body.
verify_any_body(s, body, header) ==
  IF header.text = "not_hex" THEN "MalformedSignatureHeader"
  ELSE IF header.mac[1] = s THEN "Ok" ELSE "InvalidSignature"

\* hex::decode takes digits of either case.
verify_signature(s, body, header) ==
  IF header.text = "not_hex" THEN "MalformedSignatureHeader"
  ELSE IF header.mac = <<s, body>> THEN "Ok" ELSE "InvalidSignature"

verify_optional_header(body, header) ==
  IF header.text = "absent" THEN "MissingSignatureHeader"
  ELSE verify_signature(secret, body, header)

Request == [body : Notification, header : Header]

ReceiverInit == announced = {} /\ wire = {} /\ acted = {}

\* The anchor delivers a notification.
Send(body) ==
  /\ announced' = announced \cup {body}
  /\ wire' = {[body |-> body, header |-> compute_signature(secret, body)]}
  /\ UNCHANGED acted

\* External: somebody else delivers one, with a secret of their own.
SendOther(s, body) ==
  /\ s # secret
  /\ wire' = {[body |-> body, header |-> compute_signature(s, body)]}
  /\ UNCHANGED <<announced, acted>>

\* External: what happens to a request on its way.
Transit ==
  /\ \E r \in wire, body \in Notification, text \in HeaderText :
       wire' = {[body |-> body, header |-> [r.header EXCEPT !.text = text]]}
  /\ UNCHANGED <<announced, acted>>

\* The receiver acts on a request that passes, and the request may come again.
Receive(r) ==
  /\ r \in wire
  /\ acted' = IF verify_optional_header(r.body, r.header) = "Ok"
              THEN acted \cup {r.body} ELSE acted
  /\ UNCHANGED <<announced, wire>>

ReceiverNext ==
  \/ \E body \in Notification : Send(body)
  \/ \E s \in Secret, body \in Notification : SendOther(s, body)
  \/ Transit
  \/ \E r \in wire : Receive(r)

ReceiverSpec == ReceiverInit /\ [][ReceiverNext]_receiverVars

-----------------------------------------------------------------------------

ReceiverTypeOK == announced \subseteq Notification /\ acted \subseteq Notification /\ wire \subseteq Request

\* The receiver acts only on bodies that the anchor sent, whatever happens to
\* the requests on their way; and a request that carries the body it was signed
\* for is let through, in whichever case its signature is written
\* (verification.rs:72-83).
AcceptedWasSent ==
  /\ acted \subseteq announced
  /\ \A r \in wire :
       r.header.text \in {"lowercase", "uppercase"} /\ r.header.mac = <<secret, r.body>>
         => verify_optional_header(r.body, r.header) = "Ok"
=============================================================================
