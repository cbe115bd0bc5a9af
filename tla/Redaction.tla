------------------------------ MODULE Redaction ------------------------------
(***************************************************************************)
(* What LoggingConfig (webhook-sdk/src/logging.rs) writes of a request or  *)
(* a response.  A JSON value of any depth is a function from paths, the    *)
(* keys on the way to a member, to what is there: an object, an array or a *)
(* leaf.  A string is the sequence of its dot-separated segments, each     *)
(* "word" (base64url characters, not empty) or "other".  redact_body walks *)
(* the value, one step for each of its recursive calls.                    *)
(***************************************************************************)
EXTENDS Naturals, Sequences

CONSTANTS
  JsonKey,         \* object keys and array positions
  SensitiveName,   \* the object keys among SENSITIVE_KEY_NAMES, in any case
  HeaderName,
  SensitiveHeader, \* the headers among SENSITIVE_HEADER_NAMES, in any case
  Text,            \* strings
  LogBodies,       \* the bodies that are logged
  NotLogged

VARIABLES
  redact,    \* LoggingConfig::redact
  headers,   \* what is to be logged
  body,
  todo,      \* the paths of the pending calls of redact_body
  copy,      \* what the calls that returned made of their values
  line       \* what was handed to the sink

redactionVars == <<redact, headers, body, todo, copy, line>>

String == [t : {"string"}, segments : Text]
Node == {[t |-> "object"], [t |-> "array"]}
Value == Node \cup {[t |-> "null"], [t |-> "number"]} \cup String

REDACTED == [t |-> "string", segments |-> <<"other">>]

\* The members of an object or array, by their paths.
MembersAt(v, path) ==
  {q \in DOMAIN v : Len(q) = Len(path) + 1 /\ SubSeq(q, 1, Len(path)) = path}

IsJson(v) ==
  /\ DOMAIN v \subseteq Seq(JsonKey)
  /\ v \in [DOMAIN v -> Value]
  /\ << >> \in DOMAIN v
  /\ \A q \in DOMAIN v : \A n \in 0..(Len(q) - 1) :
       SubSeq(q, 1, n) \in DOMAIN v /\ v[SubSeq(q, 1, n)] \in Node

ASSUME RedactionAssumption ==
  /\ \A v \in LogBodies : IsJson(v)
  /\ <<"other">> \in Text
  /\ \A s \in Text : s \in Seq({"word", "other"})

is_jwt_shaped(v) ==
  /\ v.t = "string"
  /\ Len(v.segments) = 3
  /\ \A k \in 1..3 : v.segments[k] = "word"

redact_headers(hs) ==
  [name \in DOMAIN hs |->
     IF name \in SensitiveHeader \/ is_jwt_shaped(hs[name]) THEN REDACTED
     ELSE hs[name]]

\* Wrong on purpose: only strings are replaced under a sensitive key.
redact_string_or_recurse(v) == IF v.t = "string" THEN REDACTED ELSE v

\* A value under a sensitive key; the members of a node are walked later.
redact_scalar_or_recurse(v) ==
  IF v \in Node \/ v.t = "null" THEN v ELSE REDACTED

\* One call of redact_body, without the calls for the members.
redact_value(v) == IF is_jwt_shaped(v) THEN REDACTED ELSE v

UnderSensitiveKey(path) == path # << >> /\ path[Len(path)] \in SensitiveName

RedactionInit ==
  /\ redact \in BOOLEAN
  /\ headers \in UNION {[names -> String] : names \in SUBSET HeaderName}
  /\ body \in LogBodies
  /\ todo = {}
  /\ copy = [path \in {} |-> path]
  /\ line = NotLogged

\* log_request and log_response: a response has no headers, and one that is
\* not JSON is one string.
log_request ==
  /\ line = NotLogged
  /\ todo = {} /\ DOMAIN copy = {}
  /\ IF redact THEN todo' = {<< >>} /\ UNCHANGED line
     ELSE line' = [headers |-> headers, body |-> body] /\ UNCHANGED todo
  /\ UNCHANGED <<redact, headers, body, copy>>

\* The calls for the members of a node follow the call for the node; in what
\* order makes no difference to the copy.
redact_body ==
  /\ todo # {}
  /\ LET path == CHOOSE q \in todo : TRUE
         v == body[path]
         new == IF UnderSensitiveKey(path) THEN redact_scalar_or_recurse(v)
                ELSE redact_value(v)
     IN  /\ copy' = [q \in DOMAIN copy \cup {path} |->
                       IF q = path THEN new ELSE copy[q]]
         /\ todo' = (todo \ {path}) \cup (IF v \in Node THEN MembersAt(body, path) ELSE {})
  /\ UNCHANGED <<redact, headers, body, line>>

write_line ==
  /\ line = NotLogged
  /\ todo = {} /\ DOMAIN copy # {}
  /\ line' = [headers |-> redact_headers(headers), body |-> copy]
  /\ UNCHANGED <<redact, headers, body, todo, copy>>

RedactionNext == log_request \/ redact_body \/ write_line

RedactionSpec == RedactionInit /\ [][RedactionNext]_redactionVars

-----------------------------------------------------------------------------

\* The leaves to hide: tokens anywhere, and whatever a sensitive key leads to,
\* unless it is null, an object or an array.  So numbers and Booleans are hidden
\* too, as logging.rs:218-221 says; logging.rs:195-197 speaks of strings only.
Hidden(path) ==
  \/ is_jwt_shaped(body[path])
  \/ UnderSensitiveKey(path) /\ body[path].t \notin {"null", "object", "array"}

HiddenHeader(name) == name \in SensitiveHeader \/ is_jwt_shaped(headers[name])

\* With redaction on, a written line has every header and every leaf of the
\* body in its place, at any depth, those to hide replaced and no other changed
\* (logging.rs:178-228); with redaction off, what was given.
LoggedLeafByLeaf ==
  line # NotLogged =>
    /\ line.headers = [name \in DOMAIN headers |->
         IF redact /\ HiddenHeader(name) THEN REDACTED ELSE headers[name]]
    /\ line.body = [path \in DOMAIN body |->
         IF redact /\ Hidden(path) THEN REDACTED ELSE body[path]]
=============================================================================
