------------------------------ MODULE RestCall ------------------------------
(***************************************************************************)
(* One get_json/post_json/... of an altair-rest Client: the URL is joined  *)
(* to the base, the retry middleware (present if retry_max_attempts > 0)   *)
(* sends until a reply is not transient or its retries are used up, and    *)
(* decode_json judges the last reply.  The timeout is reqwest's and bounds *)
(* one send.  The peer may have done its work whenever a reply is lost.    *)
(***************************************************************************)
EXTENDS Integers

CONSTANTS
  MaxRetries,  \* bound: largest retry_max_attempts
  MaxBody      \* bound: size of a body and of the limit

ASSUME RestAssumption == MaxRetries \in Nat /\ MaxBody \in Nat

Undeclared == -1  \* a response without Content-Length

(***************************************************************************)
(* What comes back of a send: an HTTP status, or nothing and perhaps a     *)
(* peer that did the work.  DefaultRetryableStrategy holds a 5xx, 408 or   *)
(* 429 and a lost connection or a timeout for transient.  Some of these    *)
(* leave open whether the work was done.                                   *)
(***************************************************************************)
Statuses  == {"success", "client", "busy", "server"}
Losses    == {"refused", "reset", "timeout"}
Transient == {"busy", "server"} \union Losses
Open      == {"server", "reset", "timeout"}

VARIABLES
  retries, bodyLimit, url, body,  \* ClientBuilder; joins or bad; encodes or not
  state,     \* prepare, send, judge; Ok, Http, Middleware, TooLarge, Decode
  reply,     \* of the last send
  earlier,   \* the replies of the sends before it
  sends,
  done,      \* how often the peer has done the work
  length, size, json,  \* of the response: Content-Length, body, whether it decodes
  buffered   \* bytes of the body read into memory

restVars == <<retries, bodyLimit, url, body, state, reply, earlier, sends, done,
              length, size, json, buffered>>
settings == <<retries, bodyLimit, url, body>>
response == <<length, size, json>>

-----------------------------------------------------------------------------

\* resolve_url, prepare and serde_json::to_vec: a bad URL reaches the send,
\* which fails at once; a body that does not encode fails before.
Prepare ==
  /\ state = "prepare"
  /\ state' = CASE body = "fails" -> "Decode"
                [] body # "fails" /\ url = "bad" -> "Middleware"
                [] OTHER -> "send"
  /\ UNCHANGED <<settings, reply, earlier, sends, done, response, buffered>>

\* One send through the inner client.
Send ==
  /\ state = "send"
  /\ sends' = sends + 1
  /\ earlier' = IF sends = 0 THEN {} ELSE earlier \union {reply}
  /\ reply' \in Statuses \union Losses
  /\ done' \in IF reply' = "success" THEN {done + 1}
               ELSE IF reply' \in Open THEN {done, done + 1}
               ELSE {done}
  /\ state' = IF reply' \in Transient /\ sends < retries THEN "send"
              ELSE IF reply' \in Losses THEN "Middleware" ELSE "judge"
  /\ IF state' = "judge"
     THEN /\ size' \in 0 .. MaxBody
          /\ length' \in {Undeclared, size'}
          /\ json' \in BOOLEAN
     ELSE UNCHANGED response
  /\ UNCHANGED <<settings, buffered>>

\* Mutant of DecodeJson: the body is decoded whatever the status.
DecodeAnyStatus ==
  /\ state = "judge"
  /\ buffered' = size
  /\ state' = IF size > bodyLimit THEN "TooLarge" ELSE IF json THEN "Ok" ELSE "Decode"
  /\ UNCHANGED <<settings, reply, earlier, sends, done, response>>

\* error_for_status, the declared length, the whole body, its length, serde;
\* reading the body may fail as well.
DecodeJson ==
  /\ state = "judge"
  /\ \/ /\ reply # "success" \/ length > bodyLimit
        /\ state' = IF reply # "success" THEN "Http" ELSE "TooLarge"
        /\ UNCHANGED buffered
     \/ /\ reply = "success" /\ length <= bodyLimit
        /\ buffered' = size
        /\ state' = IF size > bodyLimit THEN "TooLarge"
                    ELSE IF json THEN "Ok" ELSE "Decode"
     \/ /\ reply = "success" /\ length <= bodyLimit
        /\ buffered' \in 0 .. size
        /\ state' = "Http"
  /\ UNCHANGED <<settings, reply, earlier, sends, done, response>>

RestInputs ==
  [retries : 0 .. MaxRetries, bodyLimit : 0 .. MaxBody, url : {"joins", "bad"},
   body : {"none", "encodes", "fails"}]

RestStart(input) ==
  /\ retries = input.retries
  /\ bodyLimit = input.bodyLimit
  /\ url = input.url
  /\ body = input.body
  /\ state = "prepare"
  /\ reply = "none"
  /\ earlier = {}
  /\ sends = 0
  /\ done = 0
  /\ length = Undeclared
  /\ size = 0
  /\ json = FALSE
  /\ buffered = 0

RestNext == Prepare \/ Send \/ DecodeJson

-----------------------------------------------------------------------------
(* Properties *)

\* A value comes only from a successful response within the limit, an error
\* page is never taken for a bad or an oversized value, a declared length
\* over the limit buffers nothing.  (An undeclared one is buffered whole,
\* although config.rs:177 says that a body cannot exhaust the memory.)
\* A request is sent again only after a transient reply, so a peer that works
\* once for each send has done the work at least once behind any answer that
\* judges a body, and more than once only if an earlier reply left it open:
\* then the caller sees one answer for several effects.
RestOutcome ==
  /\ state = "Ok" => reply = "success" /\ json /\ size <= bodyLimit
  /\ state = "TooLarge" \/ (state = "Decode" /\ sends > 0) => reply = "success"
  /\ length > bodyLimit => buffered = 0
  /\ earlier \subseteq Transient
  /\ sends <= retries + 1
  /\ done <= sends
  /\ reply = "success" => done >= 1
  /\ earlier \intersect Open = {} => done <= 1
=============================================================================
