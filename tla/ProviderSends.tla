---------------------------- MODULE ProviderSends ----------------------------
(***************************************************************************)
(* The adapters that hand one message to the WhatsApp provider: a text, a  *)
(* PDF or an image.  A call opens the route of its recipient, uploads its  *)
(* file if it has one, posts the message once and classifies what comes    *)
(* back.  The provider is asynchronous: it may take a message after the    *)
(* client gave up on the answer, and its answers may be late, cut off,     *)
(* unreadable or about another message.                                    *)
(*                                                                         *)
(* SendOperations takes the answer of a call as one step (ResponsesTo);    *)
(* AnswersAsAssumed is what it takes for granted.                          *)
(*                                                                         *)
(* packages/whatsapp-provider/src/text-send.ts, pdf-send.ts, image-send.ts *)
(* and recipient-route.ts; the dispatch of apps/api/src/                   *)
(* send-text-message.ts.                                                   *)
(***************************************************************************)
EXTENDS Integers, FiniteSets

CONSTANTS
  Calls,
  Kinds,        \* the kinds of message sent, of "text", "pdf" and "image"
  Recipients,   \* what a call may be addressed to
  UploadLimit,  \* the timeout of an upload
  SendLimit,    \* the timeout of a send request
  Crossed       \* whether an answer may be about a message of another call

ProviderSendsAssumption ==
  /\ Kinds \subseteq {"text", "pdf", "image"}
  /\ UploadLimit \in Nat \ {0} /\ SendLimit \in Nat \ {0} /\ Crossed \in BOOLEAN

VARIABLES
  call,      \* the phase of each call, its destination, its timer and its result
  net,       \* the request a call waits for: whether headers are in, and the answer
  provider,  \* what the provider does with the message of each call
  spent      \* how long each call has taken

vars == <<call, net, provider, spent>>

(***************************************************************************)
(* Recipients and routes.                                                  *)
(***************************************************************************)
Nowhere == [form |-> "none", who |-> "none"]
PhoneForms == {"plus", "digits", "jid", "device"}

\* providerDestination: a group is addressed by its own form only; a phone number in any
\* form becomes international.
Destination(kind, i) ==
  IF (kind = "group") # (i.form = "group") THEN Nowhere
  ELSE IF i.form \in PhoneForms THEN [i EXCEPT !.form = "plus"] ELSE i

Canonical(i) == IF i.form \in PhoneForms THEN [i EXCEPT !.form = "pn"] ELSE i

\* Mutant: the answer is believed whoever it names.
SameRecipientUnchecked(i, to) == TRUE

SameRecipient(i, to) == i # Nowhere /\ Canonical(i) = Canonical(to)

\* A username is answered with the address it stands for.
ResolvesUsername(i, to) == to.form = "username" /\ i.form \in PhoneForms \cup {"lid"}

\* A route is sealed under the identity key of the connection (v2) or, before, under the
\* authority of the session (v1), which may have been replaced since.
SealIdentityRoute(kind, i) == [version |-> "v2", key |-> "identity", kind |-> kind, identifier |-> i]

OpenRoute(route) ==
  IF \/ route.version = "v2" /\ route.key = "identity"
     \/ route.version = "v1" /\ route.key = "authority"
  THEN Destination(route.kind, route.identifier)
  ELSE Nowhere

\* A direct number and a contact whose number is known are sealed afresh.
RouteOf(r) ==
  IF r.phone THEN SealIdentityRoute("contact", [form |-> "plus", who |-> r.who]) ELSE r.route

(***************************************************************************)
(* Results, and the status the operation gets.                             *)
(***************************************************************************)
NoResult == [outcome |-> "none", reason |-> "none", status |-> "none", of |-> "none"]
Definitive(why) == [NoResult EXCEPT !.outcome = "definitive_failure", !.reason = why]
Ambiguous(why) == [NoResult EXCEPT !.outcome = "ambiguous", !.reason = why]
Acknowledged == [NoResult EXCEPT !.outcome = "provider_acknowledgement", !.status = "accepted"]
Evidence(status, c) == [outcome |-> "identity_evidence", reason |-> "none", status |-> status, of |-> c]

StatusOf(result) ==
  CASE result.outcome = "ambiguous" -> "unknown"
    [] result.outcome = "definitive_failure" -> "failed"
    [] OTHER -> result.status

NoAnswer == [code |-> "none", body |-> "none", jid |-> Nowhere, of |-> "none"]

\* Mutant: a request timeout reported by the provider is one more refusal.
RefusalWithTimeout(answer) ==
  \/ answer.code \in {"redirect", "401", "422", "429", "4xx", "408"}
  \/ answer.code = "ok" /\ answer.body = "refusal"

\* The answers after which the provider does not send: a redirect, which is not followed,
\* a 4xx other than 408, and success: false.
Refusal(answer) ==
  \/ answer.code \in {"redirect", "401", "422", "429", "4xx"}
  \/ answer.code = "ok" /\ answer.body = "refusal"

RefusalReason(answer) ==
  CASE answer.code = "401" -> "authentication_failed"
    [] answer.code = "429" -> "throttled"
    [] answer.code = "422" /\ answer.body = "recipient" -> "recipient_rejected"
    [] OTHER -> "provider_rejected"

\* classifySendResponse.
Classify(answer, to) ==
  IF Refusal(answer) THEN Definitive(RefusalReason(answer))
  ELSE IF answer.code = "408" THEN Ambiguous("timed_out")
  ELSE IF answer.code = "5xx" THEN Ambiguous("unavailable")
  ELSE IF answer.body = "key" /\ SameRecipient(answer.jid, to) THEN Evidence("sent", answer.of)
  ELSE IF \/ answer.body = "key" /\ ResolvesUsername(answer.jid, to)
          \/ answer.body = "in_progress"
             /\ (SameRecipient(answer.jid, to) \/ ResolvesUsername(answer.jid, to))
       THEN Acknowledged
  ELSE Ambiguous("invalid_response")

(***************************************************************************)
(* A call.                                                                 *)
(***************************************************************************)
Idle == [phase |-> "idle", kind |-> "text", asked |-> "none", to |-> Nowhere,
         file |-> "none", timer |-> 0, result |-> NoResult]
Quiet == [stage |-> "none", answer |-> NoAnswer]
Waiting == [stage |-> "head", answer |-> NoAnswer]

Init ==
  /\ call = [c \in Calls |-> Idle]
  /\ net = [c \in Calls |-> Quiet]
  /\ provider = [c \in Calls |-> [message |-> "none", to |-> Nowhere, file |-> "none", taken |-> 0]]
  /\ spent = [c \in Calls |-> 0]

Ends(c, result) ==
  /\ call' = [call EXCEPT ![c].phase = "done", ![c].timer = 0, ![c].result = result]
  /\ net' = [net EXCEPT ![c] = Quiet]

\* The one request that carries the message.
Posts(c, started, file) ==
  /\ call' = [call EXCEPT ![c] = [started EXCEPT !.phase = "send", !.file = file, !.timer = SendLimit]]
  /\ net' = [net EXCEPT ![c] = Waiting]
  /\ provider' = [provider EXCEPT ![c].message = "open", ![c].to = started.to, ![c].file = file]

\* The recipient's route is opened first; a PDF needs a valid name.
Begin(c) ==
  /\ call[c] = Idle
  /\ \E kind \in Kinds, r \in Recipients, named \in BOOLEAN :
       LET to == OpenRoute(RouteOf(r))
           started == [Idle EXCEPT !.kind = kind, !.asked = r.who, !.to = to]
       IN CASE to = Nowhere -> Ends(c, Definitive("recipient_rejected")) /\ UNCHANGED provider
            [] to # Nowhere /\ kind = "text" -> Posts(c, started, "none")
            [] to # Nowhere /\ kind = "pdf" /\ ~named ->
                 Ends(c, Definitive("upload_failed")) /\ UNCHANGED provider
            [] OTHER ->
                 /\ call' = [call EXCEPT ![c] = [started EXCEPT !.phase = "upload", !.timer = UploadLimit]]
                 /\ net' = [net EXCEPT ![c] = Waiting]
                 /\ UNCHANGED provider
  /\ UNCHANGED spent

\* Mutant: the timer is cleared when the headers are in.
TimerUntilHeaders(c) == IF net[c].stage = "head" THEN call[c].timer ELSE SendLimit + UploadLimit

\* The timer of a request covers its body too.
Timer(c) == call[c].timer

\* The headers arrive, with an answer whose body is still to come.
HeadersArrive(c, answer) ==
  /\ net[c].stage = "head"
  /\ net' = [net EXCEPT ![c] = [stage |-> "body", answer |-> answer]]
  /\ UNCHANGED <<call, provider, spent>>

UploadAnswers ==
  {[NoAnswer EXCEPT !.code = code] : code \in {"401", "429", "5xx"}}
    \cup {[NoAnswer EXCEPT !.code = "ok", !.body = body] : body \in {"own", "elsewhere", "other"}}

AnswerUpload(c) ==
  call[c].phase = "upload" /\ \E answer \in UploadAnswers : HeadersArrive(c, answer)

\* publicUrlFrom: the file must be on the provider's own origin.
PublicUrl(answer) == IF answer.code = "ok" /\ answer.body = "own" THEN "own" ELSE "none"

UploadFailure(answer) ==
  CASE answer.code = "401" -> Definitive("authentication_failed")
    [] answer.code = "429" -> Definitive("throttled")
    [] OTHER -> Definitive("upload_failed")

\* The body of the upload's answer is in: the message is posted, or the call has failed.
Uploaded(c) ==
  /\ call[c].phase = "upload" /\ net[c].stage = "body"
  /\ LET url == PublicUrl(net[c].answer) IN
       IF url = "none"
       THEN Ends(c, UploadFailure(net[c].answer)) /\ UNCHANGED provider
       ELSE Posts(c, call[c], url)
  /\ UNCHANGED spent

\* The body of the send's answer is in.
Sent(c) ==
  /\ call[c].phase = "send" /\ net[c].stage = "body"
  /\ Ends(c, Classify(net[c].answer, call[c].to))
  /\ UNCHANGED <<provider, spent>>

\* The request failed, at its headers or in its body: an upload has sent nothing, a
\* message may have been taken.
Lost(c, why) ==
  /\ Ends(c, IF call[c].phase = "upload" THEN Definitive("upload_failed") ELSE Ambiguous(why))
  /\ UNCHANGED provider

ConnectionLost(c) ==
  /\ net[c].stage # "none"
  /\ Lost(c, "connection_lost")
  /\ UNCHANGED spent

TimesOut(c) ==
  /\ net[c].stage # "none" /\ Timer(c) = 0
  /\ Lost(c, "timed_out")
  /\ UNCHANGED spent

(***************************************************************************)
(* The provider: it takes a message or refuses it, once, at a time of its  *)
(* own.  It refuses in an answer only what it does not take.               *)
(***************************************************************************)
Take(c) ==
  /\ provider[c].message = "open"
  /\ provider' = [provider EXCEPT ![c].message = "taken", ![c].taken = @ + 1]
  /\ UNCHANGED <<call, net, spent>>

Refuse(c) ==
  /\ provider[c].message = "open"
  /\ provider' = [provider EXCEPT ![c].message = "refused"]
  /\ UNCHANGED <<call, net, spent>>

\* How the provider may name the one it has sent to.
Namings(to) ==
  IF to.form = "group" THEN {to}
  ELSE {[to EXCEPT !.form = form] : form \in {"jid", "device", "lid", "username"}}

Unclear ==
  {[NoAnswer EXCEPT !.code = code] : code \in {"408", "5xx"}}
    \cup {[NoAnswer EXCEPT !.code = "ok", !.body = "unreadable"]}

Refusals ==
  {[NoAnswer EXCEPT !.code = code] : code \in {"redirect", "401", "422", "429", "4xx"}}
    \cup {[NoAnswer EXCEPT !.code = "422", !.body = "recipient"],
          [NoAnswer EXCEPT !.code = "ok", !.body = "refusal"]}

Successes(m) ==
  {[code |-> "ok", body |-> body, jid |-> jid, of |-> m] :
     body \in {"key", "in_progress"}, jid \in Namings(provider[m].to)}

AnswersTo(c) ==
  Unclear
    \cup (IF provider[c].message = "refused" THEN Refusals ELSE {})
    \cup UNION {Successes(m) : m \in {n \in Calls : provider[n].message = "taken" /\ (Crossed \/ n = c)}}

AnswerSend(c) ==
  call[c].phase = "send" /\ \E answer \in AnswersTo(c) : HeadersArrive(c, answer)

\* Time passes, but not past a timer that is due.
Tick ==
  LET running == {c \in Calls : net[c].stage # "none"} IN
  /\ running # {} /\ \A c \in running : Timer(c) > 0
  /\ call' = [c \in Calls |-> IF c \in running /\ call[c].timer > 0
                              THEN [call[c] EXCEPT !.timer = @ - 1] ELSE call[c]]
  /\ spent' = [c \in Calls |-> IF c \in running /\ spent[c] <= UploadLimit + SendLimit
                               THEN spent[c] + 1 ELSE spent[c]]
  /\ UNCHANGED <<net, provider>>

Next ==
  \/ \E c \in Calls :
       \/ Begin(c) \/ AnswerUpload(c) \/ Uploaded(c) \/ AnswerSend(c) \/ Sent(c)
       \/ ConnectionLost(c) \/ TimesOut(c) \/ Take(c) \/ Refuse(c)
  \/ Tick

Spec == Init /\ [][Next]_vars

\* The client's clock runs and its timers fire; the provider may never answer or end a body.
Fairness ==
  /\ WF_vars(Tick)
  /\ \A c \in Calls : WF_vars(TimesOut(c))

FairSpec == Spec /\ Fairness

-----------------------------------------------------------------------------
(***************************************************************************)
(* What the send adapters promise whatever the provider answers.           *)
(***************************************************************************)

\* The variables have their types; a call that waits for nothing has ended or not begun.
TypeOK ==
  /\ \A c \in Calls :
       /\ call[c].phase \in {"idle", "upload", "send", "done"}
       /\ call[c].timer \in 0..(IF call[c].phase = "upload" THEN UploadLimit ELSE SendLimit)
       /\ net[c].stage \in {"none", "head", "body"}
       /\ net[c].stage = "none" <=> call[c].phase \in {"idle", "done"}
       /\ provider[c].message \in {"none", "open", "taken", "refused"}
       /\ provider[c].message = "none" \/ call[c].phase \in {"send", "done"}
  /\ spent \in [Calls -> 0..(UploadLimit + SendLimit + 1)]

\* SendOperations' assumption on answers (ResponsesTo): a failure is told only of a message
\* that the provider has not taken and will not take later, a success only of one it has
\* taken, and an identity comes with evidence of that message.
AnswersAsAssumed ==
  \A c \in Calls : call[c].phase = "done" =>
    LET status == StatusOf(call[c].result) IN
    /\ status \in {"unknown", "failed", "accepted", "sent"}
    /\ status = "failed" => provider[c].message \in {"none", "refused"}
    /\ status \in {"accepted", "sent"} => provider[c].message = "taken"
    /\ call[c].result.outcome = "identity_evidence" => call[c].result.of = c

\* One call hands over at most one message, lost connections and timeouts included.
OncePerCall == \A c \in Calls : provider[c].taken <= 1

\* A message with a file refers to the file that was uploaded for it, at the provider.
FileOfItsOwn ==
  \A c \in Calls : provider[c].taken > 0 =>
    (provider[c].file = "own") <=> (call[c].kind # "text")

\* A result that identifies a message identifies one that went to the recipient of the call,
\* even when the answer was about another message (sameRecipient).
EvidenceIsOfRecipient ==
  \A c \in Calls : call[c].result.outcome = "identity_evidence" =>
    /\ provider[call[c].result.of].taken > 0
    /\ provider[call[c].result.of].to.who = call[c].to.who

\* A call takes no longer than its two timeouts, well within the lease of its operation,
\* even when a body never ends (the timers cover the body).
AnswersInTime == \A c \in Calls : spent[c] <= UploadLimit + SendLimit

\* Every call ends, though the provider may never answer.
CallsEnd == \A c \in Calls : (call[c].phase # "idle") ~> (call[c].phase = "done")
=============================================================================
