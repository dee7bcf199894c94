--------------------------- MODULE ProviderControl ---------------------------
(***************************************************************************)
(* Lifecycle calls of the API through the provider-control Worker to the   *)
(* provider's session endpoints.  A call is a program of requests: reads,  *)
(* each of them retried within a budget of attempts and time, at most one  *)
(* write, which is attempted once, and for some writes a read that         *)
(* confirms it.  The caller learns a value, a failure that says nothing    *)
(* was done (do_not_retry) or one that says to look first                  *)
(* (reconcile_before_repeat).  The provider answers, refuses, fails, stays *)
(* silent, or performs a write whose reply nobody reads.                   *)
(*                                                                         *)
(* ConnectionSetup and ConnectionHealth have what the API does with the    *)
(* answers.  Proxies are left out: production composes none.               *)
(*                                                                         *)
(* packages/whatsapp-provider/src/control-wasender.ts,                     *)
(* apps/provider-control/src/rpc.ts,                                       *)
(* apps/api/src/provider-control-production.ts.                            *)
(***************************************************************************)
EXTENDS Naturals, FiniteSets

CONSTANTS
  Markers,       \* setup markers, the names of the sessions
  Ids,           \* the provider's session identifiers, never used twice
  Callers,
  Operations,    \* the methods the callers use
  MaxAttempts,   \* safeReadMaximumAttempts
  AttemptLimit,  \* safeReadAttemptTimeoutMs
  ReadLimit,     \* safeReadTotalTimeoutMs
  WriteLimit,    \* lifecycleWriteTimeoutMs
  Delays,        \* the delays of Retry-After and of the jittered backoff
  Credentials,   \* what sessions come with: "whole" or "missing"
  Late,          \* whether a write may land, or a call go on, after its caller was answered
  Faults         \* a bound on failed requests and lost calls

ProviderControlAssumption ==
  /\ {MaxAttempts, AttemptLimit, ReadLimit, WriteLimit} \subseteq Nat \ {0}
  /\ Delays \subseteq Nat /\ Faults \in Nat /\ Late \in BOOLEAN
  /\ Credentials \subseteq {"whole", "missing"}

\* The methods that find their session by its marker; the others have its locator.
ByMarker == {"create", "repair", "reconcile"}

VARIABLES
  sessions,  \* the provider's sessions: name, webhook configuration, state and credentials
  issued,    \* the identifiers given out
  calls,     \* caller -> its last call
  late,      \* writes under way whose reply nobody waits for
  faults

vars == <<sessions, issued, calls, late, faults>>

Smaller(a, b) == IF a <= b THEN a ELSE b

Session(marker, ours, linked, credentials) ==
  [marker |-> marker, ours |-> ours, linked |-> linked, credentials |-> credentials]

\* rest: the sessions whose detail is still to be read; found: the details read so far.
\* heard: whether the caller still waits.  wrote, lands: whether the provider has
\* performed the write, or still may.  No field of these two is the program's.
Idle ==
  [op |-> "none", marker |-> "none", id |-> "none", step |-> "idle", wire |-> "none",
   attempt |-> 0, spent |-> 0, left |-> 0, rest |-> {}, found |-> {},
   answer |-> "none", got |-> "none", heard |-> FALSE, wrote |-> FALSE, lands |-> FALSE]

Init ==
  /\ \E known \in SUBSET Ids :
       /\ Cardinality(known) <= 1
       /\ sessions \in [known -> [marker : Markers, ours : BOOLEAN, linked : BOOLEAN, credentials : Credentials]]
       /\ issued = known
  /\ calls = [c \in Callers |-> Idle] /\ late = {} /\ faults = 0

Active(c) == calls[c].wire # "none"
Fails == faults < Faults /\ faults' = faults + 1
\* Only what is the environment's doing counts as a fault.
FailsIf(fault) == IF fault THEN Fails ELSE faults' = faults
Named(marker) == {i \in DOMAIN sessions : sessions[i].marker = marker}

(***************************************************************************)
(* The program of a call, as what becomes of its record.                   *)
(***************************************************************************)
\* The caller is told, unless it no longer waits.
Answered(call, answer) ==
  [call EXCEPT !.step = "answered", !.wire = "none", !.attempt = 0, !.spent = 0, !.left = 0,
     !.rest = {}, !.found = {}, !.answer = IF call.heard THEN answer ELSE call.answer, !.heard = FALSE]

Definitive(call) == Answered(call, "do_not_retry")
Ambiguous(call) == Answered(call, "reconcile_before_repeat")

\* A session without its credentials is an invalid response.
WithSession(call, id, session) ==
  IF session.credentials = "whole" THEN Answered([call EXCEPT !.got = id], "session")
  ELSE IF call.step \in {"write", "recheck"} THEN Ambiguous(call) ELSE Definitive(call)

\* safeJson sends the first attempt of a read.
Reads(call, step) ==
  [call EXCEPT !.step = step, !.wire = "asked", !.attempt = 1, !.spent = 0,
     !.left = Smaller(AttemptLimit, ReadLimit)]

Sends(call) ==
  [call EXCEPT !.step = "write", !.wire = "asked", !.attempt = 0, !.spent = 0, !.left = WriteLimit]

\* Mutant: a confirming read that fails is reported like any read.
ReadFailedDefinitively(call) == Definitive(call)

\* A read that fails for good.  After the write it makes the result ambiguous; before it,
\* its failure is not one of the method's class and reaches the caller as an invalid response.
ReadFailed(call) == IF call.step = "recheck" THEN Ambiguous(call) ELSE Definitive(call)

\* Mutant: the session is made without a look at what there is.
CreateFromNothing(call, ids, one) == Sends(call)

\* createSession adopts exactly one session that is configured as it would be made, and
\* makes one only when there is none.
CreateFrom(call, ids, one) ==
  CASE ids = {} -> Sends(call)
    [] Cardinality(ids) = 1 /\ one[2].ours -> WithSession(call, one[1], one[2])
    [] OTHER -> Definitive(call)

\* repairSessionConfiguration writes to exactly one session.
RepairOf(call, ids, one) ==
  IF Cardinality(ids) = 1 THEN Sends([call EXCEPT !.id = one[1]]) ELSE Definitive(call)

\* reconcileSession, asked for the configuration too.
Reconciled(call, ids, one) ==
  CASE ids = {} -> Answered(call, "absent")
    [] Cardinality(ids) = 1 /\ one[2].ours -> WithSession(call, one[1], one[2])
    [] Cardinality(ids) > 1 /\ \A pair \in call.found : pair[2].credentials = "whole"
         -> Answered(call, "duplicates")
    [] OTHER -> Definitive(call)

\* All the details of the sessions that bear the marker have been read.
Decide(call) ==
  LET ids == {pair[1] : pair \in call.found}
      one == IF ids = {} THEN <<>> ELSE CHOOSE pair \in call.found : TRUE IN
  CASE call.op = "create" -> CreateFrom(call, ids, one)
    [] call.op = "repair" -> RepairOf(call, ids, one)
    [] call.op = "reconcile" -> Reconciled(call, ids, one)

\* The next request once the list of sessions is known.
Listed(call) ==
  IF call.op \in ByMarker
  THEN LET next == [call EXCEPT !.rest = Named(call.marker), !.found = {}] IN
       IF next.rest = {} THEN Decide(next) ELSE Reads(next, "detail")
  ELSE CASE call.id \notin DOMAIN sessions /\ call.op = "delete" -> Answered(call, "absent")
         [] call.id \notin DOMAIN sessions /\ call.op # "delete" -> Definitive(call)
         [] call.id \in DOMAIN sessions /\ call.op = "delete" -> Sends(call)
         [] call.id \in DOMAIN sessions /\ call.op = "getQrCode" -> Reads(call, "last")
         [] call.id \in DOMAIN sessions /\ call.op \in {"connect", "disconnect", "verify"}
              -> Reads([call EXCEPT !.rest = {call.id}, !.found = {}], "detail")

\* A detail has been read.
Detailed(call, id) ==
  LET next == [call EXCEPT !.rest = @ \ {id}, !.found = @ \cup {<<id, sessions[id]>>}] IN
  CASE next.rest # {} -> Reads(next, "detail")
    [] next.rest = {} /\ call.op \in ByMarker -> Decide(next)
    [] call.op = "verify" /\ sessions[id].credentials = "whole" -> Reads(next, "last")
    [] call.op = "verify" /\ sessions[id].credentials # "whole" -> Definitive(next)
    [] call.op \in {"connect", "disconnect"} -> Sends(next)

\* A deletion is confirmed by the list.
Deleted(call) == Answered(call, IF call.id \in DOMAIN sessions THEN "present" ELSE "absent")

\* A repair is confirmed by the session itself.
Repaired(call) ==
  IF sessions[call.id].ours THEN WithSession(call, call.id, sessions[call.id]) ELSE Ambiguous(call)

\* A read that succeeds.  The provider answers it from what its sessions are at one moment.
Read(call) ==
  CASE call.step = "list" -> {Listed(call)}
    [] call.step = "detail" -> {Detailed(call, id) : id \in call.rest \cap DOMAIN sessions}
    [] call.step = "last" -> {Answered(call, "value")}
    [] call.step = "recheck" -> {IF call.op = "delete" THEN Deleted(call) ELSE Repaired(call)}

\* Mutant: the reply to a deletion or a repair is taken at its word.
ConfirmNothing(call) ==
  IF call.op = "delete" THEN Answered(call, "absent") ELSE WithSession(call, call.id, sessions[call.id])

\* A deletion or a repair is looked at again.
Confirm(call) == Reads(call, "recheck")

\* What a successful reply to the write leads to.
Written(call) ==
  CASE call.op = "create" /\ sessions[call.got].ours -> WithSession(call, call.got, sessions[call.got])
    [] call.op = "create" /\ ~sessions[call.got].ours -> Ambiguous(call)
    [] call.op \in {"delete", "repair"} -> Confirm(call)
    [] call.op \in {"connect", "disconnect"} ->
         LET one == CHOOSE pair \in call.found : TRUE IN WithSession(call, call.id, one[2])

(***************************************************************************)
(* Callers and requests.                                                   *)
(***************************************************************************)
Becomes(c, call) == calls' = [calls EXCEPT ![c] = call]

\* A setup's lease lets one caller at a time create its session, and none look meanwhile.
Serial(op, marker) ==
  \A c \in Callers :
    calls[c].heard /\ calls[c].marker = marker /\ {op, calls[c].op} \subseteq ByMarker =>
      "create" \notin {op, calls[c].op}

\* A method is called; its request is decoded and the lifecycle loaded, and the list of
\* sessions is asked for.
Call(c) ==
  /\ ~Active(c)
  /\ \E op \in Operations, marker \in Markers, id \in issued \cup {"none"} :
       /\ (op \in ByMarker <=> id = "none") /\ Serial(op, marker)
       /\ Becomes(c, Reads([Idle EXCEPT !.op = op, !.marker = marker, !.id = id, !.heard = TRUE], "list"))
  /\ UNCHANGED <<sessions, issued, late, faults>>

\* The request or the configuration is not accepted at the boundary.
Rejected(c) ==
  /\ ~Active(c) /\ Fails
  /\ \E op \in Operations, marker \in Markers :
       Becomes(c, Definitive([Idle EXCEPT !.op = op, !.marker = marker, !.heard = TRUE]))
  /\ UNCHANGED <<sessions, issued, late>>

ReadAnswered(c) ==
  /\ Active(c) /\ calls[c].wire = "asked" /\ calls[c].step # "write"
  /\ calls[c].step = "recheck" /\ calls[c].op = "repair" => calls[c].id \in DOMAIN sessions
  /\ \E call \in Read(calls[c]) : Becomes(c, call)
  /\ UNCHANGED <<sessions, issued, late, faults>>

\* The reply is final: a status that is not retried, or a body that is not what was asked.
ReadRefused(c) ==
  /\ Active(c) /\ calls[c].wire = "asked" /\ calls[c].step # "write" /\ Fails
  /\ Becomes(c, ReadFailed(calls[c]))
  /\ UNCHANGED <<sessions, issued, late>>

\* The session whose detail was to be read is gone: 404.
ReadMisses(c) ==
  LET call == calls[c] IN
  /\ Active(c) /\ call.wire = "asked"
  /\ \/ call.step = "detail" /\ call.rest \cap DOMAIN sessions = {}
     \/ call.step = "recheck" /\ call.op = "repair" /\ call.id \notin DOMAIN sessions
  /\ Becomes(c, ReadFailed(call))
  /\ UNCHANGED <<sessions, issued, late, faults>>

\* 408, 429, 5xx, a lost connection or the attempt's timeout: again after a delay, if an
\* attempt is left and the delay ends within the budget.
Retried(call, delay) ==
  IF call.attempt < MaxAttempts /\ call.spent + delay < ReadLimit
  THEN [call EXCEPT !.wire = "asleep", !.left = delay]
  ELSE ReadFailed(call)

ReadFailsTransiently(c) ==
  /\ Active(c) /\ calls[c].wire = "asked" /\ calls[c].step # "write"
  /\ FailsIf(calls[c].left > 0)
  /\ \E delay \in Delays : Becomes(c, Retried(calls[c], delay))
  /\ UNCHANGED <<sessions, issued, late>>

\* The timeout of an attempt.
AttemptTimeout(spent) == Smaller(AttemptLimit, ReadLimit - spent)

NextAttempt(c) ==
  /\ calls[c].wire = "asleep" /\ calls[c].left = 0
  /\ Becomes(c, [calls[c] EXCEPT !.wire = "asked", !.attempt = @ + 1, !.left = AttemptTimeout(calls[c].spent)])
  /\ UNCHANGED <<sessions, issued, late, faults>>

(***************************************************************************)
(* The write at the provider.                                              *)
(***************************************************************************)
\* What performing the write makes of the sessions, and the session it makes.
Performed(op, marker, id) ==
  CASE op = "create" ->
         {<<[s \in DOMAIN sessions \cup {new} |->
               IF s = new THEN Session(marker, ours, FALSE, credentials) ELSE sessions[s]], new>> :
            new \in Ids \ issued, ours \in BOOLEAN, credentials \in Credentials}
    [] op = "delete" -> {<<[s \in DOMAIN sessions \ {id} |-> sessions[s]], id>>}
    [] op = "repair" -> {<<[sessions EXCEPT ![id].ours = ours], id>> : ours \in {TRUE, sessions[id].ours}}
    [] op = "connect" -> {<<[sessions EXCEPT ![id].linked = TRUE], id>>}
    [] op = "disconnect" -> {<<[sessions EXCEPT ![id].linked = FALSE], id>>}

\* A session can be made while an identifier is left, and changed while it exists.
Takes(op, id) == IF op = "create" THEN Ids \ issued # {} ELSE id \in DOMAIN sessions

Perform(c) ==
  LET call == calls[c] IN
  /\ call.step = "write" /\ call.wire = "asked" /\ Takes(call.op, call.id)
  /\ \E done \in Performed(call.op, call.marker, call.id) :
       /\ sessions' = done[1] /\ issued' = issued \cup {done[2]}
       /\ Becomes(c, [call EXCEPT !.wire = "performed", !.got = done[2], !.wrote = TRUE])
  /\ UNCHANGED <<late, faults>>

\* A deletion is accepted and done later.
Accept(c) ==
  LET call == calls[c] IN
  /\ Late /\ call.step = "write" /\ call.wire = "asked" /\ call.op = "delete" /\ call.id \in DOMAIN sessions
  /\ Fails /\ late' = late \cup {[op |-> call.op, marker |-> call.marker, id |-> call.id]}
  /\ Becomes(c, [call EXCEPT !.wire = "performed", !.got = call.id, !.lands = TRUE])
  /\ UNCHANGED <<sessions, issued>>

WriteAnswered(c) ==
  /\ calls[c].step = "write" /\ calls[c].wire = "performed"
  /\ calls[c].op = "create" => calls[c].got \in DOMAIN sessions
  /\ Becomes(c, Written(calls[c]))
  /\ UNCHANGED <<sessions, issued, late, faults>>

\* The provider refuses what it does not do: a 4xx other than 408 and 429.
WriteRefused(c) ==
  LET call == calls[c] IN
  /\ call.step = "write" /\ call.wire = "asked"
  /\ FailsIf(Takes(call.op, call.id))
  /\ Becomes(c, Definitive(call))
  /\ UNCHANGED <<sessions, issued, late>>

\* A write without a usable reply: 408, 429, 5xx, an unreadable body, a lost connection or
\* the timeout.  It may have been performed, or be performed later.
WriteUnanswered(call) == Ambiguous(call)

WriteFails(c) ==
  LET call == calls[c] IN
  /\ call.step = "write" /\ call.wire \in {"asked", "performed"}
  /\ FailsIf(call.left > 0)
  /\ \/ Becomes(c, WriteUnanswered(call)) /\ late' = late
     \/ /\ Late /\ call.wire = "asked"
        /\ late' = late \cup {[op |-> call.op, marker |-> call.marker, id |-> call.id]}
        /\ Becomes(c, WriteUnanswered([call EXCEPT !.lands = TRUE]))
  /\ UNCHANGED <<sessions, issued>>

\* A write whose caller has been answered is performed, or dropped, at last.
Land ==
  /\ \E write \in late :
       /\ late' = late \ {write}
       /\ \/ /\ Takes(write.op, write.id)
             /\ \E done \in Performed(write.op, write.marker, write.id) :
                  sessions' = done[1] /\ issued' = issued \cup {done[2]}
          \/ UNCHANGED <<sessions, issued>>
  /\ UNCHANGED <<calls, faults>>

\* The call through the service binding is lost to its caller, and goes on.
Lost(c) ==
  /\ Active(c) /\ calls[c].heard /\ Fails
  /\ IF Late
     THEN Becomes(c, [calls[c] EXCEPT !.heard = FALSE, !.answer = "reconcile_before_repeat"])
     ELSE Becomes(c, Ambiguous(calls[c]))
  /\ UNCHANGED <<sessions, issued, late>>

\* Time passes; no timer that is due is passed over.
Tick ==
  /\ \E c \in Callers : Active(c)
  /\ \A c \in Callers : Active(c) => calls[c].left > 0
  /\ calls' = [c \in Callers |-> IF Active(c) THEN [calls[c] EXCEPT !.left = @ - 1, !.spent = @ + 1] ELSE calls[c]]
  /\ UNCHANGED <<sessions, issued, late, faults>>

TimesOut(c) == calls[c].left = 0 /\ (ReadFailsTransiently(c) \/ WriteFails(c))

Next ==
  \/ Tick \/ Land
  \/ \E c \in Callers :
       \/ Call(c) \/ Rejected(c) \/ Lost(c)
       \/ ReadAnswered(c) \/ ReadRefused(c) \/ ReadMisses(c) \/ ReadFailsTransiently(c) \/ NextAttempt(c)
       \/ Perform(c) \/ Accept(c) \/ WriteAnswered(c) \/ WriteRefused(c) \/ WriteFails(c)

Spec == Init /\ [][Next]_vars

\* Time passes and timers fire, whatever the provider does.
Fairness ==
  /\ WF_vars(Tick)
  /\ \A c \in Callers : WF_vars(TimesOut(c)) /\ WF_vars(NextAttempt(c))

FairSpec == Spec /\ Fairness

-----------------------------------------------------------------------------
(***************************************************************************)
(* What the lifecycle calls of ProviderControl guarantee.                  *)
(***************************************************************************)

Answers ==
  {"none", "session", "absent", "present", "duplicates", "value", "do_not_retry", "reconcile_before_repeat"}

\* Sessions, calls and the writes under way have their types, and a read is within its
\* attempts (control-wasender.ts: ProviderSession, safeJson).
TypeOK ==
  /\ issued \subseteq Ids /\ DOMAIN sessions \subseteq issued
  /\ \A i \in DOMAIN sessions :
       sessions[i] \in [marker : Markers, ours : BOOLEAN, linked : BOOLEAN, credentials : Credentials]
  /\ \A c \in Callers :
       /\ calls[c].step \in {"idle", "list", "detail", "last", "write", "recheck", "answered"}
       /\ calls[c].wire \in {"none", "asked", "asleep", "performed"}
       /\ calls[c].attempt \in 0..MaxAttempts /\ calls[c].answer \in Answers
       /\ calls[c].rest \subseteq Ids /\ calls[c].got \in Ids \cup {"none"}
  /\ faults \in 0..Faults

Told(c, answer) == calls[c].answer = answer

\* A caller that is told do_not_retry may rely on it that its write was not performed and
\* never will be, whatever reply was lost, unreadable or late, and whichever read after the
\* write failed (writeJson, completeLifecycleWrite, rpc.ts providerFailure).
DefinitiveMeansUndone ==
  \A c \in Callers : Told(c, "do_not_retry") => ~calls[c].wrote /\ ~calls[c].lands

\* As long as no write lands after its caller was answered, the provider never has two
\* sessions of one setup: a repeated create finds what an ambiguous one left
\* (createSession: loadSessionsForMarker before the POST).
OneSessionPerMarker == \A marker \in Markers : Cardinality(Named(marker)) <= 1

\* Two answers about one setup never name two sessions that both exist, even if writes land
\* late and calls go on without their callers: duplicates are reported and left alone, never
\* resolved by picking one (createSession, reconcileSession, repairSessionConfiguration).
AnswersAgree ==
  \A c, d \in Callers :
    /\ Told(c, "session") /\ Told(d, "session") /\ calls[c].marker = calls[d].marker
    /\ {calls[c].op, calls[d].op} \subseteq ByMarker /\ {calls[c].got, calls[d].got} \subseteq DOMAIN sessions
    => calls[c].got = calls[d].got

\* A deletion that is answered with absent left no session behind, even if the provider
\* accepts deletions before it performs them (deleteSession: resolveProviderSession after the DELETE).
AbsentIsGone ==
  \A c \in Callers : calls[c].op = "delete" /\ Told(c, "absent") => calls[c].id \notin DOMAIN sessions

\* A session a create or a repair answers with has the webhook configuration of the setup,
\* whatever the provider made of the request (hasSessionConfiguration on the created, the
\* adopted and the re-read session).
AnsweredIsConfigured ==
  \A c \in Callers :
    /\ calls[c].op \in {"create", "repair"} /\ Told(c, "session")
    /\ calls[c].got \in DOMAIN sessions
    => sessions[calls[c].got].ours

\* A read ends within its budget of time, however its attempts and delays fall (safeJson).
ReadWithinBudget ==
  \A c \in Callers : calls[c].step \in {"list", "detail", "last", "recheck"} => calls[c].spent <= ReadLimit

\* Every call ends, even if the provider never says a word (request: the AbortController of
\* each attempt; safeJson: the bound on attempts).
CallsEnd == \A c \in Callers : []<>(~Active(c))
=============================================================================
