------------------------------ MODULE SetupPage ------------------------------
(***************************************************************************)
(* The browser's part of a Connection Setup: the form, the request that    *)
(* starts a setup under a key of the browser's own, the loop that polls    *)
(* its QR code and the request that cancels it.  Every one of them is an   *)
(* asynchronous task of a page on which the user may meanwhile edit,       *)
(* cancel, start again, sign out or leave.  A task compares the generation *)
(* it was started in with the page's before it touches the page, in most   *)
(* places; a task of the current generation is called live here.           *)
(*                                                                         *)
(* The API answers from the setups it has; what makes them proceed is in   *)
(* ConnectionSetup and QrActivation.                                       *)
(*                                                                         *)
(* apps/web/src/app/public-boundary-journey.tsx, connection-setup.tsx and  *)
(* connection-setup-observation.ts.                                        *)
(***************************************************************************)
EXTENDS Naturals, FiniteSets

CONSTANTS
  MaxKeys,   \* a bound on the idempotency keys the page draws
  Drafts,    \* a bound on the edits of the form
  SignOuts,  \* a bound on sign-outs
  Faults,    \* a bound on replies that are lost, unreadable or 503
  BodyLater  \* whether the body of a reply may arrive after its headers

SetupPageAssumption ==
  {MaxKeys, Drafts, SignOuts, Faults} \subseteq Nat /\ BodyLater \in BOOLEAN

Keys == 1..MaxKeys
Unset == 0

\* How a setup may fail at the API, and what a poll is told of it.
FailureCodes == [capacity |-> "provider_capacity_unavailable",
                 mismatch |-> "number_confirmation_failed",
                 failed |-> "provisioning_failed",
                 quarantined |-> "provisioning_quarantined"]

Incomplete == {"pending", "provisioned"} \cup DOMAIN FailureCodes

\* Refusals of a start; the user reads which.
Refusals == {"invalid", "number_unavailable", "number_cleanup_in_progress",
             "number_deletion_in_progress", "connection_limit_reached"}

\* The page states in which a setup is being waited for.
Waiting == {"pending", "replayed", "provisioned", "qr_available", "connecting"}

Cancellable ==
  Waiting \cup {"provider_capacity_unavailable", "provisioning_failed", "provisioning_quarantined"}

States ==
  Waiting \cup Refusals \cup {FailureCodes[f] : f \in DOMAIN FailureCodes}
    \cup {"idle", "loading", "cancelling", "cancelled", "expired", "connected", "unavailable"}

VARIABLES
  setups,    \* key -> the state of the setup that was started with it, "none" if none was
  page,      \* what the component holds, and whether it is mounted and signed in
  tasks,     \* the asynchronous tasks under way
  timer,     \* the setup whose next poll is scheduled
  draft,     \* ghost: how often the draft was given up
  drawn,     \* ghost: the keys drawn, with the draft each was drawn for
  signOuts, faults

vars == <<setups, page, tasks, timer, draft, drawn, signOuts, faults>>

Init ==
  /\ setups = [k \in Keys |-> "none"]
  /\ page = [state |-> "idle", id |-> Unset, intent |-> Unset, qr |-> Unset, mounted |-> TRUE, signedIn |-> TRUE]
  /\ tasks = {} /\ timer = Unset /\ draft = 0 /\ drawn = {}
  /\ signOuts = 0 /\ faults = 0

Task(kind, key) == [kind |-> kind, key |-> key, stage |-> "token", live |-> TRUE, reply |-> "none"]

Fails == faults < Faults /\ faults' = faults + 1

(***************************************************************************)
(* What the handlers do to the page, its tasks and its timer.              *)
(***************************************************************************)
\* Mutant: the tasks of the old generation stay current.
Outdated(ts) == ts

\* The generation has moved on.
Superseded(ts) == {[t EXCEPT !.live = FALSE] : t \in ts}

\* stopObserving: no timer, no image, and whatever is under way is of an old generation.
Stopped(p) == [p EXCEPT !.qr = Unset]

\* Mutant: Continue after a failure draws a key of its own.
IntentAlwaysNew(p) == Cardinality(drawn) + 1

\* The key of the draft's intent is kept for retries.
Intent(p) == IF p.intent # Unset THEN p.intent ELSE Cardinality(drawn) + 1

InputsEnabled == page.mounted /\ page.state # "loading" /\ page.id = Unset

\* Continue.
StartSetup ==
  LET key == Intent(page) IN
  /\ InputsEnabled /\ key \in Keys
  /\ page' = [Stopped(page) EXCEPT !.state = "loading", !.intent = key]
  /\ tasks' = Superseded(tasks) \cup {Task("start", key)}
  /\ timer' = Unset /\ drawn' = drawn \cup {<<key, draft>>}
  /\ UNCHANGED <<setups, draft, signOuts, faults>>

ForgetsSetup ==
  /\ draft < Drafts /\ draft' = draft + 1
  /\ page' = [Stopped(page) EXCEPT !.state = "idle", !.id = Unset, !.intent = Unset]
  /\ tasks' = Superseded(tasks) /\ timer' = Unset
  /\ UNCHANGED <<setups, drawn, signOuts, faults>>

\* The name or the number is edited.
Edit == InputsEnabled /\ ForgetsSetup

\* Start again, or the dialog is closed on a setup that is over.
ClearDraft ==
  /\ page.mounted
  /\ \/ page.state = "cancelled"
     \/ page.id # Unset /\ page.state \in {"expired", "number_confirmation_failed", "unavailable", "connected"}
  /\ ForgetsSetup

CancelSetup ==
  /\ page.mounted /\ page.id # Unset /\ page.state \in Cancellable
  /\ page' = [Stopped(page) EXCEPT !.state = "cancelling"]
  /\ tasks' = Superseded(tasks) \cup {Task("cancel", page.id)}
  /\ timer' = Unset
  /\ UNCHANGED <<setups, draft, drawn, signOuts, faults>>

SignOut ==
  /\ page.mounted /\ page.signedIn /\ signOuts < SignOuts /\ signOuts' = signOuts + 1
  /\ page' = [Stopped(page) EXCEPT !.signedIn = FALSE]
  /\ tasks' = Superseded(tasks) /\ timer' = Unset
  /\ UNCHANGED <<setups, draft, drawn, faults>>

SignIn ==
  /\ page.mounted /\ ~page.signedIn /\ page' = [page EXCEPT !.signedIn = TRUE]
  /\ UNCHANGED <<setups, tasks, timer, draft, drawn, signOuts, faults>>

\* The cleanup of the effect: the generation moves on, the timer and the image go.
EndedTasks(ts) == Superseded(ts)

Unmount ==
  /\ page.mounted /\ page' = [Stopped(page) EXCEPT !.mounted = FALSE]
  /\ tasks' = EndedTasks(tasks) /\ timer' = Unset
  /\ UNCHANGED <<setups, draft, drawn, signOuts, faults>>

(***************************************************************************)
(* Tasks.                                                                  *)
(***************************************************************************)
Ends(t) == tasks' = tasks \ {t}
Goes(t, stage, reply) == tasks' = (tasks \ {t}) \cup {[t EXCEPT !.stage = stage, !.reply = reply]}

\* A page that has been left no longer changes.
Shows(p) == page' = IF page.mounted THEN p ELSE page

\* startObserving, at the end of a task.
Observes(t, p) ==
  /\ Shows(Stopped(p)) /\ timer' = Unset
  /\ tasks' = Superseded(tasks \ {t}) \cup {Task("observe", t.key)}

\* A token is had; the request goes out.  A cancellation does not look at its generation.
GetToken(t) ==
  /\ t.stage = "token"
  /\ CASE t.kind # "cancel" /\ ~t.live -> Ends(t) /\ page' = page
       [] (t.kind = "cancel" \/ t.live) /\ page.signedIn -> Goes(t, "sent", "none") /\ page' = page
       [] (t.kind = "cancel" \/ t.live) /\ ~page.signedIn ->
            Ends(t) /\ Shows([page EXCEPT !.state = "unavailable", !.qr = IF t.kind = "observe" THEN Unset ELSE @])
  /\ UNCHANGED <<setups, timer, draft, drawn, signOuts, faults>>

\* What the API makes of a request and answers.  A failed setup is replayed as failed, for
\* whatever reason; a setup whose time is over is not found, though no sweep has seen it.
Replayed(state) ==
  CASE state = "pending" -> "replayed"
    [] state \in {"capacity", "mismatch", "failed"} -> "provisioning_failed"
    [] state = "quarantined" -> "provisioning_quarantined"
    [] OTHER -> state

Polled(state) ==
  CASE state = "pending" -> {"pending", "gone"}
    [] state = "provisioned" -> {"qr_available", "connecting", "gone"}
    [] state \in DOMAIN FailureCodes -> {FailureCodes[state], "gone"}
    [] state = "activated" -> {"activated"}
    [] OTHER -> {"gone"}

Served(t) ==
  LET state == setups[t.key] IN
  CASE t.kind = "start" /\ state = "none" -> {<<"pending", "pending">>} \cup {<<"none", r>> : r \in Refusals}
    [] t.kind = "start" /\ state # "none" -> {<<state, Replayed(state)>>}
    [] t.kind = "observe" -> {<<state, answer>> : answer \in Polled(state)}
    [] t.kind = "cancel" /\ state \in Incomplete -> {<<"cancelled", "cancelled">>}
    [] t.kind = "cancel" /\ state \notin Incomplete -> {<<state, state>>}

Serve(t) ==
  /\ t.stage = "sent"
  /\ \E served \in Served(t) :
       setups' = [setups EXCEPT ![t.key] = served[1]] /\ Goes(t, "replied", served[2])
  /\ UNCHANGED <<page, timer, draft, drawn, signOuts, faults>>

\* The headers of the reply to a start.  Its generation is looked at now, and not again
\* when the body is there.
Headers(t) ==
  /\ t.kind = "start" /\ t.stage = "replied" /\ (BodyLater \/ ~t.live)
  /\ IF t.live THEN Goes(t, "body", t.reply) ELSE Ends(t)
  /\ UNCHANGED <<setups, page, timer, draft, drawn, signOuts, faults>>

\* The answer to a start: a setup to wait for, one that is over, or a refusal.
Started(t) ==
  /\ t.kind = "start"
  /\ t.stage = "body" \/ (t.stage = "replied" /\ t.live /\ ~BodyLater)
  /\ \/ t.reply \in {"pending", "replayed", "provisioned"}
        /\ Observes(t, [page EXCEPT !.id = t.key, !.state = t.reply])
     \/ t.reply \in Refusals /\ Ends(t) /\ Shows([page EXCEPT !.state = t.reply]) /\ timer' = timer
     \/ t.reply = "activated" /\ Goes(t, "list", t.reply)
        /\ Shows([page EXCEPT !.id = t.key, !.state = "connected"]) /\ timer' = timer
     \/ t.reply \in {"provisioning_failed", "provisioning_quarantined", "cancelled", "expired"}
        /\ Ends(t) /\ Shows([page EXCEPT !.id = t.key, !.state = t.reply]) /\ timer' = timer
  /\ UNCHANGED <<setups, draft, drawn, signOuts, faults>>

\* Mutant: the image of a superseded poll is shown.
CurrentImage(t) == t.live \/ t.reply = "qr_available"

\* observeAgain: the timer of the next poll.  Its delay, which grows with the polls in one
\* state, only decides when Poll happens.
Scheduled(t) == t.key

\* A poll goes on only in its own generation.
Current(t) == t.live

\* The reply to a poll: an image, a state to wait in, the end, or why there is no more to see.
Observed(t) ==
  /\ t.kind = "observe" /\ t.stage = "replied"
  /\ \/ ~Current(t) /\ Ends(t) /\ UNCHANGED <<page, timer>>
     \/ Current(t) /\ t.reply = "qr_available"
        /\ Ends(t) /\ Shows([page EXCEPT !.qr = t.key, !.state = t.reply]) /\ timer' = Scheduled(t)
     \/ Current(t) /\ t.reply \in {"pending", "connecting"}
        /\ Ends(t) /\ Shows([page EXCEPT !.qr = Unset, !.state = t.reply]) /\ timer' = Scheduled(t)
     \/ Current(t) /\ t.reply = "activated"
        /\ Goes(t, "list", t.reply) /\ Shows([page EXCEPT !.qr = Unset, !.state = "connected"]) /\ timer' = timer
     \/ Current(t) /\ t.reply \in States \ Waiting
        /\ Ends(t) /\ Shows([page EXCEPT !.qr = Unset, !.state = t.reply]) /\ timer' = timer
     \/ Current(t) /\ t.reply = "gone"
        /\ Ends(t) /\ Shows([page EXCEPT !.qr = Unset, !.state = "unavailable"]) /\ timer' = timer
  /\ UNCHANGED <<setups, draft, drawn, signOuts, faults>>

\* A poll that failed, or was answered with 503, leaves the page as it is and is repeated.
ObservationFails(t) ==
  /\ t.kind = "observe" /\ t.stage \in {"token", "sent", "replied"} /\ Fails
  /\ Ends(t) /\ timer' = IF t.live THEN Scheduled(t) ELSE timer
  /\ UNCHANGED <<setups, page, draft, drawn, signOuts>>

ShownFailure(p) == [p EXCEPT !.state = "unavailable"]

\* Any failure of a start, or of a cancellation, is shown, whatever the generation.
RequestFails(t) ==
  /\ t.kind \in {"start", "cancel"} /\ t.stage \in {"token", "sent", "replied", "body"} /\ Fails
  /\ Ends(t) /\ Shows(ShownFailure(page))
  /\ UNCHANGED <<setups, timer, draft, drawn, signOuts>>

\* The list of connections has been loaded, or not.
Listed(t) ==
  /\ t.stage = "list" /\ Ends(t)
  /\ \/ UNCHANGED <<page, faults>>
     \/ Fails /\ IF t.live THEN Shows([page EXCEPT !.state = "unavailable"]) ELSE page' = page
  /\ UNCHANGED <<setups, timer, draft, drawn, signOuts>>

\* Mutant: the page says cancelled when it has asked for it.
ShownCancelled(p, reply) == [p EXCEPT !.intent = Unset, !.id = Unset, !.state = "cancelled"]

\* What the page shows of the answer to a cancellation.
ShownAnswer(p, reply) ==
  IF reply \in {"cancelled", "expired"}
  THEN [p EXCEPT !.intent = Unset, !.id = Unset, !.state = reply]
  ELSE [p EXCEPT !.state = "unavailable"]

Cancelled(t) ==
  /\ t.kind = "cancel" /\ t.stage = "replied"
  /\ Ends(t) /\ Shows(ShownAnswer(page, t.reply))
  /\ UNCHANGED <<setups, timer, draft, drawn, signOuts, faults>>

\* The timer of the next poll fires.
Poll ==
  /\ timer # Unset /\ timer' = Unset
  /\ tasks' = tasks \cup {Task("observe", timer)}
  /\ UNCHANGED <<setups, page, draft, drawn, signOuts, faults>>

\* The setups proceed, fail or expire.
Proceed ==
  /\ \E k \in Keys :
       \E next \in CASE setups[k] = "pending" -> {"provisioned", "failed", "capacity", "quarantined", "expired"}
                     [] setups[k] = "provisioned" -> {"activated", "mismatch", "expired"}
                     [] setups[k] \in DOMAIN FailureCodes -> {"expired"}
                     [] OTHER -> {} :
         setups' = [setups EXCEPT ![k] = next]
  /\ UNCHANGED <<page, tasks, timer, draft, drawn, signOuts, faults>>

TaskGoesOn ==
  \E t \in tasks :
    GetToken(t) \/ Serve(t) \/ Headers(t) \/ Started(t) \/ Observed(t) \/ Cancelled(t) \/ Listed(t)

Next ==
  \/ StartSetup \/ Edit \/ ClearDraft \/ CancelSetup \/ SignOut \/ SignIn \/ Unmount
  \/ TaskGoesOn \/ Poll \/ Proceed
  \/ \E t \in tasks : ObservationFails(t) \/ RequestFails(t)

Spec == Init /\ [][Next]_vars

-----------------------------------------------------------------------------
(***************************************************************************)
(* What the page of a Connection Setup guarantees.                         *)
(***************************************************************************)

\* The page, its tasks and the setups have their types (public-boundary-journey.tsx:
\* the component's state and refs).
TypeOK ==
  /\ setups \in [Keys -> Incomplete \cup {"none", "activated", "cancelled", "expired"}]
  /\ page.state \in States
  /\ {page.id, page.intent, page.qr, timer} \subseteq Keys \cup {Unset}
  /\ \A t \in tasks : t.kind \in {"start", "observe", "cancel"} /\ t.key \in Keys
  /\ draft \in 0..Drafts /\ drawn \subseteq Keys \X (0..Drafts)

OfDraft(d) == {k \in Keys : <<k, d>> \in drawn}

\* However often Continue is pressed, replies are lost or setups are cancelled, one intent
\* of the form never has two setups under way, which would take two of the account's slots
\* (startSetup: setupIntent is kept until the draft changes or its setup was cancelled).
OneSetupPerDraft ==
  \A d \in 0..Drafts : Cardinality({k \in OfDraft(d) : setups[k] \in Incomplete}) <= 1

\* The QR code on the page is the one of the setup the page is about, and is only there
\* while the page says so: never of a setup that was left, cancelled or replaced, whose code
\* would connect the phone to something else (observeSetup, stopObserving, replaceQrImage).
QrIsOfSetup == page.qr # Unset => page.qr = page.id /\ page.state = "qr_available"

Loop == {t \in tasks : t.kind = "observe" /\ t.live}

\* There is at most one poll under way or scheduled, however often setups are started,
\* cancelled and started again (startObserving, observeAgain).
OneLoop == Cardinality(Loop) + (IF timer # Unset THEN 1 ELSE 0) <= 1

\* When the page says that the setup was cancelled, no setup of this draft is under way or
\* has become a connection (cancelSetup: what it takes for the answer).
CancelledIsCancelled ==
  page.state = "cancelled" => \A k \in OfDraft(draft) : setups[k] \in {"none", "cancelled", "expired"}

\* A page that was left polls no more, as long as no reply to a start is between its headers
\* and its body when it is left (the effect's cleanup).
QuietAfterLeaving == ~page.mounted => timer = Unset /\ Loop = {}
=============================================================================
