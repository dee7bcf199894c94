---------------------------- MODULE QrActivation ----------------------------
(***************************************************************************)
(* One provisioned Connection Setup, from the QR code to the connection:   *)
(* the tabs of a User that poll it, the provider session that a phone is   *)
(* linked to, the transaction that activates the setup or rejects it, and  *)
(* what the User then does with the connection.                            *)
(*                                                                         *)
(* Every poll draws the identity, the key and the secrets of a connection  *)
(* of its own before it knows whether it will be the one that activates.   *)
(* Provisioning and cleanup of the setup are in ConnectionSetup.           *)
(*                                                                         *)
(* apps/api/src/whatsapp-connection.ts, packages/db/src/                   *)
(* whatsapp-connection.ts, packages/whatsapp-provider/src/                 *)
(* control-wasender.ts and the SQL functions they call.                    *)
(***************************************************************************)
EXTENDS Integers, FiniteSets

CONSTANTS
  Tabs,      \* polls that may run at once
  Phones,    \* that may scan the code
  Asked,     \* the number the User asked for
  Hidden,    \* a phone whose identity the provider does not give
  Expires,   \* when the setup expires
  MaxTime,   \* a bound on the clock
  Failures   \* a bound on failures

ASSUME QrActivationAssumption ==
  /\ Asked \in Phones /\ Hidden \in Phones /\ Asked # Hidden
  /\ Expires \in Nat /\ MaxTime \in Nat /\ Failures \in Nat

NoPhone == "none"

VARIABLES
  clock,
  setup,     \* state and whether its provider session is to be deleted
  provider,  \* the status of the session and the phone it is linked to
  conn,      \* the row a tab has inserted, if any
  tab,       \* the poll of each tab
  shown,     \* the connections a tab has been told of
  failures

vars == <<clock, setup, provider, conn, tab, shown, failures>>

NoConnection == [state |-> "none", name |-> [key |-> "none", text |-> "none"],
                 search |-> "none", covered |-> FALSE, phone |-> NoPhone]
Idle == [phase |-> "idle", phone |-> NoPhone]

Init ==
  /\ clock = 0
  /\ setup = [state |-> "provisioned", cleanup |-> FALSE]
  /\ provider = [status |-> "disconnected", phone |-> NoPhone]
  /\ conn = [t \in Tabs |-> NoConnection]
  /\ tab = [t \in Tabs |-> Idle]
  /\ shown = [t \in Tabs |-> {}]
  /\ failures = 0

Rows == {t \in Tabs : conn[t].state # "none"}
Visible == {t \in Tabs : conn[t].state = "connected"}

Tick == /\ clock < MaxTime /\ clock' = clock + 1
        /\ UNCHANGED <<setup, provider, conn, tab, shown, failures>>

Polls(t, changes) == tab' = [tab EXCEPT ![t] = changes]

Goes(t, phase) == Polls(t, [tab[t] EXCEPT !.phase = phase])

(***************************************************************************)
(* A poll.                                                                 *)
(***************************************************************************)
\* What is loaded of the setup: nothing of one that has expired, or whose connection is gone.
Outcome ==
  CASE setup.state = "activated" /\ Visible # {}                     -> "activated"
    [] setup.state \in {"provisioned", "provisioning_failed"} /\ clock < Expires -> setup.state
    [] OTHER                                                         -> "none"

\* loadSetupForActivation. A setup that has been activated shows its connection; any other
\* that is not provisioned ends the poll.
Load(t) ==
  /\ tab[t] = Idle
  /\ \/ Outcome = "provisioned" /\ Goes(t, "loaded") /\ UNCHANGED shown
     \/ /\ Outcome = "activated" /\ UNCHANGED tab
        /\ shown' = [shown EXCEPT ![t] = @ \cup Visible]
  /\ UNCHANGED <<clock, setup, provider, conn, failures>>

NextPhase(status, started) ==
  CASE status = "connected"                                -> "verify"
    [] status = "connecting" /\ started                    -> "idle"
    [] status \notin {"connected", "connecting"} /\ ~started -> "connect"
    [] OTHER                                               -> "qr"

\* The session of the setup must be there, and only one.
Reconcile(t) ==
  /\ tab[t].phase = "loaded"
  /\ IF provider.status = "absent" THEN Polls(t, Idle)
                                   ELSE Goes(t, NextPhase(provider.status, FALSE))
  /\ UNCHANGED <<clock, setup, provider, conn, shown, failures>>

Connected(p) ==
  IF p.status \in {"disconnected", "logged_out"}
  THEN [status |-> "connecting", phone |-> NoPhone] ELSE p

Connect(t) ==
  /\ tab[t].phase = "connect"
  /\ provider' = Connected(provider)
  /\ IF provider.status = "absent" THEN Polls(t, Idle)
     ELSE IF NextPhase(provider'.status, TRUE) = "idle" THEN Polls(t, Idle)
     ELSE Goes(t, NextPhase(provider'.status, TRUE))
  /\ UNCHANGED <<clock, setup, conn, shown, failures>>

\* Mutant: a number that cannot be read is taken for the one asked for.
AcceptedUnlessOther(p) == p \in {Asked, Hidden}

Accepted(p) == p = Asked

\* The provider tells the identity of the phone that is linked at that moment.
VerifyNumber(t) ==
  /\ tab[t].phase = "verify"
  /\ IF provider.status # "connected" THEN Polls(t, Idle)
     ELSE Polls(t, [phase |-> IF Accepted(provider.phone) THEN "activate" ELSE "reject",
                    phone |-> provider.phone])
  /\ UNCHANGED <<clock, setup, provider, conn, shown, failures>>

\* The code, or that there is none yet.
GetQrCode(t) ==
  /\ tab[t].phase = "qr"
  /\ Polls(t, Idle)
  /\ UNCHANGED <<clock, setup, provider, conn, shown, failures>>

(***************************************************************************)
(* The transactions that end a setup.                                      *)
(***************************************************************************)
\* Mutant: a setup is activated by every poll that has verified it.
ActivatableAgain == setup.state \in {"provisioned", "activated"} /\ clock < Expires

Activatable == setup.state = "provisioned" /\ clock < Expires

\* activate_connection_setup inserts the row.
Inserted(t) ==
  [conn EXCEPT ![t] = [NoConnection EXCEPT !.state = "connected", !.phone = tab[t].phone]]

\* A name under the key of the connection of poll t.
Encrypted(t, text) == [key |-> t, text |-> text]

\* The name goes to the row this poll has inserted, if it is the one.
Named(rows, t) ==
  IF rows[t].state = "none" THEN rows
  ELSE [rows EXCEPT ![t].name = Encrypted(t, "given")]

\* The search key is installed once, and what can be searched with it is recorded.
Searchable(rows, t) ==
  IF rows[t].state = "none" \/ rows[t].search # "none" THEN rows
  ELSE [rows EXCEPT ![t].search = t, ![t].covered = TRUE]

Installed(rows, t) == Searchable(Named(rows, t), t)

Activate(t) ==
  /\ tab[t].phase = "activate"
  /\ Polls(t, Idle)
  /\ CASE Activatable ->
            /\ conn' = Installed(Inserted(t), t)
            /\ setup' = [setup EXCEPT !.state = "activated"]
            /\ shown' = [shown EXCEPT ![t] = @ \cup {t}]
       [] setup.state = "activated" /\ Visible # {} /\ ~Activatable ->
            /\ conn' = Installed(conn, t)
            /\ shown' = [shown EXCEPT ![t] = @ \cup Visible]
            /\ UNCHANGED setup
       [] OTHER -> UNCHANGED <<conn, setup, shown>>
  /\ UNCHANGED <<clock, provider, failures>>

Rejectable == setup.state = "provisioned" /\ clock < Expires

\* fail_connection_setup_activation; its provider session is deleted in the end.
Reject(t) ==
  /\ tab[t].phase = "reject"
  /\ Polls(t, Idle)
  /\ setup' = IF Rejectable \/ setup.state = "provisioning_failed"
              THEN [state |-> "provisioning_failed", cleanup |-> TRUE] ELSE setup
  /\ UNCHANGED <<clock, provider, conn, shown, failures>>

PollStep(t) ==
  \/ Reconcile(t) \/ Connect(t) \/ VerifyNumber(t) \/ GetQrCode(t) \/ Activate(t) \/ Reject(t)

\* A call fails or its answer is lost; a connect may have had its effect.
PollFails(t) ==
  /\ failures < Failures /\ failures' = failures + 1
  /\ tab[t].phase # "idle"
  /\ provider' \in IF tab[t].phase = "connect" THEN {provider, Connected(provider)}
                                               ELSE {provider}
  /\ Polls(t, Idle)
  /\ UNCHANGED <<clock, setup, conn, shown>>

(***************************************************************************)
(* The User and the provider.                                              *)
(***************************************************************************)
Scan(p) ==
  /\ provider.status = "connecting"
  /\ provider' = [status |-> "connected", phone |-> p]
  /\ UNCHANGED <<clock, setup, conn, tab, shown, failures>>

Unlink ==
  /\ provider.status = "connected"
  /\ provider' = [status |-> "logged_out", phone |-> NoPhone]
  /\ UNCHANGED <<clock, setup, conn, tab, shown, failures>>

\* A rename encrypts the new name under the key it has read with the connection.
Rename(t) ==
  /\ conn[t].state = "connected" /\ conn[t].name.text = "given"
  /\ conn' = [conn EXCEPT ![t].name = Encrypted(t, "renamed")]
  /\ UNCHANGED <<clock, setup, provider, tab, shown, failures>>

DeleteConnection(t) ==
  /\ conn[t].state = "connected"
  /\ conn' = [conn EXCEPT ![t].state = "deleting"]
  /\ UNCHANGED <<clock, setup, provider, tab, shown, failures>>

\* The cleanup of a setup that has failed.
Cleanup ==
  /\ setup.cleanup
  /\ setup' = [setup EXCEPT !.cleanup = FALSE]
  /\ provider' = [status |-> "absent", phone |-> NoPhone]
  /\ UNCHANGED <<clock, conn, tab, shown, failures>>

Next ==
  \/ Tick
  \/ \E t \in Tabs : Load(t) \/ PollStep(t) \/ PollFails(t) \/ Rename(t) \/ DeleteConnection(t)
  \/ \E p \in Phones : Scan(p)
  \/ Unlink \/ Cleanup

Spec == Init /\ [][Next]_vars

\* The page polls again and again, and every request ends.
Fairness == \A t \in Tabs : WF_vars(Load(t)) /\ WF_vars(PollStep(t))

FairSpec == Spec /\ Fairness

-----------------------------------------------------------------------------
(***************************************************************************)
(* What the activation of a Connection Setup promises.                     *)
(***************************************************************************)

Key == Tabs \cup {"none"}

\* The variables have their types; only a setup that was activated has a connection, and
\* none that was rejected.
TypeOK ==
  /\ clock \in 0..MaxTime /\ failures \in 0..Failures
  /\ setup \in [state : {"provisioned", "activated", "provisioning_failed"}, cleanup : BOOLEAN]
  /\ provider \in [status : {"disconnected", "connecting", "connected", "logged_out", "absent"},
                   phone : Phones \cup {NoPhone}]
  /\ conn \in [Tabs -> [state : {"none", "connected", "deleting"},
       name : [key : Key, text : {"none", "given", "renamed"}], search : Key,
       covered : BOOLEAN, phone : Phones \cup {NoPhone}]]
  /\ tab \in [Tabs -> [phase : {"idle", "loaded", "connect", "verify", "qr", "activate", "reject"},
                       phone : Phones \cup {NoPhone}]]
  /\ shown \in [Tabs -> SUBSET Tabs]
  /\ Rows # {} <=> setup.state = "activated"

\* Polls of several tabs that have all verified the number activate one connection, and
\* every tab is told of that one (activate_connection_setup returns the winner's row).
OneConnection ==
  /\ Cardinality(Rows) <= 1
  /\ \A t \in Tabs : shown[t] \subseteq Rows

\* What is stored with a connection was encrypted under its own key: its name, after a poll
\* that lost the race and after a rename, and its search key, which comes with coverage.
Readable ==
  \A t \in Rows : conn[t].name.key = t /\ conn[t].search = t /\ conn[t].covered

\* A poll that verified the number before does not undo a rename.
RenameKept ==
  [][\A t \in Tabs : conn[t].name.text = "renamed" => conn'[t].name.text = "renamed"]_vars

\* A connection exists only for a number the provider has confirmed to be the one asked for.
VerifiedNumber == \A t \in Rows : conn[t].phone = Asked

\* What ends a setup ends it for good: a slow poll that has seen another phone does not fail
\* a setup that another poll has activated, or the other way round.
EndIsFinal ==
  [][setup.state # "provisioned" => setup'.state = setup.state]_vars

\* When a phone is linked and stays linked, the polls activate the setup or reject it,
\* unless it expires.
ScanSettles ==
  <>[](provider.status = "connected") => <>(setup.state # "provisioned" \/ clock >= Expires)
=============================================================================
