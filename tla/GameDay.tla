------------------------------ MODULE GameDay -------------------------------
(***************************************************************************)
(* The quarterly game day of apps/recovery-game-day for one operation.     *)
(* `execute` rebuilds an OAuth record in a key-value store, wraps a key,   *)
(* raises an alert, puts the create-only replay fixture, stores its state  *)
(* and sends a message; the consumer of the queue answers that message by  *)
(* reading the fixtures back, unwrapping the key, losing a media object    *)
(* and marking the state; `verify` waits for the mark and for the receipt  *)
(* of the alert.                                                           *)
(*                                                                         *)
(* The key-value store is eventually consistent: a read may still see what *)
(* was there before the last write.  The queue delivers at least once and  *)
(* redelivers what is not acknowledged.  Any call may crash between two    *)
(* steps, and the verifier of recovery then executes again, perhaps while  *)
(* the first call is still under way.                                      *)
(***************************************************************************)
EXTENDS Naturals, FiniteSets

CONSTANTS
  Calls,      \* calls of execute, each followed by verify
  Consumers,  \* deliveries that may be handled at once
  None,
  Faults,     \* how many steps fail
  Stale,      \* whether a read of the key-value store may be stale
  Stranding   \* whether a call may crash between the replay fixture and its state

GameDayAssumption ==
  /\ Faults \in Nat
  /\ Stale \in BOOLEAN
  /\ Stranding \in BOOLEAN
  /\ None \notin Calls

VARIABLES
  kv,        \* the stored state: NoState or [alert, done]
  kvOld,     \* what a stale read sees
  oauth,     \* whether the reconstructed OAuth record is stored
  fixture,   \* whether the replay fixture exists (put only if absent)
  kms,       \* whether the wrapped key is stored
  media,     \* whether the media object is stored
  queue,     \* messages sent and not acknowledged (a count: all are equal)
  alerts,    \* the alerts raised, by the call that raised them
  delivered, \* the alerts whose delivery the pager has recorded
  call,      \* where each call is
  work,      \* where each delivery is, and the state it read
  replayed,  \* whether a consumer has unwrapped the key and lost the media
  faults

vars == <<kv, kvOld, oauth, fixture, kms, media, queue, alerts, delivered,
          call, work, replayed, faults>>

NoState == [alert |-> None, done |-> FALSE]
Idle == [at |-> "idle", seen |-> NoState]

Init ==
  /\ kv = NoState /\ kvOld = NoState
  /\ oauth = FALSE /\ fixture = FALSE /\ kms = FALSE /\ media = FALSE
  /\ queue = 0
  /\ alerts = {} /\ delivered = {}
  /\ call = [c \in Calls |-> Idle]
  /\ work = [w \in Consumers |-> Idle]
  /\ replayed = FALSE
  /\ faults = 0

Seen == IF Stale THEN {kv, kvOld} ELSE {kv}
Write(state) == kv' = state /\ kvOld' = kv
Fail == faults < Faults /\ faults' = faults + 1
Go(c, to) == call' = [call EXCEPT ![c].at = to]
Handle(w, to) == work' = [work EXCEPT ![w].at = to]

(***************************************************************************)
(* execute                                                                 *)
(***************************************************************************)

(* No more than two messages wait at once: a bound, not a rule of the code. *)
Send == queue < 2 /\ queue' = queue + 1

(* A known execution is answered with its receipt, and replayed again while *)
(* it is not complete.                                                      *)
Known(c, state) ==
  /\ state # NoState
  /\ IF state.done THEN UNCHANGED queue ELSE Send
  /\ Go(c, "executed")

Execute(c) ==
  /\ call[c].at \in {"idle", "failed"}
  /\ \E state \in Seen :
       \/ Known(c, state)
       \/ state = NoState /\ Go(c, "reconstruct") /\ UNCHANGED queue
  /\ UNCHANGED <<kv, kvOld, oauth, fixture, kms, media, alerts, delivered, work, replayed, faults>>

(* The OAuth record is deleted and put back from the retained fixture, then *)
(* read again.                                                              *)
Unmake(c) ==
  /\ call[c].at = "reconstruct"
  /\ oauth' = FALSE
  /\ Go(c, "put")
  /\ UNCHANGED <<kv, kvOld, fixture, kms, media, queue, alerts, delivered, work, replayed, faults>>

Remake(c) ==
  /\ call[c].at = "put"
  /\ oauth' = TRUE
  /\ Go(c, "check")
  /\ UNCHANGED <<kv, kvOld, fixture, kms, media, queue, alerts, delivered, work, replayed, faults>>

(* A stale read may miss the record, or see the one there was before.       *)
Reconstructed(c) ==
  /\ call[c].at = "check"
  /\ \E found \in IF Stale THEN BOOLEAN ELSE {oauth} : Go(c, IF found THEN "wrap" ELSE "failed")
  /\ UNCHANGED <<kv, kvOld, oauth, fixture, kms, media, queue, alerts, delivered, work, replayed, faults>>

Wrap(c) ==
  /\ call[c].at = "wrap"
  /\ kms' = TRUE
  /\ Go(c, "alert")
  /\ UNCHANGED <<kv, kvOld, oauth, fixture, media, queue, alerts, delivered, work, replayed, faults>>

Alert(c) ==
  /\ call[c].at = "alert"
  /\ alerts' = alerts \cup {c}
  /\ Go(c, "fixture")
  /\ UNCHANGED <<kv, kvOld, oauth, fixture, kms, media, queue, delivered, work, replayed, faults>>

(* Mutant: the replay fixture is put whether it exists or not. *)
PutFixtureAnyway(c) ==
  /\ call[c].at = "fixture"
  /\ fixture' = TRUE
  /\ Go(c, "media")
  /\ UNCHANGED <<kv, kvOld, oauth, kms, media, queue, alerts, delivered, work, replayed, faults>>

(* The replay fixture is put only if it does not exist: a call that finds   *)
(* it there fails.                                                          *)
PutFixture(c) ==
  /\ call[c].at = "fixture"
  /\ fixture' = TRUE
  /\ Go(c, IF fixture THEN "failed" ELSE "media")
  /\ UNCHANGED <<kv, kvOld, oauth, kms, media, queue, alerts, delivered, work, replayed, faults>>

PutMedia(c) ==
  /\ call[c].at = "media"
  /\ media' = TRUE
  /\ Go(c, "state")
  /\ UNCHANGED <<kv, kvOld, oauth, fixture, kms, queue, alerts, delivered, work, replayed, faults>>

PutState(c) ==
  /\ call[c].at = "state"
  /\ Write([alert |-> c, done |-> FALSE])
  /\ Go(c, "send")
  /\ UNCHANGED <<oauth, fixture, kms, media, queue, alerts, delivered, work, replayed, faults>>

SendReplay(c) ==
  /\ call[c].at = "send"
  /\ Send
  /\ Go(c, "executed")
  /\ UNCHANGED <<kv, kvOld, oauth, fixture, kms, media, alerts, delivered, work, replayed, faults>>

(***************************************************************************)
(* verify                                                                  *)
(***************************************************************************)

(* Mutant: any stored state is taken for a complete one. *)
AwaitAny(c) ==
  /\ call[c].at = "executed"
  /\ \E state \in Seen :
       /\ state # NoState
       /\ call' = [call EXCEPT ![c] = [at |-> "receipt", seen |-> state]]
  /\ UNCHANGED <<kv, kvOld, oauth, fixture, kms, media, queue, alerts, delivered, work, replayed, faults>>

(* The state is read until it is complete, or the call gives up.            *)
Await(c) ==
  /\ call[c].at = "executed"
  /\ \E state \in Seen :
       \/ state.done /\ call' = [call EXCEPT ![c] = [at |-> "receipt", seen |-> state]]
       \/ state = NoState /\ Go(c, "failed")
  /\ UNCHANGED <<kv, kvOld, oauth, fixture, kms, media, queue, alerts, delivered, work, replayed, faults>>

(* The pager is asked for the receipt of the alert named in the state.      *)
Receipt(c) ==
  /\ call[c].at = "receipt"
  /\ call[c].seen.alert \in delivered
  /\ Go(c, "verified")
  /\ UNCHANGED <<kv, kvOld, oauth, fixture, kms, media, queue, alerts, delivered, work, replayed, faults>>

(* Polls are bounded and any step of a call may fail or be cut off; the     *)
(* verifier's next attempt starts over.                                     *)
CallFails(c) ==
  /\ call[c].at \notin {"idle", "failed", "verified"}
  /\ call[c].at \in {"media", "state"} => Stranding
  /\ Fail
  /\ call' = [call EXCEPT ![c] = [at |-> "failed", seen |-> NoState]]
  /\ UNCHANGED <<kv, kvOld, oauth, fixture, kms, media, queue, alerts, delivered, work, replayed>>

(***************************************************************************)
(* the consumer of the replay queue                                        *)
(***************************************************************************)

Deliver(w) ==
  /\ work[w].at = "idle"
  /\ Cardinality({v \in Consumers : work[v].at # "idle"}) < queue
  /\ \E state \in Seen :
       IF state = NoState THEN UNCHANGED work
       ELSE work' = [work EXCEPT ![w] = [at |-> IF state.done THEN "ack" ELSE "fixture",
                                         seen |-> state]]
  /\ UNCHANGED <<kv, kvOld, oauth, fixture, kms, media, queue, alerts, delivered, call, replayed, faults>>

(* Both fixtures must still be there; the key is unwrapped.                 *)
Unwrap(w) ==
  /\ work[w].at = "fixture"
  /\ Handle(w, IF fixture /\ kms THEN "lose" ELSE "idle")
  /\ UNCHANGED <<kv, kvOld, oauth, fixture, kms, media, queue, alerts, delivered, call, replayed, faults>>

(* The media object is deleted and the reader of Stored Media must then     *)
(* find nothing.                                                            *)
Lose(w) ==
  /\ work[w].at = "lose"
  /\ media' = FALSE
  /\ replayed' = TRUE
  /\ Handle(w, "mark")
  /\ UNCHANGED <<kv, kvOld, oauth, fixture, kms, queue, alerts, delivered, call, faults>>

(* The state that was read is written back, marked complete.               *)
Mark(w) ==
  /\ work[w].at = "mark"
  /\ Write([work[w].seen EXCEPT !.done = TRUE])
  /\ Handle(w, "clean")
  /\ UNCHANGED <<oauth, fixture, kms, media, queue, alerts, delivered, call, replayed, faults>>

(* The wrapped key is deleted, then the replay fixture.                     *)
DeleteKey(w) ==
  /\ work[w].at = "clean"
  /\ kms' = FALSE
  /\ Handle(w, "uncover")
  /\ UNCHANGED <<kv, kvOld, oauth, fixture, media, queue, alerts, delivered, call, replayed, faults>>

DeleteFixture(w) ==
  /\ work[w].at = "uncover"
  /\ fixture' = FALSE
  /\ Handle(w, "ack")
  /\ UNCHANGED <<kv, kvOld, oauth, kms, media, queue, alerts, delivered, call, replayed, faults>>

Ack(w) ==
  /\ work[w].at = "ack"
  /\ queue' = queue - 1
  /\ work' = [work EXCEPT ![w] = Idle]
  /\ UNCHANGED <<kv, kvOld, oauth, fixture, kms, media, alerts, delivered, call, replayed, faults>>

WorkFails(w) ==
  /\ work[w].at # "idle"
  /\ Fail
  /\ work' = [work EXCEPT ![w] = Idle]
  /\ UNCHANGED <<kv, kvOld, oauth, fixture, kms, media, queue, alerts, delivered, call, replayed>>

(* External: the pager's mail is delivered, the key-value store converges,  *)
(* the queue delivers a message twice.                                      *)
Page(c) ==
  /\ c \in alerts \ delivered
  /\ delivered' = delivered \cup {c}
  /\ UNCHANGED <<kv, kvOld, oauth, fixture, kms, media, queue, alerts, call, work, replayed, faults>>

Converge ==
  /\ kvOld # kv
  /\ kvOld' = kv
  /\ UNCHANGED <<kv, oauth, fixture, kms, media, queue, alerts, delivered, call, work, replayed, faults>>

Redeliver ==
  /\ queue = 1
  /\ Fail
  /\ queue' = 2
  /\ UNCHANGED <<kv, kvOld, oauth, fixture, kms, media, alerts, delivered, call, work, replayed>>

CallStep(c) ==
  \/ Unmake(c) \/ Remake(c) \/ Reconstructed(c) \/ Wrap(c) \/ Alert(c)
  \/ PutFixture(c) \/ PutMedia(c) \/ PutState(c) \/ SendReplay(c)
  \/ Await(c) \/ Receipt(c)

WorkStep(w) == Deliver(w) \/ Unwrap(w) \/ Lose(w) \/ Mark(w) \/ DeleteKey(w) \/ DeleteFixture(w) \/ Ack(w)

Next ==
  \/ \E c \in Calls : Execute(c) \/ CallStep(c) \/ CallFails(c) \/ Page(c)
  \/ \E w \in Consumers : WorkStep(w) \/ WorkFails(w)
  \/ Converge \/ Redeliver

Spec == Init /\ [][Next]_vars

(* Calls go on and are made again, messages are delivered and handled, the  *)
(* store converges and the pager delivers.                                  *)
Fairness ==
  /\ \A c \in Calls : WF_vars(Execute(c)) /\ WF_vars(CallStep(c)) /\ WF_vars(Page(c))
  /\ \A w \in Consumers : WF_vars(WorkStep(w))
  /\ WF_vars(Converge)

FairSpec == Spec /\ Fairness

-----------------------------------------------------------------------------
(* What the quarterly game day of recovery promises. *)

Places == {"idle", "failed", "reconstruct", "put", "check", "wrap", "alert", "fixture",
           "media", "state", "send", "executed", "receipt", "verified"}
States == [alert : Calls \cup {None}, done : BOOLEAN]

(* Every record keeps the form apps/recovery-game-day/src/index.ts gives it. *)
TypeOK ==
  /\ kv \in States /\ kvOld \in States
  /\ {oauth, fixture, kms, media, replayed} \subseteq BOOLEAN
  /\ queue \in 0..2
  /\ delivered \subseteq alerts /\ alerts \subseteq Calls
  /\ call \in [Calls -> [at : Places, seen : States]]
  /\ work \in [Consumers -> [at : {"idle", "fixture", "lose", "mark", "clean", "uncover", "ack"}, seen : States]]
  /\ faults \in 0..Faults

(* A game day that was verified happened: the queue was replayed through    *)
(* the key and the lost object, and the alert of the very state that was    *)
(* read was delivered ("Missing pager receipt, monitoring coverage, Queue   *)
(* completion, or KMS context authority fails the drill", the deployment    *)
(* runbook).                                                                *)
ChecksEarned ==
  \A c \in Calls : call[c].at = "verified" =>
    /\ replayed
    /\ call[c].seen.done
    /\ call[c].seen.alert \in delivered

(* The replay fixture is create-only: of several calls at most one goes on  *)
(* past it to write the state of the execution.                             *)
OneWriter == Cardinality({c \in Calls : call[c].at \in {"media", "state"}}) <= 1

(* A game day that is executed until it is verified gets verified, or a     *)
(* call was cut off between the create-only fixture and the state: then     *)
(* every later call of the operation fails at the fixture.                  *)
VerifiesOrStrands ==
  \/ <>(\E c \in Calls : call[c].at = "verified")
  \/ <>[](fixture /\ kv = NoState)

(* Without such a cut it gets verified. *)
Verifies == <>(\E c \in Calls : call[c].at = "verified")
=============================================================================
