--------------------------- MODULE ConnectionSetup ---------------------------
(***************************************************************************)
(* Connection Setups of one Personal Account: the reconciled saga of       *)
(* docs/adr/0019.  A setup is started with an idempotency key (Keys, which *)
(* here also name the setups, their provider markers and their rows),      *)
(* reserves a WhatsApp Number and is provisioned by queue invocations      *)
(* (Workers) that hold a lease, reconcile the marker with the provider and *)
(* create a session only when it is absent.  A browser (Observers) then    *)
(* activates it or finds that another number was scanned.  Cancellation,   *)
(* expiry and a failed activation are cleaned up by invocations of the     *)
(* same queue.                                                             *)
(*                                                                         *)
(* Leases and the 15 minutes of a setup are counted down, so the clock     *)
(* itself needs no bound; 0 is expired.                                    *)
(***************************************************************************)
EXTENDS Integers, FiniteSets

CONSTANTS Keys, Numbers, Workers, Observers, None,
          Limit,        \* whatsapp_connection_limit
          Lease, Life,  \* two minutes, fifteen minutes
          LateCreates,  \* the provider may apply a create after its timeout
          Prompt,       \* the steps that end within the lease they hold
          MaxSessions,  \* bound on the sessions of a marker
          MaxFaults     \* bound on provider failures and lost invocations

SetupAssumption ==
  /\ Limit \in Nat /\ Lease \in Nat \ {0} /\ Life \in Nat \ {0}
  /\ LateCreates \in BOOLEAN /\ Prompt \subseteq STRING
  /\ None \notin Workers
  /\ MaxSessions \in Nat /\ MaxFaults \in Nat

VARIABLES setup,     \* the rows of connection_setups, their leases and keys
          worker,    \* the invocations of the Connection Setup Queue
          observer,  \* the setup a browser request has loaded as provisioned
          sessions,  \* the provider's sessions, by marker
          inflight,  \* creates the provider has still to apply or to lose
          faults

vars == <<setup, worker, observer, sessions, inflight, faults>>

NoLease == [owner |-> None, left |-> 0]
NoSetup == [state |-> "none", number |-> None, left |-> 0, provisioning |-> NoLease,
            cleanup |-> "none", cleaning |-> NoLease, rows |-> {}, key |-> FALSE,
            released |-> FALSE]
Idle == [step |-> "idle", of |-> None, seen |-> {}]

Init ==
  /\ setup = [k \in Keys |-> NoSetup]
  /\ worker = [w \in Workers |-> Idle]
  /\ observer = [o \in Observers |-> None]
  /\ sessions = [k \in Keys |-> {}]
  /\ inflight = [k \in Keys |-> 0]
  /\ faults = 0

Fault == faults < MaxFaults /\ faults' = faults + 1

Terminal == {"cancelled", "expired"}
Cleanable == Terminal \union {"provisioning_failed"}

Row(w) == setup[worker[w].of]
Update(k, row) == setup' = [setup EXCEPT ![k] = row]
At(w, step) == worker[w].step = step
Goto(w, step) == worker' = [worker EXCEPT ![w].step = step]
Done(w) == worker' = [worker EXCEPT ![w] = Idle]

-----------------------------------------------------------------------------
(* Time.                                                                   *)

Down(n) == IF n = 0 THEN 0 ELSE n - 1

Older(row) == [row EXCEPT !.left = Down(@), !.provisioning.left = Down(@),
                          !.cleaning.left = Down(@)]

Tick ==
  /\ \E k \in Keys : Older(setup[k]) # setup[k]
  /\ \A w \in Workers : worker[w].step \in Prompt =>
       \A lease \in {Row(w).provisioning, Row(w).cleaning} : lease.owner = w => lease.left # 1
  /\ setup' = [k \in Keys |-> Older(setup[k])]
  /\ UNCHANGED <<worker, observer, sessions, inflight, faults>>

-----------------------------------------------------------------------------
(* start_connection_setup, and the exact replay of its answer.             *)

Retained == {k \in Keys : /\ setup[k].state \notin {"none", "activated"}
                          /\ ~(setup[k].state \in Terminal /\ setup[k].cleanup = "complete")}

Connections == {k \in Keys : setup[k].state = "activated"}

ReservedByLive(n) == \E k \in Keys : setup[k].number = n /\ setup[k].state \notin Terminal

Reserved(n) == \E k \in Keys : setup[k].number = n /\ ~setup[k].released

(* A key that was used answers for its own number.                         *)
Prepared(k, n) ==
  CASE setup[k].state = "none" -> "unbound"
    [] setup[k].number = n     -> "replay"
    [] OTHER                   -> "idempotency_conflict"

(* A number is taken; the account is told when its own cleanup holds it.   *)
Taken(n) ==
  IF \E k \in Keys : /\ setup[k].number = n /\ ~setup[k].released
                     /\ setup[k].state \in Cleanable /\ setup[k].cleanup = "pending"
  THEN "number_cleanup_in_progress" ELSE "number_unavailable"

Outcome(k, n) ==
  CASE Prepared(k, n) # "unbound"                                    -> Prepared(k, n)
    [] Cardinality(Connections) + Cardinality(Retained) >= Limit     -> "connection_limit_reached"
    [] Reserved(n)                                                   -> Taken(n)
    [] OTHER                                                         -> "created"

Admitted(k, n) == Outcome(k, n) = "created"

Start(k, n) ==
  /\ Admitted(k, n)
  /\ Update(k, [NoSetup EXCEPT !.state = "pending", !.number = n, !.left = Life, !.key = TRUE])
  /\ UNCHANGED <<worker, observer, sessions, inflight, faults>>

(* A retry with the key and the number of a setup can be answered: the     *)
(* name it is compared with is decrypted under the setup's key.            *)
Replayable(k) == setup[k].state # "none" => setup[k].key

-----------------------------------------------------------------------------
(* Provisioning.  The queue and the */4 scan may deliver a setup to any    *)
(* number of invocations.                                                  *)

ProvisioningClaim(k) ==
  CASE setup[k].state = "none"           -> "not_found"
    [] setup[k].state # "pending"        -> "not_pending"
    [] setup[k].left = 0                 -> "expired"
    [] setup[k].provisioning.left > 0    -> "leased"
    [] OTHER                             -> "claimed"

Claim(w, k) ==
  /\ At(w, "idle") /\ ProvisioningClaim(k) = "claimed"
  /\ Update(k, [setup[k] EXCEPT !.provisioning = [owner |-> w, left |-> Lease]])
  /\ worker' = [worker EXCEPT ![w] = [step |-> "reconcile", of |-> k, seen |-> {}]]
  /\ UNCHANGED <<observer, sessions, inflight, faults>>

Reconcile(w) ==
  /\ At(w, "reconcile")
  /\ LET found == sessions[worker[w].of]
     IN worker' = [worker EXCEPT ![w].seen = found,
                                 ![w].step = IF found = {} THEN "renew" ELSE "finish"]
  /\ UNCHANGED <<setup, observer, sessions, inflight, faults>>

(* A read that failed is do_not_retry once its three attempts are used up. *)
ReconcileFails(w) ==
  /\ At(w, "reconcile") /\ Fault
  /\ Goto(w, "fail")
  /\ UNCHANGED <<setup, observer, sessions, inflight>>

Holds(w) == /\ Row(w).state = "pending"
            /\ Row(w).provisioning.owner = w /\ Row(w).provisioning.left > 0

RenewBlind(w) ==
  /\ At(w, "renew")
  /\ Update(worker[w].of, [Row(w) EXCEPT !.provisioning.left = Lease])
  /\ Goto(w, "create")
  /\ UNCHANGED <<observer, sessions, inflight, faults>>

Renew(w) ==
  /\ At(w, "renew")
  /\ IF Holds(w) /\ Row(w).left > 0
     THEN /\ Update(worker[w].of, [Row(w) EXCEPT !.provisioning.left = Lease])
          /\ Goto(w, "create")
     ELSE Done(w) /\ UNCHANGED setup
  /\ UNCHANGED <<observer, sessions, inflight, faults>>

(* createSession reads the marker once more before it posts.               *)
Create(w) ==
  /\ At(w, "create")
  /\ LET k == worker[w].of
         found == sessions[k]
     IN IF found = {}
        THEN /\ inflight' = [inflight EXCEPT ![k] = @ + 1]
             /\ Goto(w, "posted")
        ELSE /\ worker' = [worker EXCEPT ![w].seen = found, ![w].step =
                             IF Cardinality(found) = 1 THEN "finish" ELSE "fail"]
             /\ UNCHANGED inflight
  /\ UNCHANGED <<setup, observer, sessions, faults>>

New(k) == CHOOSE i \in 1..MaxSessions : i \notin sessions[k]
Room(k) == Cardinality(sessions[k]) < MaxSessions

Landed(k) ==
  /\ Room(k)
  /\ sessions' = [sessions EXCEPT ![k] = @ \union {New(k)}]
  /\ inflight' = [inflight EXCEPT ![k] = @ - 1]

Created(w) ==
  /\ At(w, "posted") /\ Landed(worker[w].of)
  /\ worker' = [worker EXCEPT ![w].step = "finish", ![w].seen = {New(worker[w].of)}]
  /\ UNCHANGED <<setup, observer, faults>>

Lost(k) == inflight' = [inflight EXCEPT ![k] = @ - 1] /\ UNCHANGED sessions

Rejected(w) ==
  /\ At(w, "posted") /\ Fault
  /\ Lost(worker[w].of)
  /\ Goto(w, "fail")
  /\ UNCHANGED <<setup, observer>>

(* The write is ambiguous after its 15 seconds, a 5xx or an unreadable     *)
(* answer: the lease is released and the next attempt reconciles.          *)
TimedOut(w) ==
  /\ At(w, "posted") /\ Fault
  /\ \/ LateCreates /\ UNCHANGED <<sessions, inflight>>
     \/ Landed(worker[w].of)
     \/ Lost(worker[w].of)
  /\ Goto(w, "release")
  /\ UNCHANGED <<setup, observer>>

(* The provider applies, or loses, a create nobody waits for any more.     *)
Unawaited(k) == inflight[k] > Cardinality({w \in Workers : At(w, "posted") /\ worker[w].of = k})

Settle(k) ==
  /\ Unawaited(k)
  /\ Landed(k) \/ Lost(k)
  /\ UNCHANGED <<setup, worker, observer, faults>>

Ended(row, state) == [row EXCEPT !.state = state, !.provisioning = NoLease]

Finish(w) ==
  /\ At(w, "finish")
  /\ IF Holds(w)
     THEN Update(worker[w].of,
            [Ended(Row(w), IF Cardinality(worker[w].seen) = 1 THEN "provisioned"
                           ELSE "quarantined") EXCEPT !.rows = worker[w].seen])
     ELSE UNCHANGED setup
  /\ Done(w)
  /\ UNCHANGED <<observer, sessions, inflight, faults>>

Fail(w) ==
  /\ At(w, "fail")
  /\ IF Holds(w) THEN Update(worker[w].of, Ended(Row(w), "provisioning_failed"))
                 ELSE UNCHANGED setup
  /\ Done(w)
  /\ UNCHANGED <<observer, sessions, inflight, faults>>

Release(w) ==
  /\ At(w, "release")
  /\ IF Row(w).state = "pending" /\ Row(w).provisioning.owner = w
     THEN Update(worker[w].of, Ended(Row(w), "pending")) ELSE UNCHANGED setup
  /\ Done(w)
  /\ UNCHANGED <<observer, sessions, inflight, faults>>

(* The invocation is gone; its worker id is nobody's from now on.  A       *)
(* create it waits for is applied or lost.                                 *)
Orphaned(lease, w) == [lease EXCEPT !.owner = IF @ = w THEN None ELSE @]

Stop(w) ==
  /\ ~At(w, "idle") /\ Fault
  /\ Update(worker[w].of, [Row(w) EXCEPT !.provisioning = Orphaned(@, w),
                                         !.cleaning = Orphaned(@, w)])
  /\ IF At(w, "posted") /\ ~LateCreates
     THEN Landed(worker[w].of) \/ Lost(worker[w].of)
     ELSE UNCHANGED <<sessions, inflight>>
  /\ Done(w)
  /\ UNCHANGED observer

-----------------------------------------------------------------------------
(* Activation by the owner's browser.                                      *)

Load(o, k) ==
  /\ observer[o] = None
  /\ setup[k].state = "provisioned" /\ setup[k].left > 0
  /\ observer' = [observer EXCEPT ![o] = k]
  /\ UNCHANGED <<setup, worker, sessions, inflight, faults>>

ActivatableByRows(k) == setup[k].left > 0 /\ setup[k].rows # {}

Activatable(k) == setup[k].state = "provisioned" /\ setup[k].left > 0 /\ setup[k].rows # {}

Activate(o) ==
  /\ observer[o] # None
  /\ LET k == observer[o]
     IN IF Activatable(k) THEN Update(k, [setup[k] EXCEPT !.state = "activated"])
                          ELSE UNCHANGED setup
  /\ observer' = [observer EXCEPT ![o] = None]
  /\ UNCHANGED <<worker, sessions, inflight, faults>>

(* The scanned number is another one, or cannot be verified.               *)
RejectActivation(o) ==
  /\ observer[o] # None
  /\ LET k == observer[o]
         row == setup[k]
     IN CASE row.state = "provisioning_failed" ->
               Update(k, [row EXCEPT !.cleanup = "pending"])
          [] Activatable(k) ->
               Update(k, [Ended(row, "provisioning_failed")
                            EXCEPT !.cleanup = "pending", !.cleaning = NoLease])
          [] OTHER -> UNCHANGED setup
  /\ observer' = [observer EXCEPT ![o] = None]
  /\ UNCHANGED <<worker, sessions, inflight, faults>>

-----------------------------------------------------------------------------
(* Cancellation, expiry and cleanup.                                       *)

(* A setup that is over already answers as it did before.                  *)
Cancellation(k) ==
  CASE setup[k].state \in {"none", "activated"} -> "not_found"
    [] setup[k].state \in Terminal              -> "replay"
    [] OTHER                                    -> "cancelled"

Cancel(k) ==
  /\ Cancellation(k) = "cancelled"
  /\ Update(k, [setup[k] EXCEPT !.state = "cancelled", !.cleanup = "pending"])
  /\ UNCHANGED <<worker, observer, sessions, inflight, faults>>

Overdue == {k \in Keys : /\ setup[k].state \notin Terminal \union {"none", "activated"}
                         /\ setup[k].left = 0}

Expire ==
  /\ Overdue # {}
  /\ setup' = [k \in Keys |-> IF k \in Overdue
                              THEN [setup[k] EXCEPT !.state = "expired", !.cleanup = "pending"]
                              ELSE setup[k]]
  /\ UNCHANGED <<worker, observer, sessions, inflight, faults>>

Unleased(k) == setup[k].cleaning.left = 0

Cleared(k) == setup[k].provisioning.left = 0 /\ setup[k].cleaning.left = 0

CleanupClaim(k) ==
  CASE setup[k].state = "none"         -> "not_found"
    [] setup[k].cleanup = "none"       -> "not_pending"
    [] setup[k].cleanup = "complete"   -> "complete"
    [] ~Cleared(k)                     -> "leased"
    [] OTHER                           -> "claimed"

ClaimCleanup(w, k) ==
  /\ At(w, "idle") /\ CleanupClaim(k) = "claimed"
  /\ Update(k, [setup[k] EXCEPT !.provisioning = NoLease,
                                !.cleaning = [owner |-> w, left |-> Lease]])
  /\ worker' = [worker EXCEPT ![w] = [step |-> "clean", of |-> k, seen |-> {}]]
  /\ UNCHANGED <<observer, sessions, inflight, faults>>

Cleans(w) == /\ Row(w).state \in Cleanable /\ Row(w).cleanup = "pending"
             /\ Row(w).cleaning.owner = w

ReconcileForCleanup(w) ==
  /\ At(w, "clean")
  /\ LET found == sessions[worker[w].of]
     IN IF found = {} THEN Goto(w, "complete")
        ELSE \E s \in found :
               worker' = [worker EXCEPT ![w].seen = {s}, ![w].step = "renewCleanup"]
  /\ UNCHANGED <<setup, observer, sessions, inflight, faults>>

CleanupReadFails(w) ==
  /\ At(w, "clean") /\ Fault
  /\ Goto(w, "releaseCleanup")
  /\ UNCHANGED <<setup, observer, sessions, inflight>>

RenewCleanup(w) ==
  /\ At(w, "renewCleanup")
  /\ IF Cleans(w) /\ Row(w).cleaning.left > 0
     THEN /\ Update(worker[w].of, [Row(w) EXCEPT !.cleaning.left = Lease])
          /\ Goto(w, "delete")
     ELSE Done(w) /\ UNCHANGED setup
  /\ UNCHANGED <<observer, sessions, inflight, faults>>

(* Presence is confirmed by the next attempt, whatever delete answered.    *)
DeleteSession(w) ==
  /\ At(w, "delete")
  /\ \/ /\ sessions' = [sessions EXCEPT ![worker[w].of] = @ \ worker[w].seen]
        /\ UNCHANGED faults
     \/ UNCHANGED sessions /\ Fault
  /\ Goto(w, "releaseCleanup")
  /\ UNCHANGED <<setup, observer, inflight>>

ReleaseCleanup(w) ==
  /\ At(w, "releaseCleanup")
  /\ IF Cleans(w) THEN Update(worker[w].of, [Row(w) EXCEPT !.cleaning = NoLease])
                  ELSE UNCHANGED setup
  /\ Done(w)
  /\ UNCHANGED <<observer, sessions, inflight, faults>>

CompleteCleanup(w) ==
  /\ At(w, "complete")
  /\ IF Cleans(w) /\ Row(w).cleaning.left > 0
     THEN Update(worker[w].of, [Row(w) EXCEPT !.cleanup = "complete", !.released = TRUE,
                   !.rows = {}, !.key = FALSE, !.cleaning = NoLease, !.provisioning = NoLease])
     ELSE UNCHANGED setup
  /\ Done(w)
  /\ UNCHANGED <<observer, sessions, inflight, faults>>

-----------------------------------------------------------------------------
Provisioning(w) ==
  \/ Reconcile(w) \/ Renew(w) \/ Create(w) \/ Created(w)
  \/ Finish(w) \/ Fail(w) \/ Release(w)

Cleanup(w) ==
  \/ ReconcileForCleanup(w) \/ RenewCleanup(w) \/ DeleteSession(w)
  \/ ReleaseCleanup(w) \/ CompleteCleanup(w)

Request(k) == Cancel(k) \/ \E n \in Numbers : Start(k, n)

Failure(w) ==
  \/ ReconcileFails(w) \/ Rejected(w) \/ TimedOut(w) \/ CleanupReadFails(w) \/ Stop(w)

Next ==
  \/ Tick \/ Expire
  \/ \E k \in Keys : \/ Request(k) \/ Settle(k)
                     \/ \E w \in Workers : Claim(w, k) \/ ClaimCleanup(w, k)
                     \/ \E o \in Observers : Load(o, k)
  \/ \E w \in Workers : Provisioning(w) \/ Cleanup(w) \/ Failure(w)
  \/ \E o \in Observers : Activate(o) \/ RejectActivation(o)

Spec == Init /\ [][Next]_vars

(* The cron expires setups and republishes what is unleased every four     *)
(* minutes; an invocation that is not lost goes on; time passes.           *)
Fairness ==
  /\ WF_vars(Tick) /\ WF_vars(Expire)
  /\ \A k \in Keys : SF_vars(\E w \in Workers : ClaimCleanup(w, k))
  /\ \A w \in Workers : WF_vars(Provisioning(w)) /\ WF_vars(Cleanup(w))

FairSpec == Spec /\ Fairness

-----------------------------------------------------------------------------
(* What a Connection Setup promises.                                       *)

LeaseOK(lease) == lease.owner \in Workers \union {None} /\ lease.left \in 0..Lease

States == {"pending", "provisioned", "quarantined", "provisioning_failed", "activated", "cancelled", "expired"}

SetupRow(row) ==
  /\ row.state \in {"none"} \union States
  /\ row.left \in 0..Life
  /\ LeaseOK(row.provisioning) /\ LeaseOK(row.cleaning)
  /\ row.cleanup \in {"none", "pending", "complete"}

ReservationRow(row) == row.number \in Numbers \union {None} /\ row.released \in BOOLEAN

SessionRows(row) == row.rows \subseteq 1..MaxSessions

(* The shape of the state; at most MaxSessions sessions carry one marker.  *)
TypeOK ==
  /\ \A k \in Keys :
       /\ SetupRow(setup[k]) /\ ReservationRow(setup[k]) /\ SessionRows(setup[k])
       /\ sessions[k] \subseteq 1..MaxSessions
       /\ inflight[k] \in 0..Cardinality(Workers) + MaxFaults
  /\ \A w \in Workers : worker[w].step = "idle" <=> worker[w].of = None
  /\ \A o \in Observers : observer[o] \in Keys \union {None}
  /\ faults \in 0..MaxFaults

(* A number is released for another setup only when the provider has no    *)
(* session under the setup's marker and no create is under way that could  *)
(* still make one (claim_connection_setup_cleanup waits for the            *)
(* provisioning lease, finish_connection_setup_cleanup follows a confirmed *)
(* absence).                                                               *)
ReleasedWithoutSession ==
  \A k \in Keys : setup[k].released => sessions[k] = {} /\ inflight[k] = 0

(* A setup that may be, or has been, activated has exactly one session,    *)
(* the one whose credentials it stores: whatever invocations overlapped,   *)
(* duplicates end in quarantine, and cleanup never deletes the session of  *)
(* a Connection.                                                           *)
UsableIsUnique ==
  \A k \in Keys : setup[k].state \in {"provisioned", "activated"} =>
    sessions[k] = setup[k].rows /\ Cardinality(sessions[k]) = 1

(* Whatever arrives late, the session whose credentials a setup or a       *)
(* Connection stores stays at the provider: cleanup never deletes the      *)
(* session of a setup that can still be, or was, activated.                *)
StoredSessionStays ==
  \A k \in Keys : setup[k].state \in {"provisioned", "activated"} =>
    setup[k].rows # {} /\ setup[k].rows \subseteq sessions[k]

(* The provider never holds sessions of two setups for one number, however *)
(* a cancelled or expired setup overlaps with the one that follows it.     *)
OneSetupPerNumber ==
  \A j, k \in Keys : j # k /\ setup[j].number = setup[k].number /\ setup[j].number # None =>
    sessions[j] = {} \/ sessions[k] = {}

(* Every setup ends as a Connection or cleaned up, with nothing left at    *)
(* the provider.                                                           *)
EverySetupSettles ==
  \A k \in Keys : setup[k].state # "none" ~>
    setup[k].state = "activated" \/ (setup[k].cleanup = "complete" /\ sessions[k] = {})

(* The number is "released only after provider-session removal is          *)
(* confirmed" (docs/adr/0019): no session appears under the marker of a    *)
(* setup whose number was released.                                        *)
NumberKeptForSession == \A k \in Keys : setup[k].released => sessions[k] = {}

(* An exact retry of a start is answered with the setup it made.           *)
ReplayAnswered == \A k \in Keys : Replayable(k)
=============================================================================
