----------------------------- MODULE StoredMedia -----------------------------
(***************************************************************************)
(* Stored Media of one Personal Account: the rows, the encrypted objects   *)
(* in R2, the quota they are charged to, and the intents to delete objects. *)
(* The four-minute cron deletes objects and processes pending media; its   *)
(* invocations may overlap, stop anywhere and lose replies, while messages *)
(* arrive, are deleted, expire or are purged with their recipient or       *)
(* connection, and readers find objects missing or damaged.                *)
(*                                                                         *)
(* apps/api/src/stored-media-ingestion.ts and production.ts,               *)
(* packages/db/src/stored-media.ts, and the SQL functions that purge.      *)
(***************************************************************************)
EXTENDS Integers, FiniteSets

CONSTANTS
  Messages,   \* messages that carry media
  Size,       \* plaintext bytes of the media of a message
  Limit,      \* personal_accounts.stored_media_limit_bytes
  Crons,      \* invocations of the cron under way at once
  Attempts,   \* uploads of one message's media: a bound, not in the code
  Faults,     \* faults explored: "crash", "lost_reply", "r2", "database", "provider",
              \* "damage"
  Changes     \* what happens to messages: "delete", "expire", "exclude", "disconnect"

\* The object key of an attempt is a fresh random identifier.
Keys == Messages \X (1..Attempts)
Owner(k) == k[1]
NoKey == <<>>

MediaAssumption ==
  /\ IsFiniteSet(Messages) /\ NoKey \notin Messages
  /\ Size \in [Messages -> Nat \ {0}] /\ Limit \in Nat /\ Attempts \in Nat

VARIABLES
  message,    \* "none", "live", "deleted", "expired" or "excluded"
  row,        \* stored_media: [state, key], state "none" when there is no row
  used,       \* personal_accounts.stored_media_used_bytes
  deletions,  \* stored_media_object_deletions
  r2,         \* the objects of the STORED_MEDIA bucket
  excluded,   \* messages whose recipient an exclusion rule covers
  deleting,   \* the connection is being deleted
  cron,       \* the invocations: [phase, todo, removed, msg, key]
  tries,      \* attempts made for a message
  leaked,     \* for the properties: keys an invocation lost track of
  lost        \* for the properties: keys whose finalize reply was lost

vars == <<message, row, used, deletions, r2, excluded, deleting, cron, tries, leaked, lost>>
worldVars == <<message, excluded, deleting>>

NoRow == [state |-> "none", key |-> NoKey]
Idle == [phase |-> "idle", todo |-> {}, removed |-> {}, msg |-> NoKey, key |-> NoKey]

Init ==
  /\ message = [m \in Messages |-> "none"]
  /\ row = [m \in Messages |-> NoRow]
  /\ used = 0 /\ deletions = {} /\ r2 = {} /\ excluded = {} /\ deleting = FALSE
  /\ cron = [c \in Crons |-> Idle]
  /\ tries = [m \in Messages |-> 0]
  /\ leaked = {} /\ lost = {}

\* The bytes of the media of a set of messages, counted one by one.
Bytes(S) == Cardinality(UNION {{m} \X (1..Size[m]) : m \in S})

(***************************************************************************)
(* What happens to messages.                                               *)
(***************************************************************************)
\* The upsert of a message inserts its media as pending; the trigger
\* prevent_media_for_unavailable_message drops it for a deleted message.
Upsert(m) ==
  /\ message[m] = "none" /\ m \notin excluded /\ ~deleting
  /\ message' = [message EXCEPT ![m] = "live"]
  /\ row' = [row EXCEPT ![m] = [state |-> "pending", key |-> NoKey]]
  /\ UNCHANGED <<used, deletions, r2, excluded, deleting, cron, tries, leaked, lost>>

\* The provider reports a deletion: the message row alone changes.
DeleteMessage(m) ==
  /\ "delete" \in Changes /\ message[m] \in {"none", "live"} /\ m \notin excluded /\ ~deleting
  /\ message' = [message EXCEPT ![m] = "deleted"]
  /\ UNCHANGED <<row, used, deletions, r2, excluded, deleting, cron, tries, leaked, lost>>

\* What every purge does to the media of a set of messages: unfinished rows go, ready
\* rows become unreadable and their objects are queued; the charge stays.
PurgedRowKept(r) == r
PurgedRow(r) == [r EXCEPT !.state = "purging"]

Queued(S) == {row[m].key : m \in {n \in S : row[n].state = "ready"}}

PurgeMedia(S) ==
  /\ row' = [m \in Messages |->
       CASE m \in S /\ row[m].state \in {"pending", "rejected", "failed"} -> NoRow
         [] m \in S /\ row[m].state = "ready" -> PurgedRow(row[m])
         [] OTHER -> row[m]]
  /\ deletions' = deletions \cup Queued(S)

\* purge_expired_message_content, for a message past its retention period: deleted
\* messages are not among its candidates.
Expire(m) ==
  /\ "expire" \in Changes /\ message[m] = "live"
  /\ message' = [message EXCEPT ![m] = "expired"]
  /\ PurgeMedia({m})
  /\ UNCHANGED <<used, r2, excluded, deleting, cron, tries, leaked, lost>>

\* A Recipient Exclusion begins to apply, and later purges what came before.
Exclude(m) ==
  /\ "exclude" \in Changes /\ m \notin excluded
  /\ excluded' = excluded \cup {m}
  /\ UNCHANGED <<message, row, used, deletions, r2, deleting, cron, tries, leaked, lost>>

PurgeExcluded(m) ==
  /\ m \in excluded /\ message[m] # "excluded"
  /\ message' = [message EXCEPT ![m] = "excluded"]
  /\ PurgeMedia({m})
  /\ UNCHANGED <<used, r2, excluded, deleting, cron, tries, leaked, lost>>

\* Connection Deletion: from now on the connection has no readable key, and
\* prepare_whatsapp_connection_cleanup purges all media, as often as it runs.
Disconnect ==
  /\ "disconnect" \in Changes /\ ~deleting
  /\ deleting' = TRUE
  /\ UNCHANGED <<message, row, used, deletions, r2, excluded, cron, tries, leaked, lost>>

PurgeConnection ==
  /\ deleting
  /\ PurgeMedia(Messages)
  /\ row' # row
  /\ UNCHANGED <<worldVars, used, r2, cron, tries, leaked, lost>>

\* failStoredMediaRead: a reader found no object under the key of a ready row, or one that
\* cannot be read, which is queued.  The row fails and its charge is released.
FailRead(m) ==
  /\ row[m].state = "ready" /\ used >= Size[m]
  /\ \/ row[m].key \notin r2 /\ UNCHANGED deletions
     \/ "damage" \in Faults /\ deletions' = deletions \cup {row[m].key}
  /\ row' = [row EXCEPT ![m] = [state |-> "failed", key |-> NoKey]]
  /\ used' = used - Size[m]
  /\ UNCHANGED <<worldVars, r2, cron, tries, leaked, lost>>

(***************************************************************************)
(* The cron. It lists a pending row before anything else, then deletes     *)
(* the objects that are queued, and an R2 deletion that fails ends the     *)
(* invocation before it processes any media.                               *)
(***************************************************************************)
Step(c, changes) == cron' = [cron EXCEPT ![c] = changes]

\* list_pending_stored_media takes no lock and leaves no mark.
Begin(c) ==
  /\ cron[c] = Idle
  /\ \E m \in Messages \cup {NoKey} :
       /\ IF m = NoKey
          THEN deletions # {} /\ (deleting \/ \A n \in Messages : row[n].state # "pending")
          ELSE row[m].state = "pending" /\ ~deleting /\ tries[m] < Attempts
       /\ Step(c, [Idle EXCEPT !.phase = "sweeping", !.todo = deletions, !.msg = m])
  /\ UNCHANGED <<worldVars, row, used, deletions, r2, tries, leaked, lost>>

RemoveObject(c, k) ==
  /\ cron[c].phase = "sweeping" /\ k \in cron[c].todo \ cron[c].removed
  /\ r2' = r2 \ {k}
  /\ Step(c, [cron[c] EXCEPT !.removed = @ \cup {k}])
  /\ UNCHANGED <<worldVars, row, used, deletions, tries, leaked, lost>>

RemoveObjectFails(c, k) ==
  /\ "r2" \in Faults
  /\ cron[c].phase = "sweeping" /\ k \in cron[c].todo \ cron[c].removed
  /\ Step(c, Idle)
  /\ UNCHANGED <<worldVars, row, used, deletions, r2, tries, leaked, lost>>

\* The rows whose charge finish_stored_media_object_deletion releases.
ReleasedAgain(k) == {Owner(k)}
Released(k) == {m \in Messages : row[m] = [state |-> "purging", key |-> k]}

FinishObjectDeletion(c, k) ==
  /\ cron[c].phase = "sweeping" /\ k \in cron[c].removed
  /\ row' = [m \in Messages |-> IF m \in Released(k) THEN NoRow ELSE row[m]]
  /\ used' = used - Bytes(Released(k))
  /\ deletions' = deletions \ {k}
  /\ Step(c, [cron[c] EXCEPT !.todo = @ \ {k}, !.removed = @ \ {k}])
  /\ UNCHANGED <<worldVars, r2, tries, leaked, lost>>

\* After the sweep, processStoredMedia retrieves the media it listed.
Retrieve(c) ==
  /\ cron[c].phase = "sweeping" /\ cron[c].todo = {}
  /\ LET m == cron[c].msg
     IN IF m = NoKey \/ tries[m] = Attempts
        THEN Step(c, Idle) /\ UNCHANGED tries
        ELSE /\ tries' = [tries EXCEPT ![m] = @ + 1]
             /\ Step(c, [cron[c] EXCEPT !.phase = "retrieving", !.key = <<m, tries[m] + 1>>])
  /\ UNCHANGED <<worldVars, row, used, deletions, r2, leaked, lost>>

\* The provider refuses, or the bytes break a policy, before anything is written.
RetrievalFails(c) ==
  /\ "provider" \in Faults /\ cron[c].phase = "retrieving"
  /\ \E phase \in {"failing", "rejecting"} : Step(c, [cron[c] EXCEPT !.phase = phase])
  /\ UNCHANGED <<worldVars, row, used, deletions, r2, tries, leaked, lost>>

WriteObject(c) ==
  /\ cron[c].phase = "retrieving"
  /\ r2' = r2 \cup {cron[c].key}
  /\ Step(c, [cron[c] EXCEPT !.phase = "written"])
  /\ UNCHANGED <<worldVars, row, used, deletions, tries, leaked, lost>>

\* The object that was read back does not verify, or encrypting its metadata fails.
VerificationFails(c) ==
  /\ "provider" \in Faults /\ cron[c].phase = "written"
  /\ Step(c, [cron[c] EXCEPT !.phase = "undoing"])
  /\ UNCHANGED <<worldVars, row, used, deletions, r2, tries, leaked, lost>>

(***************************************************************************)
(* finalize: one transaction under the lock of the account row.            *)
(***************************************************************************)
Fits(m) == Limit - used >= Size[m]

StillPending(m) == row[m].state = "pending"

Outcome(m) ==
  CASE ~StillPending(m) -> "already_terminal"
    [] StillPending(m) /\ m \in excluded -> "recipient_excluded"
    [] StillPending(m) /\ m \notin excluded /\ ~Fits(m) -> "quota_exceeded"
    [] OTHER -> "ready"

Finalized(m, k) ==
  /\ row' = [row EXCEPT ![m] =
       CASE Outcome(m) = "ready" -> [state |-> "ready", key |-> k]
         [] Outcome(m) = "quota_exceeded" -> [state |-> "failed", key |-> NoKey]
         [] Outcome(m) = "recipient_excluded" -> NoRow
         [] OTHER -> row[m]]
  /\ used' = used + Bytes({n \in {m} : Outcome(m) = "ready"})

\* An upload that lost is removed from R2.
LosesQuotaOnly(outcome) == outcome = "quota_exceeded"
Loses(outcome) == outcome # "ready"

Finalize(c) ==
  /\ cron[c].phase = "written"
  /\ Finalized(cron[c].msg, cron[c].key)
  /\ Step(c, IF Loses(Outcome(cron[c].msg)) THEN [cron[c] EXCEPT !.phase = "losing"] ELSE Idle)
  /\ UNCHANGED <<worldVars, deletions, r2, tries, leaked, lost>>

\* The transaction commits and its reply is lost: processStoredMedia takes it for a
\* failure and removes the object.
FinalizeReplyLost(c) ==
  /\ "lost_reply" \in Faults /\ cron[c].phase = "written"
  /\ Finalized(cron[c].msg, cron[c].key)
  /\ lost' = lost \cup {cron[c].key}
  /\ Step(c, [cron[c] EXCEPT !.phase = "undoing"])
  /\ UNCHANGED <<worldVars, deletions, r2, tries, leaked>>

FinalizeFails(c) ==
  /\ "database" \in Faults /\ cron[c].phase = "written"
  /\ Step(c, [cron[c] EXCEPT !.phase = "undoing"])
  /\ UNCHANGED <<worldVars, row, used, deletions, r2, tries, leaked, lost>>

\* deleteObject: R2, or else an intent in the database.
DeleteObject(c, then) ==
  \/ r2' = r2 \ {cron[c].key} /\ Step(c, then) /\ UNCHANGED <<deletions, leaked>>
  \/ /\ "r2" \in Faults
     /\ deletions' = deletions \cup {cron[c].key}
     /\ Step(c, then) /\ UNCHANGED <<r2, leaked>>

\* The losing upload; an exception here is caught and undone once more.
DiscardLosingUpload(c) ==
  /\ cron[c].phase = "losing"
  /\ \/ DeleteObject(c, Idle)
     \/ /\ {"r2", "database"} \subseteq Faults
        /\ Step(c, [cron[c] EXCEPT !.phase = "undoing"])
        /\ UNCHANGED <<r2, deletions, leaked>>
  /\ UNCHANGED <<worldVars, row, used, tries, lost>>

\* The catch block: errors of the deletion are swallowed, then the row is failed.
UndoUpload(c) ==
  /\ cron[c].phase = "undoing"
  /\ \/ DeleteObject(c, [cron[c] EXCEPT !.phase = "failing"])
     \/ /\ {"r2", "database"} \subseteq Faults
        /\ Step(c, [cron[c] EXCEPT !.phase = "failing"])
        /\ leaked' = leaked \cup {cron[c].key}
        /\ UNCHANGED <<r2, deletions>>
  /\ UNCHANGED <<worldVars, row, used, tries, lost>>

\* persistence.fail: only a pending row changes.
FailMedia(c) ==
  /\ cron[c].phase \in {"failing", "rejecting"}
  /\ LET m == cron[c].msg
         state == IF cron[c].phase = "rejecting" THEN "rejected" ELSE "failed"
     IN row' = IF row[m].state = "pending"
               THEN [row EXCEPT ![m] = [state |-> state, key |-> NoKey]] ELSE row
  /\ Step(c, Idle)
  /\ UNCHANGED <<worldVars, used, deletions, r2, tries, leaked, lost>>

\* The invocation is evicted; what it wrote stays in R2.
Crash(c) ==
  /\ "crash" \in Faults /\ cron[c] # Idle
  /\ leaked' = leaked \cup ({cron[c].key} \ {NoKey})
  /\ Step(c, Idle)
  /\ UNCHANGED <<worldVars, row, used, deletions, r2, tries, lost>>

Process(c) ==
  \/ Begin(c) \/ Retrieve(c) \/ WriteObject(c) \/ Finalize(c)
  \/ DiscardLosingUpload(c) \/ UndoUpload(c) \/ FailMedia(c)
  \/ \E k \in Keys : RemoveObject(c, k) \/ FinishObjectDeletion(c, k)

Fault(c) ==
  \/ RetrievalFails(c) \/ VerificationFails(c) \/ FinalizeReplyLost(c) \/ FinalizeFails(c)
  \/ Crash(c) \/ \E k \in Keys : RemoveObjectFails(c, k)

Next ==
  \/ \E m \in Messages :
       Upsert(m) \/ DeleteMessage(m) \/ Expire(m) \/ Exclude(m) \/ PurgeExcluded(m) \/ FailRead(m)
  \/ Disconnect \/ PurgeConnection
  \/ \E c \in Crons : Process(c) \/ Fault(c)

Spec == Init /\ [][Next]_vars

\* The cron runs every four minutes and is not evicted at the same step for ever, an R2
\* deletion that is tried again and again succeeds, and purges run with the transition
\* or the cron that owes them.
Fairness ==
  /\ WF_vars(PurgeConnection) /\ \A m \in Messages : WF_vars(PurgeExcluded(m))
  /\ \A c \in Crons : WF_vars(Process(c)) /\ SF_vars(Retrieve(c))
  /\ \A c \in Crons, k \in Keys : SF_vars(RemoveObject(c, k)) /\ SF_vars(FinishObjectDeletion(c, k))

FairSpec == Spec /\ Fairness

-----------------------------------------------------------------------------
(***************************************************************************)
(* What Stored Media promises about readability, R2 and the quota.         *)
(***************************************************************************)

States == {"none", "pending", "ready", "purging", "rejected", "failed"}
Phases == {"idle", "sweeping", "retrieving", "written", "losing", "undoing", "failing", "rejecting"}

(* Exactly a file that is ready, or being purged, has the key of its object. *)
MediaRow(m) ==
  /\ row[m].state \in States
  /\ IF row[m].state \in {"ready", "purging"} THEN row[m].key \in Keys /\ Owner(row[m].key) = m
     ELSE row[m].key = NoKey

\* Every variable stays in its set; a row has a key exactly when it holds an object.
TypeOK ==
  /\ message \in [Messages -> {"none", "live", "deleted", "expired", "excluded"}]
  /\ \A m \in Messages : MediaRow(m)
  /\ used \in Nat /\ deletions \subseteq Keys /\ r2 \subseteq Keys
  /\ excluded \subseteq Messages /\ deleting \in BOOLEAN
  /\ \A c \in Crons : cron[c].phase \in Phases /\ cron[c].removed \subseteq cron[c].todo
  /\ tries \in [Messages -> 0..Attempts]

\* The bytes charged are those of the ready and purging rows, through overlapping
\* invocations, repeated object deletions, lost replies and purges: what
\* verify_recovery_branch calls quota_ok.
QuotaExact == used = Bytes({m \in Messages : row[m].state \in {"ready", "purging"}})

\* Uploads that finish at the same time never exceed the account's limit together.
QuotaBound == used <= Limit

\* Every object in R2 is the object of a row, is queued for deletion, or is in the
\* hands of an invocation, unless one was evicted or failed to reach R2 and database.
NoOrphan ==
  \A k \in r2 \ leaked :
    \/ row[Owner(k)].key = k
    \/ k \in deletions
    \/ \E c \in Crons : cron[c].key = k

\* Media that a reader may open has its object, unless the reply of the finalize that
\* made it ready was lost.
ReadyHasObject ==
  \A m \in Messages : row[m].state = "ready" => row[m].key \in r2 \cup lost

\* The object of a row that is purged leaves R2 and its charge is released, although
\* R2 may refuse for a while and invocations end between R2 and the database.
PurgedMediaGoes ==
  \A k \in Keys : (row[Owner(k)] = [state |-> "purging", key |-> k])
                   ~> (k \notin r2 /\ row[Owner(k)].key # k)

\* No media stays pending for ever, although each attempt to process it may fail, unless
\* the last attempt that the bound allows was evicted.
PendingSettles ==
  \A m \in Messages : (row[m].state = "pending") ~> (row[m].state # "pending" \/ <<m, Attempts>> \in leaked)

(***************************************************************************)
(* Statements of the documentation that the code does not keep.            *)
(***************************************************************************)
\* A tombstone is "the non-content record left after WhatsApp reports a message
\* deletion": the media of a deleted message leaves R2.
DeletedMediaGoes ==
  \A m \in Messages : (message[m] = "deleted") ~> (\A k \in r2 : Owner(k) # m)
=============================================================================
