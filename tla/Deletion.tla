------------------------------- MODULE Deletion -------------------------------
(***************************************************************************)
(* Connection Deletion and Personal Account Deletion, and the replay of    *)
(* both in a database restored to an earlier point.                        *)
(*                                                                         *)
(* A request writes a marker and a capsule to R2 and then makes the keys   *)
(* unavailable; the deletion coordinator asks the provider to delete the   *)
(* session the capsule names; the cron of the API purges objects and rows. *)
(* db is the database, the part a restore takes back: markers, capsules,   *)
(* objects and provider sessions are elsewhere.                            *)
(*                                                                         *)
(* apps/api/src/whatsapp-connection.ts, personal-account-deletion.ts and   *)
(* deletion/, apps/deletion-coordinator, apps/restore-coordinator, and the *)
(* SQL functions they call.                                                *)
(***************************************************************************)
EXTENDS Integers, FiniteSets

CONSTANTS
  Connections,  \* WhatsApp Connections of one Personal Account
  Files,        \* those whose object is the file of a send; the others have Stored Media
  PendingMedia,      \* those whose media is still being retrieved
  Requests,     \* requests under way at once
  Kinds,        \* what requests ask for: "connection", "account"
  MaxTime,      \* a bound on the clock
  Restores,     \* a bound on restores
  Failures,     \* a bound on requests and crons that fail half way
  Faults        \* what may also happen: "late" workers, "break_glass" requests

ASSUME DeletionAssumption ==
  /\ IsFiniteSet(Connections)
  /\ Files \cup PendingMedia \subseteq Connections /\ Files \cap PendingMedia = {}
  /\ MaxTime \in Nat /\ Restores \in Nat /\ Failures \in Nat

Never == -1

VARIABLES
  clock,
  db,         \* account, conn, object, source, used, intents, replay tables, readiness
  saved,      \* the recovery point
  marker,     \* DELETION_MARKERS: [account, conn], the requestedAt of each
  capsule,    \* DELETION_CAPSULES: "none", "kept" or "destroyed"
  session,    \* connections that have a session at the provider
  r2,         \* STORED_MEDIA ("object") and WEBHOOK_INGRESS ("source")
  request,    \* [phase, kind, conn, todo, at]
  job,        \* the coordinator, for each candidate: [phase, at]
  purge,      \* the purge, for each candidate: [phase, at, todo, removed]
  replay,     \* the restore coordinator: [phase, todo, markers, removed]
  restores,
  failures,
  late,       \* connections that had a late event: each has one at most
  acked       \* for the properties: connections whose deletion was answered

store == <<marker, capsule, session, r2>>
vars == <<clock, db, saved, store, request, job, purge, replay, restores, failures, late, acked>>

Asleep == [phase |-> "idle", at |-> Never, todo |-> {}, removed |-> {}]
NoRequest == [phase |-> "idle", kind |-> "none", conn |-> "none", todo |-> {}, at |-> Never]
NotReplaying == [phase |-> "idle", todo |-> {}, markers |-> {}, removed |-> {}]

Objects == {"object", "source"} \X Connections

Init ==
  /\ clock = 0
  /\ db = [account |-> [state |-> "active", requested |-> Never, marker |-> FALSE, key |-> TRUE],
           conn |-> [c \in Connections |->
             [state |-> "live", requested |-> Never, absence |-> Never, key |-> TRUE]],
           setups |-> Connections,
           object |-> [c \in Connections |-> IF c \in PendingMedia THEN "pending" ELSE "ready"],
           source |-> Connections,
           used |-> Cardinality(Connections \ PendingMedia),
           intents |-> {}, handles |-> {},
           continuations |-> {}, removals |-> {}, ready |-> TRUE, audited |-> FALSE]
  /\ saved = db
  /\ marker = [account |-> Never, conn |-> [c \in Connections |-> Never]]
  /\ capsule = [c \in Connections |-> "none"]
  /\ session = Connections
  /\ r2 = {<<"source", c>> : c \in Connections} \cup {<<"object", c>> : c \in Connections \ PendingMedia}
  /\ request = [r \in Requests |-> NoRequest]
  /\ job = [c \in Connections |-> Asleep]
  /\ purge = [c \in Connections |-> Asleep]
  /\ replay = NotReplaying
  /\ restores = 0 /\ failures = 0 /\ late = {} /\ acked = {}

Tick == /\ clock < MaxTime /\ clock' = clock + 1
        /\ UNCHANGED <<db, saved, store, request, job, purge, replay, restores, failures, late, acked>>

\* One more request or cron fails half way.
Failing ==
  /\ failures < Failures /\ failures' = failures + 1
  /\ UNCHANGED <<clock, saved, marker, r2, restores, late, acked>>

(***************************************************************************)
(* Requests.                                                               *)
(***************************************************************************)
Quiet == UNCHANGED <<clock, saved, session, r2, job, purge, replay, restores, failures, late>>
Asks(r, changes) == request' = [request EXCEPT ![r] = changes]
Ends(r) == Asks(r, NoRequest)

\* The next connection of an account request, or its end.
Returns(r) ==
  IF request[r].kind = "account"
  THEN Asks(r, [request[r] EXCEPT !.phase = "account", !.conn = "none",
                                  !.todo = @ \ {request[r].conn}])
  ELSE Ends(r)

\* prepare_whatsapp_connection_deletion: "complete" when it is being deleted already.
PrepareDeletion(r, c, phase) ==
  LET k == db.conn[c]
      now == IF request[r].kind = "account" THEN request[r].at ELSE clock
  IN CASE k.state = "deleting" -> Asks(r, [phase EXCEPT !.phase = "complete", !.conn = c])
       [] k.state = "live" /\ k.key /\ db.account.key ->
            Asks(r, [phase EXCEPT !.phase = "prepared", !.conn = c, !.at = now])
       [] OTHER -> Ends(r)

BeginConnectionDeletion(r, c) ==
  /\ db.ready /\ "connection" \in Kinds /\ request[r] = NoRequest
  /\ db.conn[c].state # "gone" /\ db.account.state # "gone"
  /\ PrepareDeletion(r, c, [NoRequest EXCEPT !.kind = "connection"])
  /\ Quiet /\ UNCHANGED <<db, marker, capsule, acked>>

AnswerComplete(r) ==
  /\ request[r].phase = "complete"
  /\ acked' = acked \cup {request[r].conn}
  /\ Returns(r)
  /\ Quiet /\ UNCHANGED <<db, marker, capsule>>

\* The marker is put if absent; the one that exists gives the time of the request.
CreateMarker(r) ==
  LET c == request[r].conn
      at == IF marker.conn[c] = Never THEN request[r].at ELSE marker.conn[c]
  IN /\ request[r].phase = "prepared"
     /\ marker' = [marker EXCEPT !.conn[c] = at]
     /\ Asks(r, [request[r] EXCEPT !.phase = "marked"])
     /\ Quiet /\ UNCHANGED <<db, capsule, acked>>

\* Mutant: the keys go although the capsule could not be written.
CreateCapsuleOrNot(r) ==
  /\ request[r].phase = "marked"
  /\ \E state \in {"kept", capsule[request[r].conn]} :
       capsule' = [capsule EXCEPT ![request[r].conn] = state]
  /\ Asks(r, [request[r] EXCEPT !.phase = "sealed"])
  /\ Quiet /\ UNCHANGED <<db, marker, acked>>

\* The capsule too; one that was destroyed is absent again.
CreateCapsule(r) ==
  /\ request[r].phase = "marked"
  /\ capsule' = [capsule EXCEPT ![request[r].conn] = "kept"]
  /\ Asks(r, [request[r] EXCEPT !.phase = "sealed"])
  /\ Quiet /\ UNCHANGED <<db, marker, acked>>

\* finish_whatsapp_connection_deletion, with the trigger that purges pending sends: the
\* file of a send goes to the objects that are to be deleted.
Deleting(d, c, at) ==
  LET file == c \in Files /\ d.object[c] = "ready"
  IN [d EXCEPT !.conn[c] = [@ EXCEPT !.state = "deleting", !.requested = at, !.key = FALSE],
               !.object[c] = IF file THEN "purging" ELSE @,
               !.intents = IF file THEN @ \cup {c} ELSE @]

FinishDeletion(r) ==
  LET c == request[r].conn
  IN /\ request[r].phase = "sealed"
     /\ IF db.conn[c].state = "gone"
        THEN Ends(r) /\ UNCHANGED <<db, acked>>
        ELSE /\ db' = IF db.conn[c].state = "live"
                      THEN Deleting(db, c, marker.conn[c]) ELSE db
             /\ acked' = acked \cup {c}
             /\ Returns(r)
     /\ Quiet /\ UNCHANGED <<marker, capsule>>

Live(d) == {c \in Connections : d.conn[c].state = "live"}

\* prepare_personal_account_deletion. Unfinished Setups, authorizations and API keys,
\* which it ends too, are in their own modules.
PrepareAccountDeletion(r) ==
  LET at == IF db.account.requested = Never THEN clock ELSE db.account.requested
  IN /\ db.ready /\ "account" \in Kinds /\ request[r] = NoRequest
     /\ db.account.state # "gone"
     /\ db' = [db EXCEPT !.account.state = "deleting", !.account.requested = at]
     /\ Asks(r, [NoRequest EXCEPT !.kind = "account", !.phase = "account_prepared",
                                  !.todo = Live(db), !.at = at])
     /\ Quiet /\ UNCHANGED <<marker, capsule, acked>>

CreateAccountMarker(r) ==
  /\ request[r].phase = "account_prepared"
  /\ marker' = [marker EXCEPT !.account = IF @ = Never THEN request[r].at ELSE @]
  /\ Asks(r, [request[r] EXCEPT !.phase = "account"])
  /\ Quiet /\ UNCHANGED <<db, capsule, acked>>

DeleteNextConnection(r, c) ==
  /\ request[r].phase = "account" /\ c \in request[r].todo
  /\ PrepareDeletion(r, c, request[r])
  /\ Quiet /\ UNCHANGED <<db, marker, capsule, acked>>

\* finish_personal_account_deletion raises while a connection is not being deleted.
FinishAccountDeletion(r) ==
  /\ request[r].phase = "account" /\ request[r].todo = {}
  /\ IF db.account.state # "gone" /\ ~db.account.marker /\ Live(db) = {}
     THEN db' = [db EXCEPT !.account.marker = TRUE, !.account.key = FALSE]
     ELSE db' = db
  /\ Ends(r)
  /\ Quiet /\ UNCHANGED <<marker, capsule, acked>>

RequestStep(r) ==
  \/ AnswerComplete(r) \/ CreateMarker(r) \/ CreateCapsule(r) \/ FinishDeletion(r)
  \/ CreateAccountMarker(r) \/ FinishAccountDeletion(r)
  \/ \E c \in Connections : DeleteNextConnection(r, c)

RequestFails(r) ==
  /\ Failing /\ request[r] # NoRequest
  /\ Ends(r)
  /\ UNCHANGED <<db, capsule, session, job, purge, replay>>

(***************************************************************************)
(* The deletion coordinator, every minute. Its observation carries the     *)
(* time it was scheduled for. It does not look at the readiness of the     *)
(* database.                                                               *)
(***************************************************************************)
Works(c, changes) == job' = [job EXCEPT ![c] = [Asleep EXCEPT !.phase = changes, !.at = job[c].at]]
Rests(c) == job' = [job EXCEPT ![c] = Asleep]
Still == UNCHANGED <<clock, saved, marker, r2, request, purge, replay, restores, failures, late, acked>>

Candidates == {c \in Connections : db.conn[c].state = "deleting"} \cup db.continuations

Schedule(c) ==
  /\ job[c] = Asleep /\ db.conn[c].state # "live"
  /\ job' = [job EXCEPT ![c] = [Asleep EXCEPT !.phase = "scheduled", !.at = clock]]
  /\ Still /\ UNCHANGED <<db, capsule, session>>

\* list_whatsapp_connection_deletion_candidates; with no capsule there is nothing to do.
ReadCapsule(c) ==
  /\ job[c].phase = "scheduled"
  /\ IF c \in Candidates /\ capsule[c] = "kept" THEN Works(c, "read") ELSE Rests(c)
  /\ Still /\ UNCHANGED <<db, capsule, session>>

\* provider-control answers absent, or present, or fails.
DeleteSession(c) ==
  /\ job[c].phase = "read"
  /\ session' = session \ {c}
  /\ Works(c, "absent")
  /\ Still /\ UNCHANGED <<db, capsule>>

DeleteSessionFails(c) ==
  /\ Failing /\ job[c].phase = "read"
  /\ session' \in {session, session \ {c}}
  /\ Rests(c)
  /\ UNCHANGED <<db, capsule, request, purge, replay>>

\* confirm_whatsapp_connection_provider_absence: on the connection, or else on the
\* continuation a replay has left, whose Setup and number reservation go.
Confirms(c) == db.conn[c].state = "deleting" /\ job[c].at >= db.conn[c].requested

\* A continuation has the time of its marker.
Continues(c) == c \in db.continuations /\ job[c].at >= marker.conn[c]

Confirmed(c) ==
  [db EXCEPT !.conn[c].absence = IF @ = Never THEN job[c].at ELSE @]

ConfirmAbsence(c) ==
  /\ job[c].phase = "absent"
  /\ \/ /\ Confirms(c)
        /\ db' = Confirmed(c) /\ Works(c, "confirmed")
     \/ /\ ~Confirms(c) /\ Continues(c)
        /\ db' = [db EXCEPT !.continuations = @ \ {c}, !.setups = @ \ {c}]
        /\ Works(c, "confirmed")
     \/ /\ ~Confirms(c) /\ ~Continues(c) /\ c \in db.handles
        /\ db' = db /\ Works(c, "confirmed")
     \/ /\ ~Confirms(c) /\ ~Continues(c) /\ c \notin db.handles
        /\ db' = db /\ Rests(c)
  /\ Still /\ UNCHANGED <<capsule, session>>

DestroyCapsule(c) ==
  /\ job[c].phase = "confirmed"
  /\ capsule' = [capsule EXCEPT ![c] = "destroyed"]
  /\ Rests(c)
  /\ Still /\ UNCHANGED <<db, session>>

Reconcile(c) ==
  \/ Schedule(c) \/ ReadCapsule(c) \/ DeleteSession(c)
  \/ ConfirmAbsence(c) \/ DestroyCapsule(c)

CoordinatorFails(c) ==
  /\ Failing /\ job[c] # Asleep
  /\ Rests(c)
  /\ UNCHANGED <<db, capsule, session, request, purge, replay>>

(***************************************************************************)
(* The purge of the API's four-minute cron.                                *)
(***************************************************************************)
Purges(c, changes) == purge' = [purge EXCEPT ![c] = changes]
Calm == UNCHANGED <<clock, saved, marker, capsule, session, request, job, replay, restores, failures, acked>>

BeginPurge(c) ==
  /\ db.ready /\ purge[c] = Asleep
  /\ db.conn[c].state = "deleting" /\ db.conn[c].absence # Never
  /\ Purges(c, [Asleep EXCEPT !.phase = "begun", !.at = clock])
  /\ Calm /\ UNCHANGED <<db, r2, late>>

QueuedOf(d, c) == IF d.object[c] = "ready" THEN {c} ELSE {c} \cap d.intents

\* prepare_whatsapp_connection_cleanup: unfinished media goes, ready objects are queued.
PrepareCleanup(c) ==
  /\ purge[c].phase = "begun"
  /\ IF db.conn[c].state # "deleting"
     THEN Purges(c, Asleep) /\ db' = db
     ELSE /\ db' = [db EXCEPT
               !.object[c] = CASE @ = "pending" -> "none" [] @ = "ready" -> "purging" [] OTHER -> @,
               !.intents = IF db.object[c] = "ready" THEN @ \cup {c} ELSE @]
          /\ Purges(c, [purge[c] EXCEPT !.phase = "purging",
               !.todo = {<<"object", d>> : d \in QueuedOf(db, c)}
                          \cup {<<"source", d>> : d \in {c} \cap db.source}])
  /\ Calm /\ UNCHANGED <<r2, late>>

RemoveObject(c, o) ==
  /\ purge[c].phase = "purging" /\ o \in purge[c].todo \ purge[c].removed
  /\ r2' = r2 \ {o}
  /\ Purges(c, [purge[c] EXCEPT !.removed = @ \cup {o}])
  /\ Calm /\ UNCHANGED <<db, late>>

\* finish_stored_media_object_deletion: the charge of a purging row is released.
Released(d, c) ==
  [d EXCEPT !.object[c] = IF @ = "purging" THEN "none" ELSE @,
            !.used = IF d.object[c] = "purging" THEN @ - 1 ELSE @,
            !.intents = @ \ {c}]

FinishObject(c, o) ==
  /\ purge[c].phase = "purging" /\ o \in purge[c].removed
  /\ db' = IF o[1] = "object" THEN Released(db, c) ELSE [db EXCEPT !.source = @ \ {c}]
  /\ Purges(c, [purge[c] EXCEPT !.todo = @ \ {o}, !.removed = @ \ {o}])
  /\ Calm /\ UNCHANGED <<r2, late>>

\* Mutant: rows that arrived during the purge go with the connection.
CleanAnyway(d, c) == TRUE

Clean(d, c) == d.object[c] \notin {"ready", "purging", "pending"} /\ c \notin d.source

\* The row of the connection, its Setup and the number it reserved go.
Cleaned(d, c) ==
  [d EXCEPT !.conn[c].state = "gone", !.handles = @ \cup {c}, !.setups = @ \ {c},
            !.object[c] = "none"]

\* finish_whatsapp_connection_cleanup.
FinishCleanup(c) ==
  /\ purge[c].phase = "purging" /\ purge[c].todo = {}
  /\ db' = IF db.conn[c].state = "deleting" /\ purge[c].at >= db.conn[c].absence /\ Clean(db, c)
           THEN Cleaned(db, c) ELSE db
  /\ Purges(c, Asleep)
  /\ Calm /\ UNCHANGED <<r2, late>>

PurgeStep(c) ==
  \/ BeginPurge(c) \/ PrepareCleanup(c) \/ FinishCleanup(c)
  \/ \E o \in Objects : RemoveObject(c, o) \/ FinishObject(c, o)

PurgeFails(c) ==
  /\ Failing /\ purge[c] # Asleep
  /\ Purges(c, Asleep)
  /\ UNCHANGED <<db, capsule, session, request, job, replay>>

Charged(d) == d.used + 1

\* A worker that read the connection and its keys before the deletion stores the media
\* it was retrieving, or records the webhook event it had accepted.
LateMedia(c) ==
  /\ "late" \in Faults /\ db.ready /\ db.object[c] = "pending"
  /\ db.conn[c].key \/ db.conn[c].state = "deleting"
  /\ db' = [db EXCEPT !.object[c] = "ready", !.used = Charged(db)]
  /\ r2' = r2 \cup {<<"object", c>>}
  /\ Calm /\ UNCHANGED <<purge, late>>

LateEvent(c) ==
  /\ "late" \in Faults /\ db.ready /\ db.conn[c].state = "deleting"
  /\ c \notin db.source \cup late
  /\ db' = [db EXCEPT !.source = @ \cup {c}]
  /\ r2' = r2 \cup {<<"source", c>>}
  /\ late' = late \cup {c}
  /\ Calm /\ UNCHANGED purge

\* purge_personal_account, hourly, for an account whose marker is durable and which has
\* no connection and no Setup left. The audit of a break-glass request refers to the
\* account, and PostgreSQL refuses to delete its row.
PurgeAccount ==
  /\ db.ready /\ db.account.state = "deleting" /\ db.account.marker
  /\ \A c \in Connections : db.conn[c].state = "gone"
  /\ db.setups = {} /\ ~db.audited
  /\ db' = [db EXCEPT !.account.state = "gone"]
  /\ Calm /\ UNCHANGED <<r2, purge, late>>

BreakGlassRequest ==
  /\ "break_glass" \in Faults /\ db.ready /\ ~db.audited /\ db.account.state # "gone"
  /\ db' = [db EXCEPT !.audited = TRUE]
  /\ Calm /\ UNCHANGED <<r2, purge, late>>

(***************************************************************************)
(* A restore takes the database back, and the restore coordinator replays  *)
(* the markers before the API serves it.                                   *)
(***************************************************************************)
RecoveryPoint ==
  /\ restores < Restores /\ db.ready /\ saved # db
  /\ saved' = db
  /\ UNCHANGED <<clock, db, store, request, job, purge, replay, restores, failures, late, acked>>

\* What the API, the coordinators and the purge had in hand was for the old branch.
Restore ==
  /\ restores < Restores
  /\ restores' = restores + 1
  /\ db' = [saved EXCEPT !.ready = FALSE]
  /\ request' = [r \in Requests |-> NoRequest]
  /\ job' = [c \in Connections |-> Asleep]
  /\ purge' = [c \in Connections |-> Asleep]
  /\ replay' = NotReplaying
  /\ UNCHANGED <<clock, saved, store, failures, late, acked>>

Replays(changes) == replay' = changes
Closed == UNCHANGED <<clock, saved, marker, capsule, session, request, job, purge, restores, failures, late, acked>>

\* begin_restore_replay: no candidates once the branch is ready. The markers are
\* enumerated once.
BeginReplay ==
  /\ ~db.ready /\ replay = NotReplaying
  /\ Replays([NotReplaying EXCEPT !.phase = "deleting",
        !.todo = {c \in Connections : db.conn[c].state # "gone"},
        !.markers = {c \in Connections : marker.conn[c] # Never}])
  /\ Closed /\ UNCHANGED <<db, r2>>

Removal(o, c, charge) == [object |-> o, conn |-> c, charge |-> charge]

\* restore_object_deletions: the file of a send keeps its charge, media does not.
Removals(d, S) ==
  {Removal("object", c, IF c \in Files THEN "retained" ELSE "none") :
     c \in {e \in S : d.object[e] \in {"ready", "purging"}}}
  \cup {Removal("source", c, "none") : c \in S \cap d.source}

FilesGone(d, S) ==
  [d EXCEPT !.object = [c \in Connections |-> IF c \in S \cap Files THEN "none" ELSE d.object[c]],
            !.intents = @ \ {c \in S \cap Files : d.object[c] # "none"},
            !.removals = @ \cup Removals(d, S)]

\* Mutant: the Setup of a replayed connection goes with it.
ReplayedWithSetup(d, c) ==
  [FilesGone(d, {c}) EXCEPT !.conn[c].state = "gone", !.conn[c].key = FALSE,
     !.object[c] = "none", !.source = @ \ {c}, !.handles = @ \cup {c}, !.setups = @ \ {c}]

\* replay_restore_deletion of a connection: its rows go, the Setup and the number stay
\* for the coordinator.
Replayed(d, c) ==
  [FilesGone(d, {c}) EXCEPT !.conn[c].state = "gone", !.conn[c].key = FALSE,
     !.object[c] = "none", !.source = @ \ {c}, !.handles = @ \cup {c},
     !.continuations = IF c \in d.setups THEN @ \cup {c} ELSE @]

\* Mutant: the markers of deletions that the restored rows do not show are left alone.
MarkedDeleting(c) == c \in replay.markers /\ db.conn[c].state = "deleting"

Marked(c) == c \in replay.markers

ReplayConnection(c) ==
  /\ replay.phase = "deleting" /\ c \in replay.todo
  /\ db' = IF Marked(c) THEN Replayed(db, c) ELSE db
  /\ Replays([replay EXCEPT !.todo = @ \ {c}])
  /\ Closed /\ UNCHANGED r2

\* The account comes last. With a connection or a continuation left, its keys and its
\* objects go and its row stays.
ReplayAccount ==
  LET at == IF db.account.requested = Never THEN clock ELSE db.account.requested
      unkeyed == [FilesGone(db, Connections) EXCEPT
                    !.account = [db.account EXCEPT !.state = "deleting", !.marker = TRUE,
                                   !.key = FALSE, !.requested = at],
                    !.conn = [c \in Connections |-> [db.conn[c] EXCEPT !.key = FALSE]]]
  IN /\ replay.phase = "deleting" /\ replay.todo = {}
     /\ db' = IF marker.account = Never \/ db.account.state = "gone" THEN db
              ELSE IF Live(db) \cup Candidates = {}
                   THEN [unkeyed EXCEPT !.account.state = "gone", !.setups = {}]
                   ELSE unkeyed
     /\ Replays([replay EXCEPT !.phase = "draining"])
     /\ Closed /\ UNCHANGED r2

\* purge_restore_expired queues what the API had queued; every object is then deleted
\* and its removal finished.
QueueIntents ==
  /\ replay.phase = "draining"
  /\ \E c \in db.intents : Removal("object", c, "retained") \notin db.removals
  /\ db' = [db EXCEPT !.removals =
       {m \in @ : m.object = "source" \/ m.conn \notin db.intents \/ m.charge = "retained"}
         \cup {Removal("object", c, "account") : c \in
               {e \in db.intents : Removal("object", e, "retained") \notin db.removals}}]
  /\ db' # db
  /\ Closed /\ UNCHANGED <<r2, replay>>

RemoveRestored(m) ==
  /\ replay.phase = "draining" /\ m \in db.removals \ replay.removed
  /\ r2' = r2 \ {<<m.object, m.conn>>}
  /\ Replays([replay EXCEPT !.removed = @ \cup {m}])
  /\ Closed /\ UNCHANGED db

\* Mutant: the charge of a file is released with the row only.
ReleasedRow(d, m) == IF m.charge = "account" THEN Released(d, m.conn) ELSE d

\* finish_restore_object_deletion.
ReleasedCharge(d, m) ==
  CASE m.charge = "account" -> Released(d, m.conn)
    [] m.charge = "retained" -> [d EXCEPT !.used = @ - 1]
    [] OTHER -> d

FinishRestored(m) ==
  /\ replay.phase = "draining" /\ m \in replay.removed
  /\ db' = [ReleasedCharge(db, m) EXCEPT !.removals = @ \ {m}]
  /\ Replays([replay EXCEPT !.removed = @ \ {m}])
  /\ Closed /\ UNCHANGED r2

\* complete_restore_replay raises while objects remain.
CompleteReplay ==
  /\ replay.phase = "draining" /\ db.removals = {} /\ db.intents = {}
  /\ db' = [db EXCEPT !.ready = TRUE]
  /\ Replays(NotReplaying)
  /\ Closed /\ UNCHANGED r2

ReplayFails ==
  /\ Failing /\ replay # NotReplaying
  /\ Replays(NotReplaying)
  /\ UNCHANGED <<db, capsule, session, request, job, purge>>

AllRemovals ==
  {Removal(o, c, g) : o \in {"object", "source"}, c \in Connections, g \in {"none", "account", "retained"}}

ReplayStep ==
  \/ BeginReplay \/ ReplayAccount \/ QueueIntents \/ CompleteReplay
  \/ \E c \in Connections : ReplayConnection(c)
  \/ \E m \in AllRemovals : RemoveRestored(m) \/ FinishRestored(m)

Next ==
  \/ Tick \/ PurgeAccount \/ BreakGlassRequest
  \/ \E r \in Requests :
       \/ PrepareAccountDeletion(r) \/ RequestStep(r) \/ RequestFails(r)
       \/ \E c \in Connections : BeginConnectionDeletion(r, c)
  \/ \E c \in Connections :
       \/ Reconcile(c) \/ DeleteSessionFails(c) \/ CoordinatorFails(c)
       \/ PurgeStep(c) \/ PurgeFails(c) \/ LateMedia(c) \/ LateEvent(c)
  \/ RecoveryPoint \/ Restore \/ ReplayStep \/ ReplayFails

Spec == Init /\ [][Next]_vars

\* The crons come again, the provider answers in the end, and the User or Clerk repeats
\* an account deletion that failed.
Fairness ==
  /\ \A r \in Requests :
       /\ WF_vars(RequestStep(r))
       /\ WF_vars(db.account.state = "deleting" /\ PrepareAccountDeletion(r))
  /\ \A c \in Connections : WF_vars(Reconcile(c)) /\ WF_vars(PurgeStep(c))
  /\ WF_vars(PurgeAccount) /\ WF_vars(ReplayStep)

FairSpec == Spec /\ Fairness

-----------------------------------------------------------------------------
(***************************************************************************)
(* What deletion promises: nothing that was deleted comes back, a number   *)
(* stays reserved while the provider has its session, and every deletion   *)
(* reaches its end.                                                        *)
(***************************************************************************)

Times == {Never} \cup (0..MaxTime)

AccountRows == [state : {"active", "deleting", "gone"}, requested : Times,
                marker : BOOLEAN, key : BOOLEAN]

ConnectionRows == [state : {"live", "deleting", "gone"}, requested : Times,
                   absence : Times, key : BOOLEAN]

\* Every variable stays in its set, in the live database and in the recovery point.
TypeOK ==
  /\ clock \in 0..MaxTime
  /\ \A d \in {db, saved} :
       /\ d.account \in AccountRows /\ d.conn \in [Connections -> ConnectionRows]
       /\ d.object \in [Connections -> {"none", "pending", "ready", "purging"}]
       /\ d.used \in 0..Cardinality(Connections)
       /\ d.intents \cup d.source \cup d.setups \cup d.continuations \subseteq Connections
       /\ d.removals \subseteq AllRemovals
  /\ marker.account \in Times /\ marker.conn \in [Connections -> Times]
  /\ capsule \in [Connections -> {"none", "kept", "destroyed"}]
  /\ session \subseteq Connections /\ r2 \subseteq Objects

\* A connection whose deletion was answered is never served again: not after a restore to
\* a point where it was live, whatever was interrupted and however often replay ran.
NoResurrection ==
  db.ready => \A c \in acked : db.conn[c].state # "live" /\ ~db.conn[c].key

\* A number is reserved as long as the provider may still have a session for it, through
\* ambiguous answers, crashes and replays.
ReservedUntilAbsent == session \subseteq db.setups

\* The provider session of a connection whose keys are gone can still be found: its
\* locator is in the capsule, the only place left that has it.
CleanupPossible ==
  \A c \in session : db.conn[c].state = "deleting" => capsule[c] = "kept"

\* When a connection is gone, so is what it had in R2, including what workers that had
\* begun before its deletion wrote during the purge.
NothingLeftBehind ==
  \A o \in r2 : db.conn[o[2]].state # "gone"

\* The quota counts the objects that rows account for, and the files whose rows a replay
\* removed before R2 was asked.
QuotaExact ==
  db.used = Cardinality({c \in Connections : db.object[c] \in {"ready", "purging"}})
              + Cardinality({m \in db.removals : m.charge = "retained"})

\* A connection that is being deleted is gone in the end and its number is free, whatever
\* the provider answers at first and wherever a coordinator or a purge is interrupted.
DeletionEnds ==
  \A c \in Connections :
    (db.conn[c].state = "deleting") ~> (db.conn[c].state = "gone" /\ c \notin db.setups)

\* An account whose deletion began is purged in the end.
AccountEnds == (db.account.state = "deleting") ~> (db.account.state = "gone")

\* A replay that begins opens the database in the end.
ReplayEnds == (~db.ready) ~> db.ready

(***************************************************************************)
(* Statements of the documentation that the code does not keep.            *)
(***************************************************************************)
\* "if promoted to serving, its deletion coordinator consumes the continuation".
ContinuationEnds ==
  \A c \in Connections :
    (c \in db.continuations /\ c \in acked) ~> (c \notin db.continuations)

\* "A `absent` observation first records provider absence and then destroys the capsule":
\* no capsule outlives its connection.
CapsuleEnds ==
  \A c \in Connections : (capsule[c] = "kept" /\ db.conn[c].state = "deleting") ~> (capsule[c] = "destroyed")

\* "replay locked markers and complete Connection Deletion before running the same
\* account purge": a connection that a replayed account deletion left can be deleted.
LeftConnectionDeletes ==
  \A c \in Connections :
    (db.ready /\ db.account.marker /\ db.conn[c].state = "live") ~> (db.conn[c].state # "live")
=============================================================================
