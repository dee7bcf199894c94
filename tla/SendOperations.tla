--------------------------- MODULE SendOperations ---------------------------
(***************************************************************************)
(* Send Operations of one Personal Account: one grant, one WhatsApp        *)
(* Connection and one Directory recipient, as the API Worker, Neon, R2,    *)
(* the provider, the webhook processor, the crons and the User drive them. *)
(* A tool call draws its own operation id before it opens a transaction,   *)
(* so an operation is named by the request that creates it.                *)
(*                                                                         *)
(* packages/db/src/send.ts, apps/api/src/send-text-message.ts,             *)
(* packages/db/src/webhook-event.ts and the SQL functions they call.       *)
(***************************************************************************)
EXTENDS Integers, FiniteSets

(***************************************************************************)
(* The public Send Status and the two rules by which later provider        *)
(* evidence may change it: the predicates of the UPDATE statements of      *)
(* packages/db/src/webhook-event.ts, read as relations between the stored  *)
(* status and the incoming one.                                            *)
(***************************************************************************)
Statuses ==
  {"processing", "accepted", "sent", "delivered", "read", "failed", "unknown"}

\* The CASE expressions that rank a status; "failed" and "unknown" fall in ELSE 0.
Rank == [processing |-> 0, accepted |-> 1, sent |-> 2, delivered |-> 3,
         read |-> 4, failed |-> 0, unknown |-> 0]

Positive == {"accepted", "sent", "delivered", "read"}

\* Statuses that stand for a message known to exist at the provider.
Materializing == {"sent", "delivered", "read"}

EvidenceStatuses == Positive \cup {"failed"}

EvidenceAppliesIgnoringRank(old, new) ==
  \/ old = "unknown"
  \/ new = "failed" /\ old \in {"processing", "accepted", "sent"}
  \/ new # "failed"

\* projectSendEvidence: the WHERE clause of its UPDATE of send_operations.
EvidenceApplies(old, new) ==
  \/ old = "unknown"
  \/ new = "failed" /\ old \in {"processing", "accepted", "sent"}
  \/ new # "failed" /\ (old = "failed" \/ Rank[new] > Rank[old])

\* projectStoredMessage: an outbound upsert sets "sent" over these only.
UpsertApplies(old) == old \in {"processing", "accepted", "failed", "unknown"}

(***************************************************************************)
(* The transition relation ADR 0017 promises, stated on its own: positive  *)
(* progress may skip stages and never regresses, "failed" replaces only    *)
(* what is not yet delivered, positive evidence corrects "failed",         *)
(* "unknown" reconciles to anything but "processing".                      *)
(***************************************************************************)
StatusMayBecome(old, new) ==
  \/ new = old
  \/ old = "processing"
  \/ old = "unknown" /\ new # "processing"
  \/ old = "failed" /\ new \in Positive
  \/ old \in {"accepted", "sent"} /\ new = "failed"
  \/ old \in Positive /\ new \in Positive /\ Rank[new] > Rank[old]

CONSTANTS
  Requests,    \* calls of the send service
  Keys,        \* idempotency keys of the grant
  None,        \* no request
  KeyOf,       \* the key a request carries
  PrintOf,     \* its exact-request fingerprint
  ShapeOf,     \* its request-shape fingerprint (all but the content)
  Direct,      \* requests addressed to a phone or username
  Alias,       \* the Direct ones whose address is in truth the recipient's
  WithFile,    \* requests that carry a PDF or an image, each of one unit
  Reports,     \* what the provider's webhooks report: a status, or "upsert"
  Events,      \* the environment events this instance explores
  Lease,       \* dispatch lease (45 seconds in the code)
  Window,      \* rolling quota window
  SendLimit,   \* reservations allowed in a window
  MediaLimit,  \* Stored Media quota, in files
  PendingLife, \* lifetime of Pending Send Content
  MaxTime      \* horizon of the clock: a bound, not in the code

ASSUME IdentityAssumption ==
  /\ None \notin Requests
  /\ KeyOf \in [Requests -> Keys]
  /\ Direct \subseteq Requests /\ Alias \subseteq Direct /\ WithFile \subseteq Requests
  /\ Reports \subseteq EvidenceStatuses \cup {"upsert"}
  /\ \A q, r \in Requests : PrintOf[q] = PrintOf[r] => ShapeOf[q] = ShapeOf[r]

ASSUME BoundAssumption ==
  /\ Lease \in Nat \ {0} /\ Window \in Nat /\ SendLimit \in Nat /\ MediaLimit \in Nat
  /\ PendingLife \in Nat /\ Lease <= PendingLife /\ MaxTime \in Nat
  /\ IsFiniteSet(Requests)

VARIABLES
  now, writer, authorized, conn, rule,
  pc, observedAt, seen, reply, answer,
  status, lease, createdAt, known, binding,
  pending, object, used, intents, r2,
  attempts, took,
  item, message, storedAt, received

(***************************************************************************)
(* now        the one clock, read by the Worker and by the database        *)
(* writer     the request whose transaction holds the account and          *)
(*            connection row locks, or None                                *)
(* authorized the grant is active and selects the connection               *)
(* conn       state of the WhatsApp Connection                             *)
(* rule       the Recipient Exclusion row of the recipient                 *)
(***************************************************************************)
context == <<now, authorized, conn, rule>>

(***************************************************************************)
(* pc, observedAt, answer: progress of the call, the time it read when it  *)
(* began, what the provider attempt gave.  seen: the operation its locking *)
(* statement found bound to the key.  reply: what the caller is told.      *)
(***************************************************************************)
callVars == <<pc, observedAt, seen, reply, answer>>

(***************************************************************************)
(* The rows: send_operations ("none": no row), message_identity known or   *)
(* not, send_idempotency_bindings by key.                                  *)
(***************************************************************************)
rowVars == <<status, lease, createdAt, known, binding>>

(***************************************************************************)
(* pending_send_contents, send_operation_objects, stored_media_used_bytes, *)
(* stored_media_object_deletions, and the objects present in R2.           *)
(***************************************************************************)
contentVars == <<pending, object, used, intents, r2>>

\* Calls made to the provider, and the messages it really accepted.
providerVars == <<attempts, took>>

\* webhook_items by what they report, and the outbound stored_messages: content
\* held or not, created_at and received_at.
webhookVars == <<item, message, storedAt, received>>

vars == <<context, writer, callVars, rowVars, contentVars, providerVars, webhookVars>>

Items == Requests \X Reports

Live == {"cleared", "started", "reading", "admitted", "written", "failed",
         "committed", "dispatched", "answered"}
PCs == {"idle", "done", "dead"} \cup Live
Replies == {"none", "created", "replayed", "conflict", "refused", "error"}
ProviderAnswers == {"accepted", "sent", "delivered", "read", "failed", "unknown"}
NoAnswer == [status |-> "unknown", identity |-> FALSE, at |-> 0]

\* Requests that reach the recipient, whatever address they used.
ForRecipient == (Requests \ Direct) \cup Alias

-----------------------------------------------------------------------------
Init ==
  /\ now = 1 /\ writer = None /\ authorized = TRUE /\ conn = "connected"
  /\ rule = [excluded |-> FALSE, effectiveAt |-> 0, cutoff |-> 0,
             next |-> "none", nextAt |-> 0]
  /\ pc = [r \in Requests |-> "idle"]
  /\ observedAt = [r \in Requests |-> 0]
  /\ seen = [r \in Requests |-> None]
  /\ reply = [r \in Requests |-> "none"]
  /\ answer = [r \in Requests |-> NoAnswer]
  /\ status = [r \in Requests |-> "none"]
  /\ lease = [r \in Requests |-> 0]
  /\ createdAt = [r \in Requests |-> 0]
  /\ known = [r \in Requests |-> FALSE]
  /\ binding = [k \in Keys |-> None]
  /\ pending = {} /\ object = [r \in Requests |-> "none"]
  /\ used = 0 /\ intents = {} /\ r2 = {}
  /\ attempts = [r \in Requests |-> 0]
  /\ took = [r \in Requests |-> FALSE]
  /\ item = [i \in Items |-> "none"]
  /\ message = [r \in Requests |-> "none"]
  /\ storedAt = [r \in Requests |-> 0] /\ received = [r \in Requests |-> 0]

-----------------------------------------------------------------------------
(* Shared effects                                                          *)

\* Deleting Pending Send Content fires the BEFORE DELETE trigger that marks
\* the operation's object purging and queues its deletion.
DropPendingAlone(S) == pending' = pending \ S /\ UNCHANGED <<object, intents>>

DropPending(S) ==
  LET gone == {q \in pending \cap S : object[q] = "ready"}
  IN  /\ pending' = pending \ S
      /\ object' = [q \in Requests |-> IF q \in gone THEN "purging" ELSE object[q]]
      /\ intents' = intents \cup gone

\* The AFTER UPDATE OF status trigger: a Direct Address operation that leaves
\* "processing" loses its pending content.
LeavingForgotten(S) == {}
Leaving(S) == S \cap Direct

\* The lease of operation o is over at time t and nobody has noticed yet.
LeaseOver(o, t) == status[o] = "processing" /\ lease[o] <= t

\* A re-enabled recipient admits only observations received after the re-enable.
Suppressed(at) == rule.excluded \/ at <= rule.effectiveAt

\* Every quota-bearing row was reserved at its observation time; the count
\* takes those in (observedAt - Window, observedAt].
ReservedAt(t) == {q \in Requests : /\ status[q] # "none"
                                   /\ createdAt[q] <= t /\ t < createdAt[q] + Window}

Eligible(r) == /\ conn = "connected"
               /\ ~rule.excluded

\* The caller's refusal or receipt ends the call.
Finish(r, what) == /\ pc' = [pc EXCEPT ![r] = "done"]
                   /\ reply' = [reply EXCEPT ![r] = what]
                   /\ UNCHANGED <<observedAt, seen, answer>>

Goto(r, where) == /\ pc' = [pc EXCEPT ![r] = where]
                  /\ UNCHANGED <<observedAt, seen, reply, answer>>
-----------------------------------------------------------------------------
(* The service and its one transaction                                     *)

\* WHO Worker.  A call with a file asks before it fetches or decodes it; only a
\* refusal leaves a trace, everything is asked again by the commit.
Preflight(r) ==
  /\ pc[r] = "idle" /\ r \in WithFile
  /\ LET owner == binding[KeyOf[r]] IN
       \/ ~authorized /\ Finish(r, "refused")
       \/ authorized /\ owner # None /\ ShapeOf[owner] # ShapeOf[r] /\ Finish(r, "conflict")
       \/ authorized /\ owner # None /\ ShapeOf[owner] = ShapeOf[r] /\ Goto(r, "cleared")
       \/ authorized /\ owner = None /\ rule.excluded /\ Finish(r, "refused")
       \/ authorized /\ owner = None /\ ~rule.excluded /\ Goto(r, "cleared")
  /\ UNCHANGED <<context, writer, rowVars, contentVars, providerVars, webhookVars>>

\* WHO Worker.  The call reads the clock once, before any row is locked.
Start(r) ==
  /\ pc[r] = IF r \in WithFile THEN "cleared" ELSE "idle"
  /\ pc' = [pc EXCEPT ![r] = "started"]
  /\ observedAt' = [observedAt EXCEPT ![r] = now]
  /\ UNCHANGED <<context, writer, seen, reply, answer,
                 rowVars, contentVars, providerVars, webhookVars>>

\* WHO Worker.  BEGIN and the locking statement: its snapshot, and with it the
\* binding it can see, is taken before it queues for the account row.
ReadBinding(r) ==
  /\ pc[r] = "started"
  /\ pc' = [pc EXCEPT ![r] = "reading"]
  /\ seen' = [seen EXCEPT ![r] = binding[KeyOf[r]]]
  /\ UNCHANGED <<context, writer, observedAt, reply, answer,
                 rowVars, contentVars, providerVars, webhookVars>>

\* The account row is free and is locked for this transaction.
Locks(r) == pc[r] = "reading" /\ writer = None

Deny(r) ==
  /\ Locks(r) /\ ~authorized
  /\ Finish(r, "refused")
  /\ UNCHANGED <<context, writer, rowVars, contentVars, providerVars, webhookVars>>

\* The key was bound: expire a dead lease on the way, then answer from the
\* existing operation without any quota or provider call.
ReplayBound(r) ==
  /\ Locks(r) /\ authorized /\ seen[r] # None
  /\ LET o == seen[r]
         over == {q \in {o} : LeaseOver(q, observedAt[r])}
     IN  /\ status' = [q \in Requests |-> IF q \in over THEN "unknown" ELSE status[q]]
         /\ DropPending(Leaving(over))
         /\ Finish(r, IF PrintOf[o] = PrintOf[r] THEN "replayed" ELSE "conflict")
  /\ UNCHANGED <<context, writer, lease, createdAt, known, binding, used, r2,
                 providerVars, webhookVars>>

Limited(r) == Cardinality(ReservedAt(observedAt[r])) >= SendLimit
NoRoom(r) == r \in WithFile /\ used + 1 > MediaLimit

Refuse(r) ==
  /\ Locks(r) /\ authorized /\ seen[r] = None
  /\ ~Eligible(r) \/ Limited(r) \/ NoRoom(r)
  /\ Finish(r, "refused")
  /\ UNCHANGED <<context, writer, rowVars, contentVars, providerVars, webhookVars>>

Admit(r) ==
  /\ Locks(r) /\ authorized /\ seen[r] = None
  /\ Eligible(r) /\ ~Limited(r) /\ ~NoRoom(r)
  /\ writer' = r
  /\ Goto(r, "admitted")
  /\ UNCHANGED <<context, rowVars, contentVars, providerVars, webhookVars>>

\* The encrypt callback, inside the open transaction, writes the file to R2.
WriteObject(r) ==
  /\ pc[r] = "admitted" /\ r \in WithFile
  /\ r2' = r2 \cup {r}
  /\ Goto(r, "written")
  /\ UNCHANGED <<context, writer, rowVars, pending, object, used, intents,
                 providerVars, webhookVars>>

Insertable(r) == pc[r] = IF r \in WithFile THEN "written" ELSE "admitted"

\* PRIMARY KEY (idempotency_key, grant_id) of the bindings.
KeyFreeInSnapshot(r) == seen[r] = None
KeyFree(r) == binding[KeyOf[r]] = None

\* Horizon: what is committed can expire before the clock stops.
InHorizon == now + PendingLife <= MaxTime

\* Every row of the operation in one commit, or none.
Insert(r) ==
  /\ Insertable(r) /\ KeyFree(r) /\ InHorizon
  /\ r \in WithFile => used + 1 <= MediaLimit
  /\ writer' = None
  /\ status' = [status EXCEPT ![r] = "processing"]
  /\ lease' = [lease EXCEPT ![r] = now + Lease]
  /\ createdAt' = [createdAt EXCEPT ![r] = observedAt[r]]
  /\ binding' = [binding EXCEPT ![KeyOf[r]] = r]
  /\ pending' = pending \cup {r}
  /\ object' = [object EXCEPT ![r] = IF r \in WithFile THEN "ready" ELSE @]
  /\ used' = IF r \in WithFile THEN used + 1 ELSE used
  /\ UNCHANGED <<context, known, intents, r2, providerVars, webhookVars>>

Commit(r) ==
  /\ Insert(r)
  /\ pc' = [pc EXCEPT ![r] = "committed"]
  /\ reply' = [reply EXCEPT ![r] = "created"]
  /\ UNCHANGED <<observedAt, seen, answer>>

\* The database commits but the Worker only sees its connection fail.
CommitLost(r) ==
  /\ "lost" \in Events
  /\ Insert(r)
  /\ Goto(r, "failed")

\* Duplicate key or any other error before the commit; also what becomes of a
\* transaction too late for the bounded clock.
Rollback(r) ==
  /\ pc[r] \in {"admitted", "written"}
  /\ ("lost" \in Events) \/ ~KeyFree(r) \/ ~InHorizon
  /\ writer' = None
  /\ Goto(r, "failed")
  /\ UNCHANGED <<context, rowVars, contentVars, providerVars, webhookVars>>

\* The caller's catch block removes a written object, or queues its deletion when
\* R2 refuses, or can do neither; either way the call ends in an error.
CleanUp(r) ==
  /\ pc[r] = "failed"
  /\ Finish(r, "error")
  /\ \/ r2' = r2 \ {r} /\ UNCHANGED intents
     \/ r \in r2 /\ "lost" \in Events /\ intents' = intents \cup {r} /\ UNCHANGED r2
     \/ r \in r2 /\ "lost" \in Events /\ UNCHANGED <<intents, r2>>
  /\ UNCHANGED <<context, writer, rowVars, pending, object, used,
                 providerVars, webhookVars>>

-----------------------------------------------------------------------------
(* The provider attempt                                                    *)

\* WHO Worker, deferred past the response.  The one call to the provider, which
\* accepts the message or not.
Dispatch(r) ==
  /\ pc[r] = "committed"
  /\ Goto(r, "dispatched")
  /\ attempts' = [attempts EXCEPT ![r] = @ + 1]
  /\ \E accepted \in BOOLEAN : took' = [took EXCEPT ![r] = accepted]
  /\ UNCHANGED <<context, writer, rowVars, contentVars, webhookVars>>

\* What a complete response can say.  Refusals and failed uploads are
\* definitive only when nothing was sent; everything unclear is "unknown".
ResponsesTo(r) ==
  {x \in [status : ProviderAnswers, identity : BOOLEAN, at : {now}] :
     \/ x.status = "unknown" /\ ~x.identity
     \/ x.status = "failed" /\ ~x.identity /\ ~took[r]
     \/ x.status = "accepted" /\ took[r]
     \/ x.status \in Positive /\ x.identity /\ took[r]}

Respond(r) ==
  /\ pc[r] = "dispatched"
  /\ pc' = [pc EXCEPT ![r] = "answered"]
  /\ \E a \in ResponsesTo(r) : answer' = [answer EXCEPT ![r] = a]
  /\ UNCHANGED <<context, writer, observedAt, seen, reply,
                 rowVars, contentVars, providerVars, webhookVars>>

\* Opening keys or authority failed before the call: outcome "unknown".
Abandon(r) ==
  /\ pc[r] = "committed" /\ "lost" \in Events
  /\ pc' = [pc EXCEPT ![r] = "answered"]
  /\ answer' = [answer EXCEPT ![r] = [status |-> "unknown", identity |-> FALSE, at |-> now]]
  /\ UNCHANGED <<context, writer, observedAt, seen, reply,
                 rowVars, contentVars, providerVars, webhookVars>>

\* The result carries content to keep: a text to the Directory recipient that
\* the provider identified.
Keeps(r, a) == a.identity /\ r \notin WithFile \cup Direct /\ a.status \in Materializing

InTimeByStatus(r, a) == status[r] = "processing"
InTime(r, a) == status[r] = "processing" /\ lease[r] > a.at

\* WHO Worker.  recordProviderOutcome when the lease still stands.
RecordInTime(r) ==
  /\ pc[r] = "answered"
  /\ LET a == answer[r] IN
       /\ InTime(r, a)
       /\ status' = [status EXCEPT ![r] = a.status]
       /\ known' = [known EXCEPT ![r] = a.identity]
       /\ LET stores == Keeps(r, a) /\ message[r] = "none"
              drops == \/ a.status = "failed" \/ Keeps(r, a)
                       \/ a.identity /\ message[r] # "none"
          IN  /\ message' = [message EXCEPT ![r] = IF stores THEN "content" ELSE @]
              /\ storedAt' = [storedAt EXCEPT ![r] = IF stores THEN now ELSE @]
              /\ received' = [received EXCEPT ![r] = IF stores THEN a.at ELSE @]
              /\ DropPending({q \in {r} : drops} \cup Leaving({r}))
  /\ Goto(r, "done")
  /\ UNCHANGED <<context, writer, lease, createdAt, binding, used, r2, providerVars, item>>

\* The lease ran out first, or somebody already said so: the result is dropped.
RecordLate(r) ==
  /\ pc[r] = "answered" /\ ~InTime(r, answer[r])
  /\ LET over == {q \in {r} : LeaseOver(q, answer[r].at)}
     IN  /\ status' = [q \in Requests |-> IF q \in over THEN "unknown" ELSE status[q]]
         /\ DropPending(Leaving(over))
  /\ Goto(r, "done")
  /\ UNCHANGED <<context, writer, lease, createdAt, known, binding, used, r2,
                 providerVars, webhookVars>>

\* The write failed; the caller keeps the committed receipt.
RecordFails(r) ==
  /\ pc[r] = "answered" /\ "lost" \in Events
  /\ Goto(r, "done")
  /\ UNCHANGED <<context, writer, rowVars, contentVars, providerVars, webhookVars>>

\* The isolate dies: its open transaction rolls back, nothing else happens.
Crash(r) ==
  /\ "crash" \in Events /\ pc[r] \in Live
  /\ writer' = IF writer = r THEN None ELSE writer
  /\ Goto(r, "dead")
  /\ UNCHANGED <<context, rowVars, contentVars, providerVars, webhookVars>>

-----------------------------------------------------------------------------
(* Webhook items, each processed once, in any order, at any later time     *)

\* Ingress may have received the event at any time since the commit.
ReceivedAt(r) == (lease[r] - Lease) .. now

Claim(r, what, outcome) == item' = [item EXCEPT ![<<r, what>>] = outcome]

\* No operation carries the identity: the item is spent without effect.
EvidenceUnmatched(r, s) ==
  /\ took[r] /\ item[<<r, s>>] = "none" /\ writer = None /\ ~known[r]
  /\ Claim(r, s, "superseded")
  /\ UNCHANGED <<context, writer, callVars, rowVars, contentVars, providerVars,
                 message, storedAt, received>>

\* Pending text becomes the Stored Message when the evidence shows it was sent.
Materializes(r, s, at) ==
  /\ s \in Materializing /\ r \in pending \ Direct
  /\ object[r] = "none" /\ createdAt[r] + PendingLife > at

EvidenceMatched(r, s) ==
  /\ took[r] /\ item[<<r, s>>] = "none" /\ writer = None /\ known[r]
  /\ \E at \in ReceivedAt(r) :
       LET applies == EvidenceApplies(status[r], s)
           isHidden == r \notin Direct /\ Suppressed(at)
           turns == ~isHidden /\ Materializes(r, s, at)
           stores == turns /\ message[r] = "none"
       IN  /\ status' = [status EXCEPT ![r] = IF applies THEN s ELSE @]
           /\ message' = [message EXCEPT ![r] = IF stores THEN "content" ELSE @]
           /\ storedAt' = [storedAt EXCEPT ![r] = IF stores THEN now ELSE @]
           /\ received' = [received EXCEPT ![r] = IF stores THEN at ELSE @]
           /\ DropPending({q \in {r} : turns})
           /\ Claim(r, s, IF isHidden THEN "suppressed"
                          ELSE IF applies THEN "applied" ELSE "superseded")
  /\ UNCHANGED <<context, writer, callVars, lease, createdAt, known, binding,
                 used, r2, providerVars>>

\* The provider reports the message itself, content and all.
Upsert(r) ==
  /\ "upsert" \in Reports /\ took[r] /\ item[<<r, "upsert">>] = "none" /\ writer = None
  /\ \E at \in ReceivedAt(r) :
       LET isHidden == r \in ForRecipient /\ Suppressed(at)
           lands == ~isHidden
           stores == lands /\ message[r] = "none"
       IN  /\ message' = [message EXCEPT ![r] = IF stores THEN "content" ELSE @]
           /\ storedAt' = [storedAt EXCEPT ![r] = IF stores THEN now ELSE @]
           /\ received' = [received EXCEPT ![r] = IF lands THEN at ELSE @]
           /\ status' = [status EXCEPT ![r] =
                           IF lands /\ known[r] /\ UpsertApplies(@) THEN "sent" ELSE @]
           /\ DropPending({q \in {r} : lands /\ known[q]})
           /\ Claim(r, "upsert", IF isHidden THEN "suppressed" ELSE "applied")
  /\ UNCHANGED <<context, writer, callVars, lease, createdAt, known, binding,
                 used, r2, providerVars>>

\* The upsert and recordProviderOutcome overlap.  Nothing both of them lock makes
\* either wait, and neither sees what the other has not committed: the upsert
\* finds no operation with its identity, the result finds no stored message.
RecordBesideUpsert(r) ==
  /\ pc[r] = "answered" /\ InTime(r, answer[r])
  /\ answer[r].identity /\ ~Keeps(r, answer[r])
  /\ "upsert" \in Reports /\ item[<<r, "upsert">>] = "none" /\ writer = None
  /\ message[r] = "none"
  /\ \E at \in ReceivedAt(r) :
       /\ r \in ForRecipient => ~Suppressed(at)
       /\ received' = [received EXCEPT ![r] = at]
  /\ message' = [message EXCEPT ![r] = "content"]
  /\ storedAt' = [storedAt EXCEPT ![r] = now]
  /\ Claim(r, "upsert", "applied")
  /\ status' = [status EXCEPT ![r] = answer[r].status]
  /\ known' = [known EXCEPT ![r] = TRUE]
  /\ DropPending(Leaving({r}))
  /\ Goto(r, "done")
  /\ UNCHANGED <<context, writer, lease, createdAt, binding, used, r2, providerVars>>

-----------------------------------------------------------------------------
(* Crons                                                                   *)

\* WHO cron.  expire_send_dispatch_leases.
Sweep ==
  /\ LET over == {q \in Requests : LeaseOver(q, now)}
     IN  /\ over # {}
         /\ status' = [q \in Requests |-> IF q \in over THEN "unknown" ELSE status[q]]
         /\ DropPending(Leaving(over))
  /\ UNCHANGED <<context, writer, callVars, lease, createdAt, known, binding,
                 used, r2, providerVars, webhookVars>>

\* WHO cron.  The pending part of purge_expired_message_content.
PurgePending ==
  /\ LET over == {q \in pending : createdAt[q] + PendingLife <= now}
     IN  over # {} /\ DropPending(over)
  /\ UNCHANGED <<context, writer, callVars, rowVars, used, r2, providerVars, webhookVars>>

\* WHO cron.  The deletion queue: first R2, then the database in a transaction
\* of its own, so that a failure between the two only repeats the first.
DeleteObject(r) ==
  /\ r \in intents \cap r2
  /\ r2' = r2 \ {r}
  /\ UNCHANGED <<context, writer, callVars, rowVars, pending, object, used, intents,
                 providerVars, webhookVars>>

ReleasableAlways(r) == TRUE
Releasable(r) == object[r] = "purging"

\* R2 confirmed the deletion first.
Gone(r) == r \notin r2

FinishDeletion(r) ==
  /\ r \in intents /\ Gone(r) /\ writer = None
  /\ intents' = intents \ {r}
  /\ IF Releasable(r)
       THEN object' = [object EXCEPT ![r] = "none"] /\ used' = used - 1
       ELSE UNCHANGED <<object, used>>
  /\ UNCHANGED <<context, writer, callVars, rowVars, pending, r2, providerVars, webhookVars>>

\* WHO cron.  The emptied rows of an excluded recipient's history go for good, in
\* batches and after their media.
RemoveShells ==
  /\ \E r \in Requests : message[r] = "expired" /\ message' = [message EXCEPT ![r] = "none"]
  /\ UNCHANGED <<context, writer, callVars, rowVars, contentVars, providerVars,
                 item, storedAt, received>>

Tick ==
  /\ now < MaxTime
  /\ now' = now + 1
  /\ UNCHANGED <<writer, authorized, conn, rule, callVars, rowVars, contentVars,
                 providerVars, webhookVars>>

-----------------------------------------------------------------------------
(* The User                                                                *)

Revoke ==
  /\ "revoke" \in Events /\ authorized /\ writer = None
  /\ authorized' = FALSE
  /\ UNCHANGED <<now, conn, rule, writer, callVars, rowVars, contentVars,
                 providerVars, webhookVars>>

\* The session drops or comes back.
ChangeConnection ==
  /\ "conn" \in Events /\ conn # "deleting" /\ writer = None
  /\ conn' = IF conn = "connected" THEN "disconnected" ELSE "connected"
  /\ UNCHANGED <<now, authorized, rule, writer, callVars, rowVars, contentVars,
                 providerVars, webhookVars>>

\* Connection Deletion begins; the trigger on its state drops all pending content.
DeleteConnection ==
  /\ "conn" \in Events /\ conn # "deleting" /\ writer = None
  /\ conn' = "deleting"
  /\ DropPending(Requests)
  /\ UNCHANGED <<now, authorized, rule, writer, callVars, rowVars, used, r2,
                 providerVars, webhookVars>>

\* Step one of a Recipient Exclusion transition: nothing is excluded yet.
PrepareRule ==
  /\ "exclude" \in Events /\ writer = None /\ conn # "deleting"
  /\ rule.next = "none" /\ now > rule.effectiveAt
  /\ rule' = [excluded |-> rule.excluded, effectiveAt |-> rule.effectiveAt,
              cutoff |-> rule.cutoff,
              next |-> IF rule.excluded THEN "include" ELSE "exclude", nextAt |-> now]
  /\ UNCHANGED <<now, authorized, conn, writer, callVars, rowVars, contentVars,
                 providerVars, webhookVars>>

\* What the exclusion purge takes: the recipient's content up to the cutoff, and
\* by trigger every Direct Address text on the connection.
PurgedByCutoffOnly(cutoff) == {q \in Requests \ Direct : createdAt[q] <= cutoff}
PurgedBy(cutoff) == {q \in Requests \ Direct : createdAt[q] <= cutoff} \cup Direct

\* Its Stored Messages up to the cutoff, by conversation and not by operation.
ExpiredBefore(cutoff) == {q \in ForRecipient : storedAt[q] < cutoff}
Expired(cutoff) == {q \in ForRecipient : storedAt[q] <= cutoff}

\* Step three, after the journal object is durable: the rule and its purge.
FinalizeRule ==
  /\ writer = None /\ conn # "deleting"
  /\ rule.next # "none" /\ now > rule.nextAt
  /\ LET excludes == rule.next = "exclude"
         cutoff == IF excludes THEN rule.nextAt ELSE rule.cutoff
     IN  /\ rule' = [excluded |-> excludes, effectiveAt |-> rule.nextAt,
                     cutoff |-> cutoff, next |-> "none", nextAt |-> 0]
         /\ DropPending({q \in PurgedBy(cutoff) : excludes})
         /\ message' = [q \in Requests |->
                          IF excludes /\ message[q] = "content" /\ q \in Expired(cutoff)
                          THEN "expired" ELSE message[q]]
  /\ UNCHANGED <<now, authorized, conn, writer, callVars, rowVars, used, r2,
                 providerVars, item, storedAt, received>>

-----------------------------------------------------------------------------
Call(r) ==
  \/ Preflight(r) \/ Start(r) \/ ReadBinding(r)
  \/ Deny(r) \/ ReplayBound(r) \/ Refuse(r) \/ Admit(r)
  \/ WriteObject(r) \/ Commit(r) \/ CommitLost(r) \/ Rollback(r) \/ CleanUp(r)
  \/ Dispatch(r) \/ Respond(r) \/ Abandon(r)
  \/ RecordInTime(r) \/ RecordBesideUpsert(r) \/ RecordLate(r) \/ RecordFails(r)
  \/ Crash(r)

Webhook(r) ==
  \/ \E s \in Reports \cap EvidenceStatuses : EvidenceUnmatched(r, s) \/ EvidenceMatched(r, s)
  \/ Upsert(r)

Cron ==
  \/ Sweep \/ PurgePending \/ RemoveShells \/ Tick
  \/ \E r \in Requests : DeleteObject(r) \/ FinishDeletion(r)

User == Revoke \/ ChangeConnection \/ DeleteConnection \/ PrepareRule \/ FinalizeRule

Next == (\E r \in Requests : Call(r) \/ Webhook(r)) \/ Cron \/ User

Spec == Init /\ [][Next]_vars

-----------------------------------------------------------------------------
(***************************************************************************)
(* What Send Operations owe their callers, the quota, the recipient and    *)
(* the files they hold.                                                    *)
(***************************************************************************)
CallTypes ==
  /\ pc \in [Requests -> PCs]
  /\ observedAt \in [Requests -> Nat]
  /\ seen \in [Requests -> Requests \cup {None}]
  /\ reply \in [Requests -> Replies]
  /\ answer \in [Requests -> [status : ProviderAnswers, identity : BOOLEAN, at : Nat]]

OperationRows ==
  /\ status \in [Requests -> Statuses \cup {"none"}]
  /\ lease \in [Requests -> Nat] /\ createdAt \in [Requests -> Nat]
  /\ known \in [Requests -> BOOLEAN]

BindingRows == binding \in [Keys -> Requests \cup {None}]

RowTypes ==
  /\ OperationRows /\ BindingRows
  /\ attempts \in [Requests -> Nat] /\ took \in [Requests -> BOOLEAN]

PendingRows == pending \subseteq Requests

ObjectRows == object \in [Requests -> {"none", "ready", "purging"}]

ContentTypes ==
  /\ PendingRows /\ ObjectRows
  /\ intents \subseteq Requests /\ r2 \subseteq Requests

WebhookTypes ==
  /\ item \in [Items -> {"none", "applied", "superseded", "suppressed"}]
  /\ message \in [Requests -> {"none", "content", "expired"}]
  /\ storedAt \in [Requests -> Nat] /\ received \in [Requests -> Int]

WorldTypes ==
  /\ now \in Nat /\ writer \in Requests \cup {None}
  /\ authorized \in BOOLEAN /\ conn \in {"connected", "disconnected", "deleting"}
  /\ rule \in [excluded : BOOLEAN, effectiveAt : Nat, cutoff : Nat,
               next : {"none", "exclude", "include"}, nextAt : Nat]

Typed == CallTypes /\ RowTypes /\ ContentTypes /\ WebhookTypes /\ WorldTypes

\* Every variable keeps the values its column, object or program point can
\* have; in particular stored_media_used_bytes never goes below zero.
TypeOK == Typed /\ used \in Nat

-----------------------------------------------------------------------------
(* One attempt per key                                                     *)

\* The provider is called at most once for an operation, and only for the
\* operation its idempotency key is bound to: however many calls raced for the
\* key, crashed or were answered with an error, the recipient got one message.
AttemptIsBound ==
  \A r \in Requests : attempts[r] > 0 => attempts[r] = 1 /\ binding[KeyOf[r]] = r

\* The service implements the contract of SendOnce: replays and conflicts are
\* decided by the owner of the key alone and cost no second attempt.
Contract == INSTANCE SendOnce WITH
  owner <- binding,
  attempted <- {r \in Requests : attempts[r] > 0}

ImplementsSendOnce == Contract!Spec

-----------------------------------------------------------------------------
(* Send Status                                                             *)

\* Whoever writes a status next (the call, a sweep, a replay of the key, webhook
\* evidence, an upsert), in whatever order, it moves only as ADR 0017 allows.
StatusProgresses ==
  [][\A r \in Requests :
       status[r] # "none" => StatusMayBecome(status[r], status'[r])]_status

\* A result that reached the Worker only after the dispatch lease ran out is
\* never recorded, whether or not a sweep came first: the identity of the
\* message enters the row within the lease or not at all.
LateResultDropped ==
  \A r \in Requests : known[r] => answer[r].identity /\ answer[r].at < lease[r]

\* An operation whose outcome is unknown carries no message identity, so no
\* evidence can be correlated with it: it stays unknown for good.
UnknownIsFinal ==
  [][\A r \in Requests : status[r] = "unknown" => status'[r] = "unknown"]_status

-----------------------------------------------------------------------------
(* Pending Send Content and files                                          *)

\* Stored Media quota: stored_media_used_bytes charges every file a row still
\* holds, "ready" or "purging", and never more than the limit.
QuotaMatchesObjects ==
  /\ used = Cardinality({r \in Requests : object[r] # "none"})
  /\ used <= MediaLimit

\* A file lives exactly as long as the content it belongs to: while it is
\* readable its content is pending, and from then on a deletion is queued until
\* the quota is returned.
FileFollowsContent ==
  \A r \in Requests : /\ object[r] = "ready" => r \in pending
                      /\ object[r] = "purging" => r \in intents

\* No object of a committed operation is left in R2 without a row or an intent
\* that will remove it, whatever failed in between.
NoCommittedOrphan ==
  \A r \in r2 : status[r] # "none" => object[r] # "none" \/ r \in intents

\* A file has an owner as long as it exists: while it is readable its content is pending,
\* then a deletion is queued until the quota is returned, and R2 never keeps an object of
\* a committed operation without a row or an intent, whatever failed between the write,
\* the commit and the deletion (send-text-message.ts, send.ts).
FilesAccounted == FileFollowsContent /\ NoCommittedOrphan

\* Pending content goes when it is no longer needed: an address used directly
\* loses its text as soon as the attempt is decided, whoever decides it, and a
\* Connection being deleted keeps none, although calls that found it connected
\* are still under way.
PendingIsNeeded ==
  \A r \in pending : /\ r \in Direct => status[r] = "processing"
                     /\ conn # "deleting"

\* The rolling quota is read and spent under one lock: when a reservation
\* commits, the window that ends at its own time holds no more than the limit.
WindowHolds ==
  [][\A r \in Requests :
       status[r] = "none" /\ status'[r] # "none"
         => Cardinality({q \in Requests :
                           /\ status'[q] # "none"
                           /\ createdAt'[q] <= createdAt'[r]
                           /\ createdAt'[r] < createdAt'[q] + Window}) <= SendLimit
    ]_<<status, createdAt>>

-----------------------------------------------------------------------------
(* Recipient Exclusion                                                     *)

\* While the recipient is excluded, no text to an unverifiable address is held
\* and none to the recipient from before the cutoff, although calls read the
\* clock and passed their preflight before the rule was set.
ExclusionDropsPending ==
  rule.excluded => \A r \in pending : r \notin Direct /\ createdAt[r] > rule.cutoff

\* What was stored up to the purge cutoff stays purged: no late evidence, upsert
\* or provider result brings it back, not even after a re-enable.
PurgedStaysPurged ==
  \A r \in ForRecipient : message[r] = "content" => storedAt[r] > rule.cutoff

\* A webhook received before the re-enable took effect makes no message, however
\* late it is processed.
NoLateResurrection ==
  [][\A r \in ForRecipient :
       message[r] = "none" /\ message'[r] = "content" /\ item' # item
         => ~rule.excluded /\ received'[r] > rule.effectiveAt]_<<message, item, rule>>

-----------------------------------------------------------------------------
(* Strengthenings: why the invariants above hold                           *)

BeforeCommit == {"idle", "cleared", "started", "reading", "admitted", "written"}
AfterCommit == {"committed", "dispatched", "answered"}

\* Where a call stands decides what exists of its operation; a row and the
\* binding of its key come together, and a binding is never moved.
CallInvariant ==
  /\ \A r \in Requests :
       /\ writer = r <=> pc[r] \in {"admitted", "written"}
       /\ pc[r] \in BeforeCommit => status[r] = "none"
       /\ pc[r] \in BeforeCommit \cup {"failed"} => reply[r] = "none"
       /\ pc[r] \in AfterCommit => status[r] # "none" /\ reply[r] = "created"
       /\ pc[r] \in BeforeCommit \cup {"failed", "committed"} => attempts[r] = 0
       /\ attempts[r] \in {0, 1}
       /\ attempts[r] = 1 => status[r] # "none" /\ reply[r] = "created"
       /\ status[r] # "none" <=> binding[KeyOf[r]] = r
       /\ seen[r] # None => binding[KeyOf[r]] = seen[r]
  /\ \A k \in Keys : binding[k] # None => KeyOf[binding[k]] = k

\* An identity is recorded by the call, once, within the lease, together with a
\* status that is neither "processing" nor "unknown".
OutcomeInvariant ==
  \A r \in Requests :
    /\ answer[r].identity => answer[r].status \in Positive
    /\ known[r] => /\ pc[r] = "done" /\ status[r] \in EvidenceStatuses
                   /\ answer[r].identity /\ answer[r].at < lease[r]
    /\ took[r] => attempts[r] = 1

\* No row, no content: and only a request with a file ever writes an object.
FileInvariant ==
  /\ r2 \subseteq WithFile
  /\ \A r \in Requests : status[r] = "none" => object[r] = "none" /\ r \notin pending

\* Eligibility checked under the lock still holds when the lock is released.
EligibilityHeld ==
  /\ writer # None => conn = "connected" /\ ~rule.excluded
  /\ rule.cutoff < now

-----------------------------------------------------------------------------
(* What the documents say and the code does not                            *)

\* CONTEXT.md: while an exclusion applies no provider observation for the
\* recipient creates a Stored Message.
NothingStoredWhileExcluded ==
  [][\A r \in ForRecipient :
       rule.excluded /\ message[r] = "none" => message'[r] # "content"]_<<message, rule>>

\* CONTEXT.md: removing an exclusion permits only future observations.
OnlyFutureObservations ==
  ~rule.excluded /\ rule.cutoff > 0
    => \A r \in ForRecipient : message[r] = "content" => received[r] > rule.effectiveAt

\* CONTEXT.md: Send Status converges by evidence strength, not by arrival order:
\* a status in the positive order is at least every positive evidence processed.
ConvergesByStrength ==
  \A r \in Requests, s \in Reports \cap Positive :
    /\ known[r] /\ status[r] \in Positive
    /\ item[<<r, s>>] \in {"applied", "superseded"}
    => Rank[status[r]] >= Rank[s]

\* docs/mcp-contract.md: the creation of the Stored Message consumes the pending
\* content and the file of its operation.
MessageConsumesPending == \A r \in pending : known[r] => message[r] = "none"

\* docs/configuration.md: an exact rolling window never holds more reservations
\* than its limit.
ExactWindow == \A t \in 0 .. MaxTime : Cardinality(ReservedAt(t)) <= SendLimit

-----------------------------------------------------------------------------
(* Liveness: the crons run again and again, a transaction ends             *)

EndsTransaction(r) == WriteObject(r) \/ Commit(r) \/ Rollback(r)

Fairness ==
  /\ WF_vars(Tick) /\ WF_vars(Sweep) /\ WF_vars(PurgePending)
  /\ \A r \in Requests :
       WF_vars(EndsTransaction(r)) /\ WF_vars(DeleteObject(r)) /\ WF_vars(FinishDeletion(r))

FairSpec == Spec /\ Fairness

\* No operation stays "processing": its call records a result, or a sweep gives
\* the lease of a dead call up.
LeavesProcessing ==
  \A r \in Requests : status[r] = "processing" ~> status[r] # "processing"

\* Every file leaves R2 and returns its quota in the end, also when the isolate
\* that wrote it died or the database hid its commit.
FileReleased ==
  \A r \in Requests : object[r] # "none" ~> (object[r] = "none" /\ r \notin r2)
=============================================================================
