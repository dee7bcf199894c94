-------------------------- MODULE WebhookIngestion --------------------------
(***************************************************************************)
(* The way of a provider delivery through webhook ingestion, for one       *)
(* WhatsApp Connection: the ingress handler stores the request in R2 and   *)
(* publishes it, Queue consumers process its items, exhausted messages     *)
(* reach the dead-letter queue, the ingress sweep republishes what nobody  *)
(* claimed, operators replay dead letters and retention deletes the        *)
(* sources.                                                                *)
(*                                                                         *)
(* apps/api/src/webhook-ingress.ts, webhook-event.ts, webhook-recovery.ts, *)
(* webhook-replay.ts and the queries and SQL functions behind them.        *)
(***************************************************************************)
EXTENDS Integers, FiniteSets, Sequences

CONSTANTS
  N,          \* number of provider deliveries; a delivery is its object key
  Items,      \* Webhook Item identities
  ItemsOf,    \* the items a delivery carries, in order
  Poison,     \* deliveries whose stored object never passes validation
  Replayable, \* deliveries whose incident an operator asks to replay
  Events,     \* the events this instance explores: "sweep", "duplicate", "deletion"
  Copies,     \* messages of one delivery a queue holds at once: a bound
  MaxRetries, \* max_retries of the ingestion queue (7)
  PageSize,   \* objects a sweep lists (100)
  Grace,      \* age below which the sweep leaves an object alone (60 s)
  Expiry,     \* life of a stored source (7 days)
  LastArrival, \* no delivery arrives later: a bound, not in the code
  MaxTime     \* horizon of the clock: a bound, not in the code

ASSUME IngestionAssumption ==
  /\ N \in Nat /\ MaxRetries \in Nat /\ PageSize \in Nat \ {0}
  /\ Grace \in Nat /\ Expiry \in Nat \ {0}
  /\ LastArrival \in Nat /\ MaxTime \in Nat
  /\ ItemsOf \in [1..N -> Seq(Items)]
  /\ Poison \subseteq 1..N /\ Replayable \subseteq 1..N

Deliveries == 1..N
Slots == Deliveries \X Copies

VARIABLES
  now, active,
  ingress, receivedAt, r2,
  at, tries, next,
  row, completed, dead, items,
  gaps, incident, replay, replayer,
  cursor, sweep,
  finished, expired, projected

(***************************************************************************)
(* now      the one clock                                                  *)
(* active   the account is active and its connection is not deleting       *)
(* ingress  "none", "put" (object stored), "accepted" or "unavailable"     *)
(***************************************************************************)
ingressVars == <<ingress, receivedAt, r2>>

(***************************************************************************)
(* A message of the ingestion queue or of its dead-letter queue: where it  *)
(* is, the retries it has spent, the item its consumer is at.              *)
(***************************************************************************)
queueVars == <<at, tries, next>>

\* webhook_events (a row, processing_completed_at, dead_lettered_at), webhook_items.
eventVars == <<row, completed, dead, items>>

\* ingestion_gaps of cause processing_failure; webhook_dead_letter_incidents;
\* webhook_replay_attempts and the handlers of replay requests.
letterVars == <<gaps, incident, replay, replayer>>

\* The KV checkpoint and the sweep under way.
sweepVars == <<cursor, sweep>>

\* What happened, for the properties: deliveries ever completed, sources ever
\* expired, how often an item was projected.
historyVars == <<finished, expired, projected>>

vars == <<now, active, ingressVars, queueVars, eventVars, letterVars, sweepVars,
          historyVars>>

InQueue == {"queued", "loaded", "invalid", "claimed", "dlq"}
Idle == [phase |-> "idle", page |-> {}, upto |-> 0]
NoEvidence == 0
Open == -1

Init ==
  /\ now = 0 /\ active = TRUE
  /\ ingress = [d \in Deliveries |-> "none"]
  /\ receivedAt = [d \in Deliveries |-> 0] /\ r2 = {}
  /\ at = [s \in Slots |-> "none"]
  /\ tries = [s \in Slots |-> 0] /\ next = [s \in Slots |-> 1]
  /\ row = {} /\ completed = {} /\ dead = {} /\ items = {}
  /\ gaps = {} /\ incident = [d \in Deliveries |-> "none"]
  /\ replay = [d \in Deliveries |-> "none"]
  /\ replayer = [d \in Deliveries |-> "idle"]
  /\ cursor = 0 /\ sweep = Idle
  /\ finished = {} /\ expired = {} /\ projected = [i \in Items |-> 0]

-----------------------------------------------------------------------------
(* Ingress                                                                 *)

ExpiresAt(d) == receivedAt[d] + Expiry

\* A message sent to the ingestion queue takes a free slot.
Enqueue(d) ==
  \E c \in Copies :
    /\ at[<<d, c>>] = "none"
    /\ at' = [at EXCEPT ![<<d, c>>] = "queued"]
    /\ tries' = [tries EXCEPT ![<<d, c>>] = 0]
    /\ next' = [next EXCEPT ![<<d, c>>] = 1]

\* An authenticated request is encrypted and stored under a new object key.
Receive(d) ==
  /\ active /\ ingress[d] = "none" /\ now <= LastArrival
  /\ ingress' = [ingress EXCEPT ![d] = "put"]
  /\ receivedAt' = [receivedAt EXCEPT ![d] = now]
  /\ r2' = r2 \cup {d}
  /\ UNCHANGED <<now, active, queueVars, eventVars, letterVars, sweepVars, historyVars>>

\* The publication succeeds and the provider is answered, or the answer is lost.
Publish(d) ==
  /\ ingress[d] = "put"
  /\ \E told \in {"accepted", "unavailable"} : ingress' = [ingress EXCEPT ![d] = told]
  /\ Enqueue(d)
  /\ UNCHANGED <<now, active, receivedAt, r2, eventVars, letterVars, sweepVars, historyVars>>

\* The publication fails, or the Worker stops between the two writes.
IngressFails(d) ==
  /\ ingress[d] = "put"
  /\ ingress' = [ingress EXCEPT ![d] = "unavailable"]
  /\ UNCHANGED <<now, active, receivedAt, r2, queueVars, eventVars, letterVars,
                 sweepVars, historyVars>>

-----------------------------------------------------------------------------
(* The consumer of the ingestion queue                                     *)

Goto(s, place) == at' = [at EXCEPT ![s] = place] /\ UNCHANGED <<tries, next>>
Ack(s) == Goto(s, "none")

\* The object is read and validated against the message.
LoadSource(s) ==
  /\ at[s] = "queued" /\ s[1] \in r2
  /\ Goto(s, IF s[1] \in Poison THEN "invalid" ELSE "loaded")
  /\ UNCHANGED <<now, active, ingressVars, eventVars, letterVars, sweepVars, historyVars>>

\* persistence.prepare: the webhook_events row exists from here on.
Prepare(s) ==
  /\ at[s] = "loaded" /\ active
  /\ row' = row \cup {s[1]}
  /\ Goto(s, "claimed")
  /\ UNCHANGED <<now, active, ingressVars, completed, dead, items, letterVars, sweepVars,
                 historyVars>>

\* The insert into webhook_items does nothing when the identity is known.
NewItemAlways(i) == TRUE
NewItem(i) == i \notin items

\* claimWebhookItem and the projection of one item, in a transaction of its own.
\* A new webhook_items row references the webhook_events row.
ProjectItem(s) ==
  /\ at[s] = "claimed" /\ next[s] <= Len(ItemsOf[s[1]])
  /\ LET i == ItemsOf[s[1]][next[s]]
     IN  /\ i \in items \/ s[1] \in row
         /\ items' = items \cup {i}
         /\ projected' = [projected EXCEPT ![i] = IF NewItem(i) THEN @ + 1 ELSE @]
  /\ next' = [next EXCEPT ![s] = @ + 1]
  /\ UNCHANGED <<now, active, ingressVars, at, tries, row, completed, dead, letterVars,
                 sweepVars, finished, expired>>

ResolvedAtReceipt(g, d) ==
  IF g.evidence = d /\ g.ends = Open THEN [g EXCEPT !.ends = receivedAt[d]] ELSE g

\* resolve_webhook_processing_gap: only the gap this event is the evidence of.
Resolved(g, d) == IF g.evidence = d /\ g.ends = Open THEN [g EXCEPT !.ends = now] ELSE g

NothingLeft(s) == next[s] > Len(ItemsOf[s[1]])

\* persistence.complete, then the message is acknowledged.
Complete(s) ==
  /\ at[s] = "claimed" /\ NothingLeft(s) /\ s[1] \in row
  /\ completed' = completed \cup {s[1]}
  /\ finished' = finished \cup {s[1]}
  /\ gaps' = {Resolved(g, s[1]) : g \in gaps}
  /\ Ack(s)
  /\ UNCHANGED <<now, active, ingressVars, row, dead, items, incident, replay, replayer,
                 sweepVars, expired, projected>>

\* max_retries and dead_letter_queue of the ingestion consumer.
RetriesLeft(s) == tries[s] < MaxRetries
Dropped == "none"
LastStop == "dlq"

\* Any error, a missing object or source row, or a crash: the message is retried,
\* and moves to the dead-letter queue when its retries are spent.
Fail(s) ==
  /\ at[s] \in {"queued", "loaded", "invalid", "claimed"}
  /\ IF RetriesLeft(s)
     THEN at' = [at EXCEPT ![s] = "queued"] /\ tries' = [tries EXCEPT ![s] = @ + 1]
     ELSE at' = [at EXCEPT ![s] = LastStop] /\ UNCHANGED tries
  /\ next' = [next EXCEPT ![s] = 1]
  /\ UNCHANGED <<now, active, ingressVars, eventVars, letterVars, sweepVars, historyVars>>

\* Queue delivery is at least once.
Duplicate(s) ==
  /\ "duplicate" \in Events /\ at[s] = "queued" /\ Enqueue(s[1])
  /\ UNCHANGED <<now, active, ingressVars, eventVars, letterVars, sweepVars, historyVars>>

-----------------------------------------------------------------------------
(* Dead letters                                                            *)

\* record_webhook_dead_letter_gap: the partial unique index admits one active gap.
GapsAfterDeadLetter(d) ==
  IF \E g \in gaps : g.ends = Open \/ g.evidence = d THEN gaps
  ELSE gaps \cup {[evidence |-> d, starts |-> receivedAt[d], ends |-> Open]}

AlreadyCompletedIgnored(d) == FALSE
AlreadyCompleted(d) == d \in completed

\* recordDeadLetter, from the dead-letter queue or for a permanently invalid message.
DeadLetter(s) ==
  LET d == s[1] IN
  /\ at[s] \in {"dlq", "invalid"}
  /\ active
  /\ row' = row \cup {d}
  /\ IF AlreadyCompleted(d) THEN UNCHANGED <<dead, gaps, incident>>
     ELSE /\ dead' = dead \cup {d}
          /\ gaps' = GapsAfterDeadLetter(d)
          /\ \E g \in gaps' : g.ends = Open
          /\ incident' = [incident EXCEPT ![d] = "linked"]
  /\ Ack(s)
  /\ UNCHANGED <<now, active, ingressVars, completed, items, replay, replayer, sweepVars,
                 historyVars>>

\* The connection is going away: the message is acknowledged and nothing kept.
DeadLetterUnavailable(s) ==
  /\ at[s] \in {"dlq", "invalid"} /\ ~active
  /\ Ack(s)
  /\ UNCHANGED <<now, active, ingressVars, eventVars, letterVars, sweepVars, historyVars>>

-----------------------------------------------------------------------------
(* handleWebhookIngressSweep                                               *)

Lowest(S, k) == {d \in S : Cardinality({e \in S : e < d}) < k}

\* The cursor R2 returns with a page; none after the last.
CursorOnward(page, after) == IF page = {} THEN cursor ELSE CHOOSE d \in page : page \subseteq 1..d
CursorAfter(page, after) == IF page = after THEN 0 ELSE CHOOSE d \in page : page \subseteq 1..d

\* One page of R2 after the checkpoint; its objects past the grace period.
SweepList ==
  /\ "sweep" \in Events /\ sweep.phase = "idle"
  /\ LET after == {d \in r2 : d > cursor}
         page == Lowest(after, PageSize)
     IN  sweep' = [phase |-> "listed",
                   page |-> {d \in page : receivedAt[d] + Grace <= now},
                   upto |-> CursorAfter(page, after)]
  /\ UNCHANGED <<now, active, ingressVars, queueVars, eventVars, letterVars, cursor, historyVars>>

\* filterUnclaimed: no webhook_events row, the source still available.
SweepFilter ==
  /\ sweep.phase = "listed"
  /\ sweep' = [sweep EXCEPT !.phase = "publishing",
                            !.page = IF active THEN @ \ row ELSE {}]
  /\ UNCHANGED <<now, active, ingressVars, queueVars, eventVars, letterVars, cursor, historyVars>>

SweepPublish(d) ==
  /\ sweep.phase = "publishing" /\ d \in sweep.page
  /\ Enqueue(d)
  /\ sweep' = [sweep EXCEPT !.page = @ \ {d}]
  /\ UNCHANGED <<now, active, ingressVars, eventVars, letterVars, cursor, historyVars>>

\* The checkpoint moves only after the whole page is published.
SweepSave ==
  /\ sweep.phase = "publishing" /\ sweep.page = {}
  /\ cursor' = sweep.upto
  /\ sweep' = Idle
  /\ UNCHANGED <<now, active, ingressVars, queueVars, eventVars, letterVars, historyVars>>

SweepFails ==
  /\ sweep.phase # "idle"
  /\ sweep' = Idle
  /\ UNCHANGED <<now, active, ingressVars, queueVars, eventVars, letterVars, cursor, historyVars>>

-----------------------------------------------------------------------------
(* handleWebhookReplayBatch                                                *)

\* prepare_webhook_replay, for a new attempt or one that is pending.
PrepareReplay(d) ==
  /\ d \in Replayable /\ replayer[d] = "idle"
  /\ incident[d] # "none" /\ replay[d] \in {"none", "pending"}
  /\ LET usable == /\ incident[d] = "linked" /\ d \in row /\ now < ExpiresAt(d)
                   /\ replay[d] = "none" => d \in dead \ completed
     IN  /\ replay' = [replay EXCEPT ![d] = IF usable THEN "pending" ELSE "unavailable"]
         /\ replayer' = [replayer EXCEPT ![d] = IF usable THEN "prepared" ELSE "idle"]
  /\ UNCHANGED <<now, active, ingressVars, queueVars, eventVars, gaps, incident, sweepVars,
                 historyVars>>

PublishReplay(d) ==
  /\ replayer[d] = "prepared"
  /\ Enqueue(d)
  /\ replayer' = [replayer EXCEPT ![d] = "published"]
  /\ UNCHANGED <<now, active, ingressVars, eventVars, gaps, incident, replay, sweepVars,
                 historyVars>>

\* complete_webhook_replay
CompleteReplay(d) ==
  /\ replayer[d] = "published"
  /\ replay' = [replay EXCEPT ![d] = "dispatched"]
  /\ replayer' = [replayer EXCEPT ![d] = "idle"]
  /\ UNCHANGED <<now, active, ingressVars, queueVars, eventVars, gaps, incident, sweepVars,
                 historyVars>>

\* An error or a crash: the request is delivered again.
ReplayFails(d) ==
  /\ replayer[d] # "idle"
  /\ replayer' = [replayer EXCEPT ![d] = "idle"]
  /\ UNCHANGED <<now, active, ingressVars, queueVars, eventVars, gaps, incident, replay,
                 sweepVars, historyVars>>

-----------------------------------------------------------------------------
(* handleWebhookSourceRetention, and the surroundings                      *)

\* list_expired_webhook_sources: only sources with a webhook_events row.
Listed(d) == d \in row /\ ExpiresAt(d) <= now

DeleteExpiredSource(d) ==
  /\ Listed(d) /\ d \in r2
  /\ r2' = r2 \ {d}
  /\ UNCHANGED <<now, active, ingress, receivedAt, queueVars, eventVars, letterVars,
                 sweepVars, historyVars>>

\* The object is deleted before its row is.
SourceGone(d) == d \notin r2

\* finalize_expired_webhook_source: the foreign keys of the gap and the incident
\* are set to null.
FinalizeExpiredSource(d) ==
  /\ d \in row /\ ExpiresAt(d) <= now /\ SourceGone(d)
  /\ row' = row \ {d} /\ completed' = completed \ {d} /\ dead' = dead \ {d}
  /\ gaps' = {IF g.evidence = d THEN [g EXCEPT !.evidence = NoEvidence] ELSE g : g \in gaps}
  /\ incident' = [incident EXCEPT ![d] = IF @ = "linked" THEN "orphan" ELSE @]
  /\ expired' = expired \cup {d}
  /\ UNCHANGED <<now, active, ingressVars, queueVars, items, replay, replayer, sweepVars,
                 finished, projected>>

\* The User confirms the deletion of the connection.
BeginDeletion ==
  /\ "deletion" \in Events /\ active /\ active' = FALSE
  /\ UNCHANGED <<now, ingressVars, queueVars, eventVars, letterVars, sweepVars, historyVars>>

Tick ==
  /\ now < MaxTime /\ now' = now + 1
  /\ UNCHANGED <<active, ingressVars, queueVars, eventVars, letterVars, sweepVars, historyVars>>

-----------------------------------------------------------------------------
Ingress(d) == Receive(d) \/ Publish(d) \/ IngressFails(d)

\* What a consumer of either queue does with the message it holds.
Consume(s) == \/ LoadSource(s) \/ Prepare(s) \/ ProjectItem(s) \/ Complete(s) \/ Fail(s)
Settle(s) == DeadLetter(s) \/ DeadLetterUnavailable(s)

Sweep == \/ SweepList \/ SweepFilter \/ SweepSave
         \/ \E d \in Deliveries : SweepPublish(d)

ReplayStep(d) == PrepareReplay(d) \/ PublishReplay(d) \/ CompleteReplay(d) \/ ReplayFails(d)
Retain(d) == DeleteExpiredSource(d) \/ FinalizeExpiredSource(d)

Next ==
  \/ \E d \in Deliveries : Ingress(d) \/ ReplayStep(d) \/ Retain(d)
  \/ \E s \in Slots : Consume(s) \/ Settle(s) \/ Duplicate(s)
  \/ Sweep \/ SweepFails \/ BeginDeletion \/ Tick

Spec == Init /\ [][Next]_vars

-----------------------------------------------------------------------------
(***************************************************************************)
(* What webhook ingestion promises of an accepted delivery, and two things *)
(* docs/configuration.md says of its Ingestion Gaps that the code does not *)
(* keep.                                                                   *)
(***************************************************************************)

\* The tables of ingestion: events, the items applied, the gaps disclosed, the
\* incidents of dead letters and the replays asked for.
EventRows == row \subseteq Deliveries /\ completed \subseteq row /\ dead \subseteq row

ItemRows == items \subseteq Items

GapRows == gaps \subseteq [evidence : 0..N, starts : 0..MaxTime, ends : Open..MaxTime]

IncidentRows == incident \in [Deliveries -> {"none", "linked", "orphan"}]

ReplayRows == replay \in [Deliveries -> {"none", "pending", "dispatched", "unavailable"}]

\* Types of the variables, and the links between rows the schema enforces.
TypeOK ==
  /\ now \in 0..MaxTime /\ active \in BOOLEAN
  /\ ingress \in [Deliveries -> {"none", "put", "accepted", "unavailable"}]
  /\ receivedAt \in [Deliveries -> 0..MaxTime] /\ r2 \subseteq Deliveries
  /\ at \in [Slots -> InQueue \cup {"none"}]
  /\ tries \in [Slots -> 0..MaxRetries]
  /\ next \in [Slots -> Nat \ {0}]
  /\ EventRows /\ ItemRows /\ GapRows /\ IncidentRows /\ ReplayRows
  /\ replayer \in [Deliveries -> {"idle", "prepared", "published"}]
  /\ cursor \in 0..N
  /\ sweep \in [phase : {"idle", "listed", "publishing"}, page : SUBSET Deliveries, upto : 0..N]
  /\ finished \subseteq Deliveries /\ expired \subseteq Deliveries
  /\ projected \in [Items -> Nat]

\* Some message of d is still to be handled.
Pending(d) == \E c \in Copies : at[<<d, c>>] \in InQueue

\* A stored delivery is never forgotten, whatever fails between R2, the queues and
\* the database: it has been completed, a message of it is pending, its dead letter
\* is on record with an incident to replay it by, the ingress sweep can still find
\* it unclaimed in R2, or its source has run its seven days.
NotStranded ==
  \A d \in Deliveries :
    active /\ ingress[d] \in {"accepted", "unavailable"} =>
      \/ d \in finished \cup expired
      \/ Pending(d)
      \/ d \in dead /\ incident[d] = "linked"
      \/ d \in r2 \ row

\* A Webhook Item is projected at most once, although the provider redelivers it, the
\* queue and the sweep duplicate its message, two consumers interleave and an operator
\* replays it.
ItemOnce == \A i \in Items : projected[i] <= 1

\* An event is marked complete only when each of its items has been claimed, even when
\* the consumer that completes it found some claimed by another that then failed.
CompletedMeansProcessed ==
  \A d \in finished : \A k \in 1..Len(ItemsOf[d]) : ItemsOf[d][k] \in items

\* The Ingestion Gap that stands for a dead letter was not closed before that
\* delivery arrived, although another event may close it.
GapReachesReceipt ==
  \A d \in dead : \E g \in gaps : g.ends = Open \/ g.ends >= receivedAt[d]

\* While the row of a completed event is kept, no late copy of its message opens an
\* Ingestion Gap for it.
FalseGapOnlyAfterExpiry ==
  \A g \in gaps : \A d \in finished : g.evidence = d /\ g.ends = Open => d \in expired

\* Retention forgets an event only once its ciphertext is gone from R2.
ExpiredSourceIsGone == expired \cap r2 = {}

-----------------------------------------------------------------------------
\* docs/configuration.md: a dead letter is disclosed by a gap "beginning at the
\* verified receipt time" of the exhausted receipt.
ReceiptDisclosed ==
  \A d \in dead :
    \E g \in gaps : g.starts <= receivedAt[d] /\ (g.ends = Open \/ g.ends >= receivedAt[d])

\* docs/configuration.md: "A duplicate already completed by another delivery creates
\* no false gap."
NoFalseGap == \A g \in gaps : g.ends = Open => g.evidence \notin finished

-----------------------------------------------------------------------------
(***************************************************************************)
(* Fairness.  The queues deliver every message until it is acknowledged,   *)
(* the crons run every four minutes and every hour, and a sweep or a       *)
(* retention pass does not fail for ever.  Nothing is assumed of the       *)
(* outcome of a consumer: it may fail each time until the retries are      *)
(* spent.  The dead-letter consumer is assumed to succeed within its 100   *)
(* retries.                                                                *)
(***************************************************************************)
Fairness ==
  /\ WF_now(Tick)
  /\ \A s \in Slots : WF_vars(Consume(s)) /\ WF_vars(Settle(s))
  /\ WF_vars(SweepList) /\ SF_vars(SweepFilter) /\ SF_vars(SweepSave)
  /\ \A d \in Deliveries : /\ SF_vars(SweepPublish(d)) /\ WF_vars(Retain(d))
                           /\ WF_vars(Publish(d) \/ IngressFails(d))

FairSpec == Spec /\ Fairness

\* Every stored delivery is in the end completed or disclosed as a dead letter, even
\* when its publication was lost: the sweep reaches it from wherever its checkpoint
\* stands.
Settled ==
  \A d \in Deliveries :
    d \in r2 ~> (d \in finished \cup dead \cup expired \/ ~active)

\* The ciphertext of every claimed delivery leaves R2.
SourceExpires == \A d \in Deliveries : d \in row ~> d \notin r2
=============================================================================
