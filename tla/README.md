# Verification of Normal

TLA+ specifications of the program in `src/`, a hosted service that gives an AI
client (over MCP or REST) access to a User's WhatsApp through an external
provider. The modules are translated from the code; TLC checks them on small
instances, and TLAPS proves the theorems for every value of the constants.

Paths below are relative to `src/`. Names in `code style` are either the code's
or the modules' own.

## 1. The system

Cloudflare Workers over one Neon (PostgreSQL) database, R2 buckets, Queues, KV,
AWS KMS and the WhatsApp provider. A handler is a short program of awaited
calls, and an isolate may be evicted at any of them. Nothing but the database
orders two handlers. What is durable is therefore decided row by row, by locks,
unique keys and guarded UPDATEs, and repaired by crons every 4, 5 and 60 minutes
(`apps/api/wrangler.jsonc`).

| # | Component | Where | State it keeps | Operations that change it |
|---|---|---|---|---|
| 1 | Send Operations | `packages/db/src/send.ts`, `apps/api/src/send-*.ts` | operation, idempotency binding, lease, pending content, file row, quota | preflight, commit, provider attempt, record outcome, replay, lease sweep |
| 2 | Webhook ingestion | `apps/api/src/webhook-*.ts`, `queue-batch.ts`, `packages/db/src/webhook-*.ts` | R2 spool, queue, Webhook Items, gaps, replay cursor | accept, publish, process, sweep (KV cursor, 60 s grace), dead letter, replay |
| 3 | Message Store and retention | `packages/db/src/webhook-event.ts`, `message-retention.ts`, `message-search.ts` | Stored Messages, edits, deletions, search index | upsert, edit, delete, send evidence, expire, back-fill |
| 4 | Stored Media | `packages/db/src/stored-media.ts`, `apps/api/src/stored-media-ingestion.ts` | media rows, R2 objects, deletion queue, used bytes | ingest (object, then row), purge, delete object, return quota |
| 5 | Recipient Exclusions | `apps/api/src/recipient-exclusion.ts`, `recipient/journal.ts`, migration `0006` | rule, idempotency binding, prepared transition, R2 journal | prepare, append to journal, finalize, recover, purge, replay |
| 6 | Connection Setup | `apps/api/src/connection-setup*.ts`, `packages/db/src/connection-setup.ts` | setup state, worker lease, provider sessions | start, claim, reconcile by marker, renew, create, finish, activate, cancel, expire, clean up |
| 7 | WhatsApp Connection and health | `apps/api/src/connection-health.ts`, `packages/db/src/whatsapp-connection.ts`, migration `0015` | connection state, `state_received_at`, health claim, gaps | claim, observe provider, finish; state webhooks; reconnect, disconnect |
| 8 | Deletion | `apps/deletion-coordinator`, `apps/api/src/deletion/` | deletion marker (R2), capsule (R2, KMS), connection and key rows | prepare, marker, capsule, confirm provider absence, purge, destroy keys |
| 9 | Restore | `apps/restore-coordinator`, `packages/db/src/restore.ts` | readiness gate, branch, replayed markers | begin, replay deletions, replay exclusions, purge, invalidate API keys, drain objects, complete |
| 10 | Directory, groups, contacts | `apps/api/src/*-directory.ts`, `packages/db/src/directory.ts`, `group.ts` | projections of provider pages | claim, page, project, fail |
| 11 | MCP authorization, OAuth | `apps/api/src/oauth.ts`, `packages/db/src/mcp-authorization.ts` | authorization, refresh family, refresh credentials | authorize, rotate, detect reuse, revoke |
| 12 | API keys | `apps/api/src/api-key.ts`, `packages/db/src/api-key.ts` | key digest, expiry, active limit | create, revoke, expire, purge |
| 13 | MCP and REST tools | `apps/api/src/mcp.ts`, `rest.ts`, `packages/db/src/mcp-tool.ts` | Activity Log, request windows, daily budgets, cursors | admit, recheck, read a page, charge, complete |
| 14 | Provider control, adapters | `apps/provider-control`, `packages/whatsapp-provider` | none beyond a call (proxies dormant, ADR 0037) | create, repair, reconcile, delete a session; send; read a page; fetch media |
| 15 | Recovery control, verifier, game days | `apps/recovery-*`, `packages/neon-recovery` | active operation, drill branch, verification record, game-day state in KV | start, drill workflow, probe, verify, roll back, execute and verify a game day |
| 16 | Operations control | `apps/operations-control` | none (the paging service keeps it) | probes, paging |
| 17 | Encryption | `apps/api/src/encryption` | wrapped keys, sealed containers | wrap, open, recover, destroy; seal in parts, read in passes |
| 18 | Web UI, public boundary, contracts, docs | `apps/web`, `packages/contracts`, `apps/docs` | what a page has read and drafted | start, poll, cancel a setup; list, rename, set a policy |

How they interact. A tool call (13) authenticated by a grant (11, 12) enters Send
Operations (1), which locks the account and the connection (7), reads the
Directory (10) and the exclusion (5), and later calls the provider (14). The
provider reports back by webhooks: ingestion (2) spools them, and processing
writes Stored Messages (3), Send Status (1), media (4) and connection state (7).
Crons sweep leases (1), pending setups (6), prepared exclusions (5) and the
object deletion queue (4, shared with 1). Deletion (8) starts in the database
and continues in a worker of its own. Restore (9) replays the evidence kept
outside of the database (markers, journal) before the readiness gate opens.

### What is hard, and what makes each part correct

1. **Send Operations.** Two racing calls with one key; a clock read before the
   lock; a file put in R2 inside an open database transaction; a commit whose
   success is hidden; a provider attempt after the response, against a lease and
   a sweep; three writers of one status in any order; seven statements that
   delete pending content. *Correct when* a key gets at most one provider
   attempt, a status moves only as ADR 0017 allows, quota, rows, deletion queue
   and R2 agree, no content outlives its need, and nothing stays `processing`.
2. **Webhook ingestion.** Spool put and queue publish are two steps; the sweep
   repeats publishes; the queue duplicates and reorders; a dead letter must
   leave a gap. *Correct when* every accepted envelope is applied once or
   recorded as a gap, and the cursor never passes an unpublished envelope.
3. **Message Store.** Edits, deletions and upserts commute only if each compares
   provider order; retention empties content under late events. *Correct when*
   any arrival order converges, and expired or deleted content never returns.
4. **Stored Media.** Object before row, row before object, two failures in one
   catch block; a download of unknown length against a declared size; a
   container written in parts and read in two passes. *Correct when* the charge
   is that of the objects rows hold, every object is reachable from something
   that will delete it, and a reader gets the whole file or nothing.
5. **Recipient Exclusions.** A prepared transition, a journal append and a
   finalize, each of which may be the last; recovery by cron; two devices
   asking at once; a restore that forgets the row but not the journal. *Correct
   when* what a User was told survives a crash and a restore, and purge and
   suppression leave no window.
6. **Connection Setup.** A lease may run out while the provider creates a
   session; several tabs poll one setup. *Correct when* no session is left
   without a setup that knows it, one setup never activates two connections,
   cancellation ends in absence, and the page tells the truth about it.
7. **Connection health.** A poll that began before a webhook must not overwrite
   it. *Correct when* the state is that of the latest observation and an outage
   that was found is inside Ingestion Gaps.
8. **Deletion.** Marker before provider before data before keys, each repeatable,
   by request handlers, a coordinator, a purge and a restore at once. *Correct
   when* nothing deleted comes back, a number stays reserved while its session
   lives, and every deletion ends.
9. **Restore.** The gate opens only after every marker, transition, key and
   object was replayed; a crash at any step repeats the prefix.
10. **Directory.** A stale page must not bring an old name back; a page that is torn
    must not remove anybody.
11. **OAuth.** Two rotations of one credential race, between a database and an
    eventually consistent store; reuse revokes the family.
12. **API keys.** The active limit under concurrent creation, deletion and restore.
13. **Tools.** Windows and budgets read before a lock and charged after it; a walk
    over pages of rows that come, move and go.
14. **Provider control.** A write whose answer is lost may have happened, or may
    still happen. *Correct when* a failure that is called definitive changed nothing.
15. **Recovery drills.** A workflow whose every step may be repeated against an
    external API, with a verifier that reconnects. *Correct when* a drill reports
    only what it proved, and leaves no branch.
16. **Operations control.** One pass of reads per run; nothing of it is hard.
17. **Encryption.** A recovered envelope key must fit exactly one account.
18. **Web UI.** Requests that answer after the page has moved on.

`PROJECT.json` lists every hazard at its line, with the properties that would catch
it; section 8 says what is left out and why.

## 2. Plan: done and left

Done: a module for every component but one (Operations control), the suites of
section 4, and the proofs of section 5 for sends, webhook ingestion, media
retrieval, the activation of a setup, API keys, Recipient Exclusions, connection
health and deletion.

Left, in this order:

1. proofs about the retention and content of Stored Messages (`Edits!EditNeverUndone`),
   the Directory (`NoRegress`) and the refresh families (`OneDescendant`), whose
   invariants do not depend on data;
2. in `Deletion`, the exact quota across a replay (`QuotaExact`), which needs the
   removals counted beside the rows;
3. in `RecipientExclusion`, `SameAnswer` in a restored database (section 6);
4. the calendar-day send quota, and the expiry of idempotency bindings.

## 3. Modules

Each component has modules that are parameterised by CONSTANTS with a named
assumption, with one action per operation, handler or step and no RECURSIVE
operator. `...Proofs` modules extend the module they are about. `...MC` modules
are the suites TLC runs.

| Module | What it models |
|---|---|
| `SendOperations` | the send service: calls, the one transaction, provider attempt, webhook evidence, crons, the User; `SendOnce` is its contract towards the caller, with no clock, database or provider |
| `ToolCalls` | MCP and REST calls: admission in windows, daily budgets, invocations, Activity Log |
| `Pages` | a walk over pages of messages, searches, chats, contacts, groups and the settings by cursors |
| `WebhookIngestion` | ingress, R2 spool, queue, items, dead letters, sweep, replay, retention of sources |
| `WebhookNormalization` | what the elements of a delivery become: identities, joins, order |
| `StoredMessages` | evidence, upserts, edits and deletions, retention, search index and its backfill |
| `StoredMedia` | rows, objects, quota, deletion intents and the crons that settle them |
| `MediaRetrieval` | one media object fetched from the provider: redirects, timers, sizes |
| `StoredMediaContainer`, `Envelope` | the sealed container written in parts and read in passes; the symbolic AEAD and KMS below it |
| `RecipientExclusion` | prepare, journal, finalize, recover, purge, restore and replay of one recipient's rule |
| `ConnectionSetup` | start, provisioning and cleanup under their leases, cancel, expire |
| `QrActivation` | tabs that poll a provisioned setup, activate or reject it |
| `SetupPage` | the browser page of a setup: tasks, generations, timer |
| `ConnectionHealth` | health checks, lifecycle commands, state webhooks, Ingestion Gaps of one connection |
| `ConnectionList` | the cached list of connections in the browser and its actions |
| `Deletion` | Connection and account deletion, coordinator, purge, restore and replay, readiness gate |
| `KeyEnvelopes` | key rows of accounts, setups and connections, their deletion and their recovery from a branch |
| `Directory`, `DirectoryRead` | the projection of contacts or groups; one paged read from the provider |
| `Authorization` | consent, code exchange, refresh rotation, reuse, revocation |
| `ApiKeys` | creation statement by statement, authentication, ends, purge, restore |
| `ProviderControl`, `ProviderSends` | lifecycle calls of the provider with attempts and timers; the three send adapters |
| `RecoveryGate`, `RecoveryDrill`, `GameDay` | the start gate, the drill workflow with its verifier, the quarterly game day |

`PROJECT.json` maps each definition to the lines it stands for.

### How `SendOperations` corresponds to the code

One Personal Account, one grant, one WhatsApp Connection, one Directory
recipient. A call draws its operation id before it opens a transaction, so an
operation is named by the request that creates it.

| Variables | In the code |
|---|---|
| `pc`, `observedAt`, `seen`, `answer`, `reply` | locals of `send` and `completeProviderAttempt` in the Worker and of `commit` in `send.ts`; `reply` is what the caller is told |
| `writer` | holder of the account and connection row locks (`FOR UPDATE` in `locked_account`) |
| `status`, `lease`, `createdAt`, `known` | `send_operations`: status, dispatch_lease_expires_at, created_at, message_identity present |
| `binding` | `send_idempotency_bindings` |
| `pending`, `object`, `used`, `intents`, `r2` | `pending_send_contents`, `send_operation_objects.state`, `stored_media_used_bytes`, `stored_media_object_deletions`, the bucket |
| `attempts`, `took` | calls of the provider, and whether it really accepted the message |
| `item`, `message`, `storedAt`, `received` | `webhook_items`, outbound `stored_messages` |
| `rule`, `conn`, `authorized` | the exclusion row with its prepared transition, the connection's state, the grant |

The actions follow the code's order. `Preflight` and `Start` are the Worker
before the transaction; `ReadBinding` is the snapshot of the locking statement,
taken before it waits; `Deny`, `ReplayBound`, `Refuse`, `Admit` are the branches
of `commit` once the account row is locked; `WriteObject` is its `encrypt`
callback; `Commit`, `CommitLost`, `Rollback` are its three endings and `CleanUp`
the caller's catch block. `Dispatch`, `Respond`, `Abandon` are the attempt, the
`Record...` actions `recordProviderOutcome`. `EvidenceMatched`,
`EvidenceUnmatched` and `Upsert` are the processing of a Webhook Item, the crons
and the User's actions the SQL functions they call. The triggers (`DropPending`,
`Leaving`, `PurgedBy`) are part of the action whose statement fires them.

Its assumptions:

- **One clock.** The Worker's `Date` and the database's `now()` are one `now`,
  which ticks between any two steps. A cron that uses its scheduled time acts
  here as if it ran at that time.
- **A database transaction is atomic at its commit**, except the one of the send
  itself (two steps around the R2 write) and the overlap of `projectStoredMessage`
  with `recordProviderOutcome`, which have no lock in common and are modelled as
  the write skew they can produce (`RecordBesideUpsert`). A transaction that needs
  the account or connection lock waits for `writer = None`.
- **A recipient's exclusion cannot change between the last check of a send and its
  commit**: both hold the connection row. The model has this as a guard of
  `PrepareRule` and `FinalizeRule`, from the `FOR UPDATE` in the SQL.
- **The transaction that records a provider result is shorter than an exclusion
  transition.** PostgreSQL's `now()` is the start of a transaction; the model takes
  it at the commit. For a transaction that takes the connection lock the difference
  does not show: its suppression check comes after the wait. `recordProviderOutcome`
  makes no such check, so `PurgedStaysPurged` needs that it does not stay open from
  before the prepare step until after the finalize step, with an R2 append between
  the two.
- **Bindings do not expire** within the horizon (90 days in the code, against a
  lease of 45 seconds).
- **The provider** is external: it takes a message or not, answers anything that
  is consistent with that, late or never, and reports each kind of evidence at
  most once per item identity, in any order, at any later time. `ResponsesTo`
  holds what the adapters make of its answers.
- **Encryption, names and payloads** are values told apart by their fingerprints
  `PrintOf` and `ShapeOf`. One file is one unit of quota.
- **An Alias** is a phone number or username typed by hand that in truth belongs
  to the recipient; the code cannot know that when it sends, and the model's
  exclusion properties say what it still guarantees.

### The other modules: what stands for what, and what they assume

Common to all. The Worker's clock and the database's are one clock, unless a
note says otherwise. A database transaction is one step, unless two statements of
it read in different snapshots (READ COMMITTED) and the difference can be seen.
An invocation is a record with a `phase`; it may end between any two of its steps.
Failures, restarts and environment events are counted against a named bound.

- **`WebhookIngestion`.** A delivery is a number, a queue message a slot `<<delivery,
  copy>>`. The queue delivers at least once, in any order. `next` is the item a
  consumer is at, `items` the claimed identities. The dead-letter consumer is
  assumed to succeed within its own hundred retries.
- **`WebhookNormalization`.** A hash is the record it is made from, so that two
  identities are equal exactly when the code hashes equal inputs. `log` keeps what
  was delivered, with ghost fields for the event behind an element. Two edits of one
  message without a time, back to an earlier text, share one identity; nothing is
  claimed of them.
- **`StoredMessages`.** A row holds the text, what it records of order
  (`occ`, `recv`, `event`) and the words its tokens were made from. `claimed` is
  `claimWebhookItem`.
- **`StoredMedia`.** An object key is drawn by the attempt; `leaked` are objects that
  only a failed double deletion left, which the code cannot find either. A reader
  that finds a ready object gone or damaged fails the row (`FailRead`);
  `markObjectMissing` of `stored-media.ts` does the same and has no caller.
- **`MediaRetrieval`.** One attempt at a time; the host checks of a redirect are a
  Boolean. Every failure settles the row at once; only a crash leaves it pending. What
  fails in a download, a refused source included, reaches the row as a failure of storage.
- **`StoredMediaContainer` over `Envelope`.** Encryption is symbolic: a ciphertext
  opens under its own key and associated data only. An object is a sequence of
  pieces; R2 serves a snapshot of one version, and a new version has a new ETag.
  `rots` changes bytes under the ETag. The size rule of R2's parts (`Joinable`) is
  external. Many readers at once (`decryptMany`) are left out.
- **`RecipientExclusion`.** One recipient, one row, half milliseconds (`PerMs`): the
  database keeps microseconds, the journal milliseconds. `slot` holds requests in
  flight, `ids` counts transitions, `backup` is the recovery point. `Apart` says that
  two transitions are more than a millisecond apart, as the R2 append of the first, or
  the restore that undid it, lies between them. A conflict (409) changes nothing.
- **`ConnectionSetup`.** Leases and lives are counted down. `LateCreates` lets the
  provider apply a create after its timeout; `Prompt` names the steps that end
  within their lease. A safe read that fails is definitive, so a setup fails with
  a failed reconcile. Proxies are not wired in production (ADR 0037).
- **`QrActivation`.** The key and identity a poll draws are named by its tab. A lost
  race is found by the row that is there (`Installed`).
- **`SetupPage`.** A task is alive while its generation is the page's. `BodyLater`
  separates a reply's headers from its body.
- **`ConnectionHealth`.** One active connection; convergence by the time of
  occurrence, which every item has. `checked` is any moment between the read of a
  check and its commit; a lifecycle call's `observedAt` is that of its commit.
  `Prompt` says that a check is stored at the moment it is read.
- **`ConnectionList`.** One connection. React Query is external. A name is never
  empty. A read that is under way at a deletion may list the connection until the
  next read. A draft is not brought up to date, so saving a name may send an old
  policy along (`public-boundary-journey.tsx:418`); a lifecycle reply lists a
  policy "until Connection Deletion" as 30 days until the next read (`:1022`).
- **`Deletion`.** `db` is the database that serves, `saved` the recovery point,
  `session` what the provider has, `acked` the connections whose deletion was
  answered. The coordinator does not look at readiness, the API's cron does.
  Requests, jobs and purges of the old branch end at a restore. An interrupted
  account deletion is resumed by the User or by Clerk's retry. At most one late
  webhook item per connection. An object whose row a restore lost is not claimed.
- **`KeyEnvelopes`.** Keys are told apart by their material. Accounts that an
  earlier replay damaged and accounts that were repaired are initial states. The
  recovery's transaction is SERIALIZABLE, with its snapshot and its locks.
- **`Directory`.** Ages saturate at `Old`; `seq` is a ghost that numbers what the
  provider shows. `Torn` lets a page be older than its observation, `Prompt` ends a
  read within its lease, `Chatter` are items of other groups. Items have a time. A
  page may list none of `Keys`, so a read of one key can be partial as well.
- **`DirectoryRead`.** The provider's list may change between pages; a read is
  repeated from the first page within its attempts, and is partial when its answer
  would grow too big.
- **`Authorization`.** The provider library is external: it accepts the current and the
  previous token. `Overlap`, `Replay` and `Lossy` say whether exchanges overlap, a
  client replays a token and KV loses a write. Clock skew is left out. What the settings
  page shows of an authorization is computed in the same state.
- **`ApiKeys`.** Creation is several statements. `Overlap` says whether a deletion may
  run while a creation is under way. A handle is never drawn twice.
- **`ToolCalls`.** A grant is active or not and expires; limits and windows are small
  numbers. A call that leaves no trace is forgotten. `Overlap` says whether
  two charges of records may read their sums at once. The lists of contacts and of
  groups load the keys of their searches in a step of their own before they read.
- **`Pages`.** A walk of one client. A page is any non-empty prefix of at most `Limit`
  rows, as sizes are abstracted; it is not a frozen snapshot. The settings page
  passes a handle for a cursor, which neither is signed nor expires.
- **`ProviderControl`.** One marker, ids that are never reused. The provider refuses
  only what it does not do. `Late` lets a write land after its timeout. The codes of
  failures are reduced to `do_not_retry` and `reconcile_before_repeat`.
- **`ProviderSends`.** A 3xx, a 4xx other than 408 and `success: false` are of messages
  the provider has not taken (external). Timers fire promptly.
- **`RecoveryGate`, `RecoveryDrill`, `GameDay`.** The workflow engine and Neon are
  external: a step is retried `Attempts` times, a branch name is unique, a branch has
  one read-write endpoint. A migration that fails may have been applied. In the
  `stale` case a read of KV, of the OAuth record too, may be old; an operation may
  then stay stuck, which fails closed.

## 4. What TLC checks

    tlc -workers 2 -config Sends.cfg SendsMC

A suite extends one component and instantiates the others; its variable `part`
chooses one case, whose variables move while those of the others stand in one
initial state. The cases of a run therefore do not multiply, and each property of
a run speaks of the cases it names. Deadlock is not checked: clocks and bounds
stop, and a system whose calls are all answered rests.

| Run | Cases | What it shows | Distinct states |
|---|---|---|---|
| `sends` | `files`, `place` | three calls race for a key, for room for one file and for the last place of a window, while isolates die and replies of commits are lost: one attempt per key, a quota that is that of the files, no file out of reach, and a refinement of `SendOnce` | 930 000 |
| `evidence` | `evidence`, `excluded`, `direct`, `call`, `crossed` | results, six kinds of evidence, exclusion and deletion in any order: no status goes back, no late result is recorded, nothing purged is readable and content goes when its need ends; the adapters answer what the service relies on | 970 000 |
| `webhooks` | `replay`, `letters`, `late`, `items`, `apart` | duplicates, replays, sweeps, dead letters and expiry: an item once, a gap that reaches the receipt, a false gap only after expiry; elements in any grouping become the same events | 930 000 |
| `webhook_ends` | `replay` under `EndsSpec` | a delivery whose publication was lost is completed or disclosed in the end | 66 000 |
| `content` | `retrieval`, `edits`, `expired`, `policy`, `backfill`, `quota`, `objects`, `damaged`, `tampered`, `failing`, `pieces`, `renewed` | what is kept of a message: edits and deletions are final, search knows the edited words, media is within its limits, accounted and whole | 510 000 |
| `setups` | `activation`, `overlap`, `late`, `numbers`, `page`, `bodies`, `callers`, `unawaited`, `budget` | one connection of the number asked for, sessions accounted for, a page that follows its setup, a provider client that tells the truth | 1 500 000 |
| `connections` | `order`, `gaps`, `lapse`, `incident`, `list` | no newer observation is replaced, an outage that was found lies inside gaps, and the browser's list follows | 2 470 000 |
| `recipients` | `observed`, `retries`, `restored`, `purge`, `contacts`, `groups`, `senders`, `pages` | an answer is in the journal, nothing from before the rule is readable, rules survive a restore; the Directory never goes back | 2 000 000 |
| `access` | `restored`, `limit`, `deleted`, `family`, `session`, `consent`, `holder`, `window`, `records`, `bytes`, `messages`, `chats`, `people`, `search`, `settings` | the limit of active keys, no key or family that comes back, calls within windows and budgets, walks that are complete and ordered | 1 240 000 |
| `recovery` | `restored`, `live`, `bootstrap`, `revived`, `both`, `drill`, `foreign`, `gate`, `gameday`, `stale` | nothing deleted comes back through a restore, keys fit their accounts, and drills and game days prove what they report | 1 250 000 |
| `ends` | `send`, `deletion`, `setup`, `scan`, `exclusion`, `drill` | each of them comes to an end under its own fairness | 65 000 |
| `exclusion_sweep` | – | a violation, see below | 310 000 |

A property whose name is not found in the table of a component is a conjunction
of the component's own properties, one per case, in the suite: `AccountsAreWhole`, for
instance, is `ReservedUntilAbsent` and `QuotaExact` in the case `restored`, `CleanupPossible`
in `live`, and so on. Each has mutants in `PROJECT.json`: alternatives of a mapped
operator, such as a dropped guard, a forgotten trigger or a stale read, defined beside the
operator, under which TLC finds the property violated.

### Bounds, and why they are enough

- **Actors**: two of what races (calls, invocations, tabs, requests, tokens, workers), three
  where an owner, a repetition and a conflict have to meet (`sends`) or where a third
  party sees what two made (`activation`). One account, one or two connections; more
  interact only through locks and counters that are modelled.
- **Time**: a clock to 1–5. Lengths are 1 to 3 ticks, so that a moment can be before,
  at and after an end. The code compares times and adds lengths, and does nothing else.
- **Outages** (`gaps`): the session is lost by a disconnection, with its webhook, or by a
  change of settings, without one; it is back by a lifecycle call or by the settings. That the
  provider reconnects a session by itself is left out there.
- **Faults**: one or two per case. A second failure is what finds a repair that is not
  itself repeatable; the cases with two (`overlap`, `late`, `drill`, `revived`) are those
  where a repair follows a repair.
- **Restores**: one. A second one finds the first one's markers and journal, which are
  outside of the database and do not change; for exclusions, keys and deletions the
  theorems cover any number.
- **Data**: two or three values, as properties only compare them.
- **Symmetry** is used in `setups`, `connections` and `recipients`, over actors that are
  only compared, and only with safety properties.

### Fairness

Weak fairness of a step stands for a cron that repeats for ever, a queue that delivers
again, or an invocation that is not evicted for ever; it is stated per component.

- *Sends*: the crons (`Tick`, `Sweep`, `PurgePending`, `DeleteObject`, `FinishDeletion`; `scheduled`
  in `apps/api/src/production.ts`), and `EndsTransaction`, because a database ends a
  transaction that stays open. Nothing of a call, the provider, webhooks or the User.
- *Webhooks*: consumers and retention, weakly. Filter, save and publication of the sweep
  strongly: they may fail again and again, but not each time.
- *Deletion*: requests that go on, the coordinator, the purge and the replay, weakly.
- *Setups*: crons and invocations weakly, the claim of a cleanup strongly, as another
  invocation may hold the lease whenever it is tried.
- *Scans*: the pages keep polling. *Exclusions*: the cron, the replay and the sweep.
  *Drills*: the workflow engine, Neon's branch and the verifier.

In the suite `ends` the fairness of a case is conjoined with `part`, so no case lends its
fairness to another. Other modules state liveness and its fairness as well (`RequestEnds`,
`WalkEnds`, `CallsEnd`, `Converges`, `BackfillEnds`, `PendingSettles`, `WriteEnds`,
`Reopens`); no run of this list checks them.

### Where the code departs from its documents

`exclusion_sweep` checks a sentence of ADR 0028 ("the API reapplies those transitions when
the WhatsApp Directory projects the recipient again") as `JournalReapplied`. The code lists
only recipients without a row and replays each transition in a statement of its own, so a
sweep that stops between two transitions of a recipient never takes it up again.

The other sentences that the code does not keep are below. Each is a property of the module
named, or of an operator there; no run lists them. Some hold where a constant rules the
cause out, which is how the suites use them (last column).

| Property | What is said | What the code does | What holds |
|---|---|---|---|
| `SendOperations!NothingStoredWhileExcluded` | `CONTEXT.md:104`: no observation of an excluded recipient creates a Stored Message | `send.ts:1426`: an answer that arrives in time stores the message although the exclusion was finalized meanwhile |  |
| `SendOperations!OnlyFutureObservations`, `RecipientExclusion!ExclusionPurgesHistory` | `CONTEXT.md:104`: an exclusion purges history, a re-enable permits only future observations | migration `0006:622`: the cutoff is the time of the prepare step; a message stored between prepare and finalize is back after a re-enable |  |
| `SendOperations!ConvergesByStrength` | `adr/0017:7`: status converges by strength of evidence, not order | `webhook-event.ts:1013`: evidence that overtakes the call's own result is spent |  |
| `SendOperations!ExactWindow` | `configuration.md:48`: an exact rolling-minute limit | `send.ts:918`: a call that read its clock earlier but locked second does not count the other | `WindowHolds` is what the lock does give (proved) |
| `SendOperations!MessageConsumesPending` | `mcp-contract.md:425`: Stored Message creation consumes pending content | `send.ts:1289`: result and upsert overlap and each misses the other |  |
| `WebhookIngestion!ReceiptDisclosed` | `configuration.md:1121`: a dead letter inserts a gap from its receipt | `0000_baseline.sql:5781`: a second dead letter adds none when a later one is active, and one event's completion closes the gap for all | `GapReachesReceipt` (proved) |
| `WebhookIngestion!NoFalseGap` | `configuration.md:1122`: a completed duplicate creates no false gap | `webhook-event.ts:883`: the row was expired, and is inserted again | `FalseGapOnlyAfterExpiry` (proved) |
| `StoredMessages!TokensMatchText` | `adr/0036:31`: ingestion and edits maintain the index | `webhook-event.ts:2008`: an outbound upsert replaces the text and keeps the tokens | `EditReplacesTokens` |
| `StoredMessages!LatestContent` | `CONTEXT.md:126`: only the latest content after an edit is kept | `webhook-event.ts:2187`: an edit before its message is claimed and lost | `EditNeverUndone` |
| `StoredMedia!DeletedMediaGoes` | `CONTEXT.md:130`: a tombstone is a non-content record | `webhook-event.ts:311`: a deletion leaves the media of the message |  |
| `RecipientExclusion!PurgedStaysPurged` | `CONTEXT.md:104`: the cutoff survives a restore | `recipient/journal.ts:128`: it is journaled in milliseconds, cut down | `PurgeCoversRestore` |
| `ConnectionSetup!NumberKeptForSession` | `configuration.md:656`, `adr/0019:5`: a number is released only after absence is confirmed | `connection-setup-provisioning.ts:282`: an ambiguous create gives its lease up at once, and may be applied later | `ReleasedWithoutSession` where `LateCreates` is FALSE |
| `ConnectionSetup!ReplayAnswered` | `configuration.md:592`: an exact retry returns the original setup | `connection-setup.ts:459`: cleanup deletes the envelope the comparison needs |  |
| `ConnectionHealth!LapseDisclosed` | `adr/0022:3`: a lapse is recorded from check to check | migration `0015:78`: a superseded check moves the last check on | without webhooks and lifecycle calls |
| `ConnectionHealth!OutageDisclosed` | `configuration.md:968`, `adr/0022:3`: drift opens a gap, from the last healthy point | `connection-health.ts:134`, `0015:133`: a repaired drift opens none, and a healthy check counts from `checked_at`, after its read | where `Prompt`, without repair |
| `ConnectionHealth!FailsClosed` | `configuration.md:784`: side effects fail closed during reconciliation | `webhook-event.ts:269`: a webhook sets the connection to connected |  |
| `ConnectionHealth!NotRegressed` | `configuration.md:785`: a slow earlier result does not regress a newer state | `0000_baseline.sql:5082`: the moment of storing is compared | `KeepsNewer`, of checks and webhooks (proved) |
| `ConnectionHealth!IncidentRecorded` | `runbooks/deployment.md:1075`: a measured outage is recorded with its exact time | `0000_baseline.sql:5539`: a start before the last healthy check is rejected |  |
| `ToolCalls!RecordsWithinDay` | a test of `packages/db` (`mcp-tool.test.ts:1614`) and ADR 0018: the subjects are locked before a reservation | `mcp-tool.ts:3393`: the sum is read in the snapshot before the lock | where `Overlap` is FALSE |
| `ToolCalls!RecordsPerDay` | `configuration.md:43`: records returned per UTC day | `mcp-tool.ts:3404`: checked against the day of completion, counted on the day of the start |  |
| `ToolCalls!RateWindow` | `configuration.md:41`: requests in an exact rolling minute | `mcp-tool.ts:2079`: a media resource read does not compare | for other handlers |
| `Pages!GapsDisclosed` | `CONTEXT.md:123`: reads disclose intersecting gaps | `mcp-tool.ts:1162`: a page tells gaps that began by its newest message | for searches |
| `Pages!Complete`, for the contacts of the settings | migration `0006:455`: the handle carries the whole page boundary | `0006:457`: its sort key is looked up again, so a rename skips others, and a contact that left starts the list again | for groups |
| `Pages!OthersListed` | `mcp-contract.md:18`: an exclusion hides one recipient only | `mcp-tool.ts:2696`: keys are loaded through the oldest conversation, and nothing is loaded for one that is excluded |  |
| `Deletion!ContinuationEnds`, `Deletion!CapsuleEnds` | `runbooks/deletion-recovery.md:174`, `:102`: the coordinator consumes a continuation, and destroys the capsule | `capsule.ts:428`, migration `0030:78`: a missing capsule counts as complete; a purge may overtake the destruction |  |
| `Deletion!LeftConnectionDeletes` | `runbooks/deletion-recovery.md:92`: complete Connection Deletion before the account purge | migration `0030:155`: the replayed account takes the keys the connections need |  |
| `Deletion!AccountEnds` | `runbooks/deletion-recovery.md:80`: the account row is deleted | `0000_baseline.sql:9953`: break-glass rows reference it without a cascade | without break-glass requests |
| `Deletion!QuotaExact` | `runbooks/deletion-recovery.md:240`: quota invariants pass | migration `0030:232`: the removals of a replay return no bytes of Stored Media | for files of sends |
| `ApiKeys!LastConnection`, `ApiKeys!AccountKeys` | `adr/0010:3`, `runbooks/deletion-recovery.md:13`: a key that loses its last connection, or its account, is revoked | `api-key.ts:290`, `:263`: a creation under way reads before it locks | where `Overlap` is FALSE |
| `RecoveryGate!OneRun` | `architecture.md:106`: runs are serialized | `recovery-control/src/index.ts:75`: an operation whose look-up fails after its creation is dropped | without lost look-ups |
| `Directory!NewestWins` | `adr/0017:7`: occurrence is compared before receive order | `0000_baseline.sql:7342`, `directory.ts:610`: a snapshot is compared by receipt, and dated by its last page | for groups, pages not torn |
| `Directory!FreshAgain` | `configuration.md:957`: groups are reconciled hourly | `0000_baseline.sql:6404`: every applied item moves the age |  |
| `KeyEnvelopes!GoneStaysGone` | `CONTEXT.md:16`: deletion is irreversible | migration `0003:71`: a bootstrap that began before may insert the account again |  |
| `StoredMediaContainer!ReadableStaysReady` | `stored-media-container.md:87`: an authentication failure means it is not readable | `stored-media-container.ts:747`: a body that breaks off is one as well | without breaks |
| `MediaRetrieval!PolicyIsRejected` | `runbooks/stored-media-ingestion.md:15`: a size violation becomes `rejected` | `stored-media-ingestion.ts:74`: the container turns it into a storage failure |  |
| `ConnectionList!SavedNameIsListed` | `signed-in-boundary.spec.ts:419`: the saved name is listed | `public-boundary-journey.tsx:802`: the later of two replies undoes the other |  |

## 5. What is proved

The theorems hold for every value of the constants that satisfies the named
assumption of the module: any finite or, where nothing counts them, any number of
actors, any lengths, limits and horizons. No property is inductive as it stands; each
proofs module strengthens its properties to one invariant, checked with TLC on
small instances before it was proved, and derives the theorems from it. Such a
proof has one lemma per action (or per group of actions that change the same
variables) and one step per conjunct that the action can disturb.

**`SendProofs`** (`IdentityAssumption`, `BoundAssumption`: `None` is not a request,
requests with one fingerprint have one shape, a lease is no longer than the life of
its content). `IInv == Typed /\ CallInvariant /\ OutcomeInvariant`. `CallInvariant` ties
the place of a call to its row and to the binding of its key: before the commit there
is no row; after it the binding is the call's own and never moves; `seen` is nothing or
the owner. That is why `KeyFree`, checked at the insert, suffices although `seen` is
stale. From it follow `AttemptIsBound` and, action by action, the refinement of
`SendOnce`: a crash or a failed commit is a stutter or an admission without an answer.
`OutcomeInvariant` says that an identity is recorded with its status, once, within the
lease. On top of `IInv` stand three further invariants: `ContentInv` (rows, files,
content; the quota is the cardinality of the set of held files, whose steps are the insertion
and the removal of one element), `PrivacyInv` (what was checked under the lock
still holds when it is released; nothing stored is older than a cutoff) and `WindowInv`.

**`WebhookProofs`** (`IngestionAssumption`). `TypeOK`, `Known` (what speaks of a delivery came after
its receipt), `Counted` (an item is counted when it is claimed, and never again), `Claims` (a
consumer's position is behind what it or another claimed), `Marks` (a completed event keeps its
mark until its row expires), `Held` (where a delivery that is not complete can be), and the
properties themselves. Where the argument would be an induction (the last delivery of a page,
the first item that is not claimed) it uses the least element of a set of naturals.

**`MediaRetrievalProofs`** (`MediaRetrievalAssumption`). `Budget` relates what an attempt has spent and
what its timer has left to the two timeouts, in each phase; `Stored` says that the bytes passed
on are a prefix of the file and a stored container is all of it. The module goes on to
`StoredMedia` (`MediaAssumption`: finitely many messages, each with some bytes). `KeyInv`
follows the object keys. A key in use is one of an attempt already made (`KeysAreMade`), so the
key a new attempt draws is unknown to everyone; no two invocations handle one key
(`KeysApart`), and before its upload is finalized neither a row nor the deletion queue has it
(`UploadsOwn`). What a sweep has removed does not come back (`RemovedGone`), and only a lost
reply lets anyone remove the object of a ready row (`ReadyKept`). From these `NoOrphan` and
`ReadyHasObject` follow in every step. `QuotaInv` adds the bytes: `Bytes` of a set of rows is the
number of its bytes, so that disjoint sets add up by the library's theorems on cardinality, and
a step changes the charge by the rows whose object it adds or releases.

**`QrActivationProofs`** (`QrActivationAssumption`). `OneRow` (there is at most one row, and no tab was
told of another) and `ActivatesAsked` (a poll that activates saw the number asked for). The module
goes on to `ConnectionSetup` (`SetupAssumption`) with two invariants. `StoredInv` holds whatever
arrives late and however long a step takes: only a setup that is over is cleaned up
(`OverWhenCleaned`), and what an invocation is about to store is at the provider as long as the
setup is not over (`SeenStays`). `SessionStaysHolds` is its consequence. `LeaseInv` needs
`Prudent`, which is what the runs `overlap` and `numbers` assume: the provider applies no create
after its time-out, and the two steps that create (15 seconds of a write against a lease of two
minutes) end within their lease. Then whoever posts holds the lease
(`LeaseHeld`), nobody holds it once a setup is over and being cleaned up (`LeaseOver`), one
create is under way and only where there is no session (`OneCreate`), and who
finishes with the lease has seen every session (`SeenIsAll`). Without `Prudent` the finding
`NumberKeptForSession` of section 4 is what happens.

**`ApiKeysProofs`** (`ApiKeysAssumption`). `Limited` and `Dated` hold of the live database and
of the recovery point, so that a restore keeps them: `Limited` bounds the active keys and
separates their names, `Dated` relates the end of a key, its digest and its retention.
`Serialised` and `Drawn` say what a creation under way may still rely on: the lock is one
creation's, and its handle nobody else's. `Gone` says that in a database that serves no key
is active that has ended. Covered are any number of keys, creations and restores, and both
values of `Overlap`.

**`RecipientExclusionProofs`** (`ExclusionAssumption`, with `PerMs <= MaxTime`). `OneEach` says that
one transition id has one content wherever it is kept (row, recovery point, request in
flight, journal); `Written` that a worker beyond its append has its object in the journal;
`Rows` that an excluding row or binding, live or in the recovery point, has its evidence in the
journal, and no transition a row has followed is later than the row; `Answered` that each
answer has its evidence there. Objects are in milliseconds and rows in finer units; `Ms` and its
monotony carry the one to the other. The replay takes the oldest transition left, again by a
least element. The three conjuncts of `RulesSurvive` need to know more of a transition that was
answered. `Kept` says where one is: in the row or behind it, in the recovery point or, while a
restored database has not replayed it, in the journal; `Dated` that no two transitions
share a millisecond (this is what `Apart` is for) and that a row is dated by its last
transition; `Retried` that a request in flight under an idempotency key that has an answer is bound as
that answer was. `AcknowledgedInForceHolds` and `PurgeCoversRestoreHolds` follow for any number of
restores, `SameAnswerHolds` for a database that was not restored.

**`ConnectionHealthProofs`** (`HealthAssumption`). `Moments` (what the row says was true when it was
received or before), `Underway` (a check read after it started, an item was sent before it
came), `Disclosed` (a cause has one active gap, and a gap of reconciliation that is active was
detected after the last healthy point). `KeepsNewer` is then an action property: each
statement that writes a state compares its moment with the stored one.

**`DeletionProofs`** (`DeletionAssumption`). `Sound` relates the rows of one database to the
markers, capsules and sessions outside of it; it holds of the live database and of the
recovery point (`Sound(saved, ...)`, `saved.ready`), and `Grows` says that the evidence outside
only grows in the direction that keeps both. `Asked`, `Worked` and `Answered` say what a
request, a job and an answer already did. A restore is then a step like any other: it puts
`saved`, which is sound, in the place of `db`, which the gate keeps closed until the
markers are replayed. The module also holds the proofs about `RecoveryGate` (`GateAssumption`):
`Serialized` (a request that works is the one inside), `Read` (what it has read of the stored
operation still holds when it acts) and `Told` (an answer names a workflow that was created) are
inductive whatever fails; `Kept` (a drill that runs is the stored one) needs that no lookup fails
for an operation that exists (`~LostLookups`), since after `MaxAge` days such a failure makes the
code forget it.
Of `RecoveryDrill` (`DrillAssumption`) it holds the proof that evidence is earned: `Progress` says
what a verification has observed when it comes to each of its calls, `Unasked` that the attempts
to come have no verification yet (so that asking for one never overwrites what another saw),
`Verified`, `Probed` and `Judged` relate the state of the restored database, its probes and the
place of the workflow; `BranchInv` that a branch is made only where there is none and looked up by
name only before it is deleted. Verifications of earlier attempts whose answers were lost go on in
any order.

| Module | Theorem | Property |
|---|---|---|
| `SendProofs` | `TypeCorrectness` | `TypeOK` |
| | `AtMostOnce`, `Refinement` | `AttemptIsBound`, `ImplementsSendOnce` |
| | `StatusNeverRegresses`, `UnknownStays`, `LateResults` | `StatusProgresses`, `UnknownIsFinal`, `LateResultDropped` |
| | `QuotaExact`, `FileLifetime` | `QuotaMatchesObjects`, `FilesAccounted` |
| | `PendingMinimal`, `ExclusionIsEffective` | `PendingIsNeeded`, `ExclusionDropsPending` |
| | `PurgeIsPermanent`, `LateItems` | `PurgedStaysPurged`, `NoLateResurrection` |
| | `QuotaWindow` | `WindowHolds` |
| `WebhookProofs` | `TypeCorrectness`, `NotStrandedHolds`, `ItemOnceHolds`, `CompletedMeansProcessedHolds` | `TypeOK`, `NotStranded`, `ItemOnce`, `CompletedMeansProcessed` |
| | `GapReachesReceiptHolds`, `FalseGapOnlyAfterExpiryHolds`, `ExpiredSourceIsGoneHolds` | `GapReachesReceipt`, `FalseGapOnlyAfterExpiry`, `ExpiredSourceIsGone` |
| `MediaRetrievalProofs` | `TypeCorrectness`, `BytesWithinLimitHolds`, `ReadyIsWholeHolds`, `InTimeHolds` | `TypeOK`, `BytesWithinLimit`, `ReadyIsWhole`, `InTime` |
| | `StoredMediaTypes`, `StoredMediaQuota`, `NoOrphanHolds`, `ReadyHasObjectHolds` | of `StoredMedia`: `TypeOK`, `QuotaExact` and `QuotaBound`, `NoOrphan`, `ReadyHasObject` |
| `QrActivationProofs` | `TypeCorrectness`, `OneConnectionHolds`, `ReadableHolds`, `VerifiedNumberHolds`, `EndIsFinalHolds` | `TypeOK`, `OneConnection`, `Readable`, `VerifiedNumber`, `EndIsFinal` |
| | `SessionStaysHolds`, `UsableIsUniqueHolds`, `ReleasedWithoutSessionHolds`, `OneSetupPerNumberHolds` | of `ConnectionSetup`: `StoredSessionStays`, `UsableIsUnique`, `ReleasedWithoutSession`, `OneSetupPerNumber` (`SessionsAccounted`) |
| `ApiKeysProofs` | `TypeCorrectness`, `ActiveLimitHolds`, `NoRevivalHolds`, `ShownAsIsHolds`, `MetadataKeptHolds`, `EndIsFixedHolds` | `TypeOK`, `ActiveLimit`, `NoRevival`, `ShownAsIs`, `MetadataKept`, `EndIsFixed` |
| `RecipientExclusionProofs` | `TypeCorrectness`, `AnswerIsJournaledHolds`, `NothingFromBeforeHolds` | `TypeOK`, `AnswerIsJournaled`, `NothingFromBefore` |
| | `AcknowledgedInForceHolds`, `PurgeCoversRestoreHolds`, `SameAnswerHolds` | `AcknowledgedInForce`, `PurgeCoversRestore`, `SameAnswer` (`RulesSurvive`) |
| `ConnectionHealthProofs` | `TypeCorrectness`, `KeepsNewerHolds`, `HealthyEndsGapsHolds` | `TypeOK`, `KeepsNewer`, `HealthyEndsGaps` |
| `DeletionProofs` | `NoResurrectionHolds`, `ReservedHolds`, `CleanupPossibleHolds` | `NoResurrection`, `ReservedUntilAbsent`, `CleanupPossible` |
| | `OneRunHolds`, `RememberedHolds`, `StartedExistsHolds` | of `RecoveryGate`: `OneRun`, `Remembered`, `StartedExists` |
| | `DrillEarnsEvidence`, `DrillKeepsItsBranch` | of `RecoveryDrill`: `EvidenceEarned` and `NoProbeVerified`; `OneBranch`, `OwnerSealed`, `NeverServing` and `OnlyOurs` |

## 6. What is only model-checked

- **Liveness** (`Settled`, `WorkIsFinished`): temporal properties under fairness need `ENABLED`,
  which the installed provers do not handle.
- **`JournalReapplied`** and the sentences of section 4 are refuted; they have no theorem.
- **Conjunctions of which a part is proved**: `ContentIsNeeded` (what a send keeps),
  `OutagesAreDisclosed` (`HealthyEndsGaps`), `GrantsEndOnce` (`ShownAsIs`, `MetadataKept`,
  `EndIsFixed`), `AccountsAreWhole` (`ReservedUntilAbsent`, `CleanupPossible`), `DrillsAreEarned`
  (those of the gate and of the drill), `MediaAccounted` and `SessionsAccounted` (all of them).
  Not proved of them are `OutageDisclosed` and `LapseDisclosed`, `LastConnection` and `AccountKeys` (which hold only
  where no deletion overlaps a creation), the `QuotaExact` of a deletion with its replay, and what
  `DrillsAreEarned` says of game days.
- **`SameAnswer`** of `RulesSurvive` in a database that was restored: the sweep that ends a restore
  raises the cutoff of a row whose binding keeps the earlier one, and the argument must follow
  both. TLC checks it with one restore.
- **Modules without proofs**: `AnswersCanBeTrusted`, `ControlIsTruthful` (provider),
  `ItemsAreTheEvents` (normalization, whose content is a function of data: an induction),
  `ContentIsLatest`, `OnlyWholeFiles`, `PageFollowsSetup`, `ListFollows`,
  `DirectoryFollows`, `ReadsAreBounded`.

## 7. Running it

    tlc -workers 2 -config Sends.cfg SendsMC
    tlc -workers 2 -config WebhookEnds.cfg WebhooksMC
    tlc -workers 2 -config ExclusionSweep.cfg RecipientExclusion
    tlapm SendProofs.tla

Each other `X.cfg` belongs to `XMC.tla`. The longest run (`recipients`) takes two
minutes alone, the longest proofs (`DeletionProofs`, `ConnectionHealthProofs`) some minutes.

## 8. What is not modelled

- **Sends**: the quota of a calendar day (the rolling window of a grant stands for it),
  the expiry of bindings after 90 days, bindings from before request shapes.
- **WhatsApp Connection**: the batch a health cron makes of many connections.
- **Deletion and Restore**: break-glass audit rows, except as what keeps an account row;
  batch limits; the expiry of content while a replay is under way.
- **Directory**: names, phones and their search indexes, the freshness computed at read
  time, items without a time of occurrence.
- **OAuth**: client admission, metadata documents, redirects, token formats.
- **Tools**: schemas, rendering of content and media, the statuses of idempotent
  repetitions.
- **Provider control**: the allocation of proxies and its Webshare client, which production
  does not wire (ADR 0037).
- **Recovery**: the availability query, the self-test of an HMAC rotation, the schedule of the
  fixture, HTTP statuses, a create of a branch that lands late.
- **Operations control**: each run is one pass of reads from external services; the state
  between runs is the paging service's.
- **Encryption**: AWS KMS and the ciphers are external, as in `Envelope`.
- **Web**: the other pages, the documentation site, the public boundary Worker and the
  generated contracts keep no state of their own.
