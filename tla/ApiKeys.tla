------------------------------- MODULE ApiKeys -------------------------------
(***************************************************************************)
(* The API Keys of one Personal Account: creation under the limit of       *)
(* active keys, authentication, revocation, expiry and purge, the deletion *)
(* of connections and of the account, and the restore of the database.     *)
(*                                                                         *)
(* A creation is a transaction of several statements at READ COMMITTED:    *)
(* what one statement read may have changed at the next. Every other       *)
(* operation is one statement, or reads what it has locked.                *)
(*                                                                         *)
(* apps/api/src/api-key.ts, packages/db/src/api-key.ts, the cron of the    *)
(* API and the SQL functions they call.                                    *)
(***************************************************************************)
EXTENDS Integers, FiniteSets

CONSTANTS
  Keys,         \* handles that creations draw
  Names,        \* names, compared without case
  Connections,  \* WhatsApp Connections of the account
  Requests,     \* creations under way at once
  Calls,        \* authentications under way at once
  Limit,        \* of active keys: 10
  Retention,    \* how long metadata stays: 90 days
  Expiries,     \* times of expiry that are asked for; Never is none
  MaxTime,      \* a bound on the clock
  Restores,     \* a bound on restores
  Overlap       \* may a deletion run while a creation is under way?

Never == -1

ASSUME ApiKeysAssumption ==
  /\ Limit \in Nat /\ Retention \in Nat /\ MaxTime \in Nat /\ Restores \in Nat
  /\ Expiries \subseteq Nat \cup {Never} /\ Overlap \in BOOLEAN

VARIABLES
  clock,
  db,        \* account, conn, key; what a restore takes back
  saved,     \* the recovery point
  ready,     \* restore_readiness
  creating,  \* the transaction of each creation
  calling,   \* the transaction of each authentication
  restores,
  ended      \* for the properties: when a key ended for its User, or Never

vars == <<clock, db, saved, ready, creating, calling, restores, ended>>

NoKey == [state |-> "none", name |-> "none", selected |-> {}, expires |-> Never,
          digest |-> FALSE, meta |-> Never]
NoCreation == [phase |-> "idle", key |-> "none", name |-> "none", conns |-> {}, expires |-> Never]
NoCall == [phase |-> "idle", key |-> "none", selected |-> {}]

Init ==
  /\ clock = 0
  /\ db = [account |-> "active", conn |-> [c \in Connections |-> "live"],
           key |-> [k \in Keys |-> NoKey]]
  /\ saved = db
  /\ ready = TRUE
  /\ creating = [r \in Requests |-> NoCreation]
  /\ calling = [q \in Calls |-> NoCall]
  /\ restores = 0
  /\ ended = [k \in Keys |-> Never]

Active(d) == {k \in Keys : d.key[k].state = "active"}
Ended == {"expired", "revoked", "purged"}

\* The handle of a purged key, and the one of a key that a restore has lost, is never
\* drawn again.
Fresh(k) ==
  /\ db.key[k].state = "none" /\ saved.key[k].state = "none" /\ ended[k] = Never
  /\ \A r \in Requests : creating[r].key # k

Tick == /\ clock < MaxTime /\ clock' = clock + 1
        /\ UNCHANGED <<db, saved, ready, creating, calling, restores, ended>>

(***************************************************************************)
(* Creation.                                                               *)
(***************************************************************************)
Creates(r, changes) ==
  /\ creating' = [creating EXCEPT ![r] = changes]
  /\ UNCHANGED <<clock, saved, ready, calling, restores, ended>>

\* The handler has verified the User; enterClerkContext finds the account active.
BeginCreate(r, k, n, S, e) ==
  /\ ready /\ creating[r] = NoCreation /\ db.account = "active"
  /\ Fresh(k) /\ S # {} /\ (e = Never \/ e > clock)
  /\ Creates(r, [phase |-> "entered", key |-> k, name |-> n, conns |-> S, expires |-> e])
  /\ UNCHANGED db

Locked == \E r \in Requests : creating[r].phase \in {"locked", "selected", "inserted"}

\* Mutant: the account is read and not locked.
Lockable == TRUE

Free == ~Locked

\* The row of the account is locked until the transaction ends. The names and the number
\* of the keys that are stored as active are read under the lock.
LockAccount(r) ==
  LET t == creating[r]
  IN /\ t.phase = "entered" /\ Free
     /\ IF Cardinality(Active(db)) >= Limit \/ \E k \in Active(db) : db.key[k].name = t.name
        THEN Creates(r, NoCreation)
        ELSE Creates(r, [t EXCEPT !.phase = "locked"])
     /\ UNCHANGED db

SelectConnections(r) ==
  LET t == creating[r]
  IN /\ t.phase = "locked"
     /\ IF \A c \in t.conns : db.conn[c] = "live"
        THEN Creates(r, [t EXCEPT !.phase = "selected"])
        ELSE Creates(r, NoCreation)
     /\ UNCHANGED db

\* The trigger counts what is committed and the new row; the unique index on active names
\* waits for an insert that is not committed; a row that is referred to must exist.
Insertable(t) ==
  /\ Cardinality(Active(db)) < Limit
  /\ \A k \in Active(db) : db.key[k].name # t.name
  /\ \A c \in t.conns : db.conn[c] # "gone"

Insert(r) ==
  LET t == creating[r]
  IN /\ t.phase = "selected"
     /\ \A s \in Requests : creating[s].phase = "inserted" => creating[s].name # t.name
     /\ Creates(r, IF Insertable(t) THEN [t EXCEPT !.phase = "inserted"] ELSE NoCreation)
     /\ UNCHANGED db

CommitCreate(r) ==
  LET t == creating[r]
  IN /\ t.phase = "inserted"
     /\ db' = [db EXCEPT !.key[t.key] =
          [state |-> "active", name |-> t.name, selected |-> t.conns,
           expires |-> t.expires, digest |-> TRUE, meta |-> Never]]
     /\ Creates(r, NoCreation)

CreateStep(r) == LockAccount(r) \/ SelectConnections(r) \/ Insert(r) \/ CommitCreate(r)

\* The request is lost or its Worker ends: the transaction rolls back.
CreateFails(r) ==
  /\ creating[r] # NoCreation
  /\ Creates(r, NoCreation)
  /\ UNCHANGED db

(***************************************************************************)
(* Authentication.                                                         *)
(***************************************************************************)
\* bootstrap_api_key, with the time of the database.
Admits(k) ==
  /\ db.account = "active" /\ db.key[k].state = "active" /\ db.key[k].digest
  /\ db.key[k].expires = Never \/ db.key[k].expires > clock

Authenticate(q, k) ==
  /\ ready /\ calling[q] = NoCall /\ Admits(k)
  /\ calling' = [calling EXCEPT ![q] = [NoCall EXCEPT !.phase = "bootstrapped", !.key = k]]
  /\ UNCHANGED <<clock, db, saved, ready, creating, restores, ended>>

\* The row is read again; the connections the grant selects come with the answer.
ReadGrant(q) ==
  LET k == calling[q].key
  IN /\ calling[q].phase = "bootstrapped"
     /\ calling' = [calling EXCEPT ![q] =
          IF db.key[k].state = "active"
          THEN [@ EXCEPT !.phase = "granted", !.selected = db.key[k].selected] ELSE NoCall]
     /\ UNCHANGED <<clock, db, saved, ready, creating, restores, ended>>

EndCall(q) ==
  /\ calling[q].phase = "granted"
  /\ calling' = [calling EXCEPT ![q] = NoCall]
  /\ UNCHANGED <<clock, db, saved, ready, creating, restores, ended>>

(***************************************************************************)
(* The end of a key.                                                       *)
(***************************************************************************)
\* What a User sees of the keys of d at time t.
\* Mutant: the list shows what is stored.
PresentedStored(d, k, t) == d.key[k].state

Presented(d, k, t) ==
  IF d.key[k].state = "active" /\ d.key[k].expires # Never /\ d.key[k].expires <= t
  THEN "expired" ELSE d.key[k].state

\* Every operation that ends keys records when they ended: those that had expired did so
\* before.
Ends(d) ==
  /\ db' = d
  /\ ended' = [k \in Keys |->
       IF ended[k] = Never /\ d.key[k].state \in Ended
       THEN IF db.key[k].expires # Never /\ db.key[k].expires <= clock
            THEN db.key[k].expires ELSE clock
       ELSE ended[k]]
  /\ UNCHANGED <<clock, saved, ready, calling, restores>>

\* Mutant: a revocation keeps the digest.
RevokedStored(key) == [key EXCEPT !.state = "revoked", !.meta = clock + Retention]

Revoked(key) ==
  [key EXCEPT !.state = "revoked", !.digest = FALSE, !.meta = clock + Retention]

\* Mutant: a key that has ended is revoked again.
RevocableAny(k) == db.key[k].state \notin {"none", "purged"}

Revocable(k) == db.key[k].state = "active"

\* Revocation is idempotent: an ended key stays as it is.
Revoke(k) ==
  /\ ready /\ db.account = "active" /\ Revocable(k)
  /\ Ends([db EXCEPT !.key[k] = Revoked(@)])
  /\ UNCHANGED creating

\* Mutant: the metadata of an expired key is kept from its creation on.
ExpiredNow(key) ==
  [key EXCEPT !.state = "expired", !.digest = FALSE, !.meta = Retention]

ExpiredKey(key) ==
  [key EXCEPT !.state = "expired", !.digest = FALSE, !.meta = key.expires + Retention]

\* expire_api_key_credentials, hourly.
Expire(k) ==
  /\ ready /\ db.key[k].state = "active"
  /\ db.key[k].expires # Never /\ db.key[k].expires <= clock
  /\ Ends([db EXCEPT !.key[k] = ExpiredKey(@)])
  /\ UNCHANGED creating

\* purge_expired_api_key_metadata, after it.
PurgeMetadata(k) ==
  /\ ready /\ db.key[k].state \in {"expired", "revoked"} /\ ~db.key[k].digest
  /\ db.key[k].meta <= clock
  /\ Ends([db EXCEPT !.key[k] = [NoKey EXCEPT !.state = "purged"]])
  /\ UNCHANGED creating

\* A deletion may have to wait for the creations that are under way, or not.
Apart == Overlap \/ \A r \in Requests : creating[r] = NoCreation

\* Mutant: the selections go and the keys stay.
Unselected(c) ==
  [db EXCEPT !.conn[c] = "deleting",
             !.key = [k \in Keys |-> [db.key[k] EXCEPT !.selected = @ \ {c}]]]

\* Active keys with no connection left are revoked.
Deselected(c) ==
  LET left(k) == [db.key[k] EXCEPT !.selected = @ \ {c}]
  IN [db EXCEPT !.conn[c] = "deleting",
                !.key = [k \in Keys |->
                  IF db.key[k].state = "active" /\ left(k).selected = {}
                  THEN Revoked(left(k)) ELSE left(k)]]

\* finish_whatsapp_connection_deletion, as far as keys are concerned.
DeleteConnection(c) ==
  /\ ready /\ Apart /\ db.conn[c] = "live"
  /\ Ends(Deselected(c))
  /\ UNCHANGED creating

\* The row goes when the purge ends, and the selections with it. An insert that refers to
\* the row holds it until it is committed.
PurgeConnection(c) ==
  /\ ready /\ db.conn[c] = "deleting"
  /\ \A r \in Requests : creating[r].phase = "inserted" => c \notin creating[r].conns
  /\ Ends([db EXCEPT !.conn[c] = "gone",
             !.key = [k \in Keys |-> [db.key[k] EXCEPT !.selected = @ \ {c}]]])
  /\ UNCHANGED creating

\* prepare_personal_account_deletion locks the row of the account.
DeleteAccount ==
  /\ ready /\ Apart /\ Free /\ db.account = "active"
  /\ Ends([db EXCEPT !.account = "deleting",
             !.key = [k \in Keys |->
               IF db.key[k].state = "active" THEN Revoked(db.key[k]) ELSE db.key[k]]])
  /\ UNCHANGED creating

(***************************************************************************)
(* Restore.                                                                *)
(***************************************************************************)
RecoveryPoint ==
  /\ restores < Restores /\ ready /\ saved # db
  /\ saved' = db
  /\ UNCHANGED <<clock, db, ready, creating, calling, restores, ended>>

Restore ==
  /\ restores < Restores
  /\ restores' = restores + 1
  /\ db' = saved
  /\ ready' = FALSE
  /\ creating' = [r \in Requests |-> NoCreation]
  /\ calling' = [q \in Calls |-> NoCall]
  /\ UNCHANGED <<clock, saved, ended>>

\* invalidate_restored_api_keys.
Invalidate(k) ==
  /\ ~ready /\ db.key[k].state = "active"
  /\ Ends([db EXCEPT !.key[k] = Revoked(@)])
  /\ UNCHANGED creating

\* Mutant: keys that could not authenticate any more need no invalidation.
InvalidatedUsable == \A k \in Keys : ~Admits(k) \/ ended[k] # Never

\* complete_restore_replay raises while a key is active or has a digest.
Invalidated == \A k \in Keys : db.key[k].state # "active" /\ ~db.key[k].digest

CompleteReplay ==
  /\ ~ready /\ Invalidated
  /\ ready' = TRUE
  /\ UNCHANGED <<clock, db, saved, creating, calling, restores, ended>>

Next ==
  \/ Tick
  \/ \E r \in Requests :
       \/ \E k \in Keys, n \in Names, S \in SUBSET Connections, e \in Expiries :
            BeginCreate(r, k, n, S, e)
       \/ CreateStep(r) \/ CreateFails(r)
  \/ \E q \in Calls : (\E k \in Keys : Authenticate(q, k)) \/ ReadGrant(q) \/ EndCall(q)
  \/ \E k \in Keys : Revoke(k) \/ Expire(k) \/ PurgeMetadata(k) \/ Invalidate(k)
  \/ \E c \in Connections : DeleteConnection(c) \/ PurgeConnection(c)
  \/ DeleteAccount \/ RecoveryPoint \/ Restore \/ CompleteReplay

Spec == Init /\ [][Next]_vars

\* Transactions end, the crons come again and a replay is repeated until it ends.
Fairness ==
  /\ WF_vars(Tick)
  /\ \A r \in Requests : WF_vars(CreateStep(r) \/ CreateFails(r))
  /\ \A q \in Calls : WF_vars(ReadGrant(q) \/ EndCall(q))
  /\ \A k \in Keys : WF_vars(Expire(k)) /\ WF_vars(PurgeMetadata(k)) /\ WF_vars(Invalidate(k))
  /\ WF_vars(CompleteReplay)

FairSpec == Spec /\ Fairness

-----------------------------------------------------------------------------
(***************************************************************************)
(* What the API Keys of an account promise.                                *)
(***************************************************************************)

States == {"none", "active", "expired", "revoked", "purged"}

DatabaseType ==
  [account : {"active", "deleting"},
   conn : [Connections -> {"live", "deleting", "gone"}],
   key : [Keys -> [state : States, name : Names \cup {"none"}, selected : SUBSET Connections,
                   expires : Expiries \cup {Never}, digest : BOOLEAN, meta : Nat \cup {Never}]]]

\* The variables have their types; only an active key has a digest.
TypeOK ==
  /\ clock \in 0..MaxTime /\ ready \in BOOLEAN /\ restores \in 0..Restores
  /\ db \in DatabaseType /\ saved \in DatabaseType
  /\ creating \in [Requests -> [phase : {"idle", "entered", "locked", "selected", "inserted"},
       key : Keys \cup {"none"}, name : Names \cup {"none"}, conns : SUBSET Connections,
       expires : Expiries \cup {Never}]]
  /\ calling \in [Calls -> [phase : {"idle", "bootstrapped", "granted"},
       key : Keys \cup {"none"}, selected : SUBSET Connections]]
  /\ ended \in [Keys -> Nat \cup {Never}]
  /\ \A k \in Keys : db.key[k].digest <=> db.key[k].state = "active"

\* Creations that run at once do not exceed the number of active keys, and no two active
\* keys have the same name, before and after a restore (createKey counts and compares
\* under the lock of the account; the trigger counts again).
ActiveLimit ==
  /\ Cardinality(Active(db)) <= Limit
  /\ \A k, l \in Active(db) : db.key[k].name = db.key[l].name => k = l

\* A key that was revoked or had expired is never usable again: not by a restore to a time
\* at which it was active either (invalidate_restored_api_keys).
NoRevival == ready => \A k \in Keys : ended[k] # Never => ~Admits(k)

\* A list of keys shows as active what would authenticate at that moment, and nothing
\* else, whether the hourly expiry has run or not (presentationState, bootstrap_api_key).
ShownAsIs ==
  ready /\ db.account = "active" =>
    \A k \in Keys : Presented(db, k, clock) = "active" <=> Admits(k)

\* While the database serves, the end of a key is written once: revoking again, an expiry
\* that comes after a revocation and the deletion of its connections leave it as it is.
EndIsFixed ==
  [][ready /\ ready' => \A k \in Keys :
       db.key[k].state \in {"expired", "revoked"} /\ db'.key[k].state # "purged" =>
         /\ db'.key[k].state = db.key[k].state
         /\ db'.key[k].meta = db.key[k].meta]_vars

\* Metadata of a key stay for the whole retention from the time it ended, although expiry
\* is recorded by a cron that may come late (expire_api_key_credentials).
MetadataKept ==
  \A k \in Keys : db.key[k].state = "purged" =>
    ended[k] # Never /\ clock >= ended[k] + Retention

\* The digest of a key that expires is cleared, and the metadata of a key that has ended
\* are purged when their time has come.
MetadataPurged ==
  \A k \in Keys :
    /\ (db.key[k].expires # Never /\ db.key[k].expires <= MaxTime) ~> ~db.key[k].digest
    /\ (db.key[k].state \in {"expired", "revoked"} /\ db.key[k].meta <= MaxTime)
         ~> db.key[k].state \notin {"expired", "revoked"}

\* A key that has lost its last connection does not stay active (Connection Deletion).
LastConnection ==
  \A k \in Active(db) : \E c \in db.key[k].selected : db.conn[c] = "live"

\* An account under deletion has no active key and no digest (Account Deletion).
AccountKeys ==
  db.account = "deleting" => \A k \in Keys : db.key[k].state # "active" /\ ~db.key[k].digest
=============================================================================
