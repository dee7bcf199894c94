---------------------------- MODULE ApiKeysProofs ----------------------------
(***************************************************************************)
(* What ApiKeys promises, proved for any number of keys, connections,      *)
(* creations at once, restores and any limit.                              *)
(*                                                                         *)
(* The invariant says of the database and of its recovery point that they  *)
(* keep their types, the limit and the names (Sound) and the times of the  *)
(* keys that have ended (Dated); of the creations that at most one is past *)
(* the lock of the account, that what it has inserted still fits, and that *)
(* the key it makes was never seen before (Drawn); and that a database     *)
(* that serves has no active key among those that have ended (Gone).       *)
(***************************************************************************)
EXTENDS ApiKeys, FiniteSetTheorems, TLAPS

KeyType ==
  [state : States, name : Names \cup {"none"}, selected : SUBSET Connections,
   expires : Expiries \cup {Never}, digest : BOOLEAN, meta : Nat \cup {Never}]

CreationType ==
  [phase : {"idle", "entered", "locked", "selected", "inserted"},
   key : Keys \cup {"none"}, name : Names \cup {"none"}, conns : SUBSET Connections,
   expires : Expiries \cup {Never}]

CallType == [phase : {"idle", "bootstrapped", "granted"}, key : Keys \cup {"none"},
             selected : SUBSET Connections]

DatabaseTyped(d) ==
  /\ d \in [account : {"active", "deleting"},
            conn : [Connections -> {"live", "deleting", "gone"}], key : [Keys -> KeyType]]
  /\ \A k \in Keys : d.key[k].digest <=> d.key[k].state = "active"

Types ==
  /\ clock \in 0..MaxTime /\ ready \in BOOLEAN /\ restores \in 0..Restores
  /\ DatabaseTyped(db) /\ DatabaseTyped(saved)
  /\ creating \in [Requests -> CreationType]
  /\ calling \in [Calls -> CallType]
  /\ ended \in [Keys -> Nat \cup {Never}]

\* The number and the names of the active keys of d.
Limited(d) ==
  /\ IsFiniteSet(Active(d)) /\ Cardinality(Active(d)) <= Limit
  /\ \A k, l \in Active(d) : d.key[k].name = d.key[l].name => k = l

Under(r) == creating[r].phase \in {"locked", "selected", "inserted"}

\* One creation is past the lock, and what it has inserted fits.
Serialised ==
  /\ \A r, s \in Requests : Under(r) /\ Under(s) => r = s
  /\ \A r \in Requests : creating[r].phase = "inserted" =>
       /\ Cardinality(Active(db)) < Limit
       /\ \A k \in Active(db) : db.key[k].name # creating[r].name

\* The key of a creation is its own, and nobody has seen it.
Drawn ==
  \A r \in Requests : creating[r] # NoCreation =>
    /\ creating[r].phase # "idle" /\ creating[r].key \in Keys
    /\ db.key[creating[r].key].state = "none" /\ saved.key[creating[r].key].state = "none"
    /\ ended[creating[r].key] = Never
    /\ \A s \in Requests : creating[s] # NoCreation /\ creating[s].key = creating[r].key => s = r

\* The end of a key was recorded, and its metadata stay for the retention.
Dated(d) ==
  \A k \in Keys :
    /\ d.key[k].state \in Ended => ended[k] # Never
    /\ d.key[k].state \in {"expired", "revoked"} => d.key[k].meta >= ended[k] + Retention
    /\ d.key[k].state = "purged" => clock >= ended[k] + Retention

Gone ==
  /\ \A k \in Keys : ended[k] <= clock
  /\ ready => \A k \in Keys : ended[k] # Never => db.key[k].state # "active"

\* A call under way is one of a key.
Called == \A q \in Calls : calling[q].phase # "idle" => calling[q].key \in Keys

IInv ==
  /\ Called /\ Types /\ Limited(db) /\ Limited(saved) /\ Serialised /\ Drawn
  /\ Dated(db) /\ Dated(saved) /\ Gone

USE DEF Never

-----------------------------------------------------------------------------
(* The operators                                                           *)

\* The initial state and the idle creation.
LEMMA InitIInv == Init => IInv
<1> SUFFICES ASSUME Init PROVE IInv OBVIOUS
<1> USE DEF Init
<1>1. DatabaseTyped(db) BY DEF DatabaseTyped, KeyType, NoKey, States
<1>2. Active(db) = {} BY DEF Active, NoKey
<1>3. Limited(db)
  BY <1>2, FS_EmptySet, ApiKeysAssumption DEF Limited, ApiKeysAssumption
<1>8. Called BY DEF Called, NoCall
<1>4. Types
  BY <1>1, ApiKeysAssumption DEF Types, CreationType, CallType, NoCreation, NoCall, ApiKeysAssumption
<1>5. Serialised /\ Drawn BY DEF Serialised, Drawn, Under, NoCreation
<1>6. Dated(db) BY DEF Dated, NoKey, Ended
<1>7. Gone BY <1>4 DEF Gone, Types, NoKey
<1> QED BY <1>1, <1>3, <1>4, <1>5, <1>6, <1>7, <1>8 DEF IInv

\* A key that one Connection is taken from is a key, and otherwise as it was.
Without(x, c) == [x EXCEPT !.selected = @ \ {c}]

LEMMA DeselectedKey ==
  ASSUME NEW x \in KeyType, NEW c
  PROVE  /\ Without(x, c) \in KeyType /\ Without(x, c).state = x.state
         /\ Without(x, c).digest = x.digest /\ Without(x, c).meta = x.meta
         /\ Without(x, c).name = x.name
<1> DEFINE y == [x EXCEPT !.selected = @ \ {c}]
<1>1. y.selected = x.selected \ {c} BY DEF KeyType
<1>2. y.state = x.state /\ y.digest = x.digest /\ y.meta = x.meta /\ y.name = x.name
  BY DEF KeyType
<1>3. y \in KeyType BY <1>1 DEF KeyType
<1> QED BY <1>2, <1>3 DEF Without

\* A database in which one key was written.
LEMMA KeyWritten ==
  ASSUME NEW e, DatabaseTyped(e), NEW k \in Keys, NEW x \in KeyType,
         x.digest <=> x.state = "active"
  PROVE  LET d == [e EXCEPT !.key[k] = x]
         IN /\ DatabaseTyped(d) /\ d.key[k] = x
            /\ \A l \in Keys \ {k} : d.key[l] = e.key[l]
<1> DEFINE f == [e.key EXCEPT ![k] = x]
           d == [e EXCEPT !.key = f]
<1>1. /\ e \in [account : {"active", "deleting"},
               conn : [Connections -> {"live", "deleting", "gone"}], key : [Keys -> KeyType]]
      /\ \A l \in Keys : e.key[l].digest <=> e.key[l].state = "active"
  BY DEF DatabaseTyped
<1>2. f \in [Keys -> KeyType] BY <1>1
<1>3. f[k] = x /\ \A l \in Keys \ {k} : f[l] = e.key[l] BY <1>1
<1>4. d = [e EXCEPT !.key[k] = x] OBVIOUS
<1> HIDE DEF f
<1>5. d.key = f /\ d \in [account : {"active", "deleting"},
               conn : [Connections -> {"live", "deleting", "gone"}], key : [Keys -> KeyType]]
  BY <1>1, <1>2
<1> HIDE DEF d
<1>6. DatabaseTyped(d) BY <1>1, <1>3, <1>5 DEF DatabaseTyped
<1> QED BY <1>3, <1>4, <1>5, <1>6

\* A key that is revoked or has expired is one that has ended and has no digest.
LEMMA RevokedKey ==
  ASSUME NEW x \in KeyType, clock \in Nat
  PROVE  /\ Revoked(x) \in KeyType /\ Revoked(x).state = "revoked" /\ ~Revoked(x).digest
         /\ Revoked(x).meta = clock + Retention /\ Revoked(x).name = x.name
         /\ Revoked(x).expires = x.expires
<1> USE ApiKeysAssumption DEF Revoked, KeyType, States, ApiKeysAssumption
<1>1. Revoked(x) \in KeyType
  <2>1. clock + Retention \in Nat OBVIOUS
  <2> QED BY <2>1
<1>2. /\ Revoked(x).state = "revoked" /\ Revoked(x).digest = FALSE
      /\ Revoked(x).meta = clock + Retention
  OBVIOUS
<1>3. Revoked(x).name = x.name /\ Revoked(x).expires = x.expires OBVIOUS
<1> QED BY <1>1, <1>2, <1>3

LEMMA ExpiredKeyIs ==
  ASSUME NEW x \in KeyType, x.expires # Never
  PROVE  /\ ExpiredKey(x) \in KeyType /\ ExpiredKey(x).state = "expired" /\ ~ExpiredKey(x).digest
         /\ ExpiredKey(x).meta = x.expires + Retention /\ ExpiredKey(x).name = x.name
         /\ ExpiredKey(x).expires = x.expires
<1> USE ApiKeysAssumption DEF ExpiredKey, KeyType, States, ApiKeysAssumption
<1>1. ExpiredKey(x) \in KeyType
  <2>1. x.expires \in Nat \cup {-1} OBVIOUS
  <2>2. x.expires + Retention \in Nat BY <2>1
  <2> QED BY <2>2
<1>2. /\ ExpiredKey(x).state = "expired" /\ ExpiredKey(x).digest = FALSE
      /\ ExpiredKey(x).meta = x.expires + Retention
  OBVIOUS
<1>3. ExpiredKey(x).name = x.name /\ ExpiredKey(x).expires = x.expires OBVIOUS
<1> QED BY <1>1, <1>2, <1>3

\* What an operation that ends keys may do to each of them.
Kept(d, k) ==
  /\ d.key[k].state = db.key[k].state /\ d.key[k].name = db.key[k].name
  /\ d.key[k].meta = db.key[k].meta

RevokedNow(d, k) ==
  /\ db.key[k].state = "active" /\ d.key[k].state = "revoked"
  /\ d.key[k].meta = clock + Retention

HadExpired(d, k) ==
  /\ ready /\ db.key[k].state = "active" /\ d.key[k].state = "expired"
  /\ db.key[k].expires # Never /\ db.key[k].expires <= clock
  /\ d.key[k].meta = db.key[k].expires + Retention

PurgedNow(d, k) ==
  /\ db.key[k].state \in {"expired", "revoked"} /\ db.key[k].meta <= clock
  /\ d.key[k].state = "purged"

Closes(d) ==
  /\ DatabaseTyped(d)
  /\ \A k \in Keys : Kept(d, k) \/ RevokedNow(d, k) \/ HadExpired(d, k) \/ PurgedNow(d, k)

\* Fewer active keys with the names they had keep the limit.
LEMMA LimitedFewer ==
  ASSUME NEW c, NEW d, Limited(c), Limit \in Nat, Active(d) \subseteq Active(c),
         \A k \in Active(d) : d.key[k].name = c.key[k].name
  PROVE  /\ Limited(d) /\ Cardinality(Active(d)) <= Cardinality(Active(c))
         /\ Cardinality(Active(d)) \in Nat /\ Cardinality(Active(c)) \in Nat
<1>1. /\ IsFiniteSet(Active(d)) /\ Cardinality(Active(d)) <= Cardinality(Active(c))
      /\ Cardinality(Active(d)) \in Nat /\ Cardinality(Active(c)) \in Nat
  BY FS_Subset, FS_CardinalityType DEF Limited
<1> QED BY <1>1 DEF Limited

\* An operation that closes keys preserves the invariant.
LEMMA CloseStep ==
  ASSUME IInv, NEW d, Closes(d), Ends(d), UNCHANGED creating
  PROVE  IInv'
<1> USE DEF IInv, Ends, Types
<1>0. clock \in Nat /\ Limit \in Nat /\ Retention \in Nat
  BY ApiKeysAssumption DEF ApiKeysAssumption
<1>1. /\ Active(db') \subseteq Active(db)
      /\ \A k \in Active(db') : db'.key[k].name = db.key[k].name
  BY DEF Active, Closes, Kept, RevokedNow, HadExpired, PurgedNow
<1>2. /\ Limited(db') /\ Cardinality(Active(db')) <= Cardinality(Active(db))
      /\ Cardinality(Active(db')) \in Nat /\ Cardinality(Active(db)) \in Nat
  BY <1>0, <1>1, LimitedFewer
<1>3. \A k \in Keys :
        /\ ended'[k] \in Nat \cup {Never} /\ ended'[k] <= clock
        /\ ended[k] # Never => ended'[k] = ended[k]
        /\ db'.key[k].state \in Ended => ended'[k] # Never
        /\ db'.key[k].state \notin Ended => ended'[k] = ended[k]
  <2> TAKE k \in Keys
  <2>1. db.key[k].expires \in Nat \cup {-1}
    BY ApiKeysAssumption DEF DatabaseTyped, KeyType, ApiKeysAssumption
  <2>2. ended[k] \in Nat \cup {-1} /\ ended[k] <= clock BY DEF Gone
  <2>3. ended'[k] = IF ended[k] = -1 /\ db'.key[k].state \in Ended
                    THEN IF db.key[k].expires # -1 /\ db.key[k].expires <= clock
                         THEN db.key[k].expires ELSE clock
                    ELSE ended[k]
    OBVIOUS
  <2> QED BY <1>0, <2>1, <2>2, <2>3
<1>4. Types'
  BY <1>3 DEF Closes
<1>5. Serialised'
  <2>1. \A r \in Requests : creating[r].phase = "inserted" => Cardinality(Active(db')) < Limit
    BY <1>0, <1>2 DEF Serialised
  <2>2. \A r \in Requests : Under(r)' = Under(r) BY DEF Under
  <2>3. Active(db)' = Active(db') BY DEF Active
  <2> QED BY <1>1, <2>1, <2>2, <2>3 DEF Serialised
<1>6. Drawn'
  BY <1>3 DEF Drawn, Closes, Kept, RevokedNow, HadExpired, PurgedNow, Ended
<1>7. Dated(db)'
  <2> USE DEF Dated
  <2> TAKE k \in Keys
  <2>1. CASE Kept(d, k)
    BY <1>0, <1>3, <2>1 DEF Kept, Dated, Ended
  <2>2. CASE RevokedNow(d, k)
    BY <1>0, <1>3, <2>2 DEF RevokedNow, Ended
  <2>3. CASE HadExpired(d, k)
    <3>1. ended[k] = Never BY <2>3 DEF HadExpired, Gone
    <3>2. ended'[k] = db.key[k].expires BY <2>3, <3>1 DEF HadExpired, Ended
    <3>3. db.key[k].expires \in Nat
      BY <2>3, ApiKeysAssumption DEF HadExpired, DatabaseTyped, KeyType, ApiKeysAssumption
    <3> QED BY <1>0, <1>3, <2>3, <3>2, <3>3 DEF HadExpired, Ended
  <2>4. CASE PurgedNow(d, k)
    <3>1. /\ ended[k] # Never /\ ended[k] \in Nat /\ db.key[k].meta \in Int
          /\ db.key[k].meta >= ended[k] + Retention
      BY <2>4 DEF PurgedNow, Dated, Ended, DatabaseTyped, KeyType
    <3> QED BY <1>0, <1>3, <2>4, <3>1 DEF PurgedNow, Ended
  <2> QED BY <2>1, <2>2, <2>3, <2>4 DEF Closes
<1>8. Dated(saved)' BY <1>3 DEF Dated, Ended
<1>9. Gone'
  BY <1>3 DEF Gone, Closes, Kept, RevokedNow, HadExpired, PurgedNow, Ended
<1>10. Limited(db)' BY <1>2 DEF Limited, Active
<1>11. Limited(saved)' /\ Called' BY DEF Limited, Active, Called
<1> QED BY <1>4, <1>5, <1>6, <1>7, <1>8, <1>9, <1>10, <1>11

-----------------------------------------------------------------------------
(* The operations                                                          *)

\* What a revocation, an expiry, a purge and a deletion leave of the keys.
LEMMA EndingCloses ==
  ASSUME IInv, NEW k \in Keys, Revoke(k) \/ Expire(k) \/ PurgeMetadata(k) \/ Invalidate(k)
  PROVE  \E d : Closes(d) /\ Ends(d) /\ UNCHANGED creating
<1> USE DEF IInv, Types, DatabaseTyped
<1>0. db.key[k] \in KeyType /\ clock \in Nat OBVIOUS
<1>1. PICK x \in KeyType :
        /\ Ends([db EXCEPT !.key[k] = x]) /\ UNCHANGED creating
        /\ x.digest <=> x.state = "active"
        /\ \/ db.key[k].state = "active" /\ x.state = "revoked" /\ x.meta = clock + Retention
           \/ /\ ready /\ db.key[k].state = "active" /\ x.state = "expired"
              /\ db.key[k].expires # Never /\ db.key[k].expires <= clock
              /\ x.meta = db.key[k].expires + Retention
           \/ /\ db.key[k].state \in {"expired", "revoked"} /\ db.key[k].meta <= clock
              /\ x.state = "purged"
  <2>1. CASE Revoke(k) \/ Invalidate(k)
    <3>1. Ends([db EXCEPT !.key[k] = Revoked(db.key[k])]) BY <2>1 DEF Revoke, Invalidate
    <3>2. db.key[k].state = "active" /\ UNCHANGED creating
      BY <2>1 DEF Revoke, Invalidate, Revocable
    <3> QED BY <1>0, <3>1, <3>2, RevokedKey
  <2>2. CASE Expire(k)
    <3>1. Ends([db EXCEPT !.key[k] = ExpiredKey(db.key[k])]) BY <2>2 DEF Expire
    <3> QED BY <1>0, <2>2, <3>1, ExpiredKeyIs DEF Expire
  <2>3. CASE PurgeMetadata(k)
    <3> DEFINE x == [NoKey EXCEPT !.state = "purged"]
    <3>1. x \in KeyType /\ x.digest = FALSE /\ x.state = "purged"
      BY DEF NoKey, KeyType, States
    <3>2. Ends([db EXCEPT !.key[k] = x]) BY <2>3 DEF PurgeMetadata
    <3> HIDE DEF x
    <3> QED BY <2>3, <3>1, <3>2 DEF PurgeMetadata
  <2> QED BY <2>1, <2>2, <2>3
<1> DEFINE d == [db EXCEPT !.key[k] = x]
<1>2. /\ d.key[k] = x /\ \A l \in Keys \ {k} : d.key[l] = db.key[l]
      /\ DatabaseTyped(d)
  <2> HIDE DEF DatabaseTyped
  <2> QED BY <1>1, KeyWritten
<1> HIDE DEF d
<1>3. Closes(d)
  BY <1>1, <1>2 DEF Closes, Kept, RevokedNow, HadExpired, PurgedNow
<1>4. Ends(d) /\ UNCHANGED creating BY <1>1 DEF d
<1> QED BY <1>3, <1>4

\* Nothing of the keys changes: only the transactions of creations and calls do.
LEMMA IdleStep ==
  ASSUME IInv, UNCHANGED <<db, saved, ready, restores, ended, clock>>,
         creating' \in [Requests -> CreationType], calling' \in [Calls -> CallType],
         Called', Serialised', Drawn'
  PROVE  IInv'
BY DEF IInv, Types, Limited, Active, Dated, Gone, DatabaseTyped

\* A creation that fails, or does not pass a check, is gone.
LEMMA EndOfCreation ==
  ASSUME IInv, NEW r \in Requests, Creates(r, NoCreation), UNCHANGED db
  PROVE  IInv'
<1> USE DEF IInv, Types, Creates
<1>1. NoCreation \in CreationType /\ NoCreation.key = "none"
  BY DEF NoCreation, CreationType
<1>2. creating' \in [Requests -> CreationType] BY <1>1
<1>3. \A s \in Requests : creating'[s] # NoCreation => s # r /\ creating'[s] = creating[s]
  OBVIOUS
<1>4. \A s \in Requests : creating'[s].phase # "idle" => s # r /\ creating'[s] = creating[s]
  BY DEF NoCreation
<1>5. Serialised'
  BY <1>4 DEF Serialised, Under, Active
<1>6. Drawn' BY <1>3 DEF Drawn
<1> QED BY <1>2, <1>5, <1>6, IdleStep DEF Called

\* A creation that goes on keeps what it has drawn.
LEMMA CreationGoesOn ==
  ASSUME IInv, NEW r \in Requests, UNCHANGED db, creating[r] # NoCreation,
         NEW p \in {"entered", "locked", "selected", "inserted"},
         Creates(r, [creating[r] EXCEPT !.phase = p]), Serialised'
  PROVE  IInv'
<1> USE DEF IInv, Types, Creates
<1>1. /\ creating' \in [Requests -> CreationType]
      /\ creating'[r].key = creating[r].key /\ creating'[r].phase = p
      /\ \A s \in Requests \ {r} : creating'[s] = creating[s]
  BY DEF CreationType
<1>2. creating'[r].phase # "idle" BY <1>1
<1>3. Drawn' BY <1>1, <1>2 DEF Drawn
<1> QED BY <1>1, <1>3, IdleStep DEF Called

LEMMA BeginStep ==
  ASSUME IInv, NEW r \in Requests, NEW k \in Keys, NEW n \in Names,
         NEW S \in SUBSET Connections, NEW e \in Expiries, BeginCreate(r, k, n, S, e)
  PROVE  IInv'
<1> USE DEF IInv, Types, BeginCreate, Creates
<1> DEFINE t == [phase |-> "entered", key |-> k, name |-> n, conns |-> S, expires |-> e]
<1>1. /\ t \in CreationType /\ t.key = k /\ t.phase = "entered" BY DEF CreationType
<1>2. creating' = [creating EXCEPT ![r] = t] OBVIOUS
<1> HIDE DEF t
<1>3. creating' \in [Requests -> CreationType] BY <1>1, <1>2
<1>4. creating'[r] = t /\ \A s \in Requests \ {r} : creating'[s] = creating[s] BY <1>2
<1>5. Serialised' BY <1>1, <1>4 DEF Serialised, Under, Active
<1>6. Drawn' BY <1>1, <1>4 DEF Drawn, Fresh
<1> QED BY <1>3, <1>5, <1>6, IdleStep DEF Called

LEMMA LockStep ==
  ASSUME IInv, NEW r \in Requests, LockAccount(r) \/ SelectConnections(r)
  PROVE  IInv'
<1> USE DEF IInv, Types
<1>0. creating[r] \in CreationType /\ UNCHANGED db
  BY DEF LockAccount, SelectConnections
<1>1. CASE Creates(r, NoCreation) BY <1>0, <1>1, EndOfCreation
<1>2. ASSUME LockAccount(r), Creates(r, [creating[r] EXCEPT !.phase = "locked"]) PROVE IInv'
  <2>1. creating[r] # NoCreation BY <1>2 DEF LockAccount, NoCreation
  <2>2. \A s \in Requests : ~Under(s) BY <1>2 DEF LockAccount, Free, Locked, Under
  <2>3. /\ creating'[r].phase = "locked"
        /\ \A s \in Requests \ {r} : creating'[s] = creating[s]
    BY <1>0, <1>2 DEF Creates, CreationType
  <2>4. Serialised' BY <2>2, <2>3 DEF Serialised, Under, Active
  <2> QED BY <1>0, <1>2, <2>1, <2>4, CreationGoesOn
<1>3. ASSUME SelectConnections(r), Creates(r, [creating[r] EXCEPT !.phase = "selected"])
      PROVE  IInv'
  <2>1. creating[r] # NoCreation /\ Under(r)
    BY <1>3 DEF SelectConnections, NoCreation, Under
  <2>2. /\ creating'[r].phase = "selected"
        /\ \A s \in Requests \ {r} : creating'[s] = creating[s]
    BY <1>0, <1>3 DEF Creates, CreationType
  <2>3. Serialised' BY <1>0, <2>1, <2>2 DEF Serialised, Under, Active
  <2> QED BY <1>0, <1>3, <2>1, <2>3, CreationGoesOn
<1> QED BY <1>1, <1>2, <1>3 DEF LockAccount, SelectConnections

LEMMA InsertStep ==
  ASSUME IInv, NEW r \in Requests, Insert(r)
  PROVE  IInv'
<1> USE DEF IInv, Types
<1>0. creating[r] \in CreationType /\ UNCHANGED db BY DEF Insert
<1>1. CASE Creates(r, NoCreation) BY <1>0, <1>1, EndOfCreation
<1>2. ASSUME Insertable(creating[r]), Creates(r, [creating[r] EXCEPT !.phase = "inserted"])
      PROVE  IInv'
  <2>1. creating[r] # NoCreation /\ Under(r) BY DEF Insert, NoCreation, Under
  <2>2. /\ creating'[r].phase = "inserted" /\ creating'[r].name = creating[r].name
        /\ \A s \in Requests \ {r} : creating'[s] = creating[s]
    BY <1>0, <1>2 DEF Creates, CreationType
  <2>3. Serialised'
    <3>1. \A s \in Requests \ {r} : ~Under(s)' BY <2>1, <2>2 DEF Serialised, Under
    <3>2. Cardinality(Active(db)) < Limit /\ \A k \in Active(db) : db.key[k].name # creating[r].name
      BY <1>2 DEF Insertable
    <3>3. Active(db)' = Active(db) BY <1>0 DEF Active
    <3> HIDE DEF IInv, Types
    <3> QED BY <1>0, <2>2, <3>1, <3>2, <3>3 DEF Serialised, Under
  <2> QED BY <1>0, <1>2, <2>1, <2>3, CreationGoesOn
<1> QED BY <1>1, <1>2 DEF Insert

\* The key that is committed is the one that was inserted: it fits, and it is new.
LEMMA CommitStep ==
  ASSUME IInv, NEW r \in Requests, CommitCreate(r)
  PROVE  IInv'
<1> USE DEF IInv, Types, Creates
<1> DEFINE t == creating[r]
           x == [state |-> "active", name |-> t.name, selected |-> t.conns,
                 expires |-> t.expires, digest |-> TRUE, meta |-> Never]
<1>0. /\ creating[r] \in CreationType /\ Limit \in Nat
      /\ creating[r].phase = "inserted" /\ creating[r] # NoCreation /\ Under(r)
  BY ApiKeysAssumption DEF CommitCreate, NoCreation, Under, ApiKeysAssumption
<1>1. /\ t.key \in Keys /\ db.key[t.key].state = "none" /\ saved.key[t.key].state = "none"
      /\ ended[t.key] = Never
      /\ \A s \in Requests : creating[s] # NoCreation /\ creating[s].key = t.key => s = r
  BY <1>0 DEF Drawn
<1>2. /\ x \in KeyType /\ x.state = "active" /\ x.digest = TRUE /\ x.name = t.name
  BY <1>0 DEF KeyType, CreationType, States
<1>3. db' = [db EXCEPT !.key[t.key] = x] BY DEF CommitCreate
<1>4. /\ creating' = [creating EXCEPT ![r] = NoCreation]
      /\ UNCHANGED <<clock, saved, ready, calling, restores, ended>>
  BY DEF CommitCreate
<1> HIDE DEF x
<1>5. /\ DatabaseTyped(db') /\ db'.key[t.key] = x
      /\ \A k \in Keys \ {t.key} : db'.key[k] = db.key[k]
  BY <1>1, <1>2, <1>3, KeyWritten
<1>6. creating' \in [Requests -> CreationType]
  BY <1>4 DEF NoCreation, CreationType
<1>7. /\ creating'[r] = NoCreation
      /\ \A s \in Requests \ {r} : creating'[s] = creating[s] /\ ~Under(s)
  BY <1>0, <1>4 DEF Serialised
<1>8. /\ Cardinality(Active(db)) < Limit
      /\ \A k \in Active(db) : db.key[k].name # t.name
  BY <1>0 DEF Serialised
<1>9. Active(db') = Active(db) \cup {t.key} /\ t.key \notin Active(db)
  BY <1>1, <1>2, <1>5 DEF Active
<1>10. IsFiniteSet(Active(db')) /\ Cardinality(Active(db')) <= Limit
  <2>1. /\ IsFiniteSet(Active(db)) /\ Cardinality(Active(db)) \in Nat
    BY FS_CardinalityType DEF Limited
  <2>2. /\ IsFiniteSet(Active(db) \cup {t.key})
        /\ Cardinality(Active(db) \cup {t.key}) = Cardinality(Active(db)) + 1
    BY <1>9, <2>1, FS_AddElement
  <2> QED BY <1>0, <1>8, <1>9, <2>1, <2>2
<1>11. \A k, l \in Active(db') : db'.key[k].name = db'.key[l].name => k = l
  <2> SUFFICES ASSUME NEW k \in Active(db'), NEW l \in Active(db'),
                      db'.key[k].name = db'.key[l].name
               PROVE  k = l
    OBVIOUS
  <2>1. \A m \in Active(db) : m \in Keys \ {t.key} /\ db'.key[m].name = db.key[m].name
    BY <1>5, <1>9 DEF Active
  <2> QED BY <1>2, <1>5, <1>8, <1>9, <2>1 DEF Limited
<1>12. Limited(db)' BY <1>10, <1>11 DEF Limited, Active
<1>13. Serialised' BY <1>7 DEF Serialised, Under, NoCreation
<1>14. Drawn' BY <1>1, <1>4, <1>5, <1>7 DEF Drawn
<1>15. Dated(db)' BY <1>2, <1>4, <1>5 DEF Dated, Ended
<1>16. Gone' BY <1>1, <1>2, <1>4, <1>5 DEF Gone
<1>17. Types' BY <1>4, <1>5, <1>6 DEF DatabaseTyped
<1>18. Limited(saved)' /\ Dated(saved)' /\ Called' BY <1>4 DEF Limited, Active, Dated, Called
<1> QED BY <1>12, <1>13, <1>14, <1>15, <1>16, <1>17, <1>18

\* Deletions take connections from keys and revoke those that have none left.
LEMMA DeletionCloses ==
  ASSUME IInv, (\E c \in Connections : DeleteConnection(c) \/ PurgeConnection(c)) \/ DeleteAccount
  PROVE  \E d : Closes(d) /\ Ends(d) /\ UNCHANGED creating
<1> USE DEF IInv, Types, DatabaseTyped
<1>0. clock \in Nat /\ \A k \in Keys : db.key[k] \in KeyType OBVIOUS
<1>1. ASSUME NEW c \in Connections, DeleteConnection(c) PROVE \E d : Closes(d) /\ Ends(d) /\ UNCHANGED creating
  <2> DEFINE left(k) == [db.key[k] EXCEPT !.selected = @ \ {c}]
             x(k) == IF db.key[k].state = "active" /\ left(k).selected = {}
                     THEN Revoked(left(k)) ELSE left(k)
             d == [db EXCEPT !.conn[c] = "deleting", !.key = [k \in Keys |-> x(k)]]
  <2>1. Ends(d) /\ UNCHANGED creating BY <1>1 DEF DeleteConnection, Deselected
  <2>2. \A k \in Keys :
          /\ left(k) \in KeyType /\ left(k).state = db.key[k].state
          /\ left(k).digest = db.key[k].digest /\ left(k).meta = db.key[k].meta
          /\ left(k).name = db.key[k].name
    <3> HIDE DEF IInv, Types, DatabaseTyped
    <3>1. \A k \in Keys : left(k) = Without(db.key[k], c) BY DEF Without
    <3> QED BY <1>0, <3>1, DeselectedKey
  <2> HIDE DEF left
  <2>3. ASSUME NEW k \in Keys
        PROVE  /\ x(k) \in KeyType /\ (x(k).digest <=> x(k).state = "active")
               /\ \/ /\ x(k).state = db.key[k].state /\ x(k).name = db.key[k].name
                     /\ x(k).meta = db.key[k].meta
                  \/ /\ db.key[k].state = "active" /\ x(k).state = "revoked"
                     /\ x(k).meta = clock + Retention
    <3>1. CASE x(k) = left(k)
      BY <2>2, <3>1
    <3>2. CASE db.key[k].state = "active" /\ x(k) = Revoked(left(k))
      <4> HIDE DEF x
      <4> QED BY <1>0, <2>2, <3>2, RevokedKey
    <3> QED BY <3>1, <3>2
  <2> HIDE DEF x
  <2>4. /\ DatabaseTyped(d) /\ \A k \in Keys : d.key[k] = x(k)
    <3>1. [k \in Keys |-> x(k)] \in [Keys -> KeyType] BY <2>3
    <3>2. d \in [account : {"active", "deleting"},
                conn : [Connections -> {"live", "deleting", "gone"}], key : [Keys -> KeyType]]
      BY <3>1
    <3>3. \A k \in Keys : d.key[k] = x(k) OBVIOUS
    <3> QED BY <2>3, <3>2, <3>3
  <2> HIDE DEF d
  <2>5. Closes(d) BY <2>3, <2>4 DEF Closes, Kept, RevokedNow
  <2> QED BY <2>1, <2>5
<1>2. ASSUME NEW c \in Connections, PurgeConnection(c) PROVE \E d : Closes(d) /\ Ends(d) /\ UNCHANGED creating
  <2> DEFINE x(k) == [db.key[k] EXCEPT !.selected = @ \ {c}]
             d == [db EXCEPT !.conn[c] = "gone", !.key = [k \in Keys |-> x(k)]]
  <2>1. Ends(d) /\ UNCHANGED creating BY <1>2 DEF PurgeConnection
  <2>2. \A k \in Keys :
          /\ x(k) \in KeyType /\ x(k).state = db.key[k].state
          /\ x(k).digest = db.key[k].digest /\ x(k).meta = db.key[k].meta
          /\ x(k).name = db.key[k].name
    <3> HIDE DEF IInv, Types, DatabaseTyped
    <3>1. \A k \in Keys : x(k) = Without(db.key[k], c) BY DEF Without
    <3> QED BY <1>0, <3>1, DeselectedKey
  <2> HIDE DEF x
  <2>3. /\ DatabaseTyped(d) /\ \A k \in Keys : d.key[k] = x(k)
    <3>1. [k \in Keys |-> x(k)] \in [Keys -> KeyType] BY <2>2
    <3>2. d \in [account : {"active", "deleting"},
                conn : [Connections -> {"live", "deleting", "gone"}], key : [Keys -> KeyType]]
      BY <3>1
    <3>3. \A k \in Keys : d.key[k] = x(k) OBVIOUS
    <3>4. \A k \in Keys : db.key[k].digest <=> db.key[k].state = "active" OBVIOUS
    <3> HIDE DEF d, IInv, Types
    <3>5. \A k \in Keys : d.key[k].digest <=> d.key[k].state = "active" BY <2>2, <3>3, <3>4
    <3> QED BY <3>2, <3>3, <3>5
  <2> HIDE DEF d
  <2>4. Closes(d) BY <2>2, <2>3 DEF Closes, Kept
  <2> QED BY <2>1, <2>4
<1>3. ASSUME DeleteAccount PROVE \E d : Closes(d) /\ Ends(d) /\ UNCHANGED creating
  <2> DEFINE x(k) == IF db.key[k].state = "active" THEN Revoked(db.key[k]) ELSE db.key[k]
             d == [db EXCEPT !.account = "deleting", !.key = [k \in Keys |-> x(k)]]
  <2>1. Ends(d) /\ UNCHANGED creating BY <1>3 DEF DeleteAccount
  <2>2. ASSUME NEW k \in Keys
        PROVE  /\ x(k) \in KeyType /\ (x(k).digest <=> x(k).state = "active")
               /\ \/ x(k) = db.key[k]
                  \/ /\ db.key[k].state = "active" /\ x(k).state = "revoked"
                     /\ x(k).meta = clock + Retention
    BY <1>0, RevokedKey
  <2> HIDE DEF x
  <2>3. /\ DatabaseTyped(d) /\ \A k \in Keys : d.key[k] = x(k)
    <3>1. [k \in Keys |-> x(k)] \in [Keys -> KeyType] BY <2>2
    <3>2. d \in [account : {"active", "deleting"},
                conn : [Connections -> {"live", "deleting", "gone"}], key : [Keys -> KeyType]]
      BY <3>1
    <3>3. \A k \in Keys : d.key[k] = x(k) OBVIOUS
    <3> QED BY <2>2, <3>2, <3>3
  <2> HIDE DEF d
  <2>4. Closes(d) BY <2>2, <2>3 DEF Closes, Kept, RevokedNow
  <2> QED BY <2>1, <2>4
<1> QED BY <1>1, <1>2, <1>3

\* The clock, the calls, the recovery point, a restore and its replay.
LEMMA WorldStep ==
  ASSUME IInv, \/ Tick \/ RecoveryPoint \/ Restore \/ CompleteReplay
               \/ \E q \in Calls : (\E k \in Keys : Authenticate(q, k)) \/ ReadGrant(q) \/ EndCall(q)
  PROVE  IInv'
<1> USE DEF IInv, Types
<1>0. clock \in Nat /\ Retention \in Nat /\ MaxTime \in Nat /\ Restores \in Nat
  BY ApiKeysAssumption DEF ApiKeysAssumption
<1>1. CASE Tick
  <2>1. clock' = clock + 1 /\ UNCHANGED <<db, saved, ready, creating, calling, restores, ended>>
    BY <1>1 DEF Tick
  <2>2. Types' BY <1>0, <1>1, <2>1 DEF Tick, DatabaseTyped
  <2>3. Dated(db)' /\ Dated(saved)' BY <1>0, <2>1 DEF Dated, Ended
  <2>4. Gone' BY <1>0, <2>1 DEF Gone
  <2>5. Limited(db)' /\ Limited(saved)' /\ Serialised' /\ Drawn' /\ Called'
    BY <2>1 DEF Limited, Active, Serialised, Under, Drawn, Called
  <2> QED BY <2>2, <2>3, <2>4, <2>5
<1>2. CASE RecoveryPoint
  <2>1. saved' = db /\ UNCHANGED <<clock, db, ready, creating, calling, restores, ended>>
    BY <1>2 DEF RecoveryPoint
  <2>2. Types' BY <2>1 DEF DatabaseTyped
  <2>3. Limited(db)' /\ Limited(saved)' BY <2>1 DEF Limited, Active
  <2>4. Serialised' /\ Drawn' /\ Called' BY <2>1 DEF Serialised, Under, Active, Drawn, Called
  <2>5. Dated(db)' /\ Dated(saved)' /\ Gone' BY <2>1 DEF Dated, Gone
  <2> QED BY <2>2, <2>3, <2>4, <2>5
<1>3. CASE Restore
  <2>1. /\ db' = saved /\ ready' = FALSE /\ restores' \in 0..Restores
        /\ UNCHANGED <<clock, saved, ended>>
        /\ creating' = [r \in Requests |-> NoCreation] /\ calling' = [q \in Calls |-> NoCall]
    BY <1>0, <1>3 DEF Restore
  <2>2. creating' \in [Requests -> CreationType] /\ calling' \in [Calls -> CallType]
    BY <2>1 DEF NoCreation, NoCall, CreationType, CallType
  <2>3. Types' BY <2>1, <2>2 DEF DatabaseTyped
  <2>4. Serialised' /\ Drawn' /\ Called'
    BY <2>1 DEF Serialised, Under, Drawn, NoCreation, Called, NoCall
  <2>5. Limited(db)' /\ Limited(saved)' BY <2>1 DEF Limited, Active
  <2>6. Dated(db)' /\ Dated(saved)' /\ Gone' BY <2>1 DEF Dated, Gone
  <2> QED BY <2>3, <2>4, <2>5, <2>6
<1>4. CASE CompleteReplay
  <2>1. /\ ready' = TRUE /\ UNCHANGED <<clock, db, saved, creating, calling, restores, ended>>
        /\ \A k \in Keys : db.key[k].state # "active"
    BY <1>4 DEF CompleteReplay, Invalidated
  <2>2. Types' BY <2>1 DEF DatabaseTyped
  <2>3. Gone' BY <2>1 DEF Gone
  <2>4. /\ Limited(db)' /\ Limited(saved)' /\ Serialised' /\ Drawn' /\ Dated(db)' /\ Dated(saved)'
        /\ Called'
    BY <2>1 DEF Limited, Active, Serialised, Under, Drawn, Dated, Called
  <2> QED BY <2>2, <2>3, <2>4
<1>5. ASSUME NEW q \in Calls,
             (\E k \in Keys : Authenticate(q, k)) \/ ReadGrant(q) \/ EndCall(q)
      PROVE  IInv'
  <2>1. UNCHANGED <<clock, db, saved, ready, creating, restores, ended>>
    BY <1>5 DEF Authenticate, ReadGrant, EndCall
  <2>2. PICK c \in CallType : /\ calling' = [calling EXCEPT ![q] = c]
                              /\ (c.phase # "idle" => c.key \in Keys)
    <3>1. NoCall \in CallType /\ NoCall.phase = "idle" BY DEF NoCall, CallType
    <3>2. ASSUME NEW k \in Keys, Authenticate(q, k)
          PROVE  \E c \in CallType : /\ calling' = [calling EXCEPT ![q] = c]
                                    /\ (c.phase # "idle" => c.key \in Keys)
      <4> DEFINE c == [NoCall EXCEPT !.phase = "bootstrapped", !.key = k]
      <4>1. c \in CallType /\ c.key = k BY DEF NoCall, CallType
      <4>2. calling' = [calling EXCEPT ![q] = c] BY <3>2 DEF Authenticate
      <4> HIDE DEF c
      <4> QED BY <4>1, <4>2
    <3>3. CASE ReadGrant(q)
      <4> DEFINE k == calling[q].key
                 c == [calling[q] EXCEPT !.phase = "granted", !.selected = db.key[k].selected]
      <4>1. k \in Keys /\ calling[q] \in CallType BY <3>3 DEF ReadGrant, Called
      <4>2. db.key[k].selected \in SUBSET Connections BY <4>1 DEF DatabaseTyped, KeyType
      <4>3. c \in CallType /\ c.key = k BY <4>1, <4>2 DEF CallType
      <4>4. calling' = [calling EXCEPT ![q] = c] \/ calling' = [calling EXCEPT ![q] = NoCall]
        BY <3>3 DEF ReadGrant
      <4> HIDE DEF c
      <4>5. CASE calling' = [calling EXCEPT ![q] = c] BY <4>1, <4>3, <4>5
      <4>6. CASE calling' = [calling EXCEPT ![q] = NoCall] BY <3>1, <4>6
      <4> QED BY <4>4, <4>5, <4>6
    <3>4. CASE EndCall(q) BY <3>1, <3>4 DEF EndCall
    <3> QED BY <1>5, <3>2, <3>3, <3>4
  <2>3. calling' \in [Calls -> CallType] /\ Called' BY <2>2 DEF Called
  <2>4. Serialised' /\ Drawn' BY <2>1 DEF Serialised, Under, Active, Drawn
  <2> QED BY <2>1, <2>3, <2>4, IdleStep
<1> QED BY <1>1, <1>2, <1>3, <1>4, <1>5

LEMMA ClosingStep ==
  ASSUME IInv,
         \/ \E k \in Keys : Revoke(k) \/ Expire(k) \/ PurgeMetadata(k) \/ Invalidate(k)
         \/ \E c \in Connections : DeleteConnection(c) \/ PurgeConnection(c)
         \/ DeleteAccount
  PROVE  \E d : Closes(d) /\ Ends(d) /\ UNCHANGED creating
BY EndingCloses, DeletionCloses

LEMMA NextStep == ASSUME IInv, [Next]_vars PROVE IInv'
<1>1. ASSUME NEW r \in Requests, CreateFails(r) PROVE IInv'
  BY <1>1, EndOfCreation DEF CreateFails
<1>2. CASE UNCHANGED vars
  <2>1. Serialised' /\ Drawn' /\ Called'
    BY <1>2 DEF vars, IInv, Serialised, Under, Active, Drawn, Called
  <2> QED BY <1>2, <2>1, IdleStep DEF vars, IInv, Types
<1>3. ASSUME NEW r \in Requests, CreateStep(r) PROVE IInv'
  BY <1>3, LockStep, InsertStep, CommitStep DEF CreateStep
<1>4. CASE Next
  BY <1>1, <1>3, <1>4, BeginStep, ClosingStep, CloseStep, WorldStep DEF Next
<1> QED BY <1>2, <1>4

LEMMA Invariance == Spec => []IInv
<1>1. IInv /\ [Next]_vars => IInv' BY NextStep
<1> QED BY InitIInv, <1>1, PTL DEF Spec

-----------------------------------------------------------------------------
(* The theorems                                                            *)

\* The variables keep their types, and only an active key has a digest.
THEOREM TypeCorrectness == Spec => []TypeOK
<1>1. IInv => TypeOK
  BY DEF IInv, Types, TypeOK, DatabaseTyped, DatabaseType, KeyType, CreationType, CallType
<1> QED BY <1>1, Invariance, PTL

\* Whatever number of creations run at once, with deletions and restores between their
\* statements, the active keys stay within the limit and have different names.
THEOREM ActiveLimitHolds == Spec => []ActiveLimit
<1>1. IInv => ActiveLimit BY DEF IInv, Limited, ActiveLimit
<1> QED BY <1>1, Invariance, PTL

\* No restore, to whatever time, makes a key usable that was revoked or had expired.
THEOREM NoRevivalHolds == Spec => []NoRevival
<1>1. IInv => NoRevival BY DEF IInv, Gone, NoRevival, Admits
<1> QED BY <1>1, Invariance, PTL

\* A list shows as active exactly the keys that would authenticate.
THEOREM ShownAsIsHolds == Spec => []ShownAsIs
<1>1. IInv => ShownAsIs
  <2> SUFFICES ASSUME IInv, db.account = "active", NEW k \in Keys
               PROVE  Presented(db, k, clock) = "active" <=> Admits(k)
    BY DEF ShownAsIs
  <2>1. db.key[k].digest <=> db.key[k].state = "active"
    BY DEF IInv, Types, DatabaseTyped
  <2>2. clock \in Nat /\ db.key[k] \in KeyType BY DEF IInv, Types, DatabaseTyped
  <2>3. db.key[k].expires \in Nat \cup {-1}
    BY <2>2, ApiKeysAssumption DEF KeyType, ApiKeysAssumption
  <2> QED BY <2>1, <2>2, <2>3 DEF Presented, Admits
<1> QED BY <1>1, Invariance, PTL

\* The metadata of a key stay for the whole retention from its end, although the expiry is
\* recorded late, or a restore comes between the end and the purge.
THEOREM MetadataKeptHolds == Spec => []MetadataKept
<1>1. IInv => MetadataKept BY DEF IInv, Dated, Ended, MetadataKept
<1> QED BY <1>1, Invariance, PTL

\* The end of a key is written once while the database serves.
THEOREM EndIsFixedHolds == Spec => EndIsFixed
<1> DEFINE Fixed == ready /\ ready' => \A k \in Keys :
              db.key[k].state \in {"expired", "revoked"} /\ db'.key[k].state # "purged" =>
                /\ db'.key[k].state = db.key[k].state
                /\ db'.key[k].meta = db.key[k].meta
<1>1. ASSUME IInv, Next PROVE Fixed
  <2>1. CASE UNCHANGED db BY <2>1
  <2>2. ASSUME NEW d, Closes(d), Ends(d) PROVE Fixed
    BY <2>2 DEF Closes, Ends, Kept, RevokedNow, HadExpired, PurgedNow
  <2>3. ASSUME NEW r \in Requests, CommitCreate(r) PROVE Fixed
    <3>1. creating[r] # NoCreation BY <2>3 DEF CommitCreate, NoCreation
    <3>2. db.key[creating[r].key].state = "none" BY <1>1, <3>1 DEF IInv, Drawn
    <3>3. \A k \in Keys \ {creating[r].key} : db'.key[k] = db.key[k]
      BY <1>1, <2>3 DEF CommitCreate, IInv, Types, DatabaseTyped
    <3> QED BY <3>2, <3>3
  <2>4. CASE Restore BY <2>4 DEF Restore
  <2>5. ASSUME NEW r \in Requests, CreateStep(r), ~CommitCreate(r) PROVE UNCHANGED db
    BY <2>5 DEF CreateStep, LockAccount, SelectConnections, Insert
  <2>6. CASE \E q \in Calls : (\E k \in Keys : Authenticate(q, k)) \/ ReadGrant(q) \/ EndCall(q)
    BY <2>6, <2>1 DEF Authenticate, ReadGrant, EndCall
  <2>7. CASE Tick \/ RecoveryPoint \/ CompleteReplay
    BY <2>7, <2>1 DEF Tick, RecoveryPoint, CompleteReplay
  <2>8. ASSUME NEW r \in Requests,
               \/ \E k \in Keys, n \in Names, S \in SUBSET Connections, e \in Expiries :
                    BeginCreate(r, k, n, S, e)
               \/ CreateFails(r)
        PROVE  UNCHANGED db
    BY <2>8 DEF BeginCreate, CreateFails
  <2> HIDE DEF Fixed
  <2> QED BY <1>1, <2>1, <2>2, <2>3, <2>4, <2>5, <2>6, <2>7, <2>8, ClosingStep DEF Next
<1>2. IInv /\ [Next]_vars => [Fixed]_vars BY <1>1
<1> QED BY <1>2, Invariance, PTL DEF Spec, EndIsFixed
=============================================================================
