--------------------------- MODULE DeletionProofs ---------------------------
(***************************************************************************)
(* Proofs about Deletion, for every set of Connections and of requests,    *)
(* however many restores, failures and faults there are:                   *)
(*                                                                         *)
(*   NoResurrectionHolds   a Connection whose deletion was answered is     *)
(*                         never served again                              *)
(*   ReservedHolds         a number stays reserved while the provider may  *)
(*                         have a session for it                           *)
(*   CleanupPossibleHolds  the session of a Connection that has lost its   *)
(*                         keys can still be found                         *)
(*                                                                         *)
(* and, at the end, about RecoveryGate (OneRunHolds, RememberedHolds and   *)
(* StartedExistsHolds) and RecoveryDrill (DrillEarnsEvidence and           *)
(* DrillKeepsItsBranch).                                                   *)
(*                                                                         *)
(* The invariant says what the live database and the recovery point have   *)
(* in common (Sound), because a restore puts one in the place of the       *)
(* other: what a row of either says about a Connection is witnessed by the *)
(* marker, the capsule and the session, which no restore takes back.       *)
(***************************************************************************)
EXTENDS Deletion, FiniteSetTheorems, TLAPS

-----------------------------------------------------------------------------
Accounts == [state : {"active", "deleting", "gone"}, requested : Nat \cup {Never},
             marker : BOOLEAN, key : BOOLEAN]

Rows == [state : {"live", "deleting", "gone"}, requested : Int, absence : Int, key : BOOLEAN]

Databases ==
  [account : Accounts, conn : [Connections -> Rows], setups : SUBSET Connections,
   object : [Connections -> {"none", "pending", "ready", "purging"}],
   source : SUBSET Connections, used : Int, intents : SUBSET Connections,
   handles : SUBSET Connections, continuations : SUBSET Connections,
   removals : SUBSET AllRemovals, ready : BOOLEAN, audited : BOOLEAN]

Asking == {"prepared", "marked", "sealed"}

Askings == [phase : Asking \cup {"idle", "complete", "account_prepared", "account"},
          kind : {"none", "connection", "account"}, conn : Connections \cup {"none"},
          todo : SUBSET Connections, at : Int]

Jobs == [phase : {"idle", "scheduled", "read", "absent", "confirmed"}, at : Int,
         todo : {{}}, removed : {{}}]

Purging == [phase : {"idle", "begun", "purging"}, at : Int,
            todo : SUBSET Objects, removed : SUBSET Objects]

Replaying == [phase : {"idle", "deleting", "draining"}, todo : SUBSET Connections,
              markers : SUBSET Connections, removed : SUBSET AllRemovals]

Types ==
  /\ clock \in Nat
  /\ db \in Databases /\ saved \in Databases
  /\ marker \in [account : Int, conn : [Connections -> Int]]
  /\ capsule \in [Connections -> {"none", "kept", "destroyed"}]
  /\ session \in SUBSET Connections /\ acked \in SUBSET Connections
  /\ request \in [Requests -> Askings]
  /\ job \in [Connections -> Jobs] /\ purge \in [Connections -> Purging]
  /\ replay \in Replaying

(***************************************************************************)
(* What the rows of a database d say, beside the markers m, the capsules k *)
(* and the sessions s.                                                     *)
(***************************************************************************)

\* The provider's session of c is gone, or its capsule is there to find it by.
Findable(c, k, s) == c \notin s \/ k[c] = "kept"

Sound(d, m, k, s) ==
  /\ s \subseteq d.setups
  /\ \A c \in Connections :
       /\ d.conn[c].state # "live" => ~d.conn[c].key /\ m[c] # Never
       /\ d.conn[c].state = "deleting" => Findable(c, k, s)
       /\ d.conn[c].state = "gone" => c \notin s \/ c \in d.continuations
       /\ d.conn[c].absence # Never => c \notin s

\* Only a branch that is ready has requests, and they have done what their phase says.
Fits(q, d, m, k, s) ==
  /\ ~d.ready => q = NoRequest
  /\ q.phase \in Asking \cup {"complete"} => q.conn \in Connections
  /\ q.phase \in Asking \/ q.kind = "account" => q.at \in Nat
  /\ q.phase \in {"marked", "sealed"} => m[q.conn] # Never
  /\ q.phase = "sealed" => Findable(q.conn, k, s)
  /\ q.phase = "complete" => d.conn[q.conn].state # "live"

Asked == \A r \in Requests : Fits(request[r], db, marker.conn, capsule, session)

\* A coordinator that goes on after an observation, and a purge, have no session before them.
Worked ==
  \A c \in Connections :
    job[c].phase \in {"absent", "confirmed"} \/ purge[c].phase # "idle" => c \notin session

\* What was answered has a marker; a replay has them all, and leaves none it has passed.
Dead(c) == db.conn[c].state # "live"

Answered ==
  /\ \A c \in acked : marker.conn[c] # Never
  /\ db.ready => replay.phase = "idle" /\ \A c \in acked : Dead(c)
  /\ replay.phase # "idle" =>
       /\ \A c \in replay.markers : marker.conn[c] # Never
       /\ \A c \in acked : c \in replay.markers /\ (c \notin replay.todo => Dead(c))
  /\ replay.phase = "draining" => replay.todo = {}

IInv ==
  /\ Types
  /\ Sound(db, marker.conn, capsule, session) /\ Sound(saved, marker.conn, capsule, session)
  /\ saved.ready
  /\ Asked /\ Worked /\ Answered

-----------------------------------------------------------------------------
(***************************************************************************)
(* What the operations on a database do to its Connections.  Like says     *)
(* that they do nothing: their rows, their Setups, their continuations and *)
(* the readiness stay.                                                     *)
(***************************************************************************)
Like(d, e) ==
  /\ e.conn = d.conn /\ e.setups = d.setups
  /\ e.continuations = d.continuations /\ e.ready = d.ready

\* A database that is like a sound one is sound.
LEMMA LikeSound ==
  ASSUME NEW d, NEW e, NEW m, NEW k, NEW s, Like(d, e), Sound(d, m, k, s)
  PROVE  Sound(e, m, k, s)
BY DEF Like, Sound, Findable

\* A database is the record of its tables.
Whole(d) ==
  [account |-> d.account, conn |-> d.conn, setups |-> d.setups, object |-> d.object,
   source |-> d.source, used |-> d.used, intents |-> d.intents, handles |-> d.handles,
   continuations |-> d.continuations, removals |-> d.removals, ready |-> d.ready,
   audited |-> d.audited]

LEMMA WholeIsAll ==
  ASSUME NEW d \in Databases
  PROVE  d = Whole(d) /\ \A c \in Connections : d.conn[c] \in Rows
<1>1. d = Whole(d) /\ d.conn \in [Connections -> Rows]
  BY DEF Databases, Whole
<1> QED
  BY <1>1

\* The two changes of a row that make its key unavailable.
LEMMA RowDeleting ==
  ASSUME NEW x \in Rows, NEW at \in Int
  PROVE  [x EXCEPT !.state = "deleting", !.requested = at, !.key = FALSE]
           = [state |-> "deleting", requested |-> at, absence |-> x.absence, key |-> FALSE]
<1> DEFINE y == [x EXCEPT !.state = "deleting", !.requested = at, !.key = FALSE]
<1>1. /\ y \in Rows /\ y.state = "deleting" /\ y.requested = at
      /\ y.absence = x.absence /\ ~y.key
  BY DEF Rows
<1> HIDE DEF y
<1>2. y = [state |-> y.state, requested |-> y.requested, absence |-> y.absence, key |-> y.key]
  BY <1>1 DEF Rows
<1>3. y.key = FALSE
  BY <1>1 DEF Rows
<1> QED
  BY <1>1, <1>2, <1>3 DEF y

LEMMA RowGone ==
  ASSUME NEW x \in Rows
  PROVE  [[x EXCEPT !.state = "gone"] EXCEPT !.key = FALSE]
           = [state |-> "gone", requested |-> x.requested, absence |-> x.absence, key |-> FALSE]
<1> DEFINE y == [[x EXCEPT !.state = "gone"] EXCEPT !.key = FALSE]
<1>1. /\ y \in Rows /\ y.state = "gone" /\ y.requested = x.requested
      /\ y.absence = x.absence /\ ~y.key
  BY DEF Rows
<1> HIDE DEF y
<1>2. y = [state |-> y.state, requested |-> y.requested, absence |-> y.absence, key |-> y.key]
  BY <1>1 DEF Rows
<1>3. y.key = FALSE
  BY <1>1 DEF Rows
<1> QED
  BY <1>1, <1>2, <1>3 DEF y

\* The deletion of c changes its row alone.
LEMMA DeletingConn ==
  ASSUME NEW d \in Databases, NEW c \in Connections, NEW at \in Int
  PROVE  /\ Deleting(d, c, at) \in Databases
         /\ Deleting(d, c, at).conn =
              [d.conn EXCEPT ![c] = [state |-> "deleting", requested |-> at,
                                     absence |-> d.conn[c].absence, key |-> FALSE]]
         /\ Deleting(d, c, at).setups = d.setups
         /\ Deleting(d, c, at).continuations = d.continuations
         /\ Deleting(d, c, at).ready = d.ready
<1> DEFINE file == c \in Files /\ d.object[c] = "ready"
           row == [state |-> "deleting", requested |-> at,
                   absence |-> d.conn[c].absence, key |-> FALSE]
           object == [d.object EXCEPT ![c] = IF file THEN "purging" ELSE d.object[c]]
           intents == IF file THEN d.intents \cup {c} ELSE d.intents
           e == [account |-> d.account, conn |-> [d.conn EXCEPT ![c] = row],
                 setups |-> d.setups, object |-> object, source |-> d.source,
                 used |-> d.used, intents |-> intents, handles |-> d.handles,
                 continuations |-> d.continuations, removals |-> d.removals,
                 ready |-> d.ready, audited |-> d.audited]
<1>0. d = Whole(d) /\ d.conn[c] \in Rows
  BY WholeIsAll
<1>1. row = [d.conn[c] EXCEPT !.state = "deleting", !.requested = at, !.key = FALSE]
  BY <1>0, RowDeleting
<1>2. Deleting(d, c, at) = e
  <2>1. Deleting(d, c, at) =
          [d EXCEPT !.conn = [d.conn EXCEPT ![c] = row], !.object = object, !.intents = intents]
    BY <1>0, <1>1 DEF Deleting, Whole
  <2> HIDE DEF row, object, intents
  <2> QED
    BY <1>0, <2>1 DEF Whole
<1>3. row \in Rows /\ object \in [Connections -> {"none", "pending", "ready", "purging"}]
      /\ intents \in SUBSET Connections
  BY DEF Databases, Rows
<1>4. e \in Databases
  BY <1>3 DEF Databases
<1> QED
  BY <1>2, <1>4

\* The end of the purge of c.
LEMMA CleanedConn ==
  ASSUME NEW d \in Databases, NEW c \in Connections
  PROVE  /\ Cleaned(d, c) \in Databases
         /\ Cleaned(d, c).conn =
              [d.conn EXCEPT ![c] = [state |-> "gone", requested |-> d.conn[c].requested,
                                     absence |-> d.conn[c].absence, key |-> d.conn[c].key]]
         /\ Cleaned(d, c).setups = d.setups \ {c}
         /\ Cleaned(d, c).continuations = d.continuations
         /\ Cleaned(d, c).ready = d.ready
<1> DEFINE row == [state |-> "gone", requested |-> d.conn[c].requested,
                   absence |-> d.conn[c].absence, key |-> d.conn[c].key]
           object == [d.object EXCEPT ![c] = "none"]
           e == [account |-> d.account, conn |-> [d.conn EXCEPT ![c] = row],
                 setups |-> d.setups \ {c}, object |-> object, source |-> d.source,
                 used |-> d.used, intents |-> d.intents, handles |-> d.handles \cup {c},
                 continuations |-> d.continuations, removals |-> d.removals,
                 ready |-> d.ready, audited |-> d.audited]
<1>1. row = [d.conn[c] EXCEPT !.state = "gone"]
  BY DEF Databases, Rows
<1>2. Cleaned(d, c) = e
  <2>0. d = Whole(d)
    BY WholeIsAll
  <2>1. Cleaned(d, c) =
          [d EXCEPT !.conn = [d.conn EXCEPT ![c] = row], !.handles = d.handles \cup {c},
                    !.setups = d.setups \ {c}, !.object = object]
    BY <1>1, <2>0 DEF Cleaned, Whole
  <2> HIDE DEF row, object
  <2> QED
    BY <2>0, <2>1 DEF Whole
<1>3. row \in Rows /\ object \in [Connections -> {"none", "pending", "ready", "purging"}]
  BY DEF Databases, Rows
<1>4. e \in Databases
  BY <1>3 DEF Databases
<1> QED
  BY <1>2, <1>4

\* What a replay removes are removals.
LEMMA RemovalsTyped ==
  ASSUME NEW d \in Databases, NEW S \in SUBSET Connections
  PROVE  Removals(d, S) \in SUBSET AllRemovals
BY DEF Removals, AllRemovals, Removal, Databases

\* The files of sends go before their rows do, and no Connection is touched.
LEMMA FilesGoneLike ==
  ASSUME NEW d \in Databases, NEW S \in SUBSET Connections
  PROVE  FilesGone(d, S) \in Databases /\ Like(d, FilesGone(d, S))
         /\ FilesGone(d, S).account = d.account
<1> DEFINE object == [c \in Connections |-> IF c \in S \cap Files THEN "none" ELSE d.object[c]]
           intents == d.intents \ {c \in S \cap Files : d.object[c] # "none"}
           removals == d.removals \cup Removals(d, S)
           e == [account |-> d.account, conn |-> d.conn,
                 setups |-> d.setups, object |-> object, source |-> d.source,
                 used |-> d.used, intents |-> intents, handles |-> d.handles,
                 continuations |-> d.continuations, removals |-> removals,
                 ready |-> d.ready, audited |-> d.audited]
<1>1. FilesGone(d, S) = e
  <2>0. d = Whole(d)
    BY WholeIsAll
  <2>1. FilesGone(d, S) = [d EXCEPT !.object = object, !.intents = intents, !.removals = removals]
    BY <2>0 DEF FilesGone, Whole
  <2> HIDE DEF object, intents, removals
  <2> QED
    BY <2>0, <2>1 DEF Whole
<1>2. object \in [Connections -> {"none", "pending", "ready", "purging"}]
      /\ intents \in SUBSET Connections /\ removals \in SUBSET AllRemovals
  BY RemovalsTyped DEF Databases
<1>3. e \in Databases
  BY <1>2 DEF Databases
<1> QED
  BY <1>1, <1>3 DEF Like

\* The replay of the deletion of c.
LEMMA ReplayedConn ==
  ASSUME NEW d \in Databases, NEW c \in Connections
  PROVE  /\ Replayed(d, c) \in Databases
         /\ Replayed(d, c).conn =
              [d.conn EXCEPT ![c] = [state |-> "gone", requested |-> d.conn[c].requested,
                                     absence |-> d.conn[c].absence, key |-> FALSE]]
         /\ Replayed(d, c).setups = d.setups
         /\ Replayed(d, c).continuations =
              IF c \in d.setups THEN d.continuations \cup {c} ELSE d.continuations
         /\ Replayed(d, c).ready = d.ready
<1> DEFINE f == FilesGone(d, {c})
<1>0. f \in Databases /\ Like(d, f)
  BY FilesGoneLike
<1>1. Replayed(d, c) =
        [f EXCEPT !.conn[c].state = "gone", !.conn[c].key = FALSE,
           !.object[c] = "none", !.source = @ \ {c}, !.handles = @ \cup {c},
           !.continuations = IF c \in d.setups THEN @ \cup {c} ELSE @]
  BY DEF Replayed
<1> HIDE DEF f
<1> DEFINE row == [state |-> "gone", requested |-> f.conn[c].requested,
                   absence |-> f.conn[c].absence, key |-> FALSE]
           object == [f.object EXCEPT ![c] = "none"]
           continuations == IF c \in d.setups THEN f.continuations \cup {c} ELSE f.continuations
           e == [account |-> f.account, conn |-> [f.conn EXCEPT ![c] = row],
                 setups |-> f.setups, object |-> object, source |-> f.source \ {c},
                 used |-> f.used, intents |-> f.intents, handles |-> f.handles \cup {c},
                 continuations |-> continuations, removals |-> f.removals,
                 ready |-> f.ready, audited |-> f.audited]
<1>2. row = [[f.conn[c] EXCEPT !.state = "gone"] EXCEPT !.key = FALSE]
  BY <1>0, WholeIsAll, RowGone
<1>3. Replayed(d, c) = e
  <2>0. f = Whole(f)
    BY <1>0, WholeIsAll
  <2>1. Replayed(d, c) =
          [f EXCEPT !.conn = [f.conn EXCEPT ![c] = row], !.object = object,
                    !.source = f.source \ {c}, !.handles = f.handles \cup {c},
                    !.continuations = continuations]
    <3>1. [f EXCEPT !.conn[c].state = "gone", !.conn[c].key = FALSE]
            = [f EXCEPT !.conn = [f.conn EXCEPT ![c] = row]]
      BY <1>0, <1>2, <2>0 DEF Whole, Databases
    <3> QED
      BY <1>1, <3>1, <2>0 DEF Whole
  <2> HIDE DEF row, object, continuations
  <2> QED
    BY <2>0, <2>1 DEF Whole
<1>4. row \in Rows /\ object \in [Connections -> {"none", "pending", "ready", "purging"}]
      /\ continuations \in SUBSET Connections
  BY <1>0 DEF Databases, Rows
<1>5. e \in Databases
  BY <1>0, <1>4 DEF Databases
<1> QED
  BY <1>0, <1>3, <1>5 DEF Like

-----------------------------------------------------------------------------
(***************************************************************************)
(* Which of them leave a sound database, and when.                         *)
(***************************************************************************)
LEMMA DeletingSound ==
  ASSUME NEW d \in Databases, NEW c \in Connections, NEW at \in Int,
         NEW m, NEW k, NEW s, Sound(d, m, k, s), m[c] # Never, Findable(c, k, s)
  PROVE  Sound(Deleting(d, c, at), m, k, s)
<1> DEFINE e == Deleting(d, c, at)
           row == [state |-> "deleting", requested |-> at,
                   absence |-> d.conn[c].absence, key |-> FALSE]
<1>1. row.state = "deleting" /\ ~row.key /\ row.absence = d.conn[c].absence
  OBVIOUS
<1>2. e \in Databases /\ e.conn = [d.conn EXCEPT ![c] = row]
  BY DeletingConn
<1> HIDE DEF row
<1>3. /\ e.conn[c] = row /\ d.conn \in [Connections -> Rows] /\ e.conn \in [Connections -> Rows]
      /\ \A x \in Connections : x # c => e.conn[x] = d.conn[x]
  BY <1>2 DEF Databases
<1>4. /\ d.conn \in [Connections -> Rows] /\ e.conn \in [Connections -> Rows]
      /\ e.setups = d.setups /\ e.continuations = d.continuations
      /\ \A x \in Connections : x # c => e.conn[x] = d.conn[x]
      /\ e.conn[c].state = "deleting" /\ ~e.conn[c].key /\ e.conn[c].absence = d.conn[c].absence
  BY <1>1, <1>3, DeletingConn
<1> HIDE DEF e
<1>5. s \subseteq e.setups
  BY <1>4 DEF Sound
<1>6. ASSUME NEW x \in Connections
      PROVE  /\ e.conn[x].state # "live" => ~e.conn[x].key /\ m[x] # Never
             /\ e.conn[x].state = "deleting" => Findable(x, k, s)
             /\ e.conn[x].state = "gone" => x \notin s \/ x \in e.continuations
             /\ e.conn[x].absence # Never => x \notin s
  <2>1. CASE x = c
    BY <1>4, <2>1 DEF Sound, Findable
  <2>2. CASE x # c
    BY <1>4, <2>2 DEF Sound
  <2> QED
    BY <2>1, <2>2
<1> QED
  BY <1>5, <1>6 DEF Sound, e

\* The purge of a Connection ends when the provider has no session.
LEMMA CleanedSound ==
  ASSUME NEW d \in Databases, NEW c \in Connections,
         NEW m, NEW k, NEW s, Sound(d, m, k, s), d.conn[c].state = "deleting", c \notin s
  PROVE  Sound(Cleaned(d, c), m, k, s)
<1> DEFINE e == Cleaned(d, c)
           row == [state |-> "gone", requested |-> d.conn[c].requested,
                   absence |-> d.conn[c].absence, key |-> d.conn[c].key]
<1>1. row.state = "gone" /\ row.key = d.conn[c].key /\ row.absence = d.conn[c].absence
  OBVIOUS
<1>2. e \in Databases /\ e.conn = [d.conn EXCEPT ![c] = row]
  BY CleanedConn
<1> HIDE DEF row
<1>3. /\ e.conn[c] = row /\ d.conn \in [Connections -> Rows] /\ e.conn \in [Connections -> Rows]
      /\ \A x \in Connections : x # c => e.conn[x] = d.conn[x]
  BY <1>2 DEF Databases
<1>4. /\ d.conn \in [Connections -> Rows] /\ e.conn \in [Connections -> Rows]
      /\ e.setups = d.setups \ {c} /\ e.continuations = d.continuations
      /\ \A x \in Connections : x # c => e.conn[x] = d.conn[x]
      /\ e.conn[c].state = "gone" /\ e.conn[c].key = d.conn[c].key
      /\ e.conn[c].absence = d.conn[c].absence
  BY <1>1, <1>3, CleanedConn
<1> HIDE DEF e
<1>5. s \subseteq e.setups
  BY <1>4 DEF Sound
<1>6. ASSUME NEW x \in Connections
      PROVE  /\ e.conn[x].state # "live" => ~e.conn[x].key /\ m[x] # Never
             /\ e.conn[x].state = "deleting" => Findable(x, k, s)
             /\ e.conn[x].state = "gone" => x \notin s \/ x \in e.continuations
             /\ e.conn[x].absence # Never => x \notin s
  <2>1. CASE x = c
    BY <1>4, <2>1 DEF Sound, Findable
  <2>2. CASE x # c
    BY <1>4, <2>2 DEF Sound
  <2> QED
    BY <2>1, <2>2
<1> QED
  BY <1>5, <1>6 DEF Sound, e

\* A replay leaves a continuation where a session may be left.
LEMMA ReplayedSound ==
  ASSUME NEW d \in Databases, NEW c \in Connections,
         NEW m, NEW k, NEW s, Sound(d, m, k, s), m[c] # Never
  PROVE  Sound(Replayed(d, c), m, k, s)
<1> DEFINE e == Replayed(d, c)
           row == [state |-> "gone", requested |-> d.conn[c].requested,
                   absence |-> d.conn[c].absence, key |-> FALSE]
<1>1. row.state = "gone" /\ ~row.key /\ row.absence = d.conn[c].absence
  OBVIOUS
<1>2. e \in Databases /\ e.conn = [d.conn EXCEPT ![c] = row]
  BY ReplayedConn
<1> HIDE DEF row
<1>3. /\ e.conn[c] = row /\ d.conn \in [Connections -> Rows] /\ e.conn \in [Connections -> Rows]
      /\ \A x \in Connections : x # c => e.conn[x] = d.conn[x]
  BY <1>2 DEF Databases
<1>4. /\ d.conn \in [Connections -> Rows] /\ e.conn \in [Connections -> Rows]
      /\ e.setups = d.setups /\ d.continuations \subseteq e.continuations
      /\ c \in d.setups => c \in e.continuations
      /\ \A x \in Connections : x # c => e.conn[x] = d.conn[x]
      /\ e.conn[c].state = "gone" /\ ~e.conn[c].key /\ e.conn[c].absence = d.conn[c].absence
  BY <1>1, <1>3, ReplayedConn
<1> HIDE DEF e
<1>5. s \subseteq e.setups
  BY <1>4 DEF Sound
<1>6. ASSUME NEW x \in Connections
      PROVE  /\ e.conn[x].state # "live" => ~e.conn[x].key /\ m[x] # Never
             /\ e.conn[x].state = "deleting" => Findable(x, k, s)
             /\ e.conn[x].state = "gone" => x \notin s \/ x \in e.continuations
             /\ e.conn[x].absence # Never => x \notin s
  <2>1. CASE x = c
    BY <1>4, <2>1 DEF Sound, Findable
  <2>2. CASE x # c
    BY <1>4, <2>2 DEF Sound
  <2> QED
    BY <2>1, <2>2
<1> QED
  BY <1>5, <1>6 DEF Sound, e

\* Markers only appear, sessions only go, and what can be found stays so.
LEMMA StoreSound ==
  ASSUME NEW d, NEW m, NEW k, NEW s, NEW m2, NEW k2, NEW s2, Sound(d, m, k, s),
         \A c \in Connections : m[c] # Never => m2[c] # Never, s2 \subseteq s,
         \A c \in Connections : Findable(c, k, s) => Findable(c, k2, s2)
  PROVE  Sound(d, m2, k2, s2)
BY DEF Sound

-----------------------------------------------------------------------------
(***************************************************************************)
(* What every step but a restore and the end of a replay keeps, and what   *)
(* it therefore leaves of the invariant.                                   *)
(***************************************************************************)
Grows ==
  /\ \A c \in Connections : marker.conn[c] # Never => marker'.conn[c] # Never
  /\ session' \subseteq session
  /\ \A c \in Connections :
       Findable(c, capsule, session) => Findable(c, capsule', session')
  /\ db'.ready = db.ready
  /\ \A c \in Connections : Dead(c) => Dead(c)'

LEMMA Stands == UNCHANGED <<db, marker, capsule, session>> => Grows
BY DEF Grows, Dead

LEMMA FitsStays ==
  ASSUME Grows, NEW q, Fits(q, db, marker.conn, capsule, session)
  PROVE  Fits(q, db', marker'.conn, capsule', session')
BY DEF Grows, Fits, Asking, Dead

LEMMA AskedStays ==
  ASSUME Types, Asked, Grows, request' = request
  PROVE  Asked'
BY FitsStays DEF Asked

\* A request that is not the one that moves fits as before.
LEMMA AskedMoves ==
  ASSUME Types, Asked, Grows, NEW r \in Requests, NEW q, request' = [request EXCEPT ![r] = q],
         Fits(q, db', marker'.conn, capsule', session')
  PROVE  Asked'
BY FitsStays DEF Asked, Types

LEMMA WorkedStays ==
  ASSUME Types, Worked, Grows, UNCHANGED <<job, purge>>
  PROVE  Worked'
BY DEF Worked, Grows

LEMMA AnsweredStays ==
  ASSUME Types, Answered, Grows, UNCHANGED <<acked, replay>>
  PROVE  Answered'
BY DEF Answered, Grows, Types, Replaying

LEMMA SavedStays ==
  ASSUME Types, Sound(saved, marker.conn, capsule, session), Grows, saved' = saved
  PROVE  Sound(saved', marker'.conn, capsule', session')
BY StoreSound DEF Grows

\* A request that is answered or goes on: the branch is ready and no replay is under way.
LEMMA RequestMoves ==
  ASSUME IInv, Grows, db.ready,
         db' \in Databases, Sound(db', marker'.conn, capsule', session'),
         marker' \in [account : Int, conn : [Connections -> Int]],
         capsule' \in [Connections -> {"none", "kept", "destroyed"}],
         NEW r \in Requests, NEW q \in Askings, request' = [request EXCEPT ![r] = q],
         Fits(q, db', marker'.conn, capsule', session'),
         UNCHANGED <<clock, saved, job, purge, replay>>, acked' \in SUBSET Connections,
         \A c \in acked' : c \in acked \/ (marker'.conn[c] # Never /\ Dead(c)')
  PROVE  IInv'
<1>1. Asked'
  BY AskedMoves DEF IInv
<1>2. Worked'
  BY WorkedStays DEF IInv
<1>3. Answered'
  BY DEF IInv, Answered, Grows, Types
<1>4. Sound(saved', marker'.conn, capsule', session') /\ saved'.ready
  BY SavedStays DEF IInv
<1>5. Types'
  BY DEF IInv, Types, Grows
<1> QED
  BY <1>1, <1>2, <1>3, <1>4, <1>5 DEF IInv

\* The same where the database and the store stay.
LEMMA RequestTurns ==
  ASSUME IInv, db.ready, UNCHANGED <<clock, db, saved, marker, capsule, session, job, purge, replay>>,
         NEW r \in Requests, NEW q \in Askings, request' = [request EXCEPT ![r] = q],
         Fits(q, db, marker.conn, capsule, session),
         acked' \in SUBSET Connections,
         \A c \in acked' : c \in acked \/ (marker.conn[c] # Never /\ Dead(c))
  PROVE  IInv'
<1>1. Grows
  BY Stands
<1>2. \A c \in acked' : c \in acked \/ (marker'.conn[c] # Never /\ Dead(c)')
  BY DEF Dead
<1> QED
  BY <1>1, <1>2, RequestMoves DEF IInv, Types

LEMMA NoRequestFits ==
  /\ NoRequest \in Askings
  /\ \A d, m, k, s : Fits(NoRequest, d, m, k, s)
BY DEF NoRequest, Askings, Asking, Fits, Never

\* A request that has begun is one of a branch that is ready.
LEMMA BegunIsReady ==
  ASSUME IInv, NEW r \in Requests, request[r].phase # "idle"
  PROVE  db.ready
BY DEF IInv, Asked, Fits, NoRequest, Types, Databases

-----------------------------------------------------------------------------
(***************************************************************************)
(* The requests.                                                           *)
(***************************************************************************)

\* What prepare_whatsapp_connection_deletion answers fits, whoever asks.
LEMMA Prepares ==
  ASSUME IInv, db.ready, NEW r \in Requests, NEW c \in Connections, NEW p \in Askings,
         PrepareDeletion(r, c, p),
         p.kind = "account" => p.at \in Nat,
         request[r].kind = "account" => request[r].at \in Nat,
         UNCHANGED <<clock, db, saved, marker, capsule, session, job, purge, replay, acked>>
  PROVE  IInv'
<1>1. PICK now \in Nat : now = IF request[r].kind = "account" THEN request[r].at ELSE clock
  BY DEF IInv, Types
<1> DEFINE complete == [p EXCEPT !.phase = "complete", !.conn = c]
           prepared == [p EXCEPT !.phase = "prepared", !.conn = c, !.at = now]
<1>2. \/ db.conn[c].state = "deleting" /\ request' = [request EXCEPT ![r] = complete]
      \/ request' = [request EXCEPT ![r] = prepared]
      \/ request' = [request EXCEPT ![r] = NoRequest]
  BY <1>1 DEF PrepareDeletion, Asks, Ends
<1>3. complete \in Askings /\ complete.phase = "complete" /\ complete.conn = c
      /\ complete.kind = p.kind /\ complete.at = p.at
  BY DEF Askings
<1>4. prepared \in Askings /\ prepared.phase = "prepared" /\ prepared.conn = c
      /\ prepared.at = now
  <2> DEFINE phases == Asking \cup {"idle", "complete", "account_prepared", "account"}
  <2>0. now \in Int /\ "prepared" \in phases
    BY <1>1 DEF Asking
  <2>1. prepared \in Askings
    <3>1. Askings = [phase : phases, kind : {"none", "connection", "account"},
                     conn : Connections \cup {"none"}, todo : SUBSET Connections, at : Int]
      BY DEF Askings
    <3> HIDE DEF phases
    <3> QED
      BY <2>0, <3>1
  <2>2. prepared.phase = "prepared"
    BY DEF Askings
  <2>3. prepared.conn = c
    BY DEF Askings
  <2>4. prepared.at = now
    BY DEF Askings
  <2> QED
    BY <2>1, <2>2, <2>3, <2>4
<1> HIDE DEF complete, prepared
<1>5. CASE db.conn[c].state = "deleting" /\ request' = [request EXCEPT ![r] = complete]
  <2>1. Fits(complete, db, marker.conn, capsule, session)
    BY <1>3, <1>5 DEF Fits, Asking
  <2> QED
    BY <1>3, <1>5, <2>1, RequestTurns DEF IInv, Types
<1>6. CASE request' = [request EXCEPT ![r] = prepared]
  <2>1. Fits(prepared, db, marker.conn, capsule, session)
    BY <1>1, <1>4 DEF Fits, Asking
  <2> QED
    BY <1>4, <1>6, <2>1, RequestTurns DEF IInv, Types
<1>7. CASE request' = [request EXCEPT ![r] = NoRequest]
  BY <1>7, NoRequestFits, RequestTurns DEF IInv, Types
<1> QED
  BY <1>2, <1>5, <1>6, <1>7

LEMMA BeginStep ==
  ASSUME IInv, NEW r \in Requests, NEW c \in Connections, BeginConnectionDeletion(r, c)
  PROVE  IInv'
<1> DEFINE p == [NoRequest EXCEPT !.kind = "connection"]
<1>1. p \in Askings /\ p.kind = "connection" /\ request[r].kind = "none"
  BY DEF NoRequest, Askings, BeginConnectionDeletion, Never
<1>2. PrepareDeletion(r, c, p) /\ db.ready
      /\ UNCHANGED <<clock, db, saved, marker, capsule, session, job, purge, replay, acked>>
  BY DEF BeginConnectionDeletion, Quiet
<1> HIDE DEF p
<1> QED
  BY <1>1, <1>2, Prepares

LEMMA DeleteNextStep ==
  ASSUME IInv, NEW r \in Requests, NEW c \in Connections, DeleteNextConnection(r, c)
  PROVE  IInv'
<1>1. request[r] \in Askings /\ (request[r].kind = "account" => request[r].at \in Nat)
  BY DEF IInv, Types, Asked, Fits
<1>2. PrepareDeletion(r, c, request[r]) /\ request[r].phase # "idle"
      /\ UNCHANGED <<clock, db, saved, marker, capsule, session, job, purge, replay, acked>>
  BY DEF DeleteNextConnection, Quiet
<1> QED
  BY <1>1, <1>2, BegunIsReady, Prepares

\* The next of an account's requests, or none.
LEMMA ReturnsFits ==
  ASSUME IInv, NEW r \in Requests, Returns(r)
  PROVE  \E q \in Askings : /\ request' = [request EXCEPT ![r] = q]
                            /\ db.ready => \A d, m, k, s : d.ready => Fits(q, d, m, k, s)
<1> DEFINE q == [request[r] EXCEPT !.phase = "account", !.conn = "none",
                                   !.todo = @ \ {request[r].conn}]
<1>1. CASE request[r].kind = "account"
  <2>1. request[r] \in Askings /\ request[r].at \in Nat
    BY <1>1 DEF IInv, Types, Asked, Fits
  <2>2. q \in Askings /\ q.phase = "account" /\ q.at = request[r].at
    BY <2>1 DEF Askings
  <2>3. request' = [request EXCEPT ![r] = q]
    BY <1>1 DEF Returns, Asks
  <2> HIDE DEF q
  <2>4. \A d, m, k, s : d.ready => Fits(q, d, m, k, s)
    BY <2>1, <2>2 DEF Fits, Asking
  <2> QED
    BY <2>2, <2>3, <2>4
<1>2. CASE request[r].kind # "account"
  <2>1. request' = [request EXCEPT ![r] = NoRequest]
    BY <1>2 DEF Returns, Ends, Asks
  <2> QED
    BY <2>1, NoRequestFits
<1> QED
  BY <1>1, <1>2

LEMMA AnswerCompleteStep ==
  ASSUME IInv, NEW r \in Requests, AnswerComplete(r)
  PROVE  IInv'
<1> DEFINE c == request[r].conn
<1>1. PICK q \in Askings : request' = [request EXCEPT ![r] = q]
                        /\ (db.ready => \A d, m, k, s : d.ready => Fits(q, d, m, k, s))
  BY ReturnsFits DEF AnswerComplete
<1>2. db.ready
  BY BegunIsReady DEF AnswerComplete
<1>3. c \in Connections /\ Dead(c)
  BY DEF AnswerComplete, IInv, Asked, Fits, Dead
<1>4. marker.conn[c] # Never
  BY <1>3 DEF IInv, Sound, Dead
<1>5. acked' = acked \cup {c}
      /\ UNCHANGED <<clock, db, saved, marker, capsule, session, job, purge, replay>>
  BY DEF AnswerComplete, Quiet
<1>6. acked' \in SUBSET Connections
      /\ \A x \in acked' : x \in acked \/ (marker.conn[x] # Never /\ Dead(x))
  BY <1>3, <1>4, <1>5 DEF IInv, Types
<1> QED
  BY <1>1, <1>2, <1>5, <1>6, RequestTurns

LEMMA CreateMarkerStep ==
  ASSUME IInv, NEW r \in Requests, CreateMarker(r)
  PROVE  IInv'
<1> DEFINE c == request[r].conn
           at == IF marker.conn[c] = Never THEN request[r].at ELSE marker.conn[c]
           q == [request[r] EXCEPT !.phase = "marked"]
           conn == [marker.conn EXCEPT ![c] = at]
<1>1. request[r].phase = "prepared" /\ request[r] \in Askings /\ c \in Connections
      /\ request[r].at \in Nat
  BY DEF CreateMarker, IInv, Types, Asked, Fits, Asking
<1>2. marker' = [account |-> marker.account, conn |-> conn]
  BY DEF CreateMarker, IInv, Types
<1>3. request' = [request EXCEPT ![r] = q]
      /\ UNCHANGED <<clock, db, saved, capsule, session, job, purge, replay, acked>>
  BY DEF CreateMarker, Asks, Quiet
<1>4. at \in Int /\ at # Never
  BY <1>1 DEF IInv, Types, Never
<1> HIDE DEF at
<1>5. /\ conn \in [Connections -> Int] /\ conn[c] # Never
      /\ \A x \in Connections : marker.conn[x] # Never => conn[x] # Never
  BY <1>1, <1>4 DEF IInv, Types
<1>6. q \in Askings /\ q.phase = "marked" /\ q.conn = c /\ q.at = request[r].at
  BY <1>1 DEF Askings, Asking
<1> HIDE DEF q, conn
<1>7. marker'.conn = conn /\ marker' \in [account : Int, conn : [Connections -> Int]]
  BY <1>2, <1>5 DEF IInv, Types
<1>8. Grows
  BY <1>3, <1>5, <1>7 DEF Grows, Dead
<1>9. db.ready
  BY <1>1, BegunIsReady
<1>10. Fits(q, db', marker'.conn, capsule', session')
  BY <1>1, <1>3, <1>5, <1>6, <1>7, <1>9 DEF Fits, Asking
<1>11. Sound(db', marker'.conn, capsule', session')
  BY <1>3, <1>5, <1>7, StoreSound DEF IInv
<1> QED
  BY <1>3, <1>6, <1>7, <1>8, <1>9, <1>10, <1>11, RequestMoves DEF IInv, Types

LEMMA CreateCapsuleStep ==
  ASSUME IInv, NEW r \in Requests, CreateCapsule(r)
  PROVE  IInv'
<1> DEFINE c == request[r].conn
           q == [request[r] EXCEPT !.phase = "sealed"]
<1>1. request[r].phase = "marked" /\ request[r] \in Askings /\ c \in Connections
      /\ request[r].at \in Nat /\ marker.conn[c] # Never
  BY DEF CreateCapsule, IInv, Types, Asked, Fits, Asking
<1>2. capsule' = [capsule EXCEPT ![c] = "kept"] /\ request' = [request EXCEPT ![r] = q]
      /\ UNCHANGED <<clock, db, saved, marker, session, job, purge, replay, acked>>
  BY DEF CreateCapsule, Asks, Quiet
<1>3. capsule' \in [Connections -> {"none", "kept", "destroyed"}] /\ capsule'[c] = "kept"
      /\ \A x \in Connections : capsule[x] = "kept" => capsule'[x] = "kept"
  BY <1>1, <1>2 DEF IInv, Types
<1>4. q \in Askings /\ q.phase = "sealed" /\ q.conn = c /\ q.at = request[r].at
  BY <1>1 DEF Askings, Asking
<1> HIDE DEF q
<1>5. \A x \in Connections : Findable(x, capsule, session) => Findable(x, capsule', session')
  BY <1>2, <1>3 DEF Findable
<1>6. Grows
  BY <1>2, <1>5 DEF Grows, Dead
<1>7. db.ready
  BY <1>1, BegunIsReady
<1>8. Fits(q, db', marker'.conn, capsule', session')
  BY <1>1, <1>2, <1>3, <1>4, <1>7 DEF Fits, Asking, Findable
<1>9. Sound(db', marker'.conn, capsule', session')
  BY <1>2, <1>5, StoreSound DEF IInv
<1> QED
  BY <1>2, <1>3, <1>4, <1>6, <1>7, <1>8, <1>9, RequestMoves DEF IInv, Types

LEMMA FinishDeletionStep ==
  ASSUME IInv, NEW r \in Requests, FinishDeletion(r)
  PROVE  IInv'
<1>0. PICK c \in Connections : c = request[r].conn
  BY DEF FinishDeletion, IInv, Asked, Fits, Asking
<1>1. request[r].phase = "sealed" /\ c \in Connections
      /\ marker.conn[c] # Never /\ Findable(c, capsule, session)
  BY <1>0 DEF FinishDeletion, IInv, Asked, Fits, Asking
<1>2. db.ready
  BY <1>1, BegunIsReady
<1>3. UNCHANGED <<clock, saved, marker, capsule, session, job, purge, replay>>
  BY DEF FinishDeletion, Quiet
<1>4. CASE db.conn[c].state = "gone"
  <2>1. request' = [request EXCEPT ![r] = NoRequest] /\ UNCHANGED <<db, acked>>
    BY <1>0, <1>4 DEF FinishDeletion, Ends, Asks
  <2> QED
    BY <1>2, <1>3, <2>1, NoRequestFits, RequestTurns DEF IInv, Types
<1>5. CASE db.conn[c].state # "gone"
  <2>1. PICK q \in Askings : request' = [request EXCEPT ![r] = q]
                          /\ (db.ready => \A d, m, k, s : d.ready => Fits(q, d, m, k, s))
    BY <1>0, <1>5, ReturnsFits DEF FinishDeletion
  <2>2. acked' = acked \cup {c}
        /\ db' = IF db.conn[c].state = "live" THEN Deleting(db, c, marker.conn[c]) ELSE db
    BY <1>0, <1>5 DEF FinishDeletion
  <2>3. acked' \in SUBSET Connections /\ marker.conn[c] \in Int
    BY <1>1, <2>2 DEF IInv, Types
  <2>4. CASE db.conn[c].state = "live"
    <3>1. db' \in Databases /\ db'.ready = db.ready
          /\ db'.conn = [db.conn EXCEPT ![c] =
               [state |-> "deleting", requested |-> marker.conn[c],
                absence |-> db.conn[c].absence, key |-> FALSE]]
      <4>1. db \in Databases /\ db' = Deleting(db, c, marker.conn[c])
        BY <2>2, <2>4 DEF IInv, Types
      <4> QED
        BY <2>3, <4>1, DeletingConn
    <3>2. Sound(db', marker'.conn, capsule', session')
      BY <1>1, <1>3, <2>2, <2>3, <2>4, DeletingSound DEF IInv, Types
    <3>3. Dead(c)' /\ \A x \in Connections : Dead(x) => Dead(x)'
      <4> DEFINE row == [state |-> "deleting", requested |-> marker.conn[c],
                         absence |-> db.conn[c].absence, key |-> FALSE]
      <4>1. row.state # "live"
        OBVIOUS
      <4> HIDE DEF row
      <4>2. db'.conn[c] = row /\ \A x \in Connections : x # c => db'.conn[x] = db.conn[x]
        <5>1. db.conn \in [Connections -> Rows]
          BY DEF IInv, Types, Databases
        <5>2. db'.conn = [db.conn EXCEPT ![c] = row]
          BY <3>1 DEF row
        <5> QED
          BY <5>1, <5>2
      <4> QED
        BY <4>1, <4>2 DEF Dead
    <3>4. Grows
      BY <1>3, <3>1, <3>3 DEF Grows
    <3>5. Fits(q, db', marker'.conn, capsule', session')
      BY <1>2, <2>1, <3>1
    <3>6. \A x \in acked' : x \in acked \/ (marker'.conn[x] # Never /\ Dead(x)')
      BY <1>1, <1>3, <2>2, <3>3 DEF Dead
    <3> QED
      BY <1>2, <1>3, <2>1, <2>3, <3>1, <3>2, <3>4, <3>5, <3>6, RequestMoves DEF IInv, Types
  <2>5. CASE db.conn[c].state # "live"
    <3>1. \A x \in acked' : x \in acked \/ (marker.conn[x] # Never /\ Dead(x))
      BY <1>1, <2>2, <2>5 DEF Dead
    <3> QED
      BY <1>2, <1>3, <2>1, <2>2, <2>3, <2>5, <3>1, RequestTurns
  <2> QED
    BY <2>4, <2>5
<1> QED
  BY <1>4, <1>5

-----------------------------------------------------------------------------
(***************************************************************************)
(* Changes of one table, or two, that are not the Connections.             *)
(***************************************************************************)
LEMMA AccountLike ==
  ASSUME NEW d \in Databases, NEW a \in Accounts
  PROVE  [d EXCEPT !.account = a] \in Databases /\ Like(d, [d EXCEPT !.account = a])
BY WholeIsAll DEF Databases, Like

LEMMA ObjectLike ==
  ASSUME NEW d \in Databases,
         NEW o \in [Connections -> {"none", "pending", "ready", "purging"}],
         NEW u \in Int, NEW i \in SUBSET Connections
  PROVE  /\ [d EXCEPT !.object = o, !.used = u, !.intents = i] \in Databases
         /\ Like(d, [d EXCEPT !.object = o, !.used = u, !.intents = i])
<1> DEFINE e == [d EXCEPT !.object = o, !.used = u, !.intents = i]
<1>1. e \in Databases
  BY DEF Databases
<1>2. e.conn = d.conn /\ e.setups = d.setups
  BY DEF Databases
<1>3. e.continuations = d.continuations /\ e.ready = d.ready
  BY DEF Databases
<1> HIDE DEF e
<1>4. e \in Databases /\ Like(d, e)
  BY <1>1, <1>2, <1>3 DEF Like
<1> QED
  BY <1>4 DEF e

LEMMA SourceLike ==
  ASSUME NEW d \in Databases, NEW S \in SUBSET Connections
  PROVE  [d EXCEPT !.source = S] \in Databases /\ Like(d, [d EXCEPT !.source = S])
BY WholeIsAll DEF Databases, Like

LEMMA RemovalsLike ==
  ASSUME NEW d \in Databases, NEW S \in SUBSET AllRemovals
  PROVE  [d EXCEPT !.removals = S] \in Databases /\ Like(d, [d EXCEPT !.removals = S])
BY WholeIsAll DEF Databases, Like

LEMMA UsedLike ==
  ASSUME NEW d \in Databases, NEW u \in Int
  PROVE  [d EXCEPT !.used = u] \in Databases /\ Like(d, [d EXCEPT !.used = u])
BY WholeIsAll DEF Databases, Like

LEMMA AuditedLike ==
  ASSUME NEW d \in Databases
  PROVE  [d EXCEPT !.audited = TRUE] \in Databases /\ Like(d, [d EXCEPT !.audited = TRUE])
BY WholeIsAll DEF Databases, Like

LEMMA ReadySet ==
  ASSUME NEW d \in Databases, NEW b \in BOOLEAN
  PROVE  /\ [d EXCEPT !.ready = b] \in Databases
         /\ [d EXCEPT !.ready = b].conn = d.conn /\ [d EXCEPT !.ready = b].setups = d.setups
         /\ [d EXCEPT !.ready = b].continuations = d.continuations
         /\ [d EXCEPT !.ready = b].ready = b
BY WholeIsAll DEF Databases

LEMMA LikeTwice ==
  ASSUME NEW d, NEW e, NEW f, Like(d, e), Like(e, f)
  PROVE  Like(d, f)
BY DEF Like

\* The steps that change no Connection, no marker, no capsule and no session.
LEMMA LikeGrows ==
  ASSUME Like(db, db'), UNCHANGED <<marker, capsule, session>>
  PROVE  Grows
BY DEF Like, Grows, Dead

LEMMA PrepareAccountStep ==
  ASSUME IInv, NEW r \in Requests, PrepareAccountDeletion(r)
  PROVE  IInv'
<1> DEFINE q(at) == [NoRequest EXCEPT !.kind = "account", !.phase = "account_prepared",
                                      !.todo = Live(db), !.at = at]
           a(at) == [db.account EXCEPT !.state = "deleting", !.requested = at]
<1>1. PICK at \in Nat :
        at = IF db.account.requested = Never THEN clock ELSE db.account.requested
  BY DEF IInv, Types, Databases, Accounts, Never
<1>2. db' = [db EXCEPT !.account = a(at)] /\ request' = [request EXCEPT ![r] = q(at)] /\ db.ready
      /\ UNCHANGED <<clock, saved, marker, capsule, session, job, purge, replay, acked>>
  <2>1. db = Whole(db)
    BY WholeIsAll DEF IInv, Types
  <2>2. db' = [db EXCEPT !.account.state = "deleting", !.account.requested = at]
    BY <1>1 DEF PrepareAccountDeletion
  <2>3. db' = [db EXCEPT !.account = a(at)]
    BY <2>1, <2>2 DEF Whole
  <2>4. request' = [request EXCEPT ![r] = q(at)]
    BY <1>1 DEF PrepareAccountDeletion, Asks
  <2> QED
    BY <2>3, <2>4 DEF PrepareAccountDeletion, Quiet
<1>3. a(at) \in Accounts
  <2>1. db.account \in Accounts
    BY DEF IInv, Types, Databases
  <2> QED
    BY <2>1 DEF Accounts
<1>4. q(at) \in Askings /\ q(at).phase = "account_prepared" /\ q(at).at = at
  <2>1. Live(db) \in SUBSET Connections /\ at \in Int
    BY DEF Live
  <2>2. NoRequest \in Askings
    BY NoRequestFits
  <2>3. q(at) \in Askings
    BY <2>1, <2>2 DEF Askings
  <2>4. q(at).phase = "account_prepared"
    BY <2>2 DEF Askings
  <2>5. q(at).at = at
    BY <2>2 DEF Askings
  <2> QED
    BY <2>3, <2>4, <2>5
<1>5. db' \in Databases /\ Like(db, db')
  BY <1>2, <1>3, AccountLike DEF IInv, Types
<1> HIDE DEF q, a
<1>6. Grows
  BY <1>2, <1>5, LikeGrows
<1>7. Sound(db', marker'.conn, capsule', session')
  BY <1>2, <1>5, LikeSound DEF IInv
<1>8. Fits(q(at), db', marker'.conn, capsule', session')
  BY <1>2, <1>4, <1>5 DEF Fits, Asking, Like
<1> QED
  BY <1>2, <1>4, <1>5, <1>6, <1>7, <1>8, RequestMoves DEF IInv, Types

LEMMA CreateAccountMarkerStep ==
  ASSUME IInv, NEW r \in Requests, CreateAccountMarker(r)
  PROVE  IInv'
<1> DEFINE q == [request[r] EXCEPT !.phase = "account"]
           a == IF marker.account = Never THEN request[r].at ELSE marker.account
<1>1. request[r].phase = "account_prepared" /\ request[r] \in Askings
      /\ (request[r].kind = "account" => request[r].at \in Nat)
  BY DEF CreateAccountMarker, IInv, Types, Asked, Fits
<1>2. request' = [request EXCEPT ![r] = q]
      /\ UNCHANGED <<clock, db, saved, capsule, session, job, purge, replay, acked>>
  BY DEF CreateAccountMarker, Asks, Quiet
<1>3. marker' = [account |-> a, conn |-> marker.conn]
  BY DEF CreateAccountMarker, IInv, Types
<1>4. a \in Int
  BY <1>1 DEF Askings, IInv, Types
<1> HIDE DEF a
<1>5. marker' \in [account : Int, conn : [Connections -> Int]] /\ marker'.conn = marker.conn
  BY <1>3, <1>4 DEF IInv, Types
<1>6. q \in Askings /\ q.phase = "account" /\ q.at = request[r].at /\ q.kind = request[r].kind
  BY <1>1 DEF Askings
<1> HIDE DEF q
<1>7. db.ready
  BY <1>1, BegunIsReady
<1>8. Fits(q, db', marker'.conn, capsule', session')
  BY <1>1, <1>2, <1>6, <1>7 DEF Fits, Asking
<1>9. Grows
  BY <1>2, <1>5 DEF Grows, Dead
<1>10. Sound(db', marker'.conn, capsule', session')
  BY <1>2, <1>5 DEF IInv
<1> QED
  BY <1>2, <1>5, <1>6, <1>7, <1>8, <1>9, <1>10, RequestMoves DEF IInv, Types

LEMMA FinishAccountStep ==
  ASSUME IInv, NEW r \in Requests, FinishAccountDeletion(r)
  PROVE  IInv'
<1> DEFINE a == [db.account EXCEPT !.marker = TRUE, !.key = FALSE]
<1>1. request' = [request EXCEPT ![r] = NoRequest] /\ db.ready
      /\ UNCHANGED <<clock, saved, marker, capsule, session, job, purge, replay, acked>>
  BY BegunIsReady DEF FinishAccountDeletion, Ends, Asks, Quiet
<1>2. db' = db \/ db' = [db EXCEPT !.account = a]
  <2>1. db = Whole(db)
    BY WholeIsAll DEF IInv, Types
  <2>2. db' = db \/ db' = [db EXCEPT !.account.marker = TRUE, !.account.key = FALSE]
    BY DEF FinishAccountDeletion
  <2> QED
    BY <2>1, <2>2 DEF Whole
<1>3. a \in Accounts
  <2>1. db.account \in Accounts
    BY DEF IInv, Types, Databases
  <2> QED
    BY <2>1 DEF Accounts
<1> HIDE DEF a
<1>4. db' \in Databases /\ Like(db, db')
  <2>1. CASE db' = db
    BY <2>1 DEF Like, IInv, Types
  <2>2. CASE db' = [db EXCEPT !.account = a]
    BY <2>2, <1>3, AccountLike DEF IInv, Types
  <2> QED
    BY <1>2, <2>1, <2>2
<1>5. Grows
  BY <1>1, <1>4, LikeGrows
<1>6. Sound(db', marker'.conn, capsule', session')
  BY <1>1, <1>4, LikeSound DEF IInv
<1> QED
  BY <1>1, <1>4, <1>5, <1>6, NoRequestFits, RequestMoves DEF IInv, Types

LEMMA RequestFailsStep ==
  ASSUME IInv, NEW r \in Requests, RequestFails(r)
  PROVE  IInv'
<1>1. request' = [request EXCEPT ![r] = NoRequest] /\ request[r] # NoRequest
      /\ UNCHANGED <<clock, db, saved, marker, capsule, session, job, purge, replay, acked>>
  BY DEF RequestFails, Failing, Ends, Asks
<1>2. db.ready
  BY <1>1 DEF IInv, Asked, Fits, Types, Databases
<1> QED
  BY <1>1, <1>2, NoRequestFits, RequestTurns DEF IInv, Types

-----------------------------------------------------------------------------
(***************************************************************************)
(* The deletion coordinator.                                               *)
(***************************************************************************)
LEMMA WorkerMoves ==
  ASSUME IInv, Grows, db' \in Databases, Sound(db', marker'.conn, capsule', session'),
         capsule' \in [Connections -> {"none", "kept", "destroyed"}],
         UNCHANGED <<clock, saved, marker, request, replay, acked>>,
         job' \in [Connections -> Jobs], purge' \in [Connections -> Purging], Worked'
  PROVE  IInv'
<1>1. Asked'
  BY AskedStays DEF IInv
<1>2. Answered'
  BY AnsweredStays DEF IInv
<1>3. Sound(saved', marker'.conn, capsule', session') /\ saved'.ready
  BY SavedStays DEF IInv
<1>4. Types'
  BY DEF IInv, Types, Grows
<1> QED
  BY <1>1, <1>2, <1>3, <1>4 DEF IInv

LEMMA JobMoves ==
  ASSUME IInv, Grows, db' \in Databases, Sound(db', marker'.conn, capsule', session'),
         capsule' \in [Connections -> {"none", "kept", "destroyed"}],
         UNCHANGED <<clock, saved, marker, request, purge, replay, acked>>,
         NEW c \in Connections, NEW j \in Jobs, job' = [job EXCEPT ![c] = j],
         j.phase \in {"absent", "confirmed"} => c \notin session'
  PROVE  IInv'
<1>1. job' \in [Connections -> Jobs] /\ purge' \in [Connections -> Purging]
  BY DEF IInv, Types
<1>2. \A x \in Connections : x # c => job'[x] = job[x]
  BY DEF IInv, Types
<1>3. job'[c] = j
  BY DEF IInv, Types
<1>4. Worked'
  BY <1>2, <1>3 DEF IInv, Worked, Grows
<1> QED
  BY <1>1, <1>4, WorkerMoves

LEMMA AsleepFits == Asleep \in Jobs /\ Asleep \in Purging /\ Asleep.phase = "idle"
<1>1. Asleep \in Jobs
  BY DEF Asleep, Jobs, Never
<1>2. Asleep \in Purging
  BY DEF Asleep, Purging, Never
<1> QED
  BY <1>1, <1>2 DEF Asleep

\* A job goes on in a phase, or rests.
LEMMA JobsMove ==
  ASSUME Types, NEW c \in Connections, NEW at \in Int,
         NEW phase \in {"scheduled", "read", "absent", "confirmed"}
  PROVE  /\ [Asleep EXCEPT !.phase = phase, !.at = at] \in Jobs
         /\ [Asleep EXCEPT !.phase = phase, !.at = at].phase = phase
<1>1. [Asleep EXCEPT !.phase = phase, !.at = at] \in Jobs
  BY AsleepFits DEF Jobs
<1>2. [Asleep EXCEPT !.phase = phase, !.at = at].phase = phase
  BY AsleepFits DEF Jobs
<1> QED
  BY <1>1, <1>2

LEMMA RestsStep ==
  ASSUME IInv, NEW c \in Connections, Rests(c), session' \subseteq session,
         UNCHANGED <<clock, db, saved, marker, capsule, request, purge, replay, acked>>
  PROVE  IInv'
<1>1. Grows
  BY DEF Grows, Dead, Findable
<1>2. Sound(db', marker'.conn, capsule', session')
  BY <1>1, StoreSound DEF IInv, Grows
<1> QED
  BY <1>1, <1>2, AsleepFits, JobMoves DEF Rests, IInv, Types

LEMMA ScheduleStep ==
  ASSUME IInv, NEW c \in Connections, Schedule(c)
  PROVE  IInv'
<1> DEFINE j == [Asleep EXCEPT !.phase = "scheduled", !.at = clock]
<1>1. job' = [job EXCEPT ![c] = j]
      /\ UNCHANGED <<clock, db, saved, marker, capsule, session, request, purge, replay, acked>>
  BY DEF Schedule, Still
<1>2. clock \in Int
  BY DEF IInv, Types
<1>3. j \in Jobs /\ j.phase = "scheduled"
  BY <1>2, JobsMove DEF IInv
<1> HIDE DEF j
<1> QED
  BY <1>1, <1>3, Stands, JobMoves DEF IInv, Types

\* A phase in which nothing is known of the session, or the session is gone.
LEMMA WorksStep ==
  ASSUME IInv, NEW c \in Connections, NEW phase \in {"scheduled", "read", "absent", "confirmed"},
         Works(c, phase), Grows, db' \in Databases,
         Sound(db', marker'.conn, capsule', session'),
         UNCHANGED <<clock, saved, marker, capsule, request, purge, replay, acked>>,
         phase \in {"absent", "confirmed"} => c \notin session'
  PROVE  IInv'
<1> DEFINE j == [Asleep EXCEPT !.phase = phase, !.at = job[c].at]
<1>1. job' = [job EXCEPT ![c] = j]
  BY DEF Works
<1>2. job[c].at \in Int
  <2>1. job[c] \in Jobs
    BY DEF IInv, Types
  <2> QED
    BY <2>1 DEF Jobs
<1>3. j \in Jobs /\ j.phase = phase
  BY <1>2, JobsMove DEF IInv
<1> HIDE DEF j
<1> QED
  BY <1>1, <1>3, JobMoves DEF IInv, Types

LEMMA ReadCapsuleStep ==
  ASSUME IInv, NEW c \in Connections, ReadCapsule(c)
  PROVE  IInv'
<1>1. UNCHANGED <<clock, db, saved, marker, capsule, session, request, purge, replay, acked>>
  BY DEF ReadCapsule, Still
<1>2. Works(c, "read") \/ Rests(c)
  BY DEF ReadCapsule
<1>3. CASE Works(c, "read")
  BY <1>1, <1>3, Stands, WorksStep DEF IInv, Types
<1>4. CASE Rests(c)
  BY <1>1, <1>4, RestsStep
<1> QED
  BY <1>2, <1>3, <1>4

LEMMA DeleteSessionStep ==
  ASSUME IInv, NEW c \in Connections, DeleteSession(c)
  PROVE  IInv'
<1>1. session' = session \ {c} /\ Works(c, "absent")
      /\ UNCHANGED <<clock, db, saved, marker, capsule, request, purge, replay, acked>>
  BY DEF DeleteSession, Still
<1>2. Grows
  BY <1>1 DEF Grows, Dead, Findable
<1>3. Sound(db', marker'.conn, capsule', session')
  BY <1>1, <1>2, StoreSound DEF IInv, Grows
<1> QED
  BY <1>1, <1>2, <1>3, WorksStep DEF IInv, Types

LEMMA DeleteSessionFailsStep ==
  ASSUME IInv, NEW c \in Connections, DeleteSessionFails(c)
  PROVE  IInv'
BY RestsStep DEF DeleteSessionFails, Failing

LEMMA CoordinatorFailsStep ==
  ASSUME IInv, NEW c \in Connections, CoordinatorFails(c)
  PROVE  IInv'
BY RestsStep DEF CoordinatorFails, Failing

\* The capsule goes when the session is known to be gone.
LEMMA DestroyCapsuleStep ==
  ASSUME IInv, NEW c \in Connections, DestroyCapsule(c)
  PROVE  IInv'
<1>1. capsule' = [capsule EXCEPT ![c] = "destroyed"] /\ job' = [job EXCEPT ![c] = Asleep]
      /\ UNCHANGED <<clock, db, saved, marker, session, request, purge, replay, acked>>
  BY DEF DestroyCapsule, Rests, Still
<1>2. c \notin session
  BY DEF DestroyCapsule, IInv, Worked
<1>3. capsule' \in [Connections -> {"none", "kept", "destroyed"}]
      /\ \A x \in Connections : x # c => capsule'[x] = capsule[x]
  BY <1>1 DEF IInv, Types
<1>4. Grows
  BY <1>1, <1>2, <1>3 DEF Grows, Dead, Findable
<1>5. Sound(db', marker'.conn, capsule', session')
  BY <1>1, <1>4, StoreSound DEF IInv, Grows
<1> QED
  BY <1>1, <1>3, <1>4, <1>5, AsleepFits, JobMoves DEF IInv, Types

\* The absence of a session that is gone is recorded on the row,
LEMMA AbsenceSound ==
  ASSUME NEW d \in Databases, NEW c \in Connections, NEW at \in Int,
         NEW m, NEW k, NEW s, Sound(d, m, k, s), c \notin s
  PROVE  LET e == [d EXCEPT !.conn[c].absence = at]
         IN /\ e \in Databases /\ Sound(e, m, k, s) /\ e.ready = d.ready
            /\ \A x \in Connections : e.conn[x].state = d.conn[x].state
<1> DEFINE row == [d.conn[c] EXCEPT !.absence = at]
           conn == [d.conn EXCEPT ![c] = row]
           e == [d EXCEPT !.conn = conn]
<1>1. [d EXCEPT !.conn[c].absence = at] = e
  BY WholeIsAll DEF Whole
<1>2. d.conn[c] \in Rows /\ d.conn \in [Connections -> Rows]
  BY DEF Databases
<1>3. row \in Rows /\ row.state = d.conn[c].state /\ row.key = d.conn[c].key
  BY <1>2 DEF Rows
<1> HIDE DEF row
<1>4. conn \in [Connections -> Rows] /\ conn[c] = row
      /\ \A x \in Connections : x # c => conn[x] = d.conn[x]
  BY <1>2, <1>3
<1> HIDE DEF conn
<1>5. e \in Databases
  BY <1>4 DEF Databases
<1>6. e.conn = conn /\ e.setups = d.setups
  BY DEF Databases
<1>7. e.continuations = d.continuations /\ e.ready = d.ready
  BY DEF Databases
<1> HIDE DEF e
<1>8. ASSUME NEW x \in Connections
      PROVE  /\ e.conn[x].state # "live" => ~e.conn[x].key /\ m[x] # Never
             /\ e.conn[x].state = "deleting" => Findable(x, k, s)
             /\ e.conn[x].state = "gone" => x \notin s \/ x \in e.continuations
             /\ e.conn[x].absence # Never => x \notin s
             /\ e.conn[x].state = d.conn[x].state
  <2>1. CASE x = c
    BY <1>3, <1>4, <1>6, <1>7, <2>1 DEF Sound
  <2>2. CASE x # c
    BY <1>4, <1>6, <1>7, <2>2 DEF Sound
  <2> QED
    BY <2>1, <2>2
<1>9. Sound(e, m, k, s)
  BY <1>6, <1>8 DEF Sound
<1> QED
  BY <1>1, <1>5, <1>7, <1>8, <1>9

\* or the continuation that a replay has left goes with its Setup.
LEMMA ContinuationSound ==
  ASSUME NEW d \in Databases, NEW c \in Connections,
         NEW m, NEW k, NEW s, Sound(d, m, k, s), c \notin s
  PROVE  LET e == [d EXCEPT !.continuations = @ \ {c}, !.setups = @ \ {c}]
         IN e \in Databases /\ Sound(e, m, k, s) /\ e.ready = d.ready /\ e.conn = d.conn
<1> DEFINE e == [d EXCEPT !.continuations = @ \ {c}, !.setups = @ \ {c}]
<1>1. e \in Databases
  BY DEF Databases
<1>2. e.conn = d.conn /\ e.setups = d.setups \ {c}
  BY DEF Databases
<1>3. e.continuations = d.continuations \ {c} /\ e.ready = d.ready
  BY DEF Databases
<1> HIDE DEF e
<1>4. Sound(e, m, k, s)
  BY <1>2, <1>3 DEF Sound
<1> QED
  BY <1>1, <1>2, <1>3, <1>4 DEF e

LEMMA ConfirmAbsenceStep ==
  ASSUME IInv, NEW c \in Connections, ConfirmAbsence(c)
  PROVE  IInv'
<1>1. UNCHANGED <<clock, saved, marker, capsule, session, request, purge, replay, acked>>
      /\ job[c].phase = "absent"
  BY DEF ConfirmAbsence, Still
<1>2. c \notin session
  BY <1>1 DEF IInv, Worked
<1>3. CASE db' = Confirmed(c) /\ Works(c, "confirmed")
  <2>1. PICK at \in Int :
          at = IF db.conn[c].absence = Never THEN job[c].at ELSE db.conn[c].absence
    <3>1. job[c] \in Jobs /\ db.conn[c] \in Rows
      BY DEF IInv, Types, Databases
    <3> QED
      BY <3>1 DEF Jobs, Rows
  <2>2. db' = [db EXCEPT !.conn[c].absence = at]
    <3>1. db = Whole(db) /\ db.conn[c] \in Rows /\ db.conn \in [Connections -> Rows]
      BY WholeIsAll DEF IInv, Types, Databases
    <3>2. db' = [db EXCEPT !.conn[c].absence =
                   IF db.conn[c].absence = Never THEN job[c].at ELSE db.conn[c].absence]
      BY <1>3, <3>1 DEF Confirmed, Whole
    <3> QED
      BY <2>1, <3>2
  <2>3. /\ db' \in Databases /\ Sound(db', marker.conn, capsule, session)
        /\ db'.ready = db.ready
        /\ \A x \in Connections : db'.conn[x].state = db.conn[x].state
    <3>1. db \in Databases /\ Sound(db, marker.conn, capsule, session) /\ at \in Int
      BY DEF IInv, Types
    <3> DEFINE e == [db EXCEPT !.conn[c].absence = at]
    <3>2. /\ e \in Databases /\ Sound(e, marker.conn, capsule, session) /\ e.ready = db.ready
          /\ \A x \in Connections : e.conn[x].state = db.conn[x].state
      BY <1>2, <3>1, AbsenceSound
    <3>3. db' = e
      BY <2>2
    <3> HIDE DEF e
    <3> QED
      BY <3>2, <3>3
  <2>4. Grows
    BY <1>1, <2>3 DEF Grows, Dead
  <2> QED
    BY <1>1, <1>2, <1>3, <2>3, <2>4, WorksStep
<1>4. CASE db' = [db EXCEPT !.continuations = @ \ {c}, !.setups = @ \ {c}] /\ Works(c, "confirmed")
  <2>1. /\ db' \in Databases /\ Sound(db', marker.conn, capsule, session)
        /\ db'.ready = db.ready /\ db'.conn = db.conn
    BY <1>2, <1>4, ContinuationSound DEF IInv, Types
  <2>2. Grows
    BY <1>1, <2>1 DEF Grows, Dead
  <2> QED
    BY <1>1, <1>2, <1>4, <2>1, <2>2, WorksStep
<1>5. CASE db' = db /\ Works(c, "confirmed")
  BY <1>1, <1>2, <1>5, Stands, WorksStep DEF IInv, Types
<1>6. CASE db' = db /\ Rests(c)
  BY <1>1, <1>6, RestsStep
<1> QED
  BY <1>3, <1>4, <1>5, <1>6 DEF ConfirmAbsence

LEMMA ReconcileStep ==
  ASSUME IInv, NEW c \in Connections, Reconcile(c)
  PROVE  IInv'
BY ScheduleStep, ReadCapsuleStep, DeleteSessionStep, ConfirmAbsenceStep, DestroyCapsuleStep
   DEF Reconcile

-----------------------------------------------------------------------------
(***************************************************************************)
(* The purge, and the workers that come late.                              *)
(***************************************************************************)
LEMMA PurgeMoves ==
  ASSUME IInv, db' \in Databases, Grows, Sound(db', marker.conn, capsule, session), Calm,
         NEW c \in Connections, NEW p \in Purging, purge' = [purge EXCEPT ![c] = p],
         p.phase # "idle" => c \notin session
  PROVE  IInv'
<1>0. UNCHANGED <<clock, saved, marker, capsule, session, request, job, replay, acked>>
  BY DEF Calm
<1>1. job' \in [Connections -> Jobs] /\ purge' \in [Connections -> Purging]
  BY <1>0 DEF IInv, Types
<1>2. \A x \in Connections : x # c => purge'[x] = purge[x]
  BY DEF IInv, Types
<1>3. purge'[c] = p
  BY DEF IInv, Types
<1>4. Worked'
  BY <1>0, <1>2, <1>3 DEF IInv, Worked
<1> QED
  BY <1>0, <1>1, <1>4, WorkerMoves DEF IInv, Types

\* Nothing but the rows of files and media changes.
LEMMA LikeMoves ==
  ASSUME IInv, db' \in Databases, Like(db, db'), Calm, purge' = purge
  PROVE  IInv'
<1>0. UNCHANGED <<clock, saved, marker, capsule, session, request, job, replay, acked>>
  BY DEF Calm
<1>1. Grows /\ Sound(db', marker'.conn, capsule', session')
  BY <1>0, LikeGrows, LikeSound DEF IInv
<1>2. Worked'
  BY <1>0, <1>1, WorkedStays DEF IInv
<1> QED
  BY <1>0, <1>1, <1>2, WorkerMoves DEF IInv, Types

\* A purging row that is released.
LEMMA ReleasedLike ==
  ASSUME NEW d \in Databases, NEW c \in Connections
  PROVE  Released(d, c) \in Databases /\ Like(d, Released(d, c))
<1> DEFINE o == [d.object EXCEPT ![c] = IF d.object[c] = "purging" THEN "none" ELSE d.object[c]]
           u == IF d.object[c] = "purging" THEN d.used - 1 ELSE d.used
           i == d.intents \ {c}
<1>1. /\ d = Whole(d) /\ u \in Int /\ i \in SUBSET Connections
      /\ o \in [Connections -> {"none", "pending", "ready", "purging"}]
  BY WholeIsAll DEF Databases
<1>2. Released(d, c) = [d EXCEPT !.object = o, !.used = u, !.intents = i]
  BY <1>1 DEF Released, Whole
<1>3. u \in Int /\ i \in SUBSET Connections
      /\ o \in [Connections -> {"none", "pending", "ready", "purging"}]
  BY <1>1
<1> HIDE DEF o, u, i
<1>4. /\ [d EXCEPT !.object = o, !.used = u, !.intents = i] \in Databases
      /\ Like(d, [d EXCEPT !.object = o, !.used = u, !.intents = i])
  BY <1>3, ObjectLike
<1> QED
  BY <1>2, <1>4

LEMMA BeginPurgeStep ==
  ASSUME IInv, NEW c \in Connections, BeginPurge(c)
  PROVE  IInv'
<1> DEFINE p == [Asleep EXCEPT !.phase = "begun", !.at = clock]
<1>1. purge' = [purge EXCEPT ![c] = p] /\ db' = db /\ Calm /\ db.conn[c].absence # Never
  BY DEF BeginPurge, Purges
<1>2. p \in Purging
  <2>1. clock \in Int /\ Asleep \in Purging
    BY AsleepFits DEF IInv, Types
  <2> QED
    BY <2>1 DEF Purging
<1> HIDE DEF p
<1>3. c \notin session
  BY <1>1 DEF IInv, Sound
<1>4. Grows
  BY <1>1, Stands DEF Calm, BeginPurge
<1> QED
  BY <1>1, <1>2, <1>3, <1>4, PurgeMoves DEF IInv, Types, BeginPurge

LEMMA PrepareCleanupStep ==
  ASSUME IInv, NEW c \in Connections, PrepareCleanup(c)
  PROVE  IInv'
<1>1. purge[c].phase = "begun" /\ Calm /\ UNCHANGED <<r2, late>>
  BY DEF PrepareCleanup
<1>2. c \notin session
  BY <1>1 DEF IInv, Worked
<1>3. CASE purge' = [purge EXCEPT ![c] = Asleep] /\ db' = db
  <2>1. Grows
    BY <1>1, <1>3, Stands DEF Calm, PrepareCleanup
  <2> QED
    BY <1>1, <1>2, <1>3, <2>1, AsleepFits, PurgeMoves DEF IInv, Types
<1>4. CASE db.conn[c].state = "deleting"
  <2> DEFINE x == db.object[c]
             o == [db.object EXCEPT ![c] = CASE x = "pending" -> "none"
                                             [] x = "ready" -> "purging" [] OTHER -> x]
             i == IF db.object[c] = "ready" THEN db.intents \cup {c} ELSE db.intents
             todo == {<<"object", d>> : d \in QueuedOf(db, c)}
                       \cup {<<"source", d>> : d \in {c} \cap db.source}
             p == [purge[c] EXCEPT !.phase = "purging", !.todo = todo]
  <2>1. db = Whole(db) /\ db \in Databases /\ x \in {"none", "pending", "ready", "purging"}
        /\ db.object \in [Connections -> {"none", "pending", "ready", "purging"}]
        /\ db.intents \in SUBSET Connections /\ db.used \in Int
    BY WholeIsAll DEF IInv, Types, Databases
  <2>2. db' = [db EXCEPT !.object = o, !.used = db.used, !.intents = i]
        /\ purge' = [purge EXCEPT ![c] = p]
    <3>1. db' = [db EXCEPT !.object[c] = CASE @ = "pending" -> "none"
                                           [] @ = "ready" -> "purging" [] OTHER -> @,
                           !.intents = IF db.object[c] = "ready" THEN @ \cup {c} ELSE @]
      BY <1>4 DEF PrepareCleanup
    <3>2. db' = [db EXCEPT !.object = o, !.intents = i]
      BY <2>1, <3>1 DEF Whole
    <3>3. [db EXCEPT !.object = o, !.intents = i]
            = [db EXCEPT !.object = o, !.used = db.used, !.intents = i]
      <4> HIDE DEF o, i
      <4> QED
        BY <2>1 DEF Whole
    <3>4. purge' = [purge EXCEPT ![c] = p]
      BY <1>4 DEF PrepareCleanup, Purges
    <3> QED
      BY <3>2, <3>3, <3>4
  <2>3. o \in [Connections -> {"none", "pending", "ready", "purging"}] /\ i \in SUBSET Connections
    BY <2>1
  <2>4. QueuedOf(db, c) \subseteq Connections
    BY DEF QueuedOf
  <2>5. todo \in SUBSET Objects
    BY <2>4 DEF Objects
  <2>6. p \in Purging
    <3>1. purge[c] \in Purging
      BY DEF IInv, Types
    <3> HIDE DEF todo
    <3> QED
      BY <2>5, <3>1 DEF Purging
  <2> HIDE DEF o, i, p, todo
  <2>7. db' \in Databases /\ Like(db, db')
    BY <2>1, <2>2, <2>3, ObjectLike
  <2>8. Grows /\ Sound(db', marker.conn, capsule, session)
    BY <1>1, <2>7, LikeGrows, LikeSound DEF Calm, IInv
  <2> QED
    BY <1>1, <1>2, <2>2, <2>6, <2>7, <2>8, PurgeMoves
<1> QED
  BY <1>3, <1>4 DEF PrepareCleanup, Purges

LEMMA RemoveObjectStep ==
  ASSUME IInv, NEW c \in Connections, NEW o \in Objects, RemoveObject(c, o)
  PROVE  IInv'
<1> DEFINE p == [purge[c] EXCEPT !.removed = @ \cup {o}]
<1>1. purge[c].phase = "purging" /\ purge' = [purge EXCEPT ![c] = p] /\ db' = db /\ Calm
  BY DEF RemoveObject, Purges
<1>2. c \notin session
  BY <1>1 DEF IInv, Worked
<1>3. purge[c] \in Purging
  BY DEF IInv, Types
<1>4. p \in Purging
  BY <1>3 DEF Purging
<1> HIDE DEF p
<1>5. Grows
  BY <1>1, Stands DEF Calm
<1> QED
  BY <1>1, <1>2, <1>4, <1>5, PurgeMoves DEF IInv, Types

LEMMA FinishObjectStep ==
  ASSUME IInv, NEW c \in Connections, NEW o \in Objects, FinishObject(c, o)
  PROVE  IInv'
<1> DEFINE p == [purge[c] EXCEPT !.todo = @ \ {o}, !.removed = @ \ {o}]
<1>1. purge[c].phase = "purging" /\ purge' = [purge EXCEPT ![c] = p] /\ Calm
  BY DEF FinishObject, Purges
<1>2. c \notin session
  BY <1>1 DEF IInv, Worked
<1>3. purge[c] \in Purging /\ db \in Databases
  BY DEF IInv, Types
<1>4. p \in Purging
  BY <1>3 DEF Purging
<1> HIDE DEF p
<1>5. db' \in Databases /\ Like(db, db')
  <2>1. CASE db' = Released(db, c)
    BY <1>3, <2>1, ReleasedLike
  <2>2. CASE db' = [db EXCEPT !.source = @ \ {c}]
    <3>1. db.source \ {c} \in SUBSET Connections /\ db' = [db EXCEPT !.source = db.source \ {c}]
      BY <1>3, <2>2 DEF Databases
    <3> QED
      BY <1>3, <3>1, SourceLike
  <2> QED
    BY <2>1, <2>2 DEF FinishObject
<1>6. Grows /\ Sound(db', marker.conn, capsule, session)
  BY <1>1, <1>5, LikeGrows, LikeSound DEF Calm, IInv
<1> QED
  BY <1>1, <1>2, <1>4, <1>5, <1>6, PurgeMoves

LEMMA FinishCleanupStep ==
  ASSUME IInv, NEW c \in Connections, FinishCleanup(c)
  PROVE  IInv'
<1>1. purge[c].phase = "purging" /\ purge' = [purge EXCEPT ![c] = Asleep] /\ Calm
      /\ UNCHANGED <<r2, late>>
  BY DEF FinishCleanup, Purges
<1>2. c \notin session
  BY <1>1 DEF IInv, Worked
<1>3. CASE db' = db
  <2>1. Grows
    BY <1>1, <1>3, Stands DEF Calm
  <2> QED
    BY <1>1, <1>2, <1>3, <2>1, AsleepFits, PurgeMoves DEF IInv, Types
<1>4. CASE db.conn[c].state = "deleting" /\ db' = Cleaned(db, c)
  <2>1. db \in Databases /\ Sound(db, marker.conn, capsule, session)
    BY DEF IInv, Types
  <2>2. Sound(db', marker.conn, capsule, session)
    BY <1>2, <1>4, <2>1, CleanedSound
  <2> DEFINE row == [state |-> "gone", requested |-> db.conn[c].requested,
                     absence |-> db.conn[c].absence, key |-> db.conn[c].key]
  <2>3. row.state = "gone"
    OBVIOUS
  <2>4. db' \in Databases /\ db'.ready = db.ready /\ db'.conn = [db.conn EXCEPT ![c] = row]
    BY <1>4, <2>1, CleanedConn
  <2> HIDE DEF row
  <2>5. db.conn \in [Connections -> Rows]
    BY <2>1 DEF Databases
  <2>6. \A x \in Connections : db'.conn[x] = IF x = c THEN row ELSE db.conn[x]
    BY <2>4, <2>5
  <2>7. Grows
    BY <1>1, <2>3, <2>4, <2>6 DEF Grows, Dead, Calm
  <2> QED
    BY <1>1, <1>2, <2>2, <2>4, <2>7, AsleepFits, PurgeMoves
<1> QED
  BY <1>3, <1>4 DEF FinishCleanup

LEMMA PurgeStepStep ==
  ASSUME IInv, NEW c \in Connections, PurgeStep(c)
  PROVE  IInv'
BY BeginPurgeStep, PrepareCleanupStep, FinishCleanupStep, RemoveObjectStep, FinishObjectStep
   DEF PurgeStep

LEMMA PurgeFailsStep ==
  ASSUME IInv, NEW c \in Connections, PurgeFails(c)
  PROVE  IInv'
<1>1. purge' = [purge EXCEPT ![c] = Asleep]
      /\ UNCHANGED <<clock, db, saved, marker, capsule, session, request, job, replay, acked>>
  BY DEF PurgeFails, Failing, Purges
<1>2. job' \in [Connections -> Jobs] /\ purge' \in [Connections -> Purging]
  BY <1>1, AsleepFits DEF IInv, Types
<1>3. \A x \in Connections : purge'[x] = purge[x] \/ purge'[x] = Asleep
  BY <1>1 DEF IInv, Types
<1>4. Worked'
  BY <1>1, <1>3, AsleepFits DEF IInv, Worked
<1> QED
  BY <1>1, <1>2, <1>4, Stands, WorkerMoves DEF IInv, Types

LEMMA LateMediaStep ==
  ASSUME IInv, NEW c \in Connections, LateMedia(c)
  PROVE  IInv'
<1> DEFINE o == [db.object EXCEPT ![c] = "ready"]
           u == db.used + 1
<1>1. db = Whole(db) /\ db \in Databases
  BY WholeIsAll DEF IInv, Types
<1>2. [db EXCEPT !.object = o, !.used = u]
        = [db EXCEPT !.object = o, !.used = u, !.intents = db.intents]
  <2> HIDE DEF o, u
  <2> QED
    BY <1>1 DEF Whole
<1>3. db' = [db EXCEPT !.object = o, !.used = u]
  BY <1>1 DEF LateMedia, Charged, Whole
<1>4. u \in Int /\ db.intents \in SUBSET Connections
      /\ o \in [Connections -> {"none", "pending", "ready", "purging"}]
  BY <1>1 DEF Databases
<1> HIDE DEF o, u
<1>5. /\ [db EXCEPT !.object = o, !.used = u, !.intents = db.intents] \in Databases
      /\ Like(db, [db EXCEPT !.object = o, !.used = u, !.intents = db.intents])
  BY <1>1, <1>4, ObjectLike
<1> QED
  BY <1>2, <1>3, <1>5, LikeMoves DEF LateMedia

LEMMA LateEventStep ==
  ASSUME IInv, NEW c \in Connections, LateEvent(c)
  PROVE  IInv'
<1>1. db \in Databases /\ db.source \cup {c} \in SUBSET Connections
  BY DEF IInv, Types, Databases
<1>2. db' = [db EXCEPT !.source = db.source \cup {c}]
  BY DEF LateEvent
<1>3. db' \in Databases /\ Like(db, db')
  BY <1>1, <1>2, SourceLike
<1> QED
  BY <1>3, LikeMoves DEF LateEvent

LEMMA PurgeAccountStep ==
  ASSUME IInv, PurgeAccount
  PROVE  IInv'
<1> DEFINE a == [db.account EXCEPT !.state = "gone"]
<1>1. db = Whole(db) /\ db \in Databases /\ db.account \in Accounts
  BY WholeIsAll DEF IInv, Types, Databases
<1>2. db' = [db EXCEPT !.account = a]
  BY <1>1 DEF PurgeAccount, Whole
<1>3. a \in Accounts
  BY <1>1 DEF Accounts
<1> HIDE DEF a
<1>4. db' \in Databases /\ Like(db, db')
  BY <1>1, <1>2, <1>3, AccountLike
<1> QED
  BY <1>4, LikeMoves DEF PurgeAccount

LEMMA BreakGlassStep ==
  ASSUME IInv, BreakGlassRequest
  PROVE  IInv'
BY AuditedLike, LikeMoves DEF BreakGlassRequest, IInv, Types

LEMMA TickStep ==
  ASSUME IInv, Tick
  PROVE  IInv'
<1>1. clock' \in Nat
      /\ UNCHANGED <<db, saved, marker, capsule, session, request, job, purge, replay, acked>>
  BY DEF Tick, store, IInv, Types
<1>2. Types' /\ Asked' /\ Worked' /\ Answered'
  <2>1. Types'
    BY <1>1 DEF IInv, Types
  <2>2. Asked'
    BY <1>1 DEF IInv, Asked
  <2>3. Worked'
    BY <1>1 DEF IInv, Worked
  <2>4. Answered'
    BY <1>1 DEF IInv, Answered, Dead
  <2> QED
    BY <2>1, <2>2, <2>3, <2>4
<1> QED
  BY <1>1, <1>2 DEF IInv

-----------------------------------------------------------------------------
(***************************************************************************)
(* The recovery point, the restore and the replay.                         *)
(***************************************************************************)
LEMMA RecoveryPointStep ==
  ASSUME IInv, RecoveryPoint
  PROVE  IInv'
<1>1. saved' = db /\ db.ready
      /\ UNCHANGED <<clock, db, marker, capsule, session, request, job, purge, replay, acked>>
  BY DEF RecoveryPoint, store
<1>2. Types'
  BY <1>1 DEF IInv, Types
<1>3. Asked'
  BY <1>1 DEF IInv, Asked
<1>4. Worked'
  BY <1>1 DEF IInv, Worked
<1>5. Answered'
  BY <1>1 DEF IInv, Answered, Dead
<1>6. Sound(db', marker'.conn, capsule', session')
      /\ Sound(saved', marker'.conn, capsule', session') /\ saved'.ready
  BY <1>1 DEF IInv
<1> QED
  BY <1>2, <1>3, <1>4, <1>5, <1>6 DEF IInv

LEMMA NotReplayingFits == NotReplaying \in Replaying /\ NotReplaying.phase = "idle"
BY DEF NotReplaying, Replaying

\* The recovery point takes the place of the database: all it says has its witness still.
LEMMA RestoreStep ==
  ASSUME IInv, Restore
  PROVE  IInv'
<1>1. db' = [saved EXCEPT !.ready = FALSE] /\ UNCHANGED <<clock, saved, marker, capsule, session, acked>>
      /\ replay' = NotReplaying
  BY DEF Restore, store
<1>2. db' \in Databases /\ ~db'.ready /\ Like([saved EXCEPT !.ready = FALSE], db')
  BY <1>1, ReadySet DEF IInv, Types, Like
<1>3. Sound(db', marker'.conn, capsule', session')
  <2>1. /\ saved \in Databases /\ Sound(saved, marker.conn, capsule, session)
    BY DEF IInv, Types
  <2>2. /\ db'.conn = saved.conn /\ db'.setups = saved.setups
        /\ db'.continuations = saved.continuations
    BY <1>1, <2>1, ReadySet
  <2> QED
    BY <1>1, <2>1, <2>2 DEF Sound
<1>4. /\ request' \in [Requests -> Askings] /\ job' \in [Connections -> Jobs]
      /\ purge' \in [Connections -> Purging] /\ replay' \in Replaying
  BY <1>1, NoRequestFits, AsleepFits, NotReplayingFits DEF Restore
<1>5. Types'
  BY <1>1, <1>2, <1>4 DEF IInv, Types
<1>6. Asked'
  BY NoRequestFits DEF Asked, Restore
<1>7. Worked'
  BY AsleepFits DEF Worked, Restore
<1>8. Answered'
  BY <1>1, <1>2, NotReplayingFits DEF IInv, Answered
<1>9. Sound(saved', marker'.conn, capsule', session') /\ saved'.ready
  BY <1>1 DEF IInv
<1> QED
  BY <1>3, <1>5, <1>6, <1>7, <1>8, <1>9 DEF IInv

LEMMA ReplayMoves ==
  ASSUME IInv, db' \in Databases, db'.ready = db.ready,
         \A c \in Connections : Dead(c) => Dead(c)',
         Sound(db', marker.conn, capsule, session), replay' \in Replaying, Answered',
         UNCHANGED <<clock, saved, marker, capsule, session, request, job, purge, acked>>
  PROVE  IInv'
<1>1. Grows
  BY DEF Grows
<1>2. Asked'
  BY <1>1, AskedStays DEF IInv
<1>3. Worked'
  BY <1>1, WorkedStays DEF IInv
<1>4. Sound(saved', marker'.conn, capsule', session') /\ saved'.ready
  BY <1>1, SavedStays DEF IInv
<1>5. Types'
  BY DEF IInv, Types
<1> QED
  BY <1>2, <1>3, <1>4, <1>5 DEF IInv

\* A step of the replay that changes no Connection.
LEMMA ReplayLike ==
  ASSUME IInv, db' \in Databases, Like(db, db'), replay' \in Replaying, Answered', Closed
  PROVE  IInv'
<1>1. Sound(db', marker.conn, capsule, session)
  BY LikeSound DEF IInv
<1>2. \A c \in Connections : Dead(c) => Dead(c)'
  BY DEF Like, Dead
<1> QED
  BY <1>1, <1>2, ReplayMoves DEF Like, Closed

LEMMA LikeItself == ASSUME NEW d PROVE Like(d, d)
BY DEF Like

\* A replay that only empties R2 has come as far as before.
LEMMA DrainsOn ==
  ASSUME IInv, Like(db, db'), UNCHANGED <<marker, acked>>,
         replay'.phase = replay.phase, replay'.todo = replay.todo,
         replay'.markers = replay.markers
  PROVE  Answered'
<1>1. db'.ready = db.ready /\ \A c \in Connections : Dead(c) => Dead(c)'
  BY DEF Like, Dead
<1>2. acked \subseteq Connections
  BY DEF IInv, Types
<1> QED
  BY <1>1, <1>2 DEF IInv, Answered

LEMMA BeginReplayStep ==
  ASSUME IInv, BeginReplay
  PROVE  IInv'
<1> DEFINE todo == {c \in Connections : db.conn[c].state # "gone"}
           markers == {c \in Connections : marker.conn[c] # Never}
           p == [NotReplaying EXCEPT !.phase = "deleting", !.todo = todo, !.markers = markers]
<1>1. ~db.ready /\ replay' = p /\ db' = db /\ Closed
  BY DEF BeginReplay, Replays
<1>2. NotReplaying \in Replaying /\ todo \in SUBSET Connections /\ markers \in SUBSET Connections
  BY NotReplayingFits
<1>3. p \in Replaying /\ p.phase = "deleting" /\ p.todo = todo /\ p.markers = markers
  <2> HIDE DEF todo, markers
  <2>1. p \in Replaying
    BY <1>2 DEF Replaying
  <2>2. p.phase = "deleting" /\ p.todo = todo
    BY <1>2 DEF Replaying
  <2>3. p.markers = markers
    BY <1>2 DEF Replaying
  <2> QED
    BY <2>1, <2>2, <2>3
<1> HIDE DEF p
<1>4. Answered'
  <2>1. \A c \in acked : marker.conn[c] # Never /\ c \in Connections
    BY DEF IInv, Answered, Types
  <2>2. \A c \in acked : c \in markers /\ (c \notin todo => Dead(c))
    BY <2>1 DEF Dead
  <2>3. \A c \in markers : marker.conn[c] # Never
    OBVIOUS
  <2> HIDE DEF todo, markers
  <2> QED
    BY <1>1, <1>3, <2>1, <2>2, <2>3 DEF Answered, Dead, Closed
<1> QED
  BY <1>1, <1>3, <1>4, LikeItself, ReplayLike DEF IInv, Types

LEMMA ReplayConnectionStep ==
  ASSUME IInv, NEW c \in Connections, ReplayConnection(c)
  PROVE  IInv'
<1> DEFINE p == [replay EXCEPT !.todo = @ \ {c}]
<1>1. /\ replay.phase = "deleting" /\ replay' = p /\ Closed /\ UNCHANGED r2
      /\ db' = IF c \in replay.markers THEN Replayed(db, c) ELSE db
  BY DEF ReplayConnection, Replays, Marked
<1>2. p \in Replaying /\ p.phase = replay.phase /\ p.todo = replay.todo \ {c}
      /\ p.markers = replay.markers
  <2>1. replay \in Replaying
    BY DEF IInv, Types
  <2> QED
    BY <2>1 DEF Replaying
<1> HIDE DEF p
<1>3. db \in Databases /\ Sound(db, marker.conn, capsule, session)
      /\ \A x \in replay.markers : marker.conn[x] # Never
  BY <1>1 DEF IInv, Types, Answered
<1>4. /\ db' \in Databases /\ db'.ready = db.ready
      /\ \A x \in Connections : Dead(x) => Dead(x)'
      /\ c \in replay.markers => Dead(c)'
      /\ Sound(db', marker.conn, capsule, session)
  <2>1. CASE c \in replay.markers
    <3> DEFINE row == [state |-> "gone", requested |-> db.conn[c].requested,
                       absence |-> db.conn[c].absence, key |-> FALSE]
    <3>1. db' = Replayed(db, c)
      BY <1>1, <2>1
    <3>2. row.state = "gone"
      OBVIOUS
    <3>3. db' \in Databases /\ db'.ready = db.ready /\ db'.conn = [db.conn EXCEPT ![c] = row]
      BY <1>3, <3>1, ReplayedConn
    <3> HIDE DEF row
    <3>4. db.conn \in [Connections -> Rows]
      BY <1>3 DEF Databases
    <3>5. \A x \in Connections : db'.conn[x] = IF x = c THEN row ELSE db.conn[x]
      BY <3>3, <3>4
    <3>6. Sound(db', marker.conn, capsule, session)
      BY <1>3, <2>1, <3>1, ReplayedSound
    <3> QED
      BY <3>2, <3>3, <3>5, <3>6 DEF Dead
  <2>2. CASE c \notin replay.markers
    BY <1>1, <1>3, <2>2 DEF Dead
  <2> QED
    BY <2>1, <2>2
<1>5. Answered'
  <2>1. acked \subseteq Connections
    BY DEF IInv, Types
  <2>2. ASSUME NEW x \in acked, x \notin p.todo PROVE Dead(x)'
    <3>1. x \in replay.markers /\ (x \notin replay.todo => Dead(x))
      BY <1>1 DEF IInv, Answered
    <3> QED
      BY <1>2, <1>4, <2>1, <2>2, <3>1 DEF Dead
  <2>3. db'.ready = db.ready /\ ~db.ready
    BY <1>1, <1>4 DEF IInv, Answered
  <2> QED
    BY <1>1, <1>2, <2>2, <2>3 DEF IInv, Answered, Closed
<1> QED
  BY <1>1, <1>2, <1>4, <1>5, ReplayMoves DEF Closed

\* The account: keys go, no Connection moves, and Setups go only with the last session.
LEMMA ReplayAccountStep ==
  ASSUME IInv, ReplayAccount
  PROVE  IInv'
<1> DEFINE f == FilesGone(db, Connections)
           at == IF db.account.requested = Never THEN clock ELSE db.account.requested
           a == [db.account EXCEPT !.state = "deleting", !.marker = TRUE, !.key = FALSE,
                   !.requested = at]
           conn == [c \in Connections |-> [db.conn[c] EXCEPT !.key = FALSE]]
           unkeyed == [f EXCEPT !.account = a, !.conn = conn]
           closed == [unkeyed EXCEPT !.account.state = "gone", !.setups = {}]
           p == [replay EXCEPT !.phase = "draining"]
<1>1. replay.phase = "deleting" /\ replay.todo = {} /\ replay' = p /\ Closed
  BY DEF ReplayAccount, Replays
<1>2. db \in Databases /\ f \in Databases /\ Like(db, f)
  BY FilesGoneLike DEF IInv, Types
<1>3. \/ db' = db
      \/ db' = unkeyed
      \/ db' = closed /\ Live(db) \cup Candidates = {}
  BY DEF ReplayAccount
<1>4. a \in Accounts
  <2>1. db.account \in Accounts /\ at \in Nat \cup {Never}
    BY <1>2 DEF Databases, Accounts, IInv, Types
  <2> HIDE DEF at
  <2> QED
    BY <2>1 DEF Accounts
<1>5. ASSUME NEW c \in Connections
      PROVE  /\ conn[c] \in Rows /\ conn[c].state = db.conn[c].state
             /\ ~conn[c].key /\ conn[c].absence = db.conn[c].absence
  <2>1. db.conn[c] \in Rows
    BY <1>2 DEF Databases
  <2> QED
    BY <2>1 DEF Rows
<1>6. conn \in [Connections -> Rows]
  BY <1>5
<1> HIDE DEF f, at, a, conn
<1>7. unkeyed \in Databases
  BY <1>2, <1>4, <1>6 DEF Databases
<1>8. unkeyed.conn = conn /\ unkeyed.setups = db.setups
  BY <1>2 DEF Databases, Like
<1>9. unkeyed.continuations = db.continuations /\ unkeyed.ready = db.ready
  BY <1>2 DEF Databases, Like
<1>10. unkeyed.account \in Accounts
  BY <1>7 DEF Databases
<1> HIDE DEF unkeyed
<1>11. closed \in Databases /\ closed.conn = conn /\ closed.setups = {}
       /\ closed.continuations = db.continuations /\ closed.ready = db.ready
  <2> DEFINE b == [unkeyed.account EXCEPT !.state = "gone"]
  <2>1. b \in Accounts
    BY <1>10 DEF Accounts
  <2>2. unkeyed = Whole(unkeyed)
    BY <1>7, WholeIsAll
  <2>3. closed = [unkeyed EXCEPT !.account = b, !.setups = {}]
    BY <2>2 DEF Whole
  <2> HIDE DEF b, closed
  <2>4. closed \in Databases
    BY <1>7, <2>1, <2>3 DEF Databases
  <2>5. closed.conn = unkeyed.conn /\ closed.setups = {}
    BY <1>7, <2>3 DEF Databases
  <2>6. closed.continuations = unkeyed.continuations /\ closed.ready = unkeyed.ready
    BY <1>7, <2>3 DEF Databases
  <2> QED
    BY <1>8, <1>9, <2>4, <2>5, <2>6
<1> HIDE DEF closed
<1>12. Sound(db, marker.conn, capsule, session)
  BY DEF IInv
<1>13. /\ db' \in Databases /\ db'.ready = db.ready
       /\ \A x \in Connections : Dead(x) => Dead(x)'
       /\ Sound(db', marker.conn, capsule, session)
  <2>1. CASE db' = db
    BY <1>2, <1>12, <2>1 DEF Dead
  <2>2. CASE db' = unkeyed
    <3>1. Sound(db', marker.conn, capsule, session)
      BY <1>5, <1>8, <1>9, <1>12, <2>2 DEF Sound
    <3> QED
      BY <1>5, <1>7, <1>8, <1>9, <2>2, <3>1 DEF Dead
  <2>3. CASE db' = closed /\ Live(db) \cup Candidates = {}
    <3>1. ASSUME NEW c \in Connections PROVE c \notin session
      <4>1. db.conn[c].state \notin {"live", "deleting"} /\ c \notin db.continuations
        BY <2>3 DEF Live, Candidates
      <4>2. db.conn[c] \in Rows
        BY <1>2 DEF Databases
      <4>3. db.conn[c].state = "gone"
        BY <4>1, <4>2 DEF Rows
      <4> QED
        BY <1>12, <4>1, <4>3 DEF Sound
    <3>2. session = {}
      BY <3>1 DEF IInv, Types
    <3>3. Sound(db', marker.conn, capsule, session)
      BY <1>5, <1>11, <1>12, <2>3, <3>2 DEF Sound, Findable
    <3> QED
      BY <1>5, <1>11, <2>3, <3>3 DEF Dead
  <2> QED
    BY <1>3, <2>1, <2>2, <2>3
<1>14. p \in Replaying /\ p.phase = "draining" /\ p.todo = {} /\ p.markers = replay.markers
  <2>1. replay \in Replaying
    BY DEF IInv, Types
  <2> QED
    BY <1>1, <2>1 DEF Replaying
<1> HIDE DEF p
<1>15. Answered'
  <2>1. acked \subseteq Connections /\ db'.ready = db.ready /\ ~db.ready
    BY <1>1, <1>13 DEF IInv, Types, Answered
  <2>2. \A x \in acked : x \in replay.markers /\ Dead(x)
    BY <1>1 DEF IInv, Answered
  <2> QED
    BY <1>1, <1>13, <1>14, <2>1, <2>2 DEF IInv, Answered, Closed
<1> QED
  BY <1>1, <1>13, <1>14, <1>15, ReplayMoves DEF Closed

LEMMA QueueIntentsStep ==
  ASSUME IInv, QueueIntents
  PROVE  IInv'
<1> DEFINE S == {m \in db.removals : m.object = "source" \/ m.conn \notin db.intents
                                       \/ m.charge = "retained"}
                  \cup {Removal("object", c, "account") : c \in
                          {e \in db.intents : Removal("object", e, "retained") \notin db.removals}}
<1>1. db' = [db EXCEPT !.removals = S] /\ Closed /\ replay' = replay
  BY DEF QueueIntents
<1>2. db \in Databases /\ db.removals \in SUBSET AllRemovals /\ db.intents \in SUBSET Connections
      /\ replay \in Replaying
  BY DEF IInv, Types, Databases
<1>3. S \in SUBSET AllRemovals
  <2>1. \A c \in Connections : Removal("object", c, "account") \in AllRemovals
    BY DEF AllRemovals
  <2>2. {Removal("object", c, "account") : c \in
           {e \in db.intents : Removal("object", e, "retained") \notin db.removals}}
          \subseteq AllRemovals
    BY <1>2, <2>1
  <2> QED
    BY <1>2, <2>2
<1> HIDE DEF S
<1>4. db' \in Databases /\ Like(db, db')
  BY <1>1, <1>2, <1>3, RemovalsLike
<1>5. Answered'
  BY <1>1, <1>4, DrainsOn DEF Closed
<1> QED
  BY <1>1, <1>2, <1>4, <1>5, ReplayLike

LEMMA RemoveRestoredStep ==
  ASSUME IInv, NEW m \in AllRemovals, RemoveRestored(m)
  PROVE  IInv'
<1> DEFINE p == [replay EXCEPT !.removed = @ \cup {m}]
<1>1. db' = db /\ Closed /\ replay' = p
  BY DEF RemoveRestored, Replays
<1>2. replay \in Replaying
  BY DEF IInv, Types
<1>3. p \in Replaying /\ p.phase = replay.phase /\ p.todo = replay.todo
      /\ p.markers = replay.markers
  BY <1>2 DEF Replaying
<1> HIDE DEF p
<1>4. Answered'
  BY <1>1, <1>3, LikeItself, DrainsOn DEF Closed
<1> QED
  BY <1>1, <1>3, <1>4, LikeItself, ReplayLike DEF IInv, Types

\* What a removal that was finished leaves of the charges.
LEMMA ReleasedChargeLike ==
  ASSUME NEW d \in Databases, NEW m \in AllRemovals
  PROVE  ReleasedCharge(d, m) \in Databases /\ Like(d, ReleasedCharge(d, m))
<1>1. m.conn \in Connections
  BY DEF AllRemovals, Removal
<1>2. CASE m.charge = "account"
  BY <1>1, <1>2, ReleasedLike DEF ReleasedCharge
<1>3. CASE m.charge = "retained"
  <2>1. d.used - 1 \in Int /\ ReleasedCharge(d, m) = [d EXCEPT !.used = d.used - 1]
    BY <1>3 DEF ReleasedCharge, Databases
  <2> QED
    BY <2>1, UsedLike
<1>4. CASE m.charge \notin {"account", "retained"}
  BY <1>4, LikeItself DEF ReleasedCharge
<1> QED
  BY <1>2, <1>3, <1>4

LEMMA FinishRestoredStep ==
  ASSUME IInv, NEW m \in AllRemovals, FinishRestored(m)
  PROVE  IInv'
<1> DEFINE p == [replay EXCEPT !.removed = @ \ {m}]
           d == ReleasedCharge(db, m)
<1>1. db' = [d EXCEPT !.removals = d.removals \ {m}] /\ Closed /\ replay' = p
  BY DEF FinishRestored, Replays
<1>2. d \in Databases /\ Like(db, d)
  BY ReleasedChargeLike DEF IInv, Types
<1> HIDE DEF d
<1>3. d.removals \ {m} \in SUBSET AllRemovals
  BY <1>2 DEF Databases
<1>4. db' \in Databases /\ Like(d, db')
  BY <1>1, <1>2, <1>3, RemovalsLike
<1>5. Like(db, db')
  BY <1>2, <1>4, LikeTwice
<1>6. replay \in Replaying
  BY DEF IInv, Types
<1>7. p \in Replaying /\ p.phase = replay.phase /\ p.todo = replay.todo
      /\ p.markers = replay.markers
  BY <1>6 DEF Replaying
<1> HIDE DEF p
<1>8. Answered'
  BY <1>1, <1>5, <1>7, DrainsOn DEF Closed
<1> QED
  BY <1>1, <1>4, <1>5, <1>7, <1>8, ReplayLike

\* The branch serves again: nothing that was answered is left in it.
LEMMA CompleteReplayStep ==
  ASSUME IInv, CompleteReplay
  PROVE  IInv'
<1>1. /\ db' = [db EXCEPT !.ready = TRUE] /\ replay' = NotReplaying /\ replay.phase = "draining"
      /\ UNCHANGED <<clock, saved, marker, capsule, session, request, job, purge, acked>>
  BY DEF CompleteReplay, Replays, Closed
<1>2. db \in Databases /\ Sound(db, marker.conn, capsule, session) /\ ~db.ready
  BY <1>1 DEF IInv, Types, Answered
<1>3. /\ db' \in Databases /\ db'.conn = db.conn /\ db'.setups = db.setups
      /\ db'.continuations = db.continuations /\ db'.ready
  BY <1>1, <1>2, ReadySet
<1>4. Sound(db', marker'.conn, capsule', session')
  BY <1>1, <1>2, <1>3 DEF Sound
<1>5. Types'
  BY <1>1, <1>3, NotReplayingFits DEF IInv, Types
<1>6. Asked'
  BY <1>1, <1>2, NoRequestFits DEF IInv, Asked, Fits
<1>7. Worked'
  BY <1>1 DEF IInv, Worked
<1>8. Answered'
  BY <1>1, <1>3, NotReplayingFits DEF IInv, Answered, Dead
<1> QED
  BY <1>1, <1>4, <1>5, <1>6, <1>7, <1>8 DEF IInv

LEMMA ReplayFailsStep ==
  ASSUME IInv, ReplayFails
  PROVE  IInv'
<1>1. replay' = NotReplaying
      /\ UNCHANGED <<clock, db, saved, marker, capsule, session, request, job, purge, acked>>
  BY DEF ReplayFails, Failing, Replays
<1>2. Answered'
  BY <1>1, NotReplayingFits DEF IInv, Answered, Dead
<1> QED
  BY <1>1, <1>2, NotReplayingFits, ReplayMoves DEF IInv, Types, Dead

-----------------------------------------------------------------------------
(***************************************************************************)
(* The invariant, and what follows from it.                                *)
(***************************************************************************)
LEMMA InitIInv ==
  ASSUME Init
  PROVE  IInv
<1>1. db \in Databases /\ db.ready /\ db.setups = Connections
      /\ \A c \in Connections : db.conn[c].state = "live" /\ db.conn[c].absence = Never
  <2> DEFINE live == [state |-> "live", requested |-> Never, absence |-> Never, key |-> TRUE]
             object == [c \in Connections |-> IF c \in PendingMedia THEN "pending" ELSE "ready"]
             conn == [c \in Connections |-> live]
             account == [state |-> "active", requested |-> Never, marker |-> FALSE, key |-> TRUE]
             used == Cardinality(Connections \ PendingMedia)
  <2>1. db = [account |-> account, conn |-> conn, setups |-> Connections, object |-> object,
              source |-> Connections, used |-> used, intents |-> {}, handles |-> {},
              continuations |-> {}, removals |-> {}, ready |-> TRUE, audited |-> FALSE]
    BY DEF Init
  <2>2. live \in Rows /\ live.state = "live" /\ live.absence = Never /\ account \in Accounts
    BY DEF Rows, Accounts, Never
  <2>3. object \in [Connections -> {"none", "pending", "ready", "purging"}]
    OBVIOUS
  <2> HIDE DEF live, account, object, used
  <2>4. conn \in [Connections -> Rows] /\ \A c \in Connections : conn[c] = live
    BY <2>2
  <2>5. used \in Int
    <3>1. IsFiniteSet(Connections \ PendingMedia)
      BY DeletionAssumption, FS_Difference
    <3> QED
      BY <3>1, FS_CardinalityType DEF used
  <2> HIDE DEF conn
  <2>6. db \in Databases
    BY <2>1, <2>2, <2>3, <2>4, <2>5 DEF Databases
  <2> QED
    BY <2>1, <2>2, <2>4, <2>6
<1>2. Types
  <2>1. marker \in [account : Int, conn : [Connections -> Int]]
    BY DEF Init, Never
  <2>2. request \in [Requests -> Askings] /\ job \in [Connections -> Jobs]
        /\ purge \in [Connections -> Purging] /\ replay \in Replaying
    BY NoRequestFits, AsleepFits, NotReplayingFits DEF Init
  <2> QED
    BY <1>1, <2>1, <2>2 DEF Init, Types
<1>3. Sound(db, marker.conn, capsule, session) /\ saved = db
  BY <1>1 DEF Init, Sound
<1>4. Asked
  BY NoRequestFits DEF Init, Asked
<1>5. Worked
  BY AsleepFits DEF Init, Worked
<1>6. Answered
  BY NotReplayingFits DEF Init, Answered
<1> QED
  BY <1>1, <1>2, <1>3, <1>4, <1>5, <1>6 DEF IInv

LEMMA RequestStepStep ==
  ASSUME IInv, NEW r \in Requests, RequestStep(r)
  PROVE  IInv'
BY AnswerCompleteStep, CreateMarkerStep, CreateCapsuleStep, FinishDeletionStep,
   CreateAccountMarkerStep, FinishAccountStep, DeleteNextStep DEF RequestStep

LEMMA ReplayStepStep ==
  ASSUME IInv, ReplayStep
  PROVE  IInv'
BY BeginReplayStep, ReplayAccountStep, QueueIntentsStep, CompleteReplayStep,
   ReplayConnectionStep, RemoveRestoredStep, FinishRestoredStep DEF ReplayStep

LEMMA NextIInv ==
  ASSUME IInv, [Next]_vars
  PROVE  IInv'
<1>1. CASE Next
  <2>1. ASSUME NEW r \in Requests,
               \/ PrepareAccountDeletion(r) \/ RequestStep(r) \/ RequestFails(r)
               \/ \E c \in Connections : BeginConnectionDeletion(r, c)
        PROVE  IInv'
    BY <2>1, PrepareAccountStep, RequestStepStep, RequestFailsStep, BeginStep
  <2>2. ASSUME NEW c \in Connections,
               \/ Reconcile(c) \/ DeleteSessionFails(c) \/ CoordinatorFails(c)
               \/ PurgeStep(c) \/ PurgeFails(c) \/ LateMedia(c) \/ LateEvent(c)
        PROVE  IInv'
    BY <2>2, ReconcileStep, DeleteSessionFailsStep, CoordinatorFailsStep, PurgeStepStep,
       PurgeFailsStep, LateMediaStep, LateEventStep
  <2> QED
    BY <1>1, <2>1, <2>2, TickStep, PurgeAccountStep, BreakGlassStep, RecoveryPointStep,
       RestoreStep, ReplayStepStep, ReplayFailsStep DEF Next
<1>2. CASE UNCHANGED vars
  <2>1. UNCHANGED <<clock, db, saved, marker, capsule, session, request, job, purge, replay, acked>>
    BY <1>2 DEF vars, store
  <2>2. Types'
    BY <2>1 DEF IInv, Types
  <2>3. Asked'
    BY <2>1 DEF IInv, Asked
  <2>4. Worked'
    BY <2>1 DEF IInv, Worked
  <2>5. Answered'
    BY <2>1 DEF IInv, Answered, Dead
  <2> QED
    BY <2>1, <2>2, <2>3, <2>4, <2>5 DEF IInv
<1> QED
  BY <1>1, <1>2

\* The invariant holds of every state (all of Deletion).
THEOREM Invariance == Spec => []IInv
<1> QED
  BY InitIInv, NextIInv, PTL DEF Spec

\* A Connection whose deletion was answered is not live and has no key in any branch that
\* serves, through any number of restores and interrupted replays (FinishDeletion,
\* ReplayConnection; apps/restore-coordinator/src/replay.ts).
THEOREM NoResurrectionHolds == Spec => []NoResurrection
<1>1. IInv => NoResurrection
  BY DEF IInv, Types, Answered, Dead, Sound, NoResurrection
<1> QED
  BY <1>1, Invariance, PTL

\* The number of a session the provider may still have is reserved, in the live database
\* and in every recovery point (Cleaned, ConfirmAbsence, ReplayAccount).
THEOREM ReservedHolds == Spec => [](ReservedUntilAbsent /\ session \subseteq saved.setups)
<1>1. IInv => ReservedUntilAbsent /\ session \subseteq saved.setups
  BY DEF IInv, Sound, ReservedUntilAbsent
<1> QED
  BY <1>1, Invariance, PTL

\* The capsule of a Connection that is being deleted is there while its session is
\* (CreateCapsule before FinishDeletion, DestroyCapsule after ConfirmAbsence).
THEOREM CleanupPossibleHolds == Spec => []CleanupPossible
<1>1. IInv => CleanupPossible
  BY DEF IInv, Types, Sound, Findable, CleanupPossible
<1> QED
  BY <1>1, Invariance, PTL

-----------------------------------------------------------------------------
(* The gate of the recovery drills: RecoveryGate.                          *)

CONSTANTS Callers, Ops, Drills, NoOp, Misses, LostLookups, MaxAge

VARIABLES active, flows, req, inside, faults

Gate == INSTANCE RecoveryGate WITH Faults <- Misses

\* The instance's operators of finite sets are those the library's theorems speak of.
LEMMA SameSize == ASSUME NEW S PROVE Gate!Cardinality(S) = Cardinality(S)
BY DEF Gate!Cardinality, Cardinality, Gate!IsFiniteSet, IsFiniteSet

\* A request that works is the one inside, and a request that was not answered has no answer.
Working == {"lookup", "fresh", "create", "confirm"}
Serialized ==
  \A c \in Callers :
    /\ req[c].at \in Working => inside = c
    /\ req[c].at # "answered" => req[c].answer = NoOp

\* What the request inside has read of the stored operation still holds.
Read ==
  /\ active.op = NoOp => active = Gate!NoActive
  /\ \A c \in Callers :
       /\ req[c].at \in {"lookup", "create", "confirm"} => active.op \in Ops
       /\ req[c].at = "create" => flows[active.op] = "none"
       /\ req[c].at = "fresh" => active.op = NoOp \/ flows[active.op] \notin Gate!Running

Told ==
  \A c \in Callers : req[c].answer = "started" => req[c].op \in Ops /\ flows[req[c].op] # "none"

\* The one conjunct a lookup that fails for a running drill would break.
Kept == ~LostLookups => Gate!Remembered

GateInv == Gate!TypeOK /\ Serialized /\ Read /\ Told /\ Kept

\* What the assumption on the gate's constants gives the steps.
LEMMA GateFacts ==
  ASSUME Gate!GateAssumption
  PROVE  /\ NoOp \notin Ops /\ NoOp \notin Callers /\ NoOp # "started"
         /\ Misses \in Nat /\ MaxAge \in Nat
         /\ Gate!Running = {"running"} /\ "none" \notin Gate!Running
BY DEF Gate!GateAssumption, Gate!Running

LEMMA GateInit == ASSUME Gate!GateAssumption, Gate!Init PROVE GateInv
BY GateFacts DEF Gate!Init, Gate!NoActive, GateInv, Gate!TypeOK, Serialized, Working, Read, Told,
   Kept, Gate!Remembered, Gate!Terminal

\* A request of the one inside, written anew.
GateRequests ==
  [at : {"waiting", "lookup", "fresh", "create", "confirm", "answered"},
   drill : Drills, answer : {NoOp, "started", "refused", "failed"}, op : Ops \cup {NoOp}]

LEMMA GateStep ==
  ASSUME NEW c \in Callers, NEW new \in GateRequests, req \in [Callers -> GateRequests],
         req' = [req EXCEPT ![c] = new]
  PROVE  /\ req' \in [Callers -> GateRequests] /\ req'[c] = new
         /\ \A d \in Callers : d # c => req'[d] = req[d]
OBVIOUS

LEMMA Others ==
  ASSUME GateInv, NEW c \in Callers, inside = c, NEW d \in Callers, d # c
  PROVE  req[d].at \notin Working
BY DEF GateInv, Serialized

LEMMA AnswerStep ==
  ASSUME NEW c \in Callers, NEW op \in Ops \cup {NoOp},
         NEW what \in {"started", "refused", "failed"}, Gate!Answer(c, what, op),
         req \in [Callers -> GateRequests]
  PROVE  /\ req'[c].at = "answered" /\ req'[c].answer = what /\ req'[c].op = op
         /\ req' \in [Callers -> GateRequests]
         /\ \A d \in Callers : d # c => req'[d] = req[d]
         /\ inside' = NoOp
<1> DEFINE new == [req[c] EXCEPT !.at = "answered", !.answer = what, !.op = op]
<1>1. req' = [req EXCEPT ![c] = new] /\ inside' = NoOp BY DEF Gate!Answer
<1>2. new.at = "answered" /\ new.answer = what /\ new.op = op /\ new \in GateRequests
  BY DEF GateRequests
<1> HIDE DEF new
<1> QED BY <1>1, <1>2, GateStep

\* The request inside is answered.
LEMMA AnswerKeeps ==
  ASSUME Gate!GateAssumption, GateInv, NEW c \in Callers, inside = c,
         NEW what \in {"started", "refused", "failed"}, NEW op \in Ops \cup {NoOp},
         Gate!Answer(c, what, op),
         active' \in {active, Gate!NoActive}, faults' \in 0..Misses,
         flows' \in [Ops -> {"none"} \cup Gate!Running \cup Gate!Terminal], Kept',
         \A o \in Ops : flows[o] # "none" => flows'[o] # "none",
         what = "started" => op \in Ops /\ flows'[op] # "none"
  PROVE  GateInv'
<1> USE GateFacts
<1>1. req \in [Callers -> GateRequests] BY DEF GateInv, Gate!TypeOK, GateRequests
<1>2. /\ req'[c].at = "answered" /\ req'[c].answer = what /\ req'[c].op = op
      /\ req' \in [Callers -> GateRequests]
      /\ \A d \in Callers : d # c => req'[d] = req[d]
      /\ inside' = NoOp
  BY <1>1, AnswerStep
<1>3. Gate!TypeOK' BY <1>2 DEF GateInv, Gate!TypeOK, GateRequests, Gate!NoActive
<1>4. \A d \in Callers : req'[d].at \notin Working
  <2>1. "answered" \notin Working BY DEF Working
  <2> QED BY <1>2, <2>1, Others
<1>5. Serialized' BY <1>2, <1>4 DEF GateInv, Serialized
<1>6. Read' BY <1>4 DEF Working, Read, GateInv, Gate!NoActive
<1>7. Told' BY <1>2 DEF GateInv, Told
<1> QED BY <1>3, <1>5, <1>6, <1>7 DEF GateInv

\* The request inside goes on.
LEMMA GoesOn ==
  ASSUME Gate!GateAssumption, GateInv, NEW c \in Callers, inside \in {c, NoOp}, inside' = c,
         req[c].at # "answered", NEW at \in Working, NEW op \in Ops \cup {NoOp},
         req' = [req EXCEPT ![c].at = at, ![c].op = op],
         Gate!TypeOK', active'.op = NoOp => active' = Gate!NoActive, Kept',
         \A o \in Ops : flows[o] # "none" => flows'[o] # "none",
         at \in {"lookup", "create", "confirm"} => active'.op \in Ops,
         at = "create" => flows'[active'.op] = "none",
         at = "fresh" => active'.op = NoOp \/ flows'[active'.op] \notin Gate!Running
  PROVE  GateInv'
<1> USE GateFacts
<1>1. req \in [Callers -> GateRequests] BY DEF GateInv, Gate!TypeOK, GateRequests
<1>2. /\ req'[c].at = at /\ req'[c].answer = req[c].answer
      /\ \A d \in Callers : d # c => req'[d] = req[d]
  BY <1>1 DEF GateRequests
<1>3. req[c].answer = NoOp BY DEF GateInv, Serialized
<1>4. \A d \in Callers : d # c => req[d].at \notin Working
  BY DEF GateInv, Serialized
<1>5. Serialized' BY <1>2, <1>3, <1>4 DEF GateInv, Serialized, Working
<1>6. Read' BY <1>2, <1>4 DEF Read, Working
<1>7. Told' BY <1>2, <1>3 DEF GateInv, Told
<1> QED BY <1>5, <1>6, <1>7 DEF GateInv

\* The request inside finds that nothing runs.
LEMMA Freshly ==
  ASSUME Gate!GateAssumption, GateInv, NEW c \in Callers, inside = c, inside' = c,
         req[c].at = "lookup", req' = [req EXCEPT ![c].at = "fresh"],
         UNCHANGED flows, faults' \in 0..Misses,
         active' \in {active, Gate!NoActive}, Kept',
         active'.op = NoOp \/ flows[active'.op] \notin Gate!Running
  PROVE  GateInv'
<1>1. req \in [Callers -> GateRequests] BY DEF GateInv, Gate!TypeOK, GateRequests
<1>2. PICK at \in {"fresh"} : req' = [req EXCEPT ![c].at = at, ![c].op = req[c].op]
  BY <1>1 DEF GateRequests
<1>3. req[c].op \in Ops \cup {NoOp} /\ at \in Working BY <1>1, <1>2 DEF GateRequests, Working
<1>4. Gate!TypeOK' BY <1>1, GateFacts DEF GateInv, Gate!TypeOK, GateRequests, Gate!NoActive
<1>5. active'.op = NoOp => active' = Gate!NoActive BY DEF GateInv, Read
<1>6. \A o \in Ops : flows[o] # "none" => flows'[o] # "none" OBVIOUS
<1>7. at \notin {"lookup", "create", "confirm"} /\ at = "fresh" BY <1>2
<1>8. req[c].at # "answered" OBVIOUS
<1> QED BY <1>2, <1>3, <1>4, <1>5, <1>6, <1>7, <1>8, GoesOn

LEMMA EnterKeeps ==
  ASSUME Gate!GateAssumption, GateInv, NEW c \in Callers, Gate!Enter(c) PROVE GateInv'
<1> USE GateFacts
<1>1. req \in [Callers -> GateRequests] BY DEF GateInv, Gate!TypeOK, GateRequests
<1>2. PICK at \in {"fresh", "lookup"} :
        /\ at = "fresh" <=> active = Gate!NoActive
        /\ req' = [req EXCEPT ![c].at = at]
  BY DEF Gate!Enter
<1>3. req' = [req EXCEPT ![c].at = at, ![c].op = req[c].op] BY <1>1, <1>2 DEF GateRequests
<1>4. req[c].op \in Ops \cup {NoOp} /\ at \in Working BY <1>1 DEF GateRequests, Working
<1>5. /\ inside = NoOp /\ inside' = c /\ req[c].at = "waiting"
      /\ UNCHANGED <<active, flows, faults>>
  BY DEF Gate!Enter
<1>6. Gate!TypeOK' BY <1>1, <1>2, <1>5 DEF GateInv, Gate!TypeOK, GateRequests
<1>7. Kept' BY <1>5 DEF GateInv, Kept, Gate!Remembered
<1>8. active = Gate!NoActive => active.op = NoOp BY DEF Gate!NoActive
<1>9. active # Gate!NoActive => active.op \in Ops BY DEF GateInv, Gate!TypeOK, Read
<1> QED BY <1>2, <1>3, <1>4, <1>5, <1>6, <1>7, <1>8, <1>9, GoesOn DEF GateInv, Read

LEMMA LookupKeeps ==
  ASSUME Gate!GateAssumption, GateInv, NEW c \in Callers, Gate!LookedUp(c) \/ Gate!LookupFails(c)
  PROVE  GateInv'
<1> USE GateFacts
<1>1. req \in [Callers -> GateRequests] BY DEF GateInv, Gate!TypeOK, GateRequests
<1>2. /\ inside = c /\ req[c].at = "lookup" /\ active.op \in Ops /\ UNCHANGED flows
      /\ faults' \in 0..Misses
  BY DEF Gate!LookedUp, Gate!LookupFails, Gate!Fail, Gate!CanFail, GateInv, Read, Gate!TypeOK
<1>3. flows \in [Ops -> {"none"} \cup Gate!Running \cup Gate!Terminal] BY DEF GateInv, Gate!TypeOK
<1>4. CASE Gate!LookedUp(c)
  <2>1. CASE Gate!Answer(c, "started", active.op)
    <3>1. flows[active.op] # "none" /\ UNCHANGED active BY <1>4 DEF Gate!LookedUp
    <3>2. Kept' BY <1>2, <3>1 DEF GateInv, Kept, Gate!Remembered
    <3> QED BY <1>2, <1>3, <2>1, <3>1, <3>2, AnswerKeeps
  <2>2. CASE Gate!Answer(c, "refused", NoOp)
    <3>1. UNCHANGED active BY <1>4 DEF Gate!LookedUp
    <3>2. Kept' BY <1>2, <3>1 DEF GateInv, Kept, Gate!Remembered
    <3> QED BY <1>2, <1>3, <2>2, <3>1, <3>2, AnswerKeeps
  <2>3. CASE /\ flows[active.op] \in Gate!Terminal
             /\ req' = [req EXCEPT ![c].at = "fresh"] /\ UNCHANGED inside
    <3>1. UNCHANGED active BY <1>4 DEF Gate!LookedUp
    <3>2. Kept' BY <1>2, <3>1 DEF GateInv, Kept, Gate!Remembered
    <3>3. flows[active.op] \notin Gate!Running BY <2>3 DEF Gate!Terminal
    <3> QED BY <1>2, <2>3, <3>1, <3>2, <3>3, Freshly
  <2> QED BY <1>4, <2>1, <2>2, <2>3 DEF Gate!LookedUp
<1>5. CASE Gate!LookupFails(c)
  <2>1. ~LostLookups => flows[active.op] = "none" BY <1>5 DEF Gate!LookupFails
  <2>2. ~LostLookups => \A o \in Ops : flows[o] \notin Gate!Running
    BY <1>2, <2>1 DEF GateInv, Kept, Gate!Remembered
  <2>3. Kept' BY <1>2, <2>2 DEF Kept, Gate!Remembered
  <2>4. CASE Gate!Answer(c, "failed", NoOp) /\ UNCHANGED active
    BY <1>2, <1>3, <2>3, <2>4, AnswerKeeps
  <2>5. CASE active' = Gate!NoActive /\ req' = [req EXCEPT ![c].at = "fresh"] /\ UNCHANGED inside
    <3>1. active'.op = NoOp BY <2>5 DEF Gate!NoActive
    <3> QED BY <1>2, <2>3, <2>5, <3>1, Freshly
  <2> QED BY <1>5, <2>4, <2>5 DEF Gate!LookupFails
<1> QED BY <1>4, <1>5

LEMMA StoreKeeps ==
  ASSUME Gate!GateAssumption, GateInv, NEW c \in Callers, Gate!Store(c) PROVE GateInv'
<1> USE GateFacts
<1>1. req \in [Callers -> GateRequests] BY DEF GateInv, Gate!TypeOK, GateRequests
<1>2. PICK o \in Gate!FreshOps :
        /\ active' = [op |-> o, drill |-> req[c].drill, age |-> 0]
        /\ req' = [req EXCEPT ![c].at = "create", ![c].op = o]
  BY DEF Gate!Store
<1>3. o \in Ops /\ flows[o] = "none" BY DEF Gate!FreshOps
<1>4. /\ inside = c /\ req[c].at = "fresh" /\ UNCHANGED <<flows, inside, faults>> BY DEF Gate!Store
<1>5. ~LostLookups => \A p \in Ops : flows[p] \notin Gate!Running
  BY <1>4 DEF GateInv, Read, Kept, Gate!Remembered
<1>6. Kept' BY <1>4, <1>5 DEF Kept, Gate!Remembered
<1>7. active'.op = o /\ req[c].drill \in Drills BY <1>1, <1>2 DEF GateRequests
<1>8. Gate!TypeOK'
  <2>1. 0 \in 0..(MaxAge + 1) OBVIOUS
  <2>2. active' \in [op : Ops \cup {NoOp}, drill : Drills \cup {NoOp}, age : 0..(MaxAge + 1)]
    BY <1>2, <1>3, <1>7, <2>1
  <2> DEFINE new == [req[c] EXCEPT !.at = "create", !.op = o]
  <2>3. new \in GateRequests BY <1>1, <1>3 DEF GateRequests
  <2>4. req' = [req EXCEPT ![c] = new] BY <1>1, <1>2
  <2> HIDE DEF new
  <2>5. req' \in [Callers -> GateRequests] BY <1>1, <2>3, <2>4, GateStep
  <2> QED BY <1>4, <2>2, <2>5 DEF GateInv, Gate!TypeOK, GateRequests
<1>9. "create" \in Working BY DEF Working
<1> QED BY <1>2, <1>3, <1>4, <1>6, <1>7, <1>8, <1>9, GoesOn

\* What creates the workflow of the stored operation.
LEMMA CreatedFlow ==
  ASSUME Gate!GateAssumption, GateInv, NEW c \in Callers, req[c].at = "create",
         flows' = [flows EXCEPT ![active.op] = "running"], UNCHANGED active
  PROVE  /\ flows' \in [Ops -> {"none"} \cup Gate!Running \cup Gate!Terminal] /\ Kept'
         /\ \A o \in Ops : flows[o] # "none" => flows'[o] # "none"
         /\ active.op \in Ops /\ flows'[active.op] = "running"
BY GateFacts DEF GateInv, Gate!TypeOK, Read, Kept, Gate!Remembered

LEMMA CreateKeeps ==
  ASSUME Gate!GateAssumption, GateInv, NEW c \in Callers, Gate!Create(c) \/ Gate!CreateFails(c)
  PROVE  GateInv'
<1> USE GateFacts
<1>1. req \in [Callers -> GateRequests] BY DEF GateInv, Gate!TypeOK, GateRequests
<1>2. inside = c /\ req[c].at = "create" /\ active.op \in Ops /\ UNCHANGED active
  BY DEF Gate!Create, Gate!CreateFails, GateInv, Read
<1>3. CASE Gate!Create(c)
  <2>1. flows' = [flows EXCEPT ![active.op] = "running"] /\ Gate!Answer(c, "started", active.op)
        /\ UNCHANGED faults
    BY <1>3 DEF Gate!Create
  <2>2. faults' \in 0..Misses BY <2>1 DEF GateInv, Gate!TypeOK
  <2>3. /\ flows' \in [Ops -> {"none"} \cup Gate!Running \cup Gate!Terminal] /\ Kept'
        /\ \A o \in Ops : flows[o] # "none" => flows'[o] # "none"
        /\ flows'[active.op] = "running"
    BY <1>2, <2>1, CreatedFlow
  <2> QED BY <1>2, <2>1, <2>2, <2>3, AnswerKeeps
<1>4. CASE Gate!CreateFails(c)
  <2>1. /\ flows' = flows \/ flows' = [flows EXCEPT ![active.op] = "running"]
        /\ req' = [req EXCEPT ![c].at = "confirm"] /\ UNCHANGED inside
        /\ faults < Misses /\ faults' = faults + 1
    BY <1>4 DEF Gate!CreateFails, Gate!Fail, Gate!CanFail
  <2>2. /\ flows' \in [Ops -> {"none"} \cup Gate!Running \cup Gate!Terminal] /\ Kept'
        /\ \A o \in Ops : flows[o] # "none" => flows'[o] # "none"
    <3>1. CASE flows' = flows BY <1>2, <3>1 DEF GateInv, Gate!TypeOK, Kept, Gate!Remembered
    <3>2. CASE flows' # flows BY <1>2, <2>1, <3>2, CreatedFlow
    <3> QED BY <3>1, <3>2
  <2>3. req' = [req EXCEPT ![c].at = "confirm", ![c].op = req[c].op] BY <1>1, <2>1 DEF GateRequests
  <2>4. req[c].op \in Ops \cup {NoOp} /\ "confirm" \in Working BY <1>1 DEF GateRequests, Working
  <2>5. faults' \in 0..Misses BY <2>1 DEF GateInv, Gate!TypeOK
  <2>6. Gate!TypeOK' BY <1>1, <1>2, <2>1, <2>2, <2>5 DEF GateInv, Gate!TypeOK, GateRequests
  <2> QED BY <1>2, <2>1, <2>2, <2>3, <2>4, <2>6, GoesOn
<1> QED BY <1>3, <1>4

LEMMA ConfirmKeeps ==
  ASSUME Gate!GateAssumption, GateInv, NEW c \in Callers, Gate!Confirmed(c) \/ Gate!NotConfirmed(c)
  PROVE  GateInv'
<1> USE GateFacts
<1>1. /\ inside = c /\ req[c].at = "confirm" /\ active.op \in Ops /\ UNCHANGED flows
      /\ faults' \in 0..Misses
  BY DEF Gate!Confirmed, Gate!NotConfirmed, Gate!Fail, Gate!CanFail, GateInv, Read, Gate!TypeOK
<1>2. flows \in [Ops -> {"none"} \cup Gate!Running \cup Gate!Terminal] BY DEF GateInv, Gate!TypeOK
<1>3. CASE Gate!Confirmed(c)
  <2>1. Gate!Answer(c, "started", active.op) /\ flows[active.op] # "none" /\ UNCHANGED active
    BY <1>3 DEF Gate!Confirmed
  <2>2. Kept' BY <1>1, <2>1 DEF GateInv, Kept, Gate!Remembered
  <2> QED BY <1>1, <1>2, <2>1, <2>2, AnswerKeeps
<1>4. CASE Gate!NotConfirmed(c)
  <2>1. /\ Gate!Answer(c, "failed", NoOp) /\ active' = Gate!NoActive
        /\ ~LostLookups => flows[active.op] = "none"
    BY <1>4 DEF Gate!NotConfirmed
  <2>2. Kept' BY <1>1, <2>1 DEF GateInv, Kept, Gate!Remembered
  <2> QED BY <1>1, <1>2, <2>1, <2>2, AnswerKeeps
<1> QED BY <1>3, <1>4

LEMMA EvictKeeps == ASSUME Gate!GateAssumption, GateInv, Gate!Evict PROVE GateInv'
<1> USE GateFacts
<1>1. PICK c \in Callers : c = inside BY DEF Gate!Evict, GateInv, Gate!TypeOK
<1>2. /\ Gate!Answer(c, "failed", NoOp) /\ UNCHANGED active
      /\ faults < Misses /\ faults' = faults + 1
      /\ \/ flows' = flows
         \/ req[c].at = "create" /\ flows' = [flows EXCEPT ![active.op] = "running"]
  BY <1>1 DEF Gate!Evict, Gate!Fail, Gate!CanFail
<1>3. faults' \in 0..Misses BY <1>2 DEF GateInv, Gate!TypeOK
<1>4. /\ flows' \in [Ops -> {"none"} \cup Gate!Running \cup Gate!Terminal] /\ Kept'
      /\ \A o \in Ops : flows[o] # "none" => flows'[o] # "none"
  <2>1. CASE flows' = flows BY <1>2, <2>1 DEF GateInv, Gate!TypeOK, Kept, Gate!Remembered
  <2>2. CASE flows' # flows BY <1>2, <2>2, CreatedFlow
  <2> QED BY <2>1, <2>2
<1> QED BY <1>1, <1>2, <1>3, <1>4, AnswerKeeps

LEMMA AroundKeeps ==
  ASSUME Gate!GateAssumption, GateInv,
         \/ \E c \in Callers : Gate!AskAgain(c)
         \/ \E o \in Ops : Gate!End(o)
         \/ Gate!Day \/ UNCHANGED Gate!vars
  PROVE  GateInv'
<1> USE GateFacts
<1>1. req \in [Callers -> GateRequests] BY DEF GateInv, Gate!TypeOK, GateRequests
<1>2. ASSUME NEW c \in Callers, Gate!AskAgain(c) PROVE GateInv'
  <2>1. /\ UNCHANGED <<active, flows, inside, faults>>
        /\ req'[c].at = "waiting" /\ req'[c].answer = NoOp
        /\ req' \in [Callers -> GateRequests] /\ \A d \in Callers : d # c => req'[d] = req[d]
    <3> DEFINE new == [req[c] EXCEPT !.at = "waiting", !.answer = NoOp, !.op = NoOp]
    <3>1. new.at = "waiting" /\ new.answer = NoOp /\ new \in GateRequests BY <1>1 DEF GateRequests
    <3>2. req' = [req EXCEPT ![c] = new] /\ UNCHANGED <<active, flows, inside, faults>>
      BY <1>1, <1>2 DEF Gate!AskAgain
    <3> HIDE DEF new
    <3> QED BY <1>1, <3>1, <3>2, GateStep
  <2>2. Gate!TypeOK' BY <2>1 DEF GateInv, Gate!TypeOK, GateRequests
  <2> QED BY <2>1, <2>2 DEF GateInv, Serialized, Working, Read, Told, Kept, Gate!Remembered
<1>3. ASSUME NEW o \in Ops, Gate!End(o) PROVE GateInv'
  <2>1. /\ UNCHANGED <<active, req, inside, faults>> /\ flows[o] = "running"
        /\ flows' \in [Ops -> {"none"} \cup Gate!Running \cup Gate!Terminal]
        /\ flows'[o] \in Gate!Terminal /\ \A p \in Ops : p # o => flows'[p] = flows[p]
    BY <1>3 DEF Gate!End, GateInv, Gate!TypeOK
  <2>2. Gate!TypeOK' BY <2>1 DEF GateInv, Gate!TypeOK
  <2>3. Kept' BY <2>1 DEF GateInv, Kept, Gate!Remembered, Gate!Terminal
  <2>4. Read'
    <3>1. \A p \in Ops : flows'[p] \in Gate!Running => flows[p] \in Gate!Running
      BY <2>1 DEF Gate!Terminal
    <3>2. \A p \in Ops : flows[p] = "none" => flows'[p] = "none" BY <2>1
    <3>3. active.op \in Ops \cup {NoOp} BY DEF GateInv, Gate!TypeOK
    <3> QED BY <2>1, <3>1, <3>2, <3>3 DEF GateInv, Read
  <2> QED BY <2>1, <2>2, <2>3, <2>4 DEF GateInv, Serialized, Working, Told, Gate!Terminal
<1>4. CASE Gate!Day
  <2>1. UNCHANGED <<flows, req, inside, faults>> /\ active # Gate!NoActive /\ active.age <= MaxAge
        /\ active' = [active EXCEPT !.age = @ + 1]
    BY <1>4 DEF Gate!Day
  <2>2. active'.op = active.op /\ active.op # NoOp BY <2>1 DEF GateInv, Gate!TypeOK, Read
  <2>3. Gate!TypeOK' BY <2>1 DEF GateInv, Gate!TypeOK
  <2> QED BY <2>1, <2>2, <2>3 DEF GateInv, Serialized, Working, Read, Told, Kept, Gate!Remembered
<1>5. CASE UNCHANGED Gate!vars
  BY <1>5 DEF Gate!vars, GateInv, Gate!TypeOK, Serialized, Working, Read, Told, Kept,
     Gate!Remembered
<1> QED BY <1>2, <1>3, <1>4, <1>5

LEMMA GateInvariant == ASSUME Gate!GateAssumption PROVE Gate!Spec => []GateInv
<1>1. Gate!Init => GateInv BY GateInit
<1>2. ASSUME GateInv, [Gate!Next]_Gate!vars PROVE GateInv'
  <2>1. ASSUME NEW c \in Callers, Gate!Step(c) PROVE GateInv'
    BY <1>2, <2>1, EnterKeeps, LookupKeeps, StoreKeeps, CreateKeeps, ConfirmKeeps DEF Gate!Step
  <2> QED BY <1>2, <2>1, EvictKeeps, AroundKeeps DEF Gate!Next
<1> QED BY <1>1, <1>2, PTL DEF Gate!Spec

\* However requests come together, calls fail with or without their effect and the object is
\* evicted, one recovery drill runs at a time (apps/recovery-control/src/index.ts), as long as no
\* lookup fails for an operation that exists.
THEOREM OneRunHolds == ASSUME Gate!GateAssumption, ~LostLookups PROVE Gate!Spec => []Gate!OneRun
<1>1. GateInv => Gate!OneRun
  <2> SUFFICES ASSUME GateInv PROVE Gate!OneRun OBVIOUS
  <2> DEFINE R == {o \in Ops : flows[o] \in Gate!Running}
  <2>1. R = {} \/ R = {active.op} BY DEF GateInv, Kept, Gate!Remembered
  <2>2. Cardinality({}) = 0 /\ Cardinality({active.op}) = 1 BY FS_EmptySet, FS_Singleton
  <2>3. Gate!Cardinality(R) <= 1
    <3> HIDE DEF R
    <3> QED BY <2>1, <2>2, SameSize
  <2> QED BY <2>3 DEF Gate!OneRun
<1> QED BY <1>1, GateInvariant, PTL

\* A drill that runs is the operation the Durable Object has stored, so that the next request
\* finds it (apps/recovery-control/src/index.ts), under the same condition.
THEOREM RememberedHolds ==
  ASSUME Gate!GateAssumption, ~LostLookups PROVE Gate!Spec => []Gate!Remembered
<1>1. GateInv => Gate!Remembered BY DEF GateInv, Kept
<1> QED BY <1>1, GateInvariant, PTL

\* A request that was told its drill started names an operation whose workflow exists
\* (apps/recovery-control/src/index.ts), whatever lookups fail.
THEOREM StartedExistsHolds == ASSUME Gate!GateAssumption PROVE Gate!Spec => []Gate!StartedExists
<1>1. GateInv => Gate!StartedExists BY DEF GateInv, Told, Gate!StartedExists
<1> QED BY <1>1, GateInvariant, PTL

-----------------------------------------------------------------------------
(* The drill behind the gate: RecoveryDrill.                               *)

CONSTANTS Attempts, Breaks, Quarterly, Foreign

VARIABLES wf, branch, made, foreign, owner, endpoints, next, database, run, proved, breaks

Drill == INSTANCE RecoveryDrill WITH Faults <- Breaks, db <- database, faults <- breaks

RunRecs == [at : Drill!RunPlaces, uri : Nat, old : Nat, bad : BOOLEAN, turned : BOOLEAN]
DbRecs == [migrated : BOOLEAN, state : Drill!Readiness, probe : BOOLEAN,
           media : {"none", "ready", "failed"}]
WfRecs == [at : Drill!Places, tries : Drill!Runs, known : BOOLEAN, bad : BOOLEAN]

\* The evidence of a drill was seen on the branch.
Earned ==
  "rls" \in proved /\ (Quarterly => "media" \in proved /\ \E u \in Drill!Runs : run[u].turned)

\* What a verification has seen when it comes to its next call.
Progress(u) ==
  /\ run[u].at \in {"game", "probe", "rls", "media", "lose", "seen"} /\ Quarterly => run[u].turned
  /\ run[u].at \in {"media", "lose", "seen"} => "rls" \in proved
  /\ run[u].at = "clean" /\ ~run[u].bad =>
       "rls" \in proved /\ (Quarterly => "media" \in proved /\ run[u].turned)
  /\ run[u].at \in {"judge", "finish", "answered"} => Earned
  /\ run[u].at = "answered" => database.state = "verified"

\* No verification before the workflow asks for it; the attempts to come have none.
Unasked ==
  /\ wf.at \notin {"verify", "answer", "delete", "drop", "dropped", "rollback", "undo", "undone",
                   "complete", "errored"} =>
       database.state # "verified" /\ \A u \in Drill!Runs : run[u] = Drill!NoRun
  /\ wf.at = "verify" => \A u \in Drill!Runs : u >= wf.tries => run[u] = Drill!NoRun
  /\ wf.at = "answer" => \A u \in Drill!Runs : u > wf.tries => run[u] = Drill!NoRun

Verified == database.state = "verified" => Earned /\ ~database.probe
Probed == ~database.probe => database.media = "none"
Judged == wf.at \in {"delete", "drop", "dropped", "complete"} => database.state = "verified"
Forms == wf \in WfRecs /\ run \in [Drill!Runs -> RunRecs] /\ database \in DbRecs

EvidenceInv ==
  /\ Forms /\ Unasked /\ Verified /\ Probed /\ Judged
  /\ \A u \in Drill!Runs : Progress(u)

\* The attempts of a step are 1 to Attempts.
LEMMA RunsFacts ==
  ASSUME Drill!DrillAssumption
  PROVE  /\ Drill!Runs \subseteq Nat /\ 1 \in Drill!Runs
         /\ \A t \in Drill!Runs : t < Attempts => t + 1 \in Drill!Runs
BY DEF Drill!DrillAssumption, Drill!Runs

LEMMA EvidenceInit == ASSUME Drill!DrillAssumption, Drill!Init PROVE EvidenceInv
<1>1. wf \in WfRecs /\ wf.at = "list"
  BY RunsFacts DEF Drill!Init, WfRecs, Drill!Places, Drill!StepOf
<1>2. Drill!NoRun \in RunRecs /\ Drill!NoRun.at = "none"
  BY DEF Drill!NoRun, RunRecs, Drill!RunPlaces
<1>3. database \in DbRecs /\ database.state = "serving" /\ database.media = "none"
  BY DEF Drill!Init, DbRecs, Drill!Readiness
<1>4. run = [v \in Drill!Runs |-> Drill!NoRun] BY DEF Drill!Init
<1>5. Forms BY <1>1, <1>2, <1>3, <1>4 DEF Forms
<1>6. Unasked BY <1>1, <1>3, <1>4 DEF Unasked
<1>7. \A u \in Drill!Runs : Progress(u) BY <1>2, <1>4 DEF Progress
<1> QED BY <1>1, <1>3, <1>5, <1>6, <1>7 DEF EvidenceInv, Verified, Probed, Judged

\* A verification goes on: what it needs to have seen is all there is to show.
LEMMA RunGoes ==
  ASSUME EvidenceInv, NEW v \in Drill!Runs, run' \in [Drill!Runs -> RunRecs],
         \A u \in Drill!Runs : u # v => run'[u] = run[u],
         run[v] # Drill!NoRun, run[v].turned => run'[v].turned, UNCHANGED wf,
         proved \subseteq proved',
         database' \in DbRecs,
         database'.state = database.state \/ (database'.state = "verified" /\ Earned),
         database'.state = "verified" => ~database'.probe, Probed', Progress(v)'
  PROVE  EvidenceInv'
<1>1. Earned => Earned' BY DEF Earned
<1>2. Forms' BY DEF EvidenceInv, Forms
<1>3. Unasked' BY DEF EvidenceInv, Unasked
<1>4. Verified' BY <1>1 DEF EvidenceInv, Verified
<1>5. Judged' BY DEF EvidenceInv, Judged
<1>6. ASSUME NEW u \in Drill!Runs, u # v PROVE Progress(u)'
  BY <1>1, <1>6 DEF EvidenceInv, Progress
<1> QED BY <1>2, <1>3, <1>4, <1>5, <1>6 DEF EvidenceInv

\* The workflow goes on beside the verifications.
LEMMA FlowGoes ==
  ASSUME EvidenceInv, wf' \in WfRecs, UNCHANGED <<run, database, proved>>, Unasked', Judged'
  PROVE  EvidenceInv'
<1>1. Earned' = Earned BY DEF Earned
<1>2. ASSUME NEW u \in Drill!Runs PROVE Progress(u)'
  BY <1>1 DEF EvidenceInv, Progress
<1> QED BY <1>1, <1>2 DEF EvidenceInv, Forms, Verified, Probed

\* Before any verification the branch may be written.
LEMMA BranchWritten ==
  ASSUME EvidenceInv, wf' \in WfRecs, UNCHANGED <<run, proved>>, Unasked',
         database' \in DbRecs, database'.state # "verified", database'.probe = database.probe,
         database'.media = database.media,
         \A u \in Drill!Runs : run[u] = Drill!NoRun,
         wf'.at \notin {"delete", "drop", "dropped", "complete"}
  PROVE  EvidenceInv'
<1>1. ASSUME NEW u \in Drill!Runs PROVE Progress(u)' BY DEF Progress, Drill!NoRun
<1> QED BY <1>1 DEF EvidenceInv, Forms, Verified, Probed, Judged

-----------------------------------------------------------------------------
AskedVerifier == {"verify", "answer"}
Late == {"delete", "drop", "dropped", "rollback", "undo", "undone", "complete", "errored"}

LEMMA FlowMoves ==
  ASSUME EvidenceInv, wf' \in WfRecs, UNCHANGED <<run, database, proved>>,
         wf'.at \in Late \/ (database.state # "verified"
         /\ \A u \in Drill!Runs : run[u] = Drill!NoRun),
         wf'.at \in {"delete", "drop", "dropped", "complete"} => database.state = "verified"
  PROVE  EvidenceInv'
<1>1. Unasked' BY DEF Unasked, Late
<1>2. Judged' BY DEF Judged
<1> QED BY <1>1, <1>2, FlowGoes

LEMMA DrillQuiet ==
  ASSUME EvidenceInv, wf.at \notin AskedVerifier \cup Late
  PROVE  /\ database.state # "verified" /\ \A u \in Drill!Runs : run[u] = Drill!NoRun
         /\ wf \in WfRecs /\ run \in [Drill!Runs -> RunRecs] /\ database \in DbRecs
BY DEF EvidenceInv, Forms, Unasked, AskedVerifier, Late

LEMMA GoTo ==
  ASSUME wf \in WfRecs, NEW step \in Drill!Places, Drill!Go(step)
  PROVE  wf' \in WfRecs /\ wf'.at = step /\ wf'.tries = wf.tries
BY DEF Drill!Go, WfRecs

LEMMA NextTo ==
  ASSUME Drill!DrillAssumption, wf \in WfRecs, NEW step \in Drill!Places, Drill!NextStep(step)
  PROVE  wf' \in WfRecs /\ wf'.at = step
BY RunsFacts DEF Drill!NextStep, WfRecs

LEMMA RetryTo ==
  ASSUME Drill!DrillAssumption, wf \in WfRecs, NEW step \in Drill!Places, Drill!Retry(step)
  PROVE  /\ wf' \in WfRecs
         /\ (wf'.at = step /\ wf'.tries = wf.tries + 1) \/ wf'.at = "rollback"
<1>1. "rollback" \in Drill!Places /\ 1 \in Drill!Runs BY RunsFacts DEF Drill!Places, Drill!StepOf
<1>2. CASE wf.tries < Attempts
  <2>1. wf.tries + 1 \in Drill!Runs BY <1>2, RunsFacts DEF WfRecs
  <2>2. wf' = [wf EXCEPT !.at = step, !.tries = wf.tries + 1, !.bad = FALSE]
    BY <1>2 DEF Drill!Retry
  <2> QED BY <2>1, <2>2 DEF WfRecs
<1>3. CASE ~(wf.tries < Attempts)
  <2>1. wf' = [wf EXCEPT !.at = "rollback", !.tries = 1, !.bad = FALSE] BY <1>3 DEF Drill!Retry
  <2> QED BY <1>1, <2>1 DEF WfRecs
<1> QED BY <1>2, <1>3

LEMMA PlacesAre ==
  Drill!Places =
    {"list", "create", "adopt", "settle", "reset", "migrate", "seal", "replay", "replayed",
     "verify", "answer", "delete", "drop", "dropped", "rollback", "undo", "undone",
     "complete", "errored"}
BY DEF Drill!Places, Drill!StepOf

\* The steps before the verification, where nothing of the evidence is written.
LEMMA EarlyKeeps ==
  ASSUME Drill!DrillAssumption, EvidenceInv,
         \/ Drill!List \/ Drill!Create \/ Drill!CreateFails \/ Drill!Adopt
         \/ Drill!Settle \/ Drill!Reset \/ Drill!Seal
  PROVE  EvidenceInv'
<1> USE PlacesAre
<1>1. wf.at \notin AskedVerifier \cup Late /\ UNCHANGED <<run, database, proved>>
  BY DEF Drill!List, Drill!Create, Drill!CreateFails, Drill!Adopt, Drill!Settle, Drill!Reset,
     Drill!Seal, AskedVerifier, Late
<1>2. wf \in WfRecs /\ database.state # "verified" /\ \A u \in Drill!Runs : run[u] = Drill!NoRun
  BY <1>1, DrillQuiet
<1>3. wf' \in WfRecs /\ wf'.at \notin {"delete", "drop", "dropped", "complete"}
  <2>1. CASE Drill!List BY <1>2, <2>1, GoTo, RetryTo DEF Drill!List
  <2>2. CASE Drill!Create BY <1>2, <2>2, GoTo DEF Drill!Create
  <2>3. CASE Drill!CreateFails BY <1>2, <2>3, GoTo DEF Drill!CreateFails
  <2>4. CASE Drill!Adopt BY <1>2, <2>4, GoTo, RetryTo DEF Drill!Adopt
  <2>5. CASE Drill!Settle BY <1>2, <2>5, RunsFacts DEF Drill!Settle, WfRecs
  <2>6. CASE Drill!Reset BY <1>2, <2>6, GoTo DEF Drill!Reset
  <2>7. CASE Drill!Seal BY <1>2, <2>7, NextTo, RetryTo DEF Drill!Seal
  <2> QED BY <2>1, <2>2, <2>3, <2>4, <2>5, <2>6, <2>7
<1> QED BY <1>1, <1>2, <1>3, FlowMoves

\* The steps before the verification that write the branch.
LEMMA WrittenKeeps ==
  ASSUME Drill!DrillAssumption, EvidenceInv,
         \/ Drill!Migrate \/ Drill!MigrateFails \/ Drill!BeginReplay
         \/ Drill!CompleteReplay \/ Drill!ReplayFails
  PROVE  EvidenceInv'
<1> USE PlacesAre
<1>1. wf.at \notin AskedVerifier \cup Late /\ UNCHANGED <<run, proved>>
  BY DEF Drill!Migrate, Drill!MigrateFails, Drill!BeginReplay, Drill!CompleteReplay,
     Drill!ReplayFails, AskedVerifier, Late
<1>2. /\ wf \in WfRecs /\ database \in DbRecs
      /\ database.state # "verified" /\ \A u \in Drill!Runs : run[u] = Drill!NoRun
  BY <1>1, DrillQuiet
<1>3. wf' \in WfRecs /\ wf'.at \notin {"delete", "drop", "dropped", "complete"}
  <2>1. CASE Drill!Migrate BY <1>2, <2>1, GoTo DEF Drill!Migrate
  <2>2. CASE Drill!BeginReplay BY <1>2, <2>2, GoTo DEF Drill!BeginReplay
  <2>3. CASE Drill!CompleteReplay BY <1>2, <2>3, NextTo DEF Drill!CompleteReplay
  <2>4. CASE Drill!ReplayFails BY <1>2, <2>4, NextTo DEF Drill!ReplayFails
  <2>5. CASE Drill!MigrateFails BY <1>2, <2>5 DEF Drill!MigrateFails, WfRecs
  <2> QED BY <2>1, <2>2, <2>3, <2>4, <2>5
<1>4. database' \in DbRecs /\ database'.state # "verified" /\ database'.probe = database.probe
      /\ database'.media = database.media
  <2>1. CASE Drill!Migrate BY <1>2, <2>1 DEF Drill!Migrate, DbRecs
  <2>2. CASE Drill!BeginReplay BY <1>2, <2>2 DEF Drill!BeginReplay, DbRecs, Drill!Readiness
  <2>3. CASE Drill!CompleteReplay BY <1>2, <2>3 DEF Drill!CompleteReplay, DbRecs, Drill!Readiness
  <2>4. CASE Drill!ReplayFails
    <3>1. CASE database' = database BY <1>2, <3>1
    <3>2. CASE database' # database
      <4>1. PICK to \in {"serving", "awaiting"} : database' = [database EXCEPT !.state = to]
        BY <2>4, <3>2 DEF Drill!ReplayFails
      <4> QED BY <1>2, <4>1 DEF DbRecs, Drill!Readiness
    <3> QED BY <3>1, <3>2
  <2>5. CASE Drill!MigrateFails
    <3>1. database' = database \/ database' = [database EXCEPT !.migrated = TRUE]
      BY <2>5 DEF Drill!MigrateFails
    <3> QED BY <1>2, <3>1 DEF DbRecs
  <2> QED BY <2>1, <2>2, <2>3, <2>4, <2>5
<1>5. Unasked' BY <1>1, <1>2, <1>4 DEF Unasked
<1> QED BY <1>1, <1>2, <1>3, <1>4, <1>5, BranchWritten

\* A verification is asked for, and what the workflow makes of its answer.
LEMMA AskKeeps == ASSUME Drill!DrillAssumption, EvidenceInv, Drill!AskVerifier PROVE EvidenceInv'
<1> USE PlacesAre
<1>1. wf \in WfRecs /\ run \in [Drill!Runs -> RunRecs] /\ wf.tries \in Drill!Runs
  BY DEF EvidenceInv, Forms, WfRecs
<1>2. /\ wf.at = "verify" /\ wf' \in WfRecs /\ wf'.at = "answer" /\ wf'.tries = wf.tries
      /\ UNCHANGED <<database, proved>>
  BY <1>1, GoTo DEF Drill!AskVerifier
<1>3. run[wf.tries] = Drill!NoRun /\ \A u \in Drill!Runs : u > wf.tries => run[u] = Drill!NoRun
  BY <1>1, <1>2, RunsFacts DEF EvidenceInv, Unasked
<1>4. /\ run' \in [Drill!Runs -> RunRecs] /\ run'[wf.tries].at = "open"
      /\ \A u \in Drill!Runs : u # wf.tries => run'[u] = run[u]
  <2> DEFINE new == [Drill!NoRun EXCEPT !.at = "open"]
  <2>1. new \in RunRecs /\ new.at = "open" BY DEF Drill!NoRun, RunRecs, Drill!RunPlaces
  <2>2. run' = [run EXCEPT ![wf.tries] = new] BY DEF Drill!AskVerifier
  <2> HIDE DEF new
  <2> QED BY <1>1, <2>1, <2>2
<1>5. Earned => Earned' BY <1>2, <1>3, <1>4 DEF Earned, Drill!NoRun
<1>6. Unasked' BY <1>2, <1>3, <1>4, RunsFacts DEF Unasked
<1>7. ASSUME NEW u \in Drill!Runs PROVE Progress(u)'
  <2>1. CASE u = wf.tries BY <1>4, <2>1 DEF Progress
  <2>2. CASE u # wf.tries
    <3>1. Progress(u) BY DEF EvidenceInv
    <3>2. run'[u] = run[u] BY <1>4, <2>2
    <3> QED BY <1>2, <1>5, <3>1, <3>2 DEF Progress
  <2> QED BY <2>1, <2>2
<1> QED BY <1>2, <1>4, <1>5, <1>6, <1>7 DEF EvidenceInv, Forms, Verified, Probed, Judged

LEMMA AnswerTaken ==
  ASSUME Drill!DrillAssumption, EvidenceInv, Drill!Answered \/ Drill!AnswerLost PROVE EvidenceInv'
<1> USE PlacesAre
<1>1. /\ wf \in WfRecs /\ wf.tries \in Drill!Runs /\ wf.at = "answer"
         /\ UNCHANGED <<run, database, proved>>
  BY DEF EvidenceInv, Forms, WfRecs, Drill!Answered, Drill!AnswerLost
<1>2. \A u \in Drill!Runs : u > wf.tries => run[u] = Drill!NoRun BY <1>1 DEF EvidenceInv, Unasked
<1>3. CASE Drill!NextStep("delete") /\ run[wf.tries].at = "answered"
  <2>1. database.state = "verified" BY <1>1, <1>3 DEF EvidenceInv, Progress
  <2>2. wf' \in WfRecs /\ wf'.at = "delete" BY <1>1, <1>3, NextTo
  <2>3. wf'.at \in Late BY <2>2 DEF Late
  <2> QED BY <1>1, <2>1, <2>2, <2>3, FlowMoves
<1>4. CASE Drill!Retry("verify")
  <2>1. /\ wf' \in WfRecs
        /\ (wf'.at = "verify" /\ wf'.tries = wf.tries + 1) \/ wf'.at = "rollback"
    BY <1>1, <1>4, RetryTo
  <2>2. Unasked' BY <1>1, <1>2, <2>1, RunsFacts DEF Unasked
  <2>3. Judged' BY <1>1, <2>1 DEF Judged
  <2> QED BY <1>1, <2>1, <2>2, <2>3, FlowGoes
<1> QED BY <1>3, <1>4 DEF Drill!Answered, Drill!AnswerLost

LEMMA AgainTo ==
  ASSUME Drill!DrillAssumption, wf \in WfRecs, wf.at \in Late, Drill!AgainDelete
  PROVE  /\ wf' \in WfRecs /\ wf'.at \in Late
         /\ ~Drill!Undoing \/ wf'.at \in {"rollback", "undo", "undone", "errored"}
<1> USE PlacesAre
<1>1. CASE ~Drill!Undoing BY <1>1, RetryTo DEF Drill!AgainDelete, Late
<1>2. CASE Drill!Undoing /\ wf.tries < Attempts
  <2>1. wf' = [wf EXCEPT !.at = "rollback", !.tries = wf.tries + 1] BY <1>2 DEF Drill!AgainDelete
  <2>2. wf.tries + 1 \in Drill!Runs BY <1>2, RunsFacts DEF WfRecs
  <2> QED BY <2>1, <2>2 DEF WfRecs, Late
<1>3. CASE Drill!Undoing /\ ~(wf.tries < Attempts) BY <1>3, NextTo DEF Drill!AgainDelete, Late
<1> QED BY <1>1, <1>2, <1>3

\* The deletion of the branch, as a step and as the rollback.
LEMMA DeleteKeeps ==
  ASSUME Drill!DrillAssumption, EvidenceInv,
         Drill!Find \/ Drill!Drop \/ Drill!DropFails \/ Drill!DropChecked PROVE EvidenceInv'
<1> USE PlacesAre
<1>1. /\ wf \in WfRecs /\ UNCHANGED <<run, database, proved>> /\ wf.at \in Late
  BY DEF EvidenceInv, Forms, Drill!Find, Drill!Drop, Drill!DropFails, Drill!DropChecked, Late
<1>2. Drill!Undoing \/ database.state = "verified"
  BY <1>1
  DEF EvidenceInv, Judged, Drill!Undoing, Late, Drill!Find, Drill!Drop, Drill!DropFails,
      Drill!DropChecked
<1>3. Drill!Deleted \/ Drill!AgainDelete \/ Drill!Go(IF Drill!Undoing THEN "undo" ELSE "drop")
      \/ Drill!Go(IF Drill!Undoing THEN "undone" ELSE "dropped")
  BY DEF Drill!Find, Drill!Drop, Drill!DropFails, Drill!DropChecked
<1>4. Drill!Undoing <=> wf.at \in {"rollback", "undo", "undone"} BY DEF Drill!Undoing
<1>5. /\ wf' \in WfRecs /\ wf'.at \in Late
      /\ ~Drill!Undoing \/ wf'.at \in {"rollback", "undo", "undone", "errored"}
  <2>1. CASE Drill!Deleted BY <1>1, <2>1, NextTo DEF Drill!Deleted, Late
  <2>2. CASE Drill!AgainDelete BY <1>1, <2>2, AgainTo
  <2>3. CASE Drill!Go(IF Drill!Undoing THEN "undo" ELSE "drop") BY <1>1, <2>3, GoTo DEF Late
  <2>4. CASE Drill!Go(IF Drill!Undoing THEN "undone" ELSE "dropped") BY <1>1, <2>4, GoTo DEF Late
  <2> QED BY <1>3, <2>1, <2>2, <2>3, <2>4
<1>6. wf'.at \in {"delete", "drop", "dropped", "complete"} => database.state = "verified"
  BY <1>2, <1>5
<1> QED BY <1>1, <1>5, <1>6, FlowMoves

LEMMA CutKeeps == ASSUME Drill!DrillAssumption, EvidenceInv, Drill!StepCut PROVE EvidenceInv'
<1> USE PlacesAre
<1>1. wf \in WfRecs /\ UNCHANGED <<run, database, proved>> /\ wf.at \in DOMAIN Drill!StepOf
  BY DEF EvidenceInv, Forms, Drill!StepCut
<1>2. CASE wf.at \in Late
  <2>1. Drill!AgainDelete /\ wf.at \notin {"complete", "errored"}
    BY <1>1, <1>2 DEF Drill!StepCut, Drill!StepOf, Late
  <2>2. Drill!Undoing \/ database.state = "verified"
    BY <1>1, <1>2, <2>1 DEF EvidenceInv, Judged, Drill!Undoing, Late
  <2>3. /\ wf' \in WfRecs /\ wf'.at \in Late
        /\ wf'.at \in {"delete", "drop", "dropped", "complete"} => database.state = "verified"
    BY <1>1, <1>2, <2>1, <2>2, AgainTo
  <2> QED BY <1>1, <2>3, FlowMoves
<1>3. CASE wf.at \notin Late
  <2>1. wf.at \notin AskedVerifier /\ (Drill!Retry("list") \/ Drill!Retry("reset"))
    BY <1>1, <1>3 DEF Drill!StepCut, Drill!StepOf, Late, AskedVerifier
  <2>2. database.state # "verified" /\ \A u \in Drill!Runs : run[u] = Drill!NoRun
    BY <1>3, <2>1, DrillQuiet
  <2>3. wf' \in WfRecs /\ wf'.at \in {"list", "reset", "rollback"} BY <1>1, <2>1, RetryTo
  <2> QED BY <1>1, <2>2, <2>3, FlowMoves DEF Late
<1> QED BY <1>2, <1>3

\* The world around the workflow.
LEMMA OutsideKeeps ==
  ASSUME EvidenceInv,
         Drill!BranchReady \/ Drill!Intrude \/ UNCHANGED Drill!vars PROVE EvidenceInv'
<1>1. UNCHANGED <<wf, run, database, proved>> BY DEF Drill!BranchReady, Drill!Intrude, Drill!vars
<1>2. wf' \in WfRecs /\ Unasked' /\ Judged' BY <1>1 DEF EvidenceInv, Forms, Unasked, Judged
<1> QED BY <1>1, <1>2, FlowGoes
-----------------------------------------------------------------------------
LEMMA Moved ==
  ASSUME EvidenceInv, NEW v \in Drill!Runs, NEW place \in Drill!RunPlaces, Drill!To(v, place)
  PROVE  /\ run' \in [Drill!Runs -> RunRecs] /\ \A u \in Drill!Runs : u # v => run'[u] = run[u]
         /\ run'[v].at = place /\ run'[v].bad = run[v].bad /\ run'[v].turned = run[v].turned
<1>1. run \in [Drill!Runs -> RunRecs] BY DEF EvidenceInv, Forms
<1> DEFINE new == [run[v] EXCEPT !.at = place]
<1>2. /\ new \in RunRecs /\ new.at = place
      /\ new.bad = run[v].bad /\ new.turned = run[v].turned
  BY <1>1 DEF RunRecs
<1>3. run' = [run EXCEPT ![v] = new] BY <1>1 DEF Drill!To
<1> HIDE DEF new
<1> QED BY <1>1, <1>2, <1>3

LEMMA Spoiled ==
  ASSUME EvidenceInv, NEW v \in Drill!Runs, Drill!Bad(v)
  PROVE  /\ run' \in [Drill!Runs -> RunRecs] /\ \A u \in Drill!Runs : u # v => run'[u] = run[u]
         /\ run'[v].at = "clean" /\ run'[v].bad /\ run'[v].turned = run[v].turned
<1>1. run \in [Drill!Runs -> RunRecs] BY DEF EvidenceInv, Forms
<1> DEFINE new == [run[v] EXCEPT !.at = "clean", !.bad = TRUE]
<1>2. new \in RunRecs /\ new.at = "clean" /\ new.bad = TRUE /\ new.turned = run[v].turned
  BY <1>1 DEF RunRecs, Drill!RunPlaces
<1>3. run' = [run EXCEPT ![v] = new] BY <1>1 DEF Drill!Bad
<1> HIDE DEF new
<1> QED BY <1>1, <1>2, <1>3

\* A call of the verification that writes neither the database nor what was observed.
LEMMA RunStill ==
  ASSUME EvidenceInv, NEW v \in Drill!Runs, run' \in [Drill!Runs -> RunRecs],
         \A u \in Drill!Runs : u # v => run'[u] = run[u],
         run[v].at # "none", run[v].turned => run'[v].turned, UNCHANGED <<wf, database, proved>>,
         Progress(v)'
  PROVE  EvidenceInv'
<1>1. run[v] # Drill!NoRun BY DEF Drill!NoRun
<1>2. database' \in DbRecs /\ Probed' /\ (database'.state = "verified" => ~database'.probe)
  BY DEF EvidenceInv, Forms, Probed, Verified
<1> QED BY <1>1, <1>2, RunGoes

\* A verification that failed needs nothing.
LEMMA ErrorIsFine ==
  ASSUME NEW v \in Drill!Runs, run'[v].at \in {"error", "open", "check", "pick", "remove",
         "create", "turned"}
  PROVE  Progress(v)'
BY DEF Progress

LEMMA StopKeeps ==
  ASSUME EvidenceInv, NEW v \in Drill!Runs, run[v].at # "none", Drill!To(v, "error"),
         UNCHANGED <<wf, database, proved>>
  PROVE  EvidenceInv'
BY Moved, ErrorIsFine, RunStill DEF Drill!RunPlaces

LEMMA Aimed ==
  ASSUME EvidenceInv, NEW v \in Drill!Runs, NEW place \in Drill!RunPlaces, NEW e \in Nat,
         \/ run' = [run EXCEPT ![v].at = place, ![v].uri = e]
         \/ run' = [run EXCEPT ![v].at = place, ![v].old = e]
  PROVE  /\ run' \in [Drill!Runs -> RunRecs] /\ \A u \in Drill!Runs : u # v => run'[u] = run[u]
         /\ run'[v].at = place /\ run'[v].turned = run[v].turned
<1>1. run \in [Drill!Runs -> RunRecs] BY DEF EvidenceInv, Forms
<1>2. CASE run' = [run EXCEPT ![v].at = place, ![v].uri = e]
  <2> DEFINE new == [run[v] EXCEPT !.at = place, !.uri = e]
  <2>1. new \in RunRecs /\ new.at = place /\ new.turned = run[v].turned BY <1>1 DEF RunRecs
  <2>2. run' = [run EXCEPT ![v] = new] BY <1>1, <1>2
  <2> HIDE DEF new
  <2> QED BY <1>1, <2>1, <2>2
<1>3. CASE run' = [run EXCEPT ![v].at = place, ![v].old = e]
  <2> DEFINE new == [run[v] EXCEPT !.at = place, !.old = e]
  <2>1. new \in RunRecs /\ new.at = place /\ new.turned = run[v].turned BY <1>1 DEF RunRecs
  <2>2. run' = [run EXCEPT ![v] = new] BY <1>1, <1>3
  <2> HIDE DEF new
  <2> QED BY <1>1, <2>1, <2>2
<1> QED BY <1>2, <1>3

Endpoints == endpoints \subseteq Nat /\ next \in Nat

\* The endpoints: the verification finds one, or removes the old and makes a new one.
LEMMA EndpointKeeps ==
  ASSUME EvidenceInv, Endpoints, NEW v \in Drill!Runs,
         Drill!Open(v) \/ Drill!PickEndpoint(v) \/ Drill!RemoveEndpoint(v)
         \/ Drill!CreateEndpoint(v)
  PROVE  EvidenceInv'
<1>1. run[v].at # "none" /\ UNCHANGED <<wf, database, proved>>
  BY DEF Drill!Open, Drill!PickEndpoint, Drill!RemoveEndpoint, Drill!CreateEndpoint, Drill!At,
     Drill!Keep
<1>2. CASE Drill!To(v, "error") \/ Drill!To(v, "create")
  <2>1. PICK p \in {"error", "create"} : Drill!To(v, p) BY <1>2
  <2>2. p \in Drill!RunPlaces BY DEF Drill!RunPlaces
  <2> QED BY <1>1, <2>1, <2>2, Moved, ErrorIsFine, RunStill
<1>3. CASE ~(Drill!To(v, "error") \/ Drill!To(v, "create"))
  <2>1. PICK p \in {"check", "remove", "turned"}, e \in endpoints \cup endpoints' :
          \/ run' = [run EXCEPT ![v].at = p, ![v].uri = e]
          \/ run' = [run EXCEPT ![v].at = p, ![v].old = e]
    <3>1. CASE Drill!Open(v) BY <1>3, <3>1 DEF Drill!Open
    <3>2. CASE Drill!PickEndpoint(v) BY <1>3, <3>2 DEF Drill!PickEndpoint
    <3>3. CASE Drill!RemoveEndpoint(v) BY <1>3, <3>3 DEF Drill!RemoveEndpoint
    <3>4. CASE Drill!CreateEndpoint(v) BY <1>3, <3>4 DEF Drill!CreateEndpoint
    <3> QED BY <3>1, <3>2, <3>3, <3>4
  <2>2. endpoints \cup endpoints' \subseteq Nat
    BY DEF Endpoints, Drill!Open, Drill!PickEndpoint, Drill!RemoveEndpoint, Drill!CreateEndpoint
  <2>3. e \in Nat /\ p \in Drill!RunPlaces BY <2>2 DEF Drill!RunPlaces
  <2> QED BY <1>1, <2>1, <2>3, Aimed, ErrorIsFine, RunStill
<1> QED BY <1>2, <1>3

\* Both endpoints were compared: this is what a quarterly drill's evidence rests on.
LEMMA TurnedKeeps == ASSUME EvidenceInv, NEW v \in Drill!Runs, Drill!Turned(v) PROVE EvidenceInv'
<1>1. run[v].at # "none" /\ UNCHANGED <<wf, database, proved>>
  BY DEF Drill!Turned, Drill!At, Drill!Keep
<1>2. CASE Drill!To(v, "error") BY <1>1, <1>2, StopKeeps
<1>3. CASE run' = [run EXCEPT ![v].at = "game", ![v].turned = TRUE]
  <2>1. run \in [Drill!Runs -> RunRecs] BY DEF EvidenceInv, Forms
  <2> DEFINE new == [run[v] EXCEPT !.at = "game", !.turned = TRUE]
  <2>2. new \in RunRecs /\ new.at = "game" /\ new.turned = TRUE
    BY <2>1 DEF RunRecs, Drill!RunPlaces
  <2>3. run' = [run EXCEPT ![v] = new] BY <1>3, <2>1
  <2> HIDE DEF new
  <2>4. /\ run' \in [Drill!Runs -> RunRecs] /\ \A u \in Drill!Runs : u # v => run'[u] = run[u]
        /\ run'[v].at = "game" /\ run'[v].turned
    BY <2>1, <2>2, <2>3
  <2>5. Progress(v)' BY <2>4 DEF Progress
  <2> QED BY <1>1, <2>4, <2>5, RunStill
<1> QED BY <1>2, <1>3 DEF Drill!Turned

LEMMA CheckKeeps ==
  ASSUME EvidenceInv, NEW v \in Drill!Runs,
         Drill!Check(v) \/ Drill!Game(v) \/ Drill!Judge(v) \/ Drill!RunFails(v)
  PROVE  EvidenceInv'
<1>1. run[v].at # "none" /\ UNCHANGED <<wf, database, proved>>
  BY DEF Drill!Check, Drill!Game, Drill!Judge, Drill!RunFails, Drill!At, Drill!Keep
<1>2. CASE Drill!To(v, "error") BY <1>1, <1>2, StopKeeps
<1>3. CASE Drill!Check(v) /\ ~Drill!To(v, "error")
  <2>1. PICK p \in Drill!RunPlaces : Drill!To(v,
             p) /\ ((p = "pick" /\ Quarterly) \/ (p = "probe" /\ ~Quarterly))
    BY <1>3 DEF Drill!Check, Drill!RunPlaces
  <2>2. Progress(v)' BY <2>1, Moved DEF Progress
  <2> QED BY <1>1, <2>1, <2>2, Moved, RunStill
<1>4. CASE Drill!Game(v)
  <2>1. Drill!To(v, "probe") /\ run[v].at = "game" /\ "probe" \in Drill!RunPlaces
    BY <1>4 DEF Drill!Game, Drill!At, Drill!RunPlaces
  <2>2. Progress(v)' BY <2>1, Moved DEF EvidenceInv, Progress
  <2> QED BY <1>1, <2>1, <2>2, Moved, RunStill
<1>5. CASE Drill!Judge(v) /\ ~Drill!To(v, "error")
  <2>1. Drill!To(v, "finish") /\ run[v].at = "judge" /\ "finish" \in Drill!RunPlaces
    BY <1>5 DEF Drill!Judge, Drill!At, Drill!RunPlaces
  <2>2. Earned BY <2>1 DEF EvidenceInv, Progress
  <2>3. Earned' BY <1>1, <2>1, <2>2, Moved DEF Earned
  <2>4. Progress(v)' BY <2>1, <2>3, Moved DEF Progress
  <2> QED BY <1>1, <2>1, <2>4, Moved, RunStill
<1>6. CASE Drill!RunFails(v) /\ ~Drill!To(v, "error")
  <2>1. Drill!Bad(v) BY <1>6 DEF Drill!RunFails
  <2>2. Progress(v)' BY <2>1, Spoiled DEF Progress
  <2> QED BY <1>1, <2>1, <2>2, Spoiled, RunStill
<1> QED BY <1>2, <1>3, <1>4, <1>5, <1>6

\* A call of the verification that writes: the state of the branch is kept or becomes verified.
LEMMA RunWrites ==
  ASSUME EvidenceInv, NEW v \in Drill!Runs, run' \in [Drill!Runs -> RunRecs],
         \A u \in Drill!Runs : u # v => run'[u] = run[u],
         run[v].at # "none", run'[v].turned = run[v].turned, UNCHANGED wf,
         proved \subseteq proved',
         database' \in DbRecs,
         database'.state = database.state \/ (database'.state = "verified" /\ Earned),
         database'.state = "verified" => ~database'.probe, Probed', Progress(v)'
  PROVE  EvidenceInv'
<1>1. run[v] # Drill!NoRun BY DEF Drill!NoRun
<1> QED BY <1>1, RunGoes

LEMMA ProbeKeeps == ASSUME EvidenceInv, NEW v \in Drill!Runs,
Drill!PrepareProbe(v) PROVE EvidenceInv'
<1>1. run[v].at = "probe" /\ UNCHANGED <<wf, proved>> /\ database \in DbRecs /\ Progress(v)
  BY DEF Drill!PrepareProbe, Drill!At, Drill!Keep, EvidenceInv, Forms
<1>2. CASE Drill!To(v, "error") /\ UNCHANGED database BY <1>1, <1>2, StopKeeps
<1>3. CASE database.state = "verified" /\ Drill!To(v, "judge") /\ UNCHANGED database
  <2>1. Earned /\ "judge" \in Drill!RunPlaces BY <1>3 DEF EvidenceInv, Verified, Drill!RunPlaces
  <2>2. Earned' BY <1>1, <1>3, <2>1, Moved DEF Earned
  <2>3. Progress(v)' BY <1>3, <2>1, <2>2, Moved DEF Progress
  <2> QED BY <1>1, <1>3, <2>1, <2>3, Moved, RunStill
<1>4. CASE database.state = "awaiting" /\ database' = [database EXCEPT !.probe = TRUE]
      /\ Drill!To(v, "rls")
  <2>1. database' \in DbRecs /\ database'.state = "awaiting" /\ database'.probe
    BY <1>1, <1>4 DEF DbRecs
  <2>2. "rls" \in Drill!RunPlaces BY DEF Drill!RunPlaces
  <2>3. Progress(v)' BY <1>1, <1>4, <2>2, Moved DEF Progress
  <2> QED BY <1>1, <1>4, <2>1, <2>2, <2>3, Moved, RunWrites DEF Probed
<1> QED BY <1>2, <1>3, <1>4 DEF Drill!PrepareProbe

LEMMA IsolationKeeps == ASSUME EvidenceInv, NEW v \in Drill!Runs,
Drill!CheckIsolation(v) PROVE EvidenceInv'
<1>1. run[v].at = "rls" /\ UNCHANGED <<wf, database>> /\ Progress(v)
  BY DEF Drill!CheckIsolation, Drill!At, Drill!Keep, EvidenceInv
<1>2. CASE Drill!Bad(v) /\ UNCHANGED proved
  <2>1. Progress(v)' BY <1>2, Spoiled DEF Progress
  <2> QED BY <1>1, <1>2, <2>1, Spoiled, RunStill
<1>3. CASE proved' = proved \cup {"rls"} /\ Drill!To(v, IF Quarterly THEN "media" ELSE "clean")
  <2>1. PICK p \in Drill!RunPlaces : Drill!To(v,
             p) /\ ((p = "media" /\ Quarterly) \/ (p = "clean" /\ ~Quarterly))
    BY <1>3 DEF Drill!RunPlaces
  <2>2. Progress(v)' BY <1>1, <1>3, <2>1, Moved DEF Progress
  <2>3. database' \in DbRecs /\ Probed' /\ (database'.state = "verified" => ~database'.probe)
    BY <1>1 DEF EvidenceInv, Forms, Probed, Verified
  <2> QED BY <1>1, <1>3, <2>1, <2>2, <2>3, Moved, RunWrites
<1> QED BY <1>2, <1>3 DEF Drill!CheckIsolation

LEMMA MediaKeeps ==
  ASSUME EvidenceInv, NEW v \in Drill!Runs,
         Drill!PrepareMedia(v) \/ Drill!LoseMedia(v) \/ Drill!SeeMedia(v)
  PROVE  EvidenceInv'
<1>1. /\ run[v].at \in {"media", "lose",
         "seen"} /\ UNCHANGED wf /\ Progress(v) /\ database \in DbRecs
      /\ proved \subseteq proved'
  BY DEF Drill!PrepareMedia, Drill!LoseMedia, Drill!SeeMedia, Drill!At, Drill!Keep, EvidenceInv,
     Forms
<1>2. CASE Drill!Bad(v) /\ UNCHANGED <<database, proved>>
  <2>1. Progress(v)' BY <1>2, Spoiled DEF Progress
  <2> QED BY <1>1, <1>2, <2>1, Spoiled, RunStill
<1>3. CASE (Drill!PrepareMedia(v) \/ Drill!LoseMedia(v)) /\ ~(Drill!Bad(v)
      /\ UNCHANGED <<database, proved>>)
  <2>1. /\ database.probe /\ UNCHANGED proved /\ \E p \in {"seen", "lose"} : Drill!To(v, p)
        /\ \E m \in {"none", "ready", "failed"} : database' = [database EXCEPT !.media = m]
    BY <1>1, <1>3 DEF Drill!PrepareMedia, Drill!LoseMedia, Drill!Probing, DbRecs
  <2>2. PICK p \in {"seen", "lose"} : Drill!To(v, p) BY <2>1
  <2>3. p \in Drill!RunPlaces BY DEF Drill!RunPlaces
  <2>4. Progress(v)' BY <1>1, <2>1, <2>2, <2>3, Moved DEF Progress
  <2>5. database' \in DbRecs /\ database'.probe /\ database'.state = database.state
    BY <1>1, <2>1 DEF DbRecs
  <2>6. database.state # "verified" BY <2>1 DEF EvidenceInv, Verified
  <2> QED BY <1>1, <2>2, <2>3, <2>4, <2>5, <2>6, Moved, RunWrites DEF Probed
<1>4. CASE Drill!SeeMedia(v) /\ ~(Drill!Bad(v) /\ UNCHANGED <<database, proved>>)
  <2>1. proved' = proved \cup {"media"} /\ Drill!To(v, "clean") /\ UNCHANGED database
    BY <1>4 DEF Drill!SeeMedia, Drill!Keep
  <2>2. "clean" \in Drill!RunPlaces BY DEF Drill!RunPlaces
  <2>3. Progress(v)' BY <1>1, <2>1, <2>2, Moved DEF Progress
  <2>4. database' \in DbRecs /\ Probed' /\ (database'.state = "verified" => ~database'.probe)
    BY <2>1 DEF EvidenceInv, Forms, Probed, Verified
  <2> QED BY <1>1, <2>1, <2>2, <2>3, <2>4, Moved, RunWrites
<1> QED BY <1>2, <1>3, <1>4

LEMMA CleanKeeps == ASSUME EvidenceInv, NEW v \in Drill!Runs,
Drill!CompleteProbe(v) PROVE EvidenceInv'
<1>1. run[v].at = "clean" /\ UNCHANGED <<wf, proved>> /\ Progress(v) /\ database \in DbRecs
  BY DEF Drill!CompleteProbe, Drill!At, Drill!Keep, EvidenceInv, Forms
<1>2. CASE Drill!To(v, "error") /\ UNCHANGED database BY <1>1, <1>2, StopKeeps
<1>3. CASE Drill!Probing(v) /\ database' = [database EXCEPT !.probe = FALSE, !.media = "none"]
           /\ Drill!To(v, IF run[v].bad THEN "error" ELSE "judge")
  <2>1. /\ database' \in DbRecs /\ database'.state = "awaiting" /\ database.state = "awaiting"
        /\ database'.media = "none"
    BY <1>1, <1>3 DEF Drill!Probing, DbRecs
  <2>2. PICK p \in Drill!RunPlaces : Drill!To(v,
             p) /\ (p = "error" \/ (p = "judge" /\ ~run[v].bad))
    BY <1>3 DEF Drill!RunPlaces
  <2>3. p = "judge" => Earned BY <1>1, <2>2 DEF Progress, Earned
  <2>4. p = "judge" => Earned' BY <1>1, <2>2, <2>3, Moved DEF Earned
  <2>5. Progress(v)' BY <2>2, <2>4, Moved DEF Progress
  <2> QED BY <1>1, <2>1, <2>2, <2>5, Moved, RunWrites DEF Probed
<1> QED BY <1>2, <1>3 DEF Drill!CompleteProbe

LEMMA FinishKeeps == ASSUME EvidenceInv, NEW v \in Drill!Runs, Drill!Finish(v) PROVE EvidenceInv'
<1>1. run[v].at = "finish" /\ UNCHANGED <<wf, proved>> /\ Progress(v) /\ database \in DbRecs
  BY DEF Drill!Finish, Drill!At, Drill!Keep, EvidenceInv, Forms
<1>2. CASE Drill!To(v, "error") /\ UNCHANGED database BY <1>1, <1>2, StopKeeps
<1>3. CASE (database.state = "verified" \/ ~database.probe) /\ Drill!To(v, "answered")
           /\ database' = [database EXCEPT !.state = "verified"]
  <2>1. /\ database' \in DbRecs /\ database'.state = "verified"
           /\ database'.probe = database.probe
        /\ database'.media = database.media
    BY <1>1, <1>3 DEF DbRecs, Drill!Readiness
  <2>2. Earned /\ "answered" \in Drill!RunPlaces BY <1>1 DEF Progress, Drill!RunPlaces
  <2>3. Earned' BY <1>1, <1>3, <2>2, Moved DEF Earned
  <2>4. Progress(v)' BY <1>3, <2>1, <2>2, <2>3, Moved DEF Progress
  <2>5. Probed' /\ ~database'.probe BY <1>3, <2>1 DEF EvidenceInv, Probed, Verified
  <2> QED BY <1>1, <1>3, <2>1, <2>2, <2>4, <2>5, Moved, RunWrites
<1> QED BY <1>2, <1>3 DEF Drill!Finish

LEMMA EndpointsStep == ASSUME Endpoints, [Drill!Next]_Drill!vars PROVE Endpoints'
<1>1. CASE UNCHANGED <<endpoints, next>> BY <1>1 DEF Endpoints
<1>2. CASE Drill!Created BY <1>2 DEF Drill!Created, Endpoints
<1>3. CASE Drill!Dropped
  BY <1>3 DEF Drill!Dropped, Endpoints
<1>4. CASE \E v \in Drill!Runs : Drill!RemoveEndpoint(v)
  BY <1>4 DEF Drill!RemoveEndpoint, Endpoints
<1>5. CASE \E v \in Drill!Runs : Drill!CreateEndpoint(v)
  BY <1>5 DEF Drill!CreateEndpoint, Endpoints
<1>6. CASE Drill!WorkflowStep
  BY <1>1, <1>2, <1>3, <1>6
  DEF Drill!WorkflowStep, Drill!neon, Drill!List, Drill!Create, Drill!Adopt, Drill!Settle,
  Drill!Reset, Drill!Migrate, Drill!Seal, Drill!BeginReplay,
      Drill!CompleteReplay, Drill!AskVerifier, Drill!Answered, Drill!Find, Drill!Drop,
      Drill!DropChecked
<1>7. CASE Drill!WorkflowFault
  BY <1>1, <1>2, <1>3, <1>7
  DEF Drill!WorkflowFault, Drill!neon, Drill!CreateFails, Drill!MigrateFails, Drill!ReplayFails,
  Drill!AnswerLost, Drill!DropFails, Drill!StepCut
<1>8. CASE Drill!BranchReady \/ Drill!Intrude \/ UNCHANGED Drill!vars
  BY <1>1, <1>8 DEF Drill!BranchReady, Drill!Intrude, Drill!vars
<1>9. ASSUME NEW v \in Drill!Runs, Drill!RunStep(v) \/ Drill!RunFails(v),
             ~Drill!RemoveEndpoint(v), ~Drill!CreateEndpoint(v)
      PROVE  UNCHANGED <<endpoints, next>>
  BY <1>9
  DEF Drill!RunStep, Drill!RunFails, Drill!Open, Drill!Check, Drill!PickEndpoint, Drill!Turned,
      Drill!Game, Drill!PrepareProbe,
     Drill!CheckIsolation, Drill!PrepareMedia, Drill!LoseMedia, Drill!SeeMedia,
     Drill!CompleteProbe, Drill!Judge, Drill!Finish
<1> QED BY <1>1, <1>4, <1>5, <1>6, <1>7, <1>8, <1>9 DEF Drill!Next

LEMMA EvidenceInvariant == ASSUME Drill!DrillAssumption PROVE Drill!Spec => [](EvidenceInv
/\ Endpoints)
<1>1. Drill!Init => EvidenceInv /\ Endpoints BY EvidenceInit DEF Drill!Init, Endpoints
<1>2. ASSUME EvidenceInv, Endpoints, [Drill!Next]_Drill!vars PROVE EvidenceInv' /\ Endpoints'
  <2>1. Endpoints' BY <1>2, EndpointsStep
  <2>2. EvidenceInv'
    <3>1. CASE Drill!WorkflowStep
      BY <1>2, <3>1, EarlyKeeps, WrittenKeeps, AskKeeps, AnswerTaken, DeleteKeeps
      DEF Drill!WorkflowStep
    <3>2. CASE Drill!WorkflowFault
      BY <1>2, <3>2, EarlyKeeps, WrittenKeeps, AnswerTaken, DeleteKeeps, CutKeeps
      DEF Drill!WorkflowFault
    <3>3. ASSUME NEW v \in Drill!Runs, Drill!RunStep(v) \/ Drill!RunFails(v) PROVE EvidenceInv'
      BY <1>2, <3>3, EndpointKeeps, TurnedKeeps, CheckKeeps, ProbeKeeps, IsolationKeeps,
         MediaKeeps, CleanKeeps, FinishKeeps DEF Drill!RunStep
    <3> QED BY <1>2, <3>1, <3>2, <3>3, OutsideKeeps DEF Drill!Next
  <2> QED BY <2>1, <2>2
<1> QED BY <1>1, <1>2, PTL DEF Drill!Spec

\* A drill that completes earned its evidence on this branch, whichever attempts overlap, whichever
\* calls fail with or without their effect and whichever answers are lost
\* (apps/recovery-control, apps/recovery-verifier): row level security and, in a quarterly drill,
\* the lost media and the turned endpoint were observed; and a verified branch holds no probe.
THEOREM DrillEarnsEvidence ==
  ASSUME Drill!DrillAssumption PROVE Drill!Spec => [](Drill!EvidenceEarned
         /\ Drill!NoProbeVerified)
<1>1. EvidenceInv => Drill!EvidenceEarned /\ Drill!NoProbeVerified
  BY DEF EvidenceInv, Judged, Verified, Probed, Earned, Drill!EvidenceEarned,
     Drill!NoProbeVerified
<1> QED BY <1>1, EvidenceInvariant, PTL
-----------------------------------------------------------------------------
\* The branch: it is made where there is none, and its name is looked up only before it is deleted.
Naming == {"list", "create", "adopt", "settle"}
BranchInv ==
  /\ branch \in {"none", "init", "ready", "gone"}
  /\ made \in 0..1 /\ (branch = "none" => made = 0)
  /\ wf.at = "create" => branch = "none"
  /\ wf.at \in Naming => branch # "gone"
  /\ Drill!OwnerSealed /\ Drill!NeverServing /\ Drill!OnlyOurs

\* A step that goes past the naming of the branch and does not touch it.
LEMMA PastNaming ==
  ASSUME BranchInv, UNCHANGED <<branch, made, foreign>>, wf'.at \notin Naming, Drill!OwnerSealed',
         database'.state # "ready"
  PROVE  BranchInv'
BY DEF BranchInv, Drill!NeverServing, Drill!OnlyOurs, Naming

LEMMA NamingKeeps ==
  ASSUME Drill!DrillAssumption, wf \in WfRecs, BranchInv,
         Drill!List \/ Drill!Create \/ Drill!CreateFails \/ Drill!Adopt
  PROVE  BranchInv'
<1> USE PlacesAre
<1>1. /\ UNCHANGED <<owner, database, foreign>> /\ wf.at \in {"list", "create", "adopt"}
      /\ branch # "gone" /\ (wf.at = "create" => branch = "none")
  BY DEF Drill!List, Drill!Create, Drill!CreateFails, Drill!Adopt, Drill!Created, Drill!neon,
     BranchInv, Naming
<1>2. \/ UNCHANGED <<branch, made>>
      \/ branch = "none" /\ branch' = "init" /\ made' = made + 1
  BY <1>1 DEF Drill!List, Drill!Create, Drill!CreateFails, Drill!Adopt, Drill!Created, Drill!neon
<1>3. /\ wf'.at \in {"settle", "create", "adopt", "list", "rollback"}
      /\ wf'.at = "create" => branch = "none" /\ UNCHANGED branch
  <2>1. CASE Drill!List
    <3>1. CASE Drill!Listed = {"ours"} BY <2>1, <3>1, GoTo DEF Drill!List
    <3>2. CASE Drill!Listed = {}
      <4>1. wf'.at = "create" /\ UNCHANGED branch BY <2>1, <3>2, GoTo DEF Drill!List, Drill!neon
      <4>2. branch = "none" BY <1>1, <3>2 DEF Drill!Listed, BranchInv
      <4> QED BY <4>1, <4>2
    <3>3. CASE Drill!Listed # {"ours"} /\ Drill!Listed # {} BY <2>1, <3>3, RetryTo DEF Drill!List
    <3> QED BY <3>1, <3>2, <3>3
  <2>2. CASE Drill!Create BY <2>2, GoTo DEF Drill!Create
  <2>3. CASE Drill!CreateFails BY <2>3, GoTo DEF Drill!CreateFails
  <2>4. CASE Drill!Adopt BY <2>4, GoTo, RetryTo DEF Drill!Adopt
  <2> QED BY <2>1, <2>2, <2>3, <2>4
<1>4. /\ branch' \in {"none", "init",
         "ready"} /\ made' \in 0..1 /\ (branch' = "none" => made' = 0)
  BY <1>1, <1>2 DEF BranchInv
<1>5. Drill!OwnerSealed' /\ Drill!NeverServing' /\ Drill!OnlyOurs'
  BY <1>1, <1>3 DEF BranchInv, Drill!OwnerSealed, Drill!NeverServing, Drill!OnlyOurs
<1>6. wf'.at = "create" => branch' = "none" BY <1>3
<1> QED BY <1>4, <1>5, <1>6 DEF BranchInv

\* The password of the migration's owner is nobody's once it is sealed.
LEMMA SealKeeps ==
  ASSUME Drill!DrillAssumption, wf \in WfRecs, database \in DbRecs, BranchInv,
         \/ Drill!Settle \/ Drill!Reset \/ Drill!Migrate \/ Drill!MigrateFails \/ Drill!Seal
         \/ Drill!BeginReplay \/ Drill!CompleteReplay \/ Drill!ReplayFails
         \/ Drill!AskVerifier \/ Drill!Answered \/ Drill!AnswerLost
  PROVE  BranchInv'
<1> USE PlacesAre
<1> DEFINE Sealed == {"replay", "replayed", "verify", "answer", "delete", "drop", "dropped",
    "complete"}
<1>1. UNCHANGED <<branch, made, foreign>>
  BY DEF Drill!Settle, Drill!Reset, Drill!Migrate, Drill!MigrateFails, Drill!Seal,
     Drill!BeginReplay, Drill!CompleteReplay, Drill!ReplayFails,
     Drill!AskVerifier, Drill!Answered, Drill!AnswerLost, Drill!neon
<1>2. wf'.at \notin Naming
  <2>1. CASE Drill!Settle BY <2>1 DEF Drill!Settle, WfRecs, Naming
  <2>2. CASE Drill!Reset \/ Drill!Migrate \/ Drill!BeginReplay \/ Drill!AskVerifier
    BY <2>2, GoTo DEF Drill!Reset, Drill!Migrate, Drill!BeginReplay, Drill!AskVerifier, Naming
  <2>3. CASE Drill!MigrateFails BY <2>3 DEF Drill!MigrateFails, WfRecs, Naming
  <2>4. CASE Drill!Seal \/ Drill!CompleteReplay \/ Drill!ReplayFails \/ Drill!Answered
        \/ Drill!AnswerLost
    BY <2>4, NextTo, RetryTo
    DEF Drill!Seal, Drill!CompleteReplay, Drill!ReplayFails, Drill!Answered, Drill!AnswerLost,
        Naming
  <2> QED BY <2>1, <2>2, <2>3, <2>4
<1>3. wf'.at \in Sealed => owner' = "nobody"
  <2>1. CASE Drill!Settle BY <2>1 DEF Drill!Settle, WfRecs
  <2>2. CASE Drill!Reset \/ Drill!Migrate BY <2>2, GoTo DEF Drill!Reset, Drill!Migrate
  <2>3. CASE Drill!MigrateFails BY <2>3 DEF Drill!MigrateFails, WfRecs
  <2>4. CASE Drill!Seal BY <2>4 DEF Drill!Seal
  <2>5. CASE \/ Drill!BeginReplay \/ Drill!CompleteReplay \/ Drill!ReplayFails
             \/ Drill!AskVerifier \/ Drill!Answered \/ Drill!AnswerLost
    BY <2>5
    DEF Drill!BeginReplay, Drill!CompleteReplay, Drill!ReplayFails, Drill!AskVerifier,
        Drill!Answered, Drill!AnswerLost,
       BranchInv, Drill!OwnerSealed
  <2> QED BY <2>1, <2>2, <2>3, <2>4, <2>5
<1>4. database'.state # "ready"
  <2>1. CASE UNCHANGED database BY <2>1 DEF BranchInv, Drill!NeverServing
  <2>2. CASE Drill!Migrate \/ Drill!MigrateFails
    <3>1. database' = database \/ database' = [database EXCEPT !.migrated = TRUE]
      BY <2>2 DEF Drill!Migrate, Drill!MigrateFails
    <3> QED BY <3>1 DEF DbRecs, BranchInv, Drill!NeverServing
  <2>3. CASE Drill!BeginReplay \/ Drill!CompleteReplay
    BY <2>3 DEF Drill!BeginReplay, Drill!CompleteReplay, DbRecs
  <2>4. CASE Drill!ReplayFails /\ database' # database
    <3>1. PICK to \in {"serving", "awaiting"} : database' = [database EXCEPT !.state = to]
      BY <2>4 DEF Drill!ReplayFails
    <3> QED BY <3>1 DEF DbRecs
  <2> QED BY <2>1, <2>2, <2>3, <2>4
          DEF Drill!Settle, Drill!Reset, Drill!MigrateFails, Drill!Seal, Drill!AskVerifier,
          Drill!Answered, Drill!AnswerLost
<1> QED BY <1>1, <1>2, <1>3, <1>4, PastNaming DEF Drill!OwnerSealed

LEMMA UndoKeeps ==
  ASSUME Drill!DrillAssumption, wf \in WfRecs, BranchInv,
         Drill!Find \/ Drill!Drop \/ Drill!DropFails \/ Drill!DropChecked
  PROVE  BranchInv'
<1> USE PlacesAre
<1>1. UNCHANGED <<owner, database, made, foreign>> /\ wf.at \in Late /\ branch' \in {branch,
      "gone"}
  BY DEF Drill!Find, Drill!Drop, Drill!DropFails, Drill!DropChecked, Drill!Dropped, Drill!neon,
     Late
<1>2. wf'.at \in Late /\ (~Drill!Undoing \/ wf'.at \in {"rollback", "undo", "undone", "errored"})
  <2>1. Drill!Deleted \/ Drill!AgainDelete \/ Drill!Go(IF Drill!Undoing THEN "undo" ELSE "drop")
        \/ Drill!Go(IF Drill!Undoing THEN "undone" ELSE "dropped")
    BY DEF Drill!Find, Drill!Drop, Drill!DropFails, Drill!DropChecked
  <2>2. CASE Drill!Deleted BY <2>2, NextTo DEF Drill!Deleted, Late
  <2>3. CASE Drill!AgainDelete BY <1>1, <2>3, AgainTo
  <2>4. CASE Drill!Go(IF Drill!Undoing THEN "undo" ELSE "drop") BY <2>4, GoTo DEF Late
  <2>5. CASE Drill!Go(IF Drill!Undoing THEN "undone" ELSE "dropped") BY <2>5, GoTo DEF Late
  <2> QED BY <2>1, <2>2, <2>3, <2>4, <2>5
<1>3. ~Drill!Undoing => owner = "nobody" \/ wf.at = "errored"
  BY <1>1 DEF Drill!Undoing, Late, BranchInv, Drill!OwnerSealed
<1>4. wf.at # "errored" BY DEF Drill!Find, Drill!Drop, Drill!DropFails, Drill!DropChecked
<1>5. Drill!OwnerSealed' BY <1>1, <1>2, <1>3, <1>4 DEF Drill!OwnerSealed
<1>6. wf'.at \notin Naming BY <1>2 DEF Late, Naming
<1> QED BY <1>1, <1>5, <1>6 DEF BranchInv, Drill!NeverServing, Drill!OnlyOurs, Naming

LEMMA CutBranchKeeps ==
  ASSUME Drill!DrillAssumption, wf \in WfRecs, BranchInv, Drill!StepCut PROVE BranchInv'
<1> USE PlacesAre
<1>1. UNCHANGED <<branch, made, foreign, owner, database>> /\ wf.at \in DOMAIN Drill!StepOf
  BY DEF Drill!StepCut, Drill!neon
<1>2. CASE wf.at \in Late
  <2>1. Drill!AgainDelete /\ wf.at \notin {"complete", "errored"}
    BY <1>1, <1>2 DEF Drill!StepCut, Drill!StepOf, Late
  <2>2. wf'.at \in Late /\ (~Drill!Undoing \/ wf'.at \in {"rollback", "undo", "undone",
        "errored"})
    BY <1>2, <2>1, AgainTo
  <2>3. Drill!Undoing \/ owner = "nobody"
    BY <1>2, <2>1 DEF Drill!Undoing, Late, BranchInv, Drill!OwnerSealed
  <2>4. Drill!OwnerSealed' BY <1>1, <2>2, <2>3 DEF Drill!OwnerSealed
  <2>5. wf'.at \notin Naming /\ database'.state # "ready"
    BY <1>1, <2>2 DEF Late, Naming, BranchInv, Drill!NeverServing
  <2> QED BY <1>1, <2>4, <2>5, PastNaming
<1>3. CASE wf.at \notin Late
  <2>1. \/ Drill!Retry("list") /\ wf.at \in Naming
        \/ Drill!Retry("reset")
    BY <1>1, <1>3 DEF Drill!StepCut, Drill!StepOf, Late, Naming
  <2>2. /\ wf'.at \in {"list", "reset", "rollback"}
        /\ wf'.at = "list" => wf.at \in Naming
    BY <2>1, RetryTo
  <2> QED
    BY <1>1, <2>2 DEF BranchInv, Drill!OwnerSealed, Drill!NeverServing, Drill!OnlyOurs, Naming
<1> QED BY <1>2, <1>3

LEMMA VerifierKeeps ==
  ASSUME EvidenceInv, BranchInv, NEW v \in Drill!Runs,
         Drill!RunStep(v) \/ Drill!RunFails(v) PROVE BranchInv'
<1>1. UNCHANGED <<wf, branch, made, foreign, owner>>
  BY DEF Drill!RunStep, Drill!RunFails, Drill!Open, Drill!Check, Drill!PickEndpoint,
     Drill!RemoveEndpoint, Drill!CreateEndpoint, Drill!Turned, Drill!Game,
     Drill!PrepareProbe, Drill!CheckIsolation, Drill!PrepareMedia, Drill!LoseMedia,
     Drill!SeeMedia, Drill!CompleteProbe, Drill!Judge, Drill!Finish, Drill!Keep
<1>2. database \in DbRecs BY DEF EvidenceInv, Forms
<1>3. database'.state \in {database.state, "verified"}
  <2>1. CASE UNCHANGED database BY <2>1
  <2>2. CASE ~UNCHANGED database /\ Drill!PrepareProbe(v)
    BY <1>2, <2>2 DEF Drill!PrepareProbe, DbRecs
  <2>3. CASE ~UNCHANGED database /\ Drill!PrepareMedia(v)
    <3>1. PICK m \in {"ready", database.media} : database' = [database EXCEPT !.media = m]
      BY <2>3 DEF Drill!PrepareMedia
    <3> QED BY <1>2, <3>1 DEF DbRecs
  <2>4. CASE ~UNCHANGED database /\ Drill!LoseMedia(v) BY <1>2, <2>4 DEF Drill!LoseMedia, DbRecs
  <2>5. CASE ~UNCHANGED database /\ Drill!CompleteProbe(v)
    BY <1>2, <2>5 DEF Drill!CompleteProbe, DbRecs
  <2>6. CASE ~UNCHANGED database /\ Drill!Finish(v) BY <1>2, <2>6 DEF Drill!Finish, DbRecs
  <2> QED BY <2>1, <2>2, <2>3, <2>4, <2>5, <2>6
          DEF Drill!RunStep, Drill!RunFails, Drill!Open, Drill!Check, Drill!PickEndpoint,
          Drill!RemoveEndpoint, Drill!CreateEndpoint, Drill!Turned,
              Drill!Game, Drill!CheckIsolation, Drill!SeeMedia, Drill!Judge
<1> QED BY <1>1, <1>3 DEF BranchInv, Drill!OwnerSealed, Drill!NeverServing, Drill!OnlyOurs

LEMMA WorldKeeps ==
  ASSUME BranchInv, Drill!BranchReady \/ Drill!Intrude \/ UNCHANGED Drill!vars PROVE BranchInv'
<1>1. UNCHANGED <<wf, made, owner, database>> BY DEF Drill!BranchReady, Drill!Intrude, Drill!vars
<1>2. \/ UNCHANGED <<branch, foreign>>
      \/ branch = "init" /\ branch' = "ready" /\ UNCHANGED foreign
      \/ UNCHANGED branch /\ foreign' = "there"
  BY DEF Drill!BranchReady, Drill!Intrude, Drill!vars
<1> QED BY <1>1, <1>2 DEF BranchInv, Drill!OwnerSealed, Drill!NeverServing, Drill!OnlyOurs, Naming

LEMMA BranchInvariant == ASSUME Drill!DrillAssumption PROVE Drill!Spec => []BranchInv
<1>1. Drill!Init => BranchInv
  BY DEF Drill!Init, BranchInv, Drill!OwnerSealed, Drill!NeverServing, Drill!OnlyOurs
<1>2. ASSUME EvidenceInv, BranchInv, [Drill!Next]_Drill!vars PROVE BranchInv'
  <2>1. wf \in WfRecs /\ database \in DbRecs BY <1>2 DEF EvidenceInv, Forms
  <2>2. CASE Drill!WorkflowStep
    BY <1>2, <2>1, <2>2, NamingKeeps, SealKeeps, UndoKeeps DEF Drill!WorkflowStep
  <2>3. CASE Drill!WorkflowFault
    BY <1>2, <2>1, <2>3, NamingKeeps, SealKeeps, UndoKeeps, CutBranchKeeps DEF Drill!WorkflowFault
  <2> QED BY <1>2, <2>2, <2>3, VerifierKeeps, WorldKeeps DEF Drill!Next
<1> QED BY <1>1, <1>2, EvidenceInvariant, PTL DEF Drill!Spec

\* One drill makes one branch however often its creation is tried, touches no other branch of the
\* name and never lets its own serve, and nobody holds the password of the migration's owner once
\* the authorities are replayed (apps/recovery-control, packages/neon-recovery/src/client.ts).
THEOREM DrillKeepsItsBranch ==
  ASSUME Drill!DrillAssumption
  PROVE  Drill!Spec => [](/\ Drill!OneBranch /\ Drill!OwnerSealed
                          /\ Drill!NeverServing /\ Drill!OnlyOurs)
<1>1. BranchInv => Drill!OneBranch /\ Drill!OwnerSealed /\ Drill!NeverServing /\ Drill!OnlyOurs
  BY DEF BranchInv, Drill!OneBranch
<1> QED BY <1>1, BranchInvariant, PTL
=============================================================================
