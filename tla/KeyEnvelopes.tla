---------------------------- MODULE KeyEnvelopes ----------------------------
(***************************************************************************)
(* The key envelopes of a Personal Account and of what it owns: the        *)
(* bootstrap of an account by several tabs of one person, the wrapping of  *)
(* Setup and Connection keys under the account key, the deletion that      *)
(* makes keys unavailable, and the workflow that takes a damaged account   *)
(* key back from a point-in-time branch.                                   *)
(*                                                                         *)
(* Every account key the program makes has version 1, so the version a row *)
(* carries never tells two keys apart; the model keeps the key material    *)
(* itself.  A row is Nil (no row), Tombstone (ciphertext NULL,            *)
(* unavailable_at set) or the material it holds; a wrapped key is named by *)
(* the material it was wrapped under.                                      *)
(***************************************************************************)
EXTENDS Naturals, FiniteSets

CONSTANTS
  Users,       \* the persons, as Clerk knows them
  Ids,         \* the account identifiers that may be drawn
  Materials,   \* the account keys KMS may generate
  Slots,       \* the Connection Setups, each with the Connection it becomes
  Tabs,        \* the bootstrap requests that run at a time
  Owner,       \* the accounts that exist at the start, and whose they are
  Original,    \* the keys the damaged ones of them had before a restore
  Kept,        \* the Connection each damaged account has kept
  Points,      \* the source points an operator may name
  Failures,    \* how many calls, replies or commits may be lost
  Runs         \* how many times the recovery workflow may be dispatched

VARIABLES
  account,     \* [Ids -> [state, user, marker]]: personal_accounts
  keys,        \* [Ids -> row]: personal_account_key_envelopes
  slot,        \* [Slots -> the Setup and its Connection]
  tab,         \* [Tabs -> the bootstrap request of a tab]
  drawn,       \* the materials KMS has generated
  job,         \* the recovery workflow
  evidence,    \* the recovery operations recorded: a set of [account, point]
  failures     \* calls, replies and commits lost so far

vars == <<account, keys, slot, tab, drawn, job, evidence, failures>>

Nil == "none"
Tombstone == "tombstone"
Damaged == DOMAIN Original

OwnedOnce ==
  /\ Damaged \subseteq DOMAIN Owner /\ DOMAIN Owner \subseteq Ids
  /\ \A i, j \in DOMAIN Owner : Owner[i] = Owner[j] => i = j
PointsNamed == Points \subseteq {"before", "after", "early"}

NoAccount == [state |-> "none", user |-> Nil, marker |-> FALSE]
NoSlot == [account |-> Nil, setup |-> "none", setupKey |-> Nil,
           loaded |-> Nil, state |-> "none", key |-> Nil]
IdleTab == [step |-> "idle", user |-> Nil, id |-> Nil, key |-> Nil]
IdleJob == [step |-> "idle", point |-> Nil, ok |-> FALSE, branch |-> Nil,
            snap |-> Nil, touched |-> {}, target |-> Nil, material |-> Nil, runs |-> 0]

Available(row) == row \in Materials

\* A damaged account keeps one Connection wrapped under the key it had and has
\* a tombstone; an account that was repaired has no row at all.
Init ==
  /\ account = [i \in Ids |-> IF i \in DOMAIN Owner
                              THEN [NoAccount EXCEPT !.state = "active", !.user = Owner[i]]
                              ELSE NoAccount]
  /\ keys = [i \in Ids |-> IF i \in Damaged THEN Tombstone ELSE Nil]
  /\ slot = [s \in Slots |->
               IF \E i \in Damaged : Kept[i] = s
               THEN LET i == CHOOSE j \in Damaged : Kept[j] = s
                    IN  [NoSlot EXCEPT !.account = i, !.setup = "activated",
                                       !.state = "open", !.key = Original[i]]
               ELSE NoSlot]
  /\ tab = [t \in Tabs |-> IdleTab]
  /\ drawn = {Original[i] : i \in Damaged}
  /\ job = IdleJob
  /\ evidence = {}
  /\ failures = 0

Fails == failures < Failures /\ failures' = failures + 1

---------------------------------------------------------------------------
(* The bootstrap of an account *)

OwnedBy(u) == {i \in Ids : account[i].user = u /\ account[i].state \in {"active", "deleting"}}
\* An identifier just drawn is nobody's.
Unused == {i \in Ids : account[i].state = "none" /\ \A t \in Tabs : tab[t].id # i}

\* resolve_personal_account_for_clerk and the first answer of the bootstrap:
\* an active account whose key is available is answered as it is; otherwise a
\* key is proposed, for the account there is or for an identifier just drawn.
Resolve(t, u) ==
  /\ tab[t].step = "idle"
  /\ \/ /\ \E i \in OwnedBy(u) : account[i].state = "active" /\ Available(keys[i])
        /\ UNCHANGED <<tab, drawn>>
     \/ \E i \in Ids, k \in Materials \ drawn :
          /\ IF \E j \in OwnedBy(u) : account[j].state = "active"
             THEN i \in OwnedBy(u) /\ ~Available(keys[i])
             ELSE i \in Unused
          /\ drawn' = drawn \cup {k}
          /\ tab' = [tab EXCEPT ![t] = [step |-> "proposing", user |-> u, id |-> i, key |-> k]]
  /\ UNCHANGED <<account, keys, slot, job, evidence, failures>>

\* INSERT ... ON CONFLICT DO NOTHING: a row that is there stays, a tombstone too.
ProposedKey(row, k) == IF row = Nil THEN k ELSE row

\* Mutant: the identity already bound to an account is not looked up.
BoundToUnread(u) == {}

\* clerk_identities has one row for a person.
BoundTo(u) == OwnedBy(u)

\* admit_personal_account_for_clerk, under the advisory lock of admissions.
Admit(t) ==
  /\ tab[t].step = "proposing"
  /\ LET u == tab[t].user
         i == tab[t].id
     IN  IF BoundTo(u) = {}
         THEN /\ account' = [account EXCEPT ![i] = [state |-> "active", user |-> u, marker |-> FALSE]]
              /\ keys' = [keys EXCEPT ![i] = tab[t].key]
         ELSE /\ keys' = IF i \in BoundTo(u) /\ account[i].state = "active"
                         THEN [keys EXCEPT ![i] = ProposedKey(keys[i], tab[t].key)]
                         ELSE keys
              /\ UNCHANGED account
  /\ tab' = [tab EXCEPT ![t] = IdleTab]
  /\ UNCHANGED <<slot, drawn, job, evidence, failures>>

\* KMS, the database or the request fails before the admission commits.
BootstrapFails(t) ==
  /\ tab[t].step = "proposing" /\ Fails
  /\ tab' = [tab EXCEPT ![t] = IdleTab]
  /\ UNCHANGED <<account, keys, slot, drawn, job, evidence>>

---------------------------------------------------------------------------
(* What is wrapped under the account key *)

Changes(s, changes) == slot' = [slot EXCEPT ![s] = changes]
Serving(i) == account[i].state = "active" /\ Available(keys[i])

\* A Setup is prepared: the account key is read, and the Setup's key wrapped
\* under it, before the Setup is stored.
PrepareSetup(s) ==
  /\ slot[s].setup = "none"
  /\ \E i \in Ids :
       /\ Serving(i)
       /\ Changes(s, [slot[s] EXCEPT !.account = i, !.setup = "prepared", !.setupKey = keys[i]])
  /\ UNCHANGED <<account, keys, tab, drawn, job, evidence, failures>>

\* start_connection_setup looks for an available account key of the version
\* the Setup's key was wrapped under, which is always the same version.
StartSetup(s) ==
  /\ slot[s].setup = "prepared"
  /\ Changes(s, IF Serving(slot[s].account) THEN [slot[s] EXCEPT !.setup = "started"] ELSE NoSlot)
  /\ UNCHANGED <<account, keys, tab, drawn, job, evidence, failures>>

\* The activation reads both keys and wraps the Connection's own key.
LoadActivation(s) ==
  /\ slot[s].setup = "started" /\ slot[s].loaded = Nil
  /\ Serving(slot[s].account) /\ keys[slot[s].account] = slot[s].setupKey
  /\ Changes(s, [slot[s] EXCEPT !.loaded = keys[slot[s].account]])
  /\ UNCHANGED <<account, keys, tab, drawn, job, evidence, failures>>

\* activate_connection_setup checks the Setup under its lock and inserts the
\* Connection with the key it was given.
Activate(s) ==
  /\ slot[s].loaded # Nil
  /\ Changes(s, IF slot[s].setup = "started"
                THEN [slot[s] EXCEPT !.setup = "activated", !.loaded = Nil,
                                     !.state = "open", !.key = slot[s].loaded]
                ELSE [slot[s] EXCEPT !.loaded = Nil])
  /\ UNCHANGED <<account, keys, tab, drawn, job, evidence, failures>>

---------------------------------------------------------------------------
(* Deletion *)

\* A row another transaction holds cannot be written.
Unlocked(i) == job.target # i
\* A write of an account's key row, seen by a transaction that read it before.
Touches(i) ==
  job' = [job EXCEPT !.touched = IF job.step \in {"choosing", "reading", "committing"}
                                 THEN @ \cup {i} ELSE @]

\* prepare_personal_account_deletion.
BeginDeletion(i) ==
  /\ account[i].state = "active"
  /\ account' = [account EXCEPT ![i].state = "deleting"]
  /\ slot' = [s \in Slots |-> IF slot[s].account = i /\ slot[s].setup = "started"
                              THEN [slot[s] EXCEPT !.setup = "cancelled"] ELSE slot[s]]
  /\ UNCHANGED <<keys, tab, drawn, job, evidence, failures>>

\* A Connection Deletion decrypts the session locator for its capsule, so both
\* keys have to be there and to fit.
LocatorReadable(s) ==
  LET i == slot[s].account
  IN  Available(keys[i]) /\ Available(slot[s].key) /\ keys[i] = slot[s].key

DeleteConnection(s) ==
  /\ slot[s].state = "open" /\ LocatorReadable(s)
  /\ Changes(s, [slot[s] EXCEPT !.state = "deleting", !.key = Tombstone])
  /\ UNCHANGED <<account, keys, tab, drawn, job, evidence, failures>>

PurgeConnection(s) ==
  /\ slot[s].state = "deleting"
  /\ Changes(s, NoSlot)
  /\ UNCHANGED <<account, keys, tab, drawn, job, evidence, failures>>

ConnectionsOf(i) == {s \in Slots : slot[s].account = i /\ slot[s].state # "none"}

\* Mutant: only a key that is missing is marked unavailable.
ClosedKeyKept(row) == row

ClosedKey(row) == IF row = Nil THEN Nil ELSE Tombstone

\* finish_personal_account_deletion: every Connection is being deleted, the
\* account key becomes unavailable and the marker is set.
FinishDeletion(i) ==
  /\ account[i].state = "deleting" /\ ~account[i].marker /\ Unlocked(i)
  /\ \A s \in ConnectionsOf(i) : slot[s].state = "deleting"
  /\ keys' = [keys EXCEPT ![i] = ClosedKey(@)]
  /\ account' = [account EXCEPT ![i].marker = TRUE]
  /\ Touches(i)
  /\ UNCHANGED <<slot, tab, drawn, evidence, failures>>

PurgeAccount(i) ==
  /\ account[i].state = "deleting" /\ account[i].marker /\ Unlocked(i)
  /\ ConnectionsOf(i) = {}
  /\ account' = [account EXCEPT ![i].state = "gone"]
  /\ keys' = [keys EXCEPT ![i] = Nil]
  /\ slot' = [s \in Slots |-> IF slot[s].account = i THEN NoSlot ELSE slot[s]]
  /\ evidence' = {e \in evidence : e.account # i}
  /\ Touches(i)
  /\ UNCHANGED <<tab, drawn, failures>>

---------------------------------------------------------------------------
(* The recovery of a damaged account key *)

Job(changes) == job' = changes
JobOnly == UNCHANGED <<account, keys, slot, tab, drawn, evidence>>
Ended(j, ok) == [j EXCEPT !.step = "cleaning", !.ok = ok, !.snap = Nil,
                          !.touched = {}, !.target = Nil, !.material = Nil]

\* The workflow is dispatched: always with the one change reference of this
\* recovery, and with a source point the operator names.
Dispatch ==
  /\ job.step = "idle" /\ job.runs < Runs
  /\ \E p \in Points :
       Job([job EXCEPT !.step = "branching", !.point = p, !.ok = FALSE, !.runs = @ + 1])
  /\ JobOnly /\ UNCHANGED failures

\* reconcilePitrBranch creates the branch of this name, or adopts the one
\* there is when it was taken at the same point.
ReconcileBranch ==
  /\ job.step = "branching"
  /\ Job(IF job.branch \in {Nil, job.point}
         THEN [job EXCEPT !.step = "opening", !.branch = job.point]
         ELSE Ended(job, FALSE))
  /\ JobOnly /\ UNCHANGED failures

\* The first statement of the serializable transaction fixes what it sees.
OpenTransaction ==
  /\ job.step = "opening"
  /\ Job([job EXCEPT !.step = "choosing",
                     !.snap = [account |-> account, keys |-> keys, slot |-> slot,
                               evidence |-> evidence]])
  /\ JobOnly /\ UNCHANGED failures

Retained(snap, i) ==
  {s \in Slots : snap.slot[s].account = i /\ snap.slot[s].state = "open"}
Candidates(snap) ==
  {i \in Ids : /\ snap.account[i].state = "active" /\ snap.keys[i] = Tombstone
               /\ Retained(snap, i) # {}}

\* verifyRecoveredEnvelope on what the transaction sees.
Verified(snap, i) ==
  /\ snap.account[i].state = "active" /\ Available(snap.keys[i])
  /\ Retained(snap, i) # {}
  /\ \A s \in Retained(snap, i) : Available(snap.slot[s].key)

\* FOR UPDATE in a serializable transaction refuses a row that another
\* transaction has written since the snapshot.
Current(i) == i \notin job.touched

\* The recovery operation recorded under this change reference.
Recorded(snap) == snap.evidence

\* Mutant: any one of the candidates will do.
SoleCandidateAny(snap) == Candidates(snap) # {}

SoleCandidate(snap) == Cardinality(Candidates(snap)) = 1

\* A recorded operation is only verified again; otherwise exactly one damaged
\* account is chosen and its key row locked.
Choose ==
  /\ job.step = "choosing"
  /\ \/ \E e \in Recorded(job.snap) :
          Job(Ended(job, e.point = job.point /\ Verified(job.snap, e.account)))
     \/ /\ Recorded(job.snap) = {} /\ SoleCandidate(job.snap)
        /\ \E i \in Candidates(job.snap) :
             Job(IF Current(i) THEN [job EXCEPT !.step = "reading", !.target = i]
                 ELSE Ended(job, FALSE))
     \/ /\ Recorded(job.snap) = {} /\ ~SoleCandidate(job.snap)
        /\ Job(Ended(job, FALSE))
  /\ JobOnly /\ UNCHANGED failures

\* What the branch taken at a point holds of an account's key.
SourceKey(p, i) ==
  CASE i \notin Damaged \/ p = "early" -> Nil
    [] i \in Damaged /\ p = "after" -> Tombstone
    [] i \in Damaged /\ p = "before" -> Original[i]

SourceUsable(k) == Available(k)

\* The envelope is read from the branch and has to be available there, and
\* every retained Connection has to have its key.
ReadSource ==
  /\ job.step = "reading"
  /\ LET k == SourceKey(job.branch, job.target)
     IN  Job(IF SourceUsable(k) /\ \A s \in Retained(job.snap, job.target) :
                                  Available(job.snap.slot[s].key)
             THEN [job EXCEPT !.step = "committing", !.material = k]
             ELSE Ended(job, FALSE))
  /\ JobOnly /\ UNCHANGED failures

\* The key and its evidence are written and verified in one transaction; the
\* reply of the commit may be lost.
CommitRecovery ==
  /\ job.step = "committing"
  /\ keys' = [keys EXCEPT ![job.target] = job.material]
  /\ evidence' = evidence \cup {[account |-> job.target, point |-> job.point]}
  /\ \/ Job(Ended(job, TRUE)) /\ UNCHANGED failures
     \/ Job(Ended(job, FALSE)) /\ Fails
  /\ UNCHANGED <<account, slot, tab, drawn>>

\* A call of the run fails, or its runner is lost: the transaction rolls back.
RunFails ==
  /\ job.step \in {"branching", "opening", "choosing", "reading", "committing"} /\ Fails
  /\ \E b \in IF job.step = "branching" /\ job.branch = Nil THEN {Nil, job.point} ELSE {job.branch} :
       Job([Ended(job, FALSE) EXCEPT !.branch = b])
  /\ JobOnly

\* A run that did not succeed is followed by the workflow's own clean-up step.
AfterCleaning(ok) == IF ok THEN "idle" ELSE "sweeping"

\* The branch of this name is deleted if it was taken at the point named.
CleanUp ==
  /\ job.step \in {"cleaning", "sweeping"}
  /\ \/ /\ job.branch \in {Nil, job.point}
        /\ Job([job EXCEPT !.branch = Nil,
                  !.step = IF job.step = "cleaning" THEN AfterCleaning(job.ok) ELSE "idle"])
        /\ UNCHANGED failures
     \/ /\ job.branch \notin {Nil, job.point}
        /\ Job([job EXCEPT !.step = IF job.step = "cleaning" THEN AfterCleaning(FALSE) ELSE "idle"])
        /\ UNCHANGED failures
     \/ /\ Fails
        /\ Job([job EXCEPT !.step = IF job.step = "cleaning" THEN AfterCleaning(FALSE) ELSE "idle"])
  /\ JobOnly

---------------------------------------------------------------------------

Bootstrap == \E t \in Tabs : Admit(t) \/ BootstrapFails(t) \/ \E u \in Users : Resolve(t, u)
Wrapping == \E s \in Slots : PrepareSetup(s) \/ StartSetup(s) \/ LoadActivation(s) \/ Activate(s)
Deleting ==
  \/ \E i \in Ids : BeginDeletion(i) \/ FinishDeletion(i) \/ PurgeAccount(i)
  \/ \E s \in Slots : DeleteConnection(s) \/ PurgeConnection(s)
JobStep ==
  ReconcileBranch \/ OpenTransaction \/ Choose \/ ReadSource \/ CommitRecovery \/ CleanUp
Recovering == Dispatch \/ JobStep \/ RunFails

Next == Bootstrap \/ Wrapping \/ Deleting \/ Recovering
Spec == Init /\ [][Next]_vars

\* Requests and a workflow that has started go on; a deletion that has begun is
\* retried by the person or the webhook until it is finished, and the purges
\* are scheduled.  Nobody has to dispatch the recovery.
Fairness ==
  /\ \A t \in Tabs : WF_vars(Admit(t))
  /\ WF_vars(JobStep)
  /\ \A i \in Ids : WF_vars(FinishDeletion(i)) /\ WF_vars(PurgeAccount(i))
  /\ \A s \in Slots :
       /\ WF_vars(/\ \E i \in Ids : slot[s].account = i /\ account[i].state = "deleting"
                  /\ DeleteConnection(s))
       /\ WF_vars(PurgeConnection(s))

FairSpec == Spec /\ Fairness

-----------------------------------------------------------------------------
(* What has to hold of the key envelopes. *)

Row == Materials \cup {Nil, Tombstone}

AccountRows == [state : {"none", "active", "deleting", "gone"},
                user : Users \cup {Nil}, marker : BOOLEAN]

SlotRows == [account : Ids \cup {Nil},
             setup : {"none", "prepared", "started", "activated", "cancelled"},
             setupKey : Materials \cup {Nil}, loaded : Materials \cup {Nil},
             state : {"none", "open", "deleting"}, key : Row]

RecoveryOperations == [account : Ids, point : Points]

\* Every variable has its type.
TypeOK ==
  /\ account \in [Ids -> AccountRows]
  /\ keys \in [Ids -> Row]
  /\ slot \in [Slots -> SlotRows]
  /\ tab \in [Tabs -> [step : {"idle", "proposing"}, user : Users \cup {Nil},
                       id : Ids \cup {Nil}, key : Materials \cup {Nil}]]
  /\ drawn \subseteq Materials
  /\ job.step \in {"idle", "branching", "opening", "choosing", "reading", "committing",
                   "cleaning", "sweeping"}
  /\ job.step = "committing" => job.material \in Materials
  /\ evidence \subseteq RecoveryOperations
  /\ failures \in 0 .. Failures /\ job.runs \in 0 .. Runs

\* While an account's key is available, every Connection and Setup that counts
\* on it was wrapped under that very key, not merely under one of the same
\* version: whatever was stored under them can still be read.
KeysFit ==
  \A i \in Ids, s \in Slots :
    Available(keys[i]) /\ slot[s].account = i =>
      /\ slot[s].state = "open" => slot[s].key = keys[i]
      /\ slot[s].setup = "started" => slot[s].setupKey = keys[i]

\* Two tabs that bootstrap at the same time never give a person two accounts.
OnePerPerson == \A u \in Users : Cardinality(OwnedBy(u)) <= 1

\* Once the deletion of an account has made its key unavailable, no recovery
\* that was under way brings it back.
MarkedIsClosed ==
  \A i \in Ids : account[i].state = "deleting" /\ account[i].marker => ~Available(keys[i])

\* A tombstone is replaced only by the key the account had, once, with the
\* operation recorded beside it, and only while no other active account was in
\* the same condition.
RevivedAsRecorded ==
  [][\A i \in Ids :
       keys[i] = Tombstone /\ Available(keys'[i]) =>
         /\ keys'[i] = Original[i]
         /\ \E e \in evidence' \ evidence : e.account = i
         /\ \A j \in Damaged \ {i} :
              ~(account[j].state = "active" /\ keys[j] = Tombstone)]_vars

\* A branch of a recovery outlives its workflow only if both the run itself and
\* the clean-up that follows it failed.
BranchRarelyLeft == job.step = "idle" /\ job.branch # Nil => failures >= 2

\* The deletion of an account that was not damaged comes to its end: its
\* Connections' locators stay readable for as long as they are needed.
DeletionEnds ==
  \A i \in Ids \ Damaged : account[i].state = "deleting" ~> account[i].state = "gone"

\* An account that was purged does not come back under its identifier.
GoneStaysGone ==
  [][\A i \in Ids : account[i].state = "gone" => account'[i].state = "gone"]_vars
=============================================================================
