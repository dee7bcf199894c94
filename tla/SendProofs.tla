----------------------------- MODULE SendProofs -----------------------------
(***************************************************************************)
(* Theorems about SendOperations for every set of calls and keys, every    *)
(* assignment of keys and fingerprints, every lease, limit and lifetime.   *)
(***************************************************************************)
EXTENDS SendOperations, FiniteSetTheorems, TLAPS

USE DEF context, callVars, rowVars, contentVars, providerVars, webhookVars,
        OperationRows, BindingRows, PendingRows, ObjectRows

-----------------------------------------------------------------------------
(* Types                                                                   *)

LEMMA TypedInit == Init => Typed
BY IdentityAssumption DEF Init, Typed, CallTypes, RowTypes, ContentTypes,
   WebhookTypes, WorldTypes, PCs, Live, Replies, ProviderAnswers, NoAnswer, Items

LEMMA DropPendingTyped ==
  ASSUME NEW S \in SUBSET Requests, ContentTypes, DropPending(S)
  PROVE  /\ pending' \subseteq Requests
         /\ object' \in [Requests -> {"none", "ready", "purging"}]
         /\ intents' \subseteq Requests
BY DEF ContentTypes, DropPending

LEMMA TypedCallTypes == ASSUME Typed, [Next]_vars PROVE CallTypes'
<1> USE DEF Typed, CallTypes, PCs, Live, Replies, Goto, Finish
<1>1. ASSUME NEW r \in Requests, Call(r) PROVE CallTypes'
  <2>1. CASE Preflight(r) BY <2>1 DEF Preflight
  <2>2. CASE Start(r) BY <2>2 DEF Start, WorldTypes
  <2>3. CASE ReadBinding(r) BY <2>3, IdentityAssumption DEF ReadBinding, RowTypes
  <2>4. CASE Deny(r) \/ Refuse(r) \/ Admit(r) BY <2>4 DEF Deny, Refuse, Admit
  <2>5. CASE ReplayBound(r) BY <2>5 DEF ReplayBound
  <2>6. CASE WriteObject(r) \/ Commit(r) \/ CommitLost(r) \/ Rollback(r)
    BY <2>6 DEF WriteObject, Commit, CommitLost, Rollback, Insert
  <2>7. CASE CleanUp(r) BY <2>7 DEF CleanUp
  <2>8. CASE Dispatch(r) BY <2>8 DEF Dispatch
  <2>9. CASE Respond(r)
    <3>1. \A a \in ResponsesTo(r) : a \in [status : ProviderAnswers, identity : BOOLEAN, at : Nat]
      BY DEF ResponsesTo, ProviderAnswers, Positive, WorldTypes
    <3> QED BY <2>9, <3>1 DEF Respond
  <2>10. CASE Abandon(r)
    BY <2>10 DEF Abandon, NoAnswer, ProviderAnswers, WorldTypes
  <2>11. CASE \/ RecordInTime(r) \/ RecordBesideUpsert(r) \/ RecordLate(r) \/ RecordFails(r)
              \/ Crash(r)
    BY <2>11 DEF RecordInTime, RecordBesideUpsert, RecordLate, RecordFails, Crash
  <2> QED BY <1>1, <2>1, <2>2, <2>3, <2>4, <2>5, <2>6, <2>7, <2>8, <2>9, <2>10, <2>11 DEF Call
<1>2. ASSUME NEW r \in Requests, Webhook(r) PROVE CallTypes'
  BY <1>2 DEF Webhook, EvidenceUnmatched, EvidenceMatched, Upsert
<1>3. CASE Cron
  BY <1>3 DEF Cron, Sweep, PurgePending, RemoveShells, Tick, DeleteObject, FinishDeletion
<1>4. CASE User
  BY <1>4 DEF User, Revoke, ChangeConnection, DeleteConnection, PrepareRule, FinalizeRule
<1>5. CASE UNCHANGED vars BY <1>5 DEF vars
<1> QED BY <1>1, <1>2, <1>3, <1>4, <1>5 DEF Next

LEMMA TypedRowTypes == ASSUME Typed, [Next]_vars PROVE RowTypes'
<1> USE DEF Typed, RowTypes
<1>1. ASSUME NEW r \in Requests, Call(r) PROVE RowTypes'
  <2>1. CASE Preflight(r) \/ Start(r) \/ ReadBinding(r) \/ Deny(r) \/ Refuse(r) \/ Admit(r)
    BY <2>1 DEF Preflight, Start, ReadBinding, Deny, Refuse, Admit
  <2>2. CASE ReplayBound(r) BY <2>2 DEF ReplayBound, Statuses
  <2>3. CASE Commit(r) \/ CommitLost(r)
    <3>1. now + Lease \in Nat /\ observedAt[r] \in Nat /\ KeyOf[r] \in Keys
      BY IdentityAssumption, BoundAssumption DEF WorldTypes, CallTypes
    <3> QED BY <2>3, <3>1 DEF Commit, CommitLost, Insert, Statuses
  <2>4. CASE WriteObject(r) \/ Rollback(r) \/ CleanUp(r) \/ Respond(r) \/ Abandon(r)
             \/ RecordFails(r) \/ Crash(r)
    BY <2>4 DEF WriteObject, Rollback, CleanUp, Respond, Abandon, RecordFails, Crash
  <2>5. CASE Dispatch(r) BY <2>5 DEF Dispatch
  <2>6. CASE RecordInTime(r)
    BY <2>6 DEF RecordInTime, CallTypes, ProviderAnswers, Statuses
  <2>8. CASE RecordBesideUpsert(r)
    <3>1. answer[r].status \in Statuses BY DEF CallTypes, ProviderAnswers, Statuses
    <3>2. /\ status' = [status EXCEPT ![r] = answer[r].status]
          /\ known' = [known EXCEPT ![r] = TRUE]
          /\ UNCHANGED <<lease, createdAt, binding, attempts, took>>
      BY <2>8 DEF RecordBesideUpsert
    <3> QED BY <3>1, <3>2
  <2>7. CASE RecordLate(r) BY <2>7 DEF RecordLate, Statuses
  <2> QED BY <1>1, <2>1, <2>2, <2>3, <2>4, <2>5, <2>6, <2>7, <2>8 DEF Call
<1>2. ASSUME NEW r \in Requests, Webhook(r) PROVE RowTypes'
  <2>1. ASSUME NEW s \in Reports \cap EvidenceStatuses, EvidenceMatched(r, s)
        PROVE RowTypes'
    BY <2>1 DEF EvidenceMatched, EvidenceStatuses, Positive, Statuses
  <2>2. ASSUME NEW s \in Reports \cap EvidenceStatuses, EvidenceUnmatched(r, s)
        PROVE RowTypes'
    BY <2>2 DEF EvidenceUnmatched
  <2>3. CASE Upsert(r) BY <2>3 DEF Upsert, Statuses
  <2> QED BY <1>2, <2>1, <2>2, <2>3 DEF Webhook
<1>3. CASE Cron
  BY <1>3 DEF Cron, Sweep, PurgePending, RemoveShells, Tick, DeleteObject,
              FinishDeletion, Statuses
<1>4. CASE User
  BY <1>4 DEF User, Revoke, ChangeConnection, DeleteConnection, PrepareRule, FinalizeRule
<1>5. CASE UNCHANGED vars BY <1>5 DEF vars
<1> QED BY <1>1, <1>2, <1>3, <1>4, <1>5 DEF Next

LEMMA TypedContentTypes == ASSUME Typed, [Next]_vars PROVE ContentTypes'
<1> USE DEF Typed, ContentTypes
<1>1. ASSUME NEW S, DropPending(S), r2' = r2 PROVE ContentTypes'
  BY <1>1 DEF DropPending
<1>2. ASSUME NEW r \in Requests, Call(r) PROVE ContentTypes'
  <2>1. CASE Preflight(r) \/ Start(r) \/ ReadBinding(r) \/ Deny(r) \/ Refuse(r) \/ Admit(r)
    BY <2>1 DEF Preflight, Start, ReadBinding, Deny, Refuse, Admit
  <2>2. CASE ReplayBound(r) \/ RecordInTime(r) \/ RecordBesideUpsert(r) \/ RecordLate(r)
    BY <2>2, <1>1 DEF ReplayBound, RecordInTime, RecordBesideUpsert, RecordLate
  <2>3. CASE Commit(r) \/ CommitLost(r)
    BY <2>3 DEF Commit, CommitLost, Insert
  <2>4. CASE WriteObject(r) \/ CleanUp(r) BY <2>4 DEF WriteObject, CleanUp
  <2>5. CASE Rollback(r) \/ Dispatch(r) \/ Respond(r) \/ Abandon(r) \/ RecordFails(r) \/ Crash(r)
    BY <2>5 DEF Rollback, Dispatch, Respond, Abandon, RecordFails, Crash
  <2> QED BY <1>2, <2>1, <2>2, <2>3, <2>4, <2>5 DEF Call
<1>3. ASSUME NEW r \in Requests, Webhook(r) PROVE ContentTypes'
  BY <1>1, <1>3 DEF Webhook, EvidenceUnmatched, EvidenceMatched, Upsert
<1>4. CASE Cron
  <2>1. CASE Sweep \/ PurgePending BY <1>1, <2>1 DEF Sweep, PurgePending
  <2>2. CASE RemoveShells \/ Tick BY <2>2 DEF RemoveShells, Tick
  <2>3. CASE \E r \in Requests : DeleteObject(r) \/ FinishDeletion(r)
    BY <2>3 DEF DeleteObject, FinishDeletion
  <2> QED BY <1>4, <2>1, <2>2, <2>3 DEF Cron
<1>5. CASE User
  BY <1>1, <1>5 DEF User, Revoke, ChangeConnection, DeleteConnection, PrepareRule, FinalizeRule
<1>6. CASE UNCHANGED vars BY <1>6 DEF vars
<1> QED BY <1>2, <1>3, <1>4, <1>5, <1>6 DEF Next

LEMMA TypedWebhookTypes == ASSUME Typed, [Next]_vars PROVE WebhookTypes'
<1> USE DEF Typed, WebhookTypes
<1>1. ASSUME NEW r \in Requests, Call(r) PROVE WebhookTypes'
  <2>1. CASE RecordInTime(r)
    BY <2>1 DEF RecordInTime, CallTypes, WorldTypes
  <2>2. CASE RecordBesideUpsert(r)
    <3>1. ReceivedAt(r) \subseteq Int BY DEF ReceivedAt
    <3> QED BY <2>2, <3>1 DEF RecordBesideUpsert, Claim, Items, WorldTypes
  <2>3. CASE ~RecordInTime(r) /\ ~RecordBesideUpsert(r)
    BY <1>1, <2>3 DEF Call, Preflight, Start, ReadBinding, Deny, ReplayBound, Refuse, Admit,
       WriteObject, Commit, CommitLost, Insert, Rollback, CleanUp, Dispatch, Respond,
       Abandon, RecordLate, RecordFails, Crash
  <2> QED BY <2>1, <2>2, <2>3
<1>2. ASSUME NEW r \in Requests, Webhook(r) PROVE WebhookTypes'
  <2>1. ReceivedAt(r) \subseteq Int BY DEF ReceivedAt
  <2>2. ASSUME NEW s \in Reports \cap EvidenceStatuses, EvidenceUnmatched(r, s)
        PROVE WebhookTypes'
    BY <2>2 DEF EvidenceUnmatched, Claim, Items
  <2>3. ASSUME NEW s \in Reports \cap EvidenceStatuses, EvidenceMatched(r, s)
        PROVE WebhookTypes'
    BY <2>1, <2>3 DEF EvidenceMatched, Claim, Items, WorldTypes
  <2>4. CASE Upsert(r) BY <2>1, <2>4 DEF Upsert, Claim, Items, WorldTypes
  <2> QED BY <1>2, <2>2, <2>3, <2>4 DEF Webhook
<1>3. CASE Cron
  BY <1>3 DEF Cron, Sweep, PurgePending, RemoveShells, Tick, DeleteObject, FinishDeletion
<1>4. CASE User
  BY <1>4 DEF User, Revoke, ChangeConnection, DeleteConnection, PrepareRule, FinalizeRule
<1>5. CASE UNCHANGED vars BY <1>5 DEF vars
<1> QED BY <1>1, <1>2, <1>3, <1>4, <1>5 DEF Next

LEMMA TypedWorldTypes == ASSUME Typed, [Next]_vars PROVE WorldTypes'
<1> USE DEF Typed, WorldTypes
<1>1. ASSUME NEW r \in Requests, Call(r) PROVE WorldTypes'
  BY <1>1 DEF Call, Preflight, Start, ReadBinding, Deny, ReplayBound, Refuse, Admit,
     WriteObject, Commit, CommitLost, Insert, Rollback, CleanUp, Dispatch, Respond,
     Abandon, RecordInTime, RecordBesideUpsert, RecordLate, RecordFails, Crash
<1>2. ASSUME NEW r \in Requests, Webhook(r) PROVE WorldTypes'
  BY <1>2 DEF Webhook, EvidenceUnmatched, EvidenceMatched, Upsert
<1>3. CASE Cron
  BY <1>3 DEF Cron, Sweep, PurgePending, RemoveShells, Tick, DeleteObject, FinishDeletion
<1>4. CASE User
  <2>1. CASE Revoke BY <2>1 DEF Revoke
  <2>2. CASE ChangeConnection \/ DeleteConnection
    BY <2>2 DEF ChangeConnection, DeleteConnection
  <2>3. CASE PrepareRule BY <2>3 DEF PrepareRule
  <2>4. CASE FinalizeRule BY <2>4 DEF FinalizeRule
  <2> QED BY <1>4, <2>1, <2>2, <2>3, <2>4 DEF User
<1>5. CASE UNCHANGED vars BY <1>5 DEF vars
<1> QED BY <1>1, <1>2, <1>3, <1>4, <1>5 DEF Next

\* Rows, calls and content keep their types whatever happens.
THEOREM Typing == Spec => []Typed
<1>1. Typed /\ [Next]_vars => Typed'
  BY TypedCallTypes, TypedRowTypes, TypedContentTypes, TypedWebhookTypes, TypedWorldTypes
     DEF Typed
<1> QED BY TypedInit, <1>1, PTL DEF Spec

-----------------------------------------------------------------------------
(* One attempt per key                                                     *)

RowsStay ==
  /\ \A q \in Requests : status'[q] = "none" <=> status[q] = "none"
  /\ binding' = binding

\* Rows only appear at the commit and never go: any other step exchanges one
\* status for another and moves no binding.
LEMMA OnlyCommitAddsRows ==
  ASSUME Typed, OutcomeInvariant, [Next]_vars
  PROVE  RowsStay \/ \E r \in Requests : Commit(r) \/ CommitLost(r)
<1> USE DEF Typed, RowTypes, RowsStay
<1>1. ASSUME NEW r \in Requests, Call(r), ~Commit(r), ~CommitLost(r) PROVE RowsStay
  <2>1. CASE ReplayBound(r) BY <2>1 DEF ReplayBound, LeaseOver
  <2>2. CASE RecordInTime(r) \/ RecordBesideUpsert(r)
    <3>1. /\ status[r] = "processing" /\ status' = [status EXCEPT ![r] = answer[r].status]
          /\ binding' = binding
      BY <2>2 DEF RecordInTime, RecordBesideUpsert, InTime
    <3>2. answer[r].status # "none" BY DEF CallTypes, ProviderAnswers
    <3> QED BY <3>1, <3>2
  <2>3. CASE RecordLate(r) BY <2>3 DEF RecordLate, LeaseOver
  <2>4. CASE UNCHANGED <<status, binding>> BY <2>4
  <2> QED BY <1>1, <2>1, <2>2, <2>3, <2>4 DEF Call, Preflight, Start, ReadBinding,
       Deny, Refuse, Admit, WriteObject, Rollback, CleanUp, Dispatch, Respond,
       Abandon, RecordFails, Crash
<1>2. ASSUME NEW r \in Requests, Webhook(r) PROVE RowsStay
  <2>1. ASSUME NEW s \in Reports \cap EvidenceStatuses, EvidenceMatched(r, s)
        PROVE RowsStay
    <3>1. status[r] # "none"
      BY <2>1 DEF EvidenceMatched, OutcomeInvariant, EvidenceStatuses, Positive
    <3> QED BY <2>1, <3>1 DEF EvidenceMatched, EvidenceStatuses, Positive
  <2>2. CASE Upsert(r) BY <2>2 DEF Upsert, UpsertApplies
  <2>3. CASE UNCHANGED <<status, binding>> BY <2>3
  <2> QED BY <1>2, <2>1, <2>2, <2>3 DEF Webhook, EvidenceUnmatched
<1>3. CASE Cron
  BY <1>3 DEF Cron, Sweep, LeaseOver, PurgePending, RemoveShells, Tick, DeleteObject, FinishDeletion
<1>4. CASE User
  BY <1>4 DEF User, Revoke, ChangeConnection, DeleteConnection, PrepareRule, FinalizeRule
<1>5. CASE UNCHANGED vars BY <1>5 DEF vars
<1> QED BY <1>1, <1>2, <1>3, <1>4, <1>5 DEF Next

LEMMA CallInvariantInit == Init => CallInvariant
BY IdentityAssumption DEF Init, CallInvariant, BeforeCommit, AfterCommit

LEMMA CallInvariantStep ==
  ASSUME Typed, CallInvariant, OutcomeInvariant, [Next]_vars
  PROVE  CallInvariant'
<1> USE IdentityAssumption DEF Typed, CallTypes, RowTypes
<1>1. ASSUME NEW r \in Requests, Commit(r) \/ CommitLost(r) PROVE CallInvariant'
  <2>1. /\ pc[r] \in {"admitted", "written"} /\ writer = r /\ writer' = None
        /\ status[r] = "none" /\ attempts[r] = 0 /\ reply[r] = "none"
        /\ binding[KeyOf[r]] = None
    BY <1>1 DEF Commit, CommitLost, Insert, Insertable, KeyFree, CallInvariant, BeforeCommit
  <2>2. /\ status' = [status EXCEPT ![r] = "processing"]
        /\ binding' = [binding EXCEPT ![KeyOf[r]] = r]
        /\ seen' = seen /\ attempts' = attempts
        /\ \/ pc' = [pc EXCEPT ![r] = "committed"] /\ reply' = [reply EXCEPT ![r] = "created"]
           \/ pc' = [pc EXCEPT ![r] = "failed"] /\ reply' = reply
    BY <1>1 DEF Commit, CommitLost, Insert, Goto, providerVars
  <2> QED BY <2>1, <2>2 DEF CallInvariant, BeforeCommit, AfterCommit
<1>2. CASE RowsStay
  <2> USE <1>2 DEF RowsStay, CallInvariant, BeforeCommit, AfterCommit
  <2>1. ASSUME NEW r \in Requests, Call(r), ~Commit(r), ~CommitLost(r) PROVE CallInvariant'
    <3> USE DEF Goto, Finish
    <3>1. CASE Preflight(r) BY <3>1 DEF Preflight
    <3>2. CASE Start(r) BY <3>2 DEF Start
    <3>3. CASE ReadBinding(r) BY <3>3 DEF ReadBinding
    <3>4. CASE Deny(r) \/ Refuse(r) BY <3>4 DEF Deny, Refuse, Locks
    <3>5. CASE ReplayBound(r) BY <3>5 DEF ReplayBound, Locks
    <3>6. CASE Admit(r) BY <3>6 DEF Admit, Locks
    <3>7. CASE WriteObject(r) BY <3>7 DEF WriteObject
    <3>8. CASE Rollback(r) BY <3>8 DEF Rollback
    <3>9. CASE CleanUp(r) BY <3>9 DEF CleanUp
    <3>10. CASE Dispatch(r) BY <3>10 DEF Dispatch
    <3>11. CASE Respond(r) \/ Abandon(r) BY <3>11 DEF Respond, Abandon
    <3>12. CASE RecordInTime(r) \/ RecordBesideUpsert(r) \/ RecordLate(r) \/ RecordFails(r)
      BY <3>12 DEF RecordInTime, RecordBesideUpsert, RecordLate, RecordFails
    <3>13. CASE Crash(r) BY <3>13 DEF Crash, Live
    <3> QED BY <2>1, <3>1, <3>2, <3>3, <3>4, <3>5, <3>6, <3>7, <3>8, <3>9, <3>10, <3>11,
               <3>12, <3>13 DEF Call
  <2>2. CASE UNCHANGED <<writer, pc, reply, seen, attempts>> BY <2>2
  <2>3. ASSUME NEW r \in Requests, Webhook(r) PROVE UNCHANGED <<writer, pc, reply, seen, attempts>>
    BY <2>3 DEF Webhook, EvidenceUnmatched, EvidenceMatched, Upsert
  <2>4. CASE Cron
    BY <2>2, <2>4 DEF Cron, Sweep, PurgePending, RemoveShells, Tick, DeleteObject, FinishDeletion
  <2>5. CASE User
    BY <2>2, <2>5 DEF User, Revoke, ChangeConnection, DeleteConnection, PrepareRule, FinalizeRule
  <2>6. CASE UNCHANGED vars BY <2>2, <2>6 DEF vars
  <2> QED BY <1>1, <2>1, <2>2, <2>3, <2>4, <2>5, <2>6 DEF Next
<1> QED BY <1>1, <1>2, OnlyCommitAddsRows

LEMMA OutcomeInvariantInit == Init => OutcomeInvariant
BY DEF Init, OutcomeInvariant, NoAnswer

LEMMA OutcomeInvariantStep ==
  ASSUME Typed, CallInvariant, OutcomeInvariant, [Next]_vars
  PROVE  OutcomeInvariant'
<1> USE DEF Typed, CallTypes, RowTypes, OutcomeInvariant
<1>1. ASSUME NEW r \in Requests, Call(r) PROVE OutcomeInvariant'
  <2> USE DEF Goto, Finish
  <2>1. ~known[r] \/ pc[r] = "done" OBVIOUS
  <2>2. CASE Preflight(r) BY <2>1, <2>2 DEF Preflight
  <2>3. CASE Start(r) \/ ReadBinding(r) BY <2>1, <2>3 DEF Start, ReadBinding
  <2>4. CASE Deny(r) \/ Refuse(r) \/ Admit(r) BY <2>1, <2>4 DEF Deny, Refuse, Admit, Locks
  <2>5. CASE ReplayBound(r)
    BY <2>1, <2>5 DEF ReplayBound, Locks, LeaseOver, EvidenceStatuses, Positive
  <2>6. CASE WriteObject(r) \/ Rollback(r) \/ CleanUp(r)
    BY <2>1, <2>6 DEF WriteObject, Rollback, CleanUp
  <2>7. CASE Commit(r) \/ CommitLost(r)
    <3>1. ~known[r]
      BY <2>7 DEF Commit, CommitLost, Insert, Insertable
    <3> QED BY <2>7, <3>1 DEF Commit, CommitLost, Insert
  <2>8. CASE Dispatch(r)
    <3>1. attempts[r] = 0 BY <2>8 DEF Dispatch, CallInvariant
    <3> QED BY <2>1, <2>8, <3>1 DEF Dispatch
  <2>9. CASE Respond(r)
    <3>1. \A a \in ResponsesTo(r) : a.identity => a.status \in Positive
      BY DEF ResponsesTo, Positive
    <3> QED BY <2>9, <2>1, <3>1 DEF Respond
  <2>10. CASE Abandon(r) BY <2>1, <2>10 DEF Abandon
  <2>11. CASE RecordInTime(r) \/ RecordBesideUpsert(r)
    <3>1. answer[r].identity => answer[r].status \in EvidenceStatuses BY DEF EvidenceStatuses
    <3>2. CASE RecordInTime(r) BY <3>1, <3>2 DEF RecordInTime, InTime
    <3>3. CASE RecordBesideUpsert(r)
      <4>1. /\ status' = [status EXCEPT ![r] = answer[r].status]
            /\ known' = [known EXCEPT ![r] = TRUE]
            /\ pc' = [pc EXCEPT ![r] = "done"]
            /\ UNCHANGED <<answer, lease, took, attempts>>
        BY <3>3 DEF RecordBesideUpsert
      <4>2. answer[r].identity /\ answer[r].at < lease[r]
        BY <3>3 DEF RecordBesideUpsert, InTime
      <4> QED BY <3>1, <4>1, <4>2
    <3> QED BY <2>11, <3>2, <3>3
  <2>12. CASE RecordLate(r)
    BY <2>1, <2>12 DEF RecordLate, LeaseOver, EvidenceStatuses, Positive
  <2>13. CASE RecordFails(r) \/ Crash(r) BY <2>1, <2>13 DEF RecordFails, Crash, Live
  <2> QED BY <1>1, <2>2, <2>3, <2>4, <2>5, <2>6, <2>7, <2>8, <2>9, <2>10, <2>11, <2>12, <2>13
          DEF Call
<1>2. ASSUME NEW r \in Requests, Webhook(r) PROVE OutcomeInvariant'
  <2>1. ASSUME NEW s \in Reports \cap EvidenceStatuses,
               EvidenceMatched(r, s) \/ EvidenceUnmatched(r, s)
        PROVE OutcomeInvariant'
    BY <2>1 DEF EvidenceMatched, EvidenceUnmatched
  <2>2. CASE Upsert(r) BY <2>2 DEF Upsert, EvidenceStatuses, Positive
  <2> QED BY <1>2, <2>1, <2>2 DEF Webhook
<1>3. CASE Cron
  <2>1. CASE Sweep BY <2>1 DEF Sweep, LeaseOver, EvidenceStatuses, Positive
  <2>2. ASSUME ~Sweep PROVE UNCHANGED <<pc, answer, status, lease, known, attempts, took>>
    BY <1>3, <2>2 DEF Cron, PurgePending, RemoveShells, Tick, DeleteObject, FinishDeletion
  <2> QED BY <2>1, <2>2
<1>4. CASE User
  BY <1>4 DEF User, Revoke, ChangeConnection, DeleteConnection, PrepareRule, FinalizeRule
<1>5. CASE UNCHANGED vars BY <1>5 DEF vars
<1> QED BY <1>1, <1>2, <1>3, <1>4, <1>5 DEF Next

IInv == Typed /\ CallInvariant /\ OutcomeInvariant

LEMMA IInvInit == Init => IInv
BY TypedInit, CallInvariantInit, OutcomeInvariantInit DEF IInv

LEMMA IInvStep == IInv /\ [Next]_vars => IInv'
BY TypedCallTypes, TypedRowTypes, TypedContentTypes, TypedWebhookTypes, TypedWorldTypes,
   CallInvariantStep, OutcomeInvariantStep DEF IInv, Typed

LEMMA Invariance == Spec => []IInv
BY IInvInit, IInvStep, PTL DEF Spec

\* However many calls share a key, crash, or lose the answer of their commit, the
\* provider is called at most once, for the operation that owns the key.
THEOREM AtMostOnce == Spec => []AttemptIsBound
<1>1. IInv => AttemptIsBound
  BY DEF IInv, CallInvariant, AttemptIsBound, Typed, RowTypes
<1> QED BY <1>1, Invariance, PTL

-----------------------------------------------------------------------------
(* Send Status                                                             *)

\* The UPDATE rules of the webhook projections stay within ADR 0017's relation.
LEMMA EvidenceRuleSound ==
  ASSUME NEW old \in Statuses, NEW new \in EvidenceStatuses, EvidenceApplies(old, new)
  PROVE  StatusMayBecome(old, new)
BY DEF Statuses, EvidenceStatuses, Positive, EvidenceApplies, StatusMayBecome, Rank

LEMMA UpsertRuleSound ==
  ASSUME NEW old \in Statuses, UpsertApplies(old)
  PROVE  StatusMayBecome(old, "sent")
BY DEF Statuses, Positive, UpsertApplies, StatusMayBecome, Rank

StatusStep ==
  /\ \A r \in Requests : status[r] # "none" => StatusMayBecome(status[r], status'[r])
  /\ \A r \in Requests : status[r] = "unknown" => status'[r] = "unknown"

LEMMA StatusSteps == ASSUME IInv, [Next]_vars PROVE StatusStep
<1> USE DEF IInv, Typed, RowTypes, StatusStep
<1>1. ASSUME NEW over \in SUBSET Requests,
             \A q \in over : status[q] = "processing",
             status' = [q \in Requests |-> IF q \in over THEN "unknown" ELSE status[q]]
      PROVE StatusStep
  BY <1>1 DEF StatusMayBecome
<1>2. CASE UNCHANGED status BY <1>2 DEF StatusMayBecome
<1>3. ASSUME NEW r \in Requests, Call(r) PROVE StatusStep
  <2>1. CASE Commit(r) \/ CommitLost(r)
    BY <2>1 DEF Commit, CommitLost, Insert, Insertable, CallInvariant, BeforeCommit,
                StatusMayBecome
  <2>2. CASE ReplayBound(r)
    <3>1. seen[r] \in Requests BY <2>2 DEF ReplayBound, CallTypes
    <3>2. \A q \in {q \in {seen[r]} : LeaseOver(q, observedAt[r])} : status[q] = "processing"
      BY DEF LeaseOver
    <3>3. status' = [q \in Requests |-> IF q \in {p \in {seen[r]} : LeaseOver(p, observedAt[r])}
                                         THEN "unknown" ELSE status[q]]
      BY <2>2 DEF ReplayBound
    <3> QED BY <1>1, <3>1, <3>2, <3>3
  <2>3. CASE RecordInTime(r) \/ RecordBesideUpsert(r)
    BY <2>3 DEF RecordInTime, RecordBesideUpsert, InTime, StatusMayBecome
  <2>4. CASE RecordLate(r) BY <2>4, <1>1 DEF RecordLate, LeaseOver
  <2> QED BY <1>2, <1>3, <2>1, <2>2, <2>3, <2>4 DEF Call, Preflight, Start, ReadBinding,
       Deny, Refuse, Admit, WriteObject, Rollback, CleanUp, Dispatch, Respond,
       Abandon, RecordFails, Crash
<1>4. ASSUME NEW r \in Requests, Webhook(r) PROVE StatusStep
  <2>1. known[r] => status[r] \in EvidenceStatuses /\ status[r] # "unknown"
    BY DEF OutcomeInvariant, EvidenceStatuses, Positive
  <2>2. status[r] \in EvidenceStatuses => status[r] \in Statuses
    BY DEF EvidenceStatuses, Positive, Statuses
  <2>3. ASSUME NEW s \in Reports \cap EvidenceStatuses, EvidenceMatched(r, s)
        PROVE StatusStep
    <3>1. known[r] /\ (status' = status \/ /\ EvidenceApplies(status[r], s)
                                           /\ status' = [status EXCEPT ![r] = s])
      BY <2>3 DEF EvidenceMatched
    <3> QED BY <2>1, <2>2, <3>1, EvidenceRuleSound, <1>2 DEF StatusMayBecome
  <2>4. CASE Upsert(r)
    <3>1. \/ status' = status
          \/ known[r] /\ UpsertApplies(status[r]) /\ status' = [status EXCEPT ![r] = "sent"]
      BY <2>4 DEF Upsert
    <3> QED BY <2>1, <2>2, <3>1, UpsertRuleSound, <1>2 DEF StatusMayBecome
  <2> QED BY <1>2, <1>4, <2>3, <2>4 DEF Webhook, EvidenceUnmatched
<1>5. CASE Cron
  <2>1. CASE Sweep BY <2>1, <1>1 DEF Sweep, LeaseOver
  <2> QED BY <1>2, <1>5, <2>1 DEF Cron, PurgePending, RemoveShells, Tick, DeleteObject,
                                  FinishDeletion
<1>6. CASE User
  BY <1>2, <1>6 DEF User, Revoke, ChangeConnection, DeleteConnection, PrepareRule, FinalizeRule
<1>7. CASE UNCHANGED vars BY <1>2, <1>7 DEF vars
<1> QED BY <1>3, <1>4, <1>5, <1>6, <1>7 DEF Next

\* No interleaving of the call, the sweeps and the webhooks makes Send Status
\* regress or jump against its evidence.
THEOREM StatusNeverRegresses == Spec => StatusProgresses
<1>1. IInv /\ [Next]_vars =>
        [\A r \in Requests :
           status[r] # "none" => StatusMayBecome(status[r], status'[r])]_status
  BY StatusSteps DEF StatusStep
<1> QED BY <1>1, Invariance, PTL DEF Spec, StatusProgresses

\* Nothing leaves "unknown": the rows that could be reconciled have no identity.
THEOREM UnknownStays == Spec => UnknownIsFinal
<1>1. IInv /\ [Next]_vars =>
        [\A r \in Requests : status[r] = "unknown" => status'[r] = "unknown"]_status
  BY StatusSteps DEF StatusStep
<1> QED BY <1>1, Invariance, PTL DEF Spec, UnknownIsFinal

\* An identity in a row was answered within the lease.
THEOREM LateResults == Spec => []LateResultDropped
<1>1. IInv => LateResultDropped BY DEF IInv, OutcomeInvariant, LateResultDropped
<1> QED BY <1>1, Invariance, PTL

-----------------------------------------------------------------------------
(* The contract of SendOnce                                                *)

Attempted == {r \in Requests : attempts[r] > 0}

LEMMA ContractInit == Init => Contract!Init
BY DEF Init, Contract!Init

LEMMA ContractStep == ASSUME IInv, [Next]_vars PROVE [Contract!Next]_(Contract!vars)
<1> USE IdentityAssumption DEF IInv, Typed, CallTypes, RowTypes, Contract!vars
<1>1. CASE UNCHANGED <<binding, reply, attempts>> BY <1>1
<1>2. ASSUME NEW r \in Requests, Call(r) PROVE [Contract!Next]_(Contract!vars)
  <2>1. ASSUME NEW what \in {"refused", "error"}, Finish(r, what), reply[r] = "none",
               UNCHANGED <<binding, attempts>>
        PROVE Contract!Next
    BY <2>1 DEF Finish, Contract!Next, Contract!Refuse, Contract!Answer
  <2>2. CASE Preflight(r)
    <3>1. /\ pc[r] = "idle" /\ reply[r] = "none" /\ status[r] = "none"
          /\ UNCHANGED <<binding, attempts>>
      BY <2>2 DEF Preflight, CallInvariant, BeforeCommit
    <3>2. CASE Finish(r, "conflict")
      <4>1. /\ binding[KeyOf[r]] \in Requests
            /\ ShapeOf[binding[KeyOf[r]]] # ShapeOf[r]
        BY <2>2, <3>2 DEF Preflight, Finish, Goto
      <4>2. PrintOf[binding[KeyOf[r]]] # PrintOf[r] BY <4>1
      <4>3. binding[KeyOf[r]] \in Requests \ {r} BY <4>1
      <4> QED BY <3>1, <3>2, <4>2, <4>3 DEF Finish, Contract!Next, Contract!Conflict, Contract!Answer
    <3>3. CASE Finish(r, "refused") BY <2>1, <3>1, <3>3
    <3>4. CASE Goto(r, "cleared") BY <1>1, <3>1, <3>4 DEF Goto
    <3> QED BY <2>2, <3>2, <3>3, <3>4 DEF Preflight
  <2>3. CASE Start(r) \/ ReadBinding(r) \/ Admit(r)
    BY <1>1, <2>3 DEF Start, ReadBinding, Admit, Goto
  <2>4. CASE Deny(r) \/ Refuse(r)
    <3>1. reply[r] = "none" BY <2>4 DEF Deny, Refuse, Locks, CallInvariant, BeforeCommit
    <3>2. Finish(r, "refused") /\ UNCHANGED <<binding, attempts>>
      BY <2>4 DEF Deny, Refuse
    <3> QED BY <2>1, <3>1, <3>2
  <2>5. CASE ReplayBound(r)
    <3>1. /\ reply[r] = "none" /\ status[r] = "none"
          /\ binding[KeyOf[r]] = seen[r] /\ seen[r] \in Requests
      BY <2>5 DEF ReplayBound, Locks, CallInvariant, BeforeCommit
    <3>2. binding[KeyOf[r]] \in Requests \ {r} BY <3>1 DEF CallInvariant
    <3>3. UNCHANGED <<binding, attempts>> BY <2>5 DEF ReplayBound
    <3>4. CASE PrintOf[seen[r]] = PrintOf[r]
      <4>1. Finish(r, "replayed") BY <2>5, <3>4 DEF ReplayBound
      <4>2. Contract!Replay(r)
        BY <3>1, <3>2, <3>3, <3>4, <4>1 DEF Finish, Contract!Replay, Contract!Answer
      <4> QED BY <4>2 DEF Contract!Next
    <3>5. CASE PrintOf[seen[r]] # PrintOf[r]
      <4>1. Finish(r, "conflict") BY <2>5, <3>5 DEF ReplayBound
      <4>2. Contract!Conflict(r)
        BY <3>1, <3>2, <3>3, <3>5, <4>1 DEF Finish, Contract!Conflict, Contract!Answer
      <4> QED BY <4>2 DEF Contract!Next
    <3> QED BY <3>4, <3>5
  <2>6. CASE Commit(r) \/ CommitLost(r)
    <3>1. /\ reply[r] = "none" /\ binding[KeyOf[r]] = None
          /\ binding' = [binding EXCEPT ![KeyOf[r]] = r] /\ attempts' = attempts
          /\ reply' = reply \/ reply' = [reply EXCEPT ![r] = "created"]
      BY <2>6 DEF Commit, CommitLost, Insert, Insertable, KeyFree, Goto, CallInvariant,
                  BeforeCommit, providerVars
    <3>2. Contract!Admit(r) BY <3>1 DEF Contract!Admit, Contract!Answer
    <3> QED BY <3>2 DEF Contract!Next
  <2>7. CASE WriteObject(r) \/ Rollback(r) BY <1>1, <2>7 DEF WriteObject, Rollback, Goto
  <2>8. CASE CleanUp(r)
    <3>1. reply[r] = "none" BY <2>8 DEF CleanUp, CallInvariant
    <3>2. Finish(r, "error") /\ UNCHANGED <<binding, attempts>>
      BY <2>8 DEF CleanUp
    <3> QED BY <2>1, <3>1, <3>2
  <2>9. CASE Dispatch(r)
    <3>1. /\ attempts[r] = 0 /\ reply[r] = "created" /\ binding[KeyOf[r]] = r
      BY <2>9 DEF Dispatch, CallInvariant, AfterCommit
    <3>2. attempts' = [attempts EXCEPT ![r] = @ + 1] /\ UNCHANGED <<binding, reply>>
      BY <2>9 DEF Dispatch, Goto
    <3>3. {q \in Requests : attempts'[q] > 0} = Attempted \cup {r} /\ r \notin Attempted
      BY <3>1, <3>2 DEF Attempted
    <3>4. Contract!Attempt(r)
      BY <3>1, <3>2, <3>3 DEF Attempted, Contract!Attempt
    <3> QED BY <3>4 DEF Contract!Next
  <2>10. CASE Respond(r) \/ Abandon(r) BY <1>1, <2>10 DEF Respond, Abandon
  <2>11. CASE \/ RecordInTime(r) \/ RecordBesideUpsert(r) \/ RecordLate(r) \/ RecordFails(r)
              \/ Crash(r)
    BY <1>1, <2>11 DEF RecordInTime, RecordBesideUpsert, RecordLate, RecordFails, Crash, Goto
  <2> QED BY <1>2, <2>2, <2>3, <2>4, <2>5, <2>6, <2>7, <2>8, <2>9, <2>10, <2>11 DEF Call
<1>3. ASSUME NEW r \in Requests, Webhook(r) PROVE UNCHANGED <<binding, reply, attempts>>
  BY <1>3 DEF Webhook, EvidenceUnmatched, EvidenceMatched, Upsert
<1>4. CASE Cron
  BY <1>1, <1>4 DEF Cron, Sweep, PurgePending, RemoveShells, Tick, DeleteObject, FinishDeletion
<1>5. CASE User
  BY <1>1, <1>5 DEF User, Revoke, ChangeConnection, DeleteConnection, PrepareRule, FinalizeRule
<1>6. CASE UNCHANGED vars BY <1>1, <1>6 DEF vars
<1> QED BY <1>1, <1>2, <1>3, <1>4, <1>5, <1>6 DEF Next

\* The service, with its snapshots, locks, lost commits and crashes, does nothing
\* a caller could tell from the atomic contract.
THEOREM Refinement == Spec => ImplementsSendOnce
BY ContractInit, ContractStep, Invariance, PTL DEF Spec, ImplementsSendOnce, Contract!Spec

-----------------------------------------------------------------------------
(* Files and the quota                                                     *)

Held == {r \in Requests : object[r] # "none"}

ContentInv ==
  /\ FileInvariant /\ FileFollowsContent /\ NoCommittedOrphan
  /\ used \in Nat /\ QuotaMatchesObjects

LEMMA HeldFinite == IsFiniteSet(Held) /\ Cardinality(Held) \in Nat
BY BoundAssumption, FS_Subset, FS_CardinalityType DEF Held

LEMMA QuotaOfHeld == QuotaMatchesObjects <=> used = Cardinality(Held) /\ used <= MediaLimit
BY DEF QuotaMatchesObjects, Held

LEMMA ContentInvInit == Init => ContentInv
<1> SUFFICES ASSUME Init PROVE ContentInv OBVIOUS
<1>1. Held = {} BY DEF Init, Held
<1>2. used = Cardinality(Held) BY <1>1, FS_EmptySet DEF Init
<1>3. used \in Nat /\ used <= MediaLimit BY BoundAssumption DEF Init
<1>4. QuotaMatchesObjects BY <1>2, <1>3, QuotaOfHeld
<1>5. FileInvariant /\ FileFollowsContent /\ NoCommittedOrphan
  BY DEF Init, FileInvariant, FileFollowsContent, NoCommittedOrphan
<1> QED BY <1>3, <1>4, <1>5 DEF ContentInv

\* What every step but the insertion and the two R2 deletions does to content:
\* files may go from "ready" to "purging", and no quota moves with them.
ContentShrinks ==
  /\ UNCHANGED <<used, r2>>
  /\ (\E S \in SUBSET Requests : DropPending(S)) \/ UNCHANGED <<pending, object, intents>>

LEMMA ShrinkKeepsContent ==
  ASSUME Typed, ContentInv, RowsStay, ContentShrinks
  PROVE  ContentInv'
<1> USE DEF Typed, RowTypes, ContentTypes, RowsStay
<1>1. CASE UNCHANGED <<pending, object, intents>>
  <2>1. QuotaMatchesObjects' /\ used' \in Nat
    BY <1>1 DEF ContentInv, ContentShrinks, QuotaMatchesObjects
  <2> QED BY <1>1, <2>1 DEF ContentInv, ContentShrinks, FileInvariant, FileFollowsContent,
             NoCommittedOrphan
<1>2. ASSUME NEW S \in SUBSET Requests, DropPending(S) PROVE ContentInv'
  <2> USE <1>2 DEF DropPending, ContentShrinks
  <2>1. Held' = Held BY DEF Held
  <2>2. QuotaMatchesObjects' /\ used' \in Nat
    BY <2>1 DEF ContentInv, QuotaMatchesObjects, Held
  <2>3. FileFollowsContent' BY DEF ContentInv, FileFollowsContent
  <2>4. NoCommittedOrphan' BY DEF ContentInv, NoCommittedOrphan
  <2>5. FileInvariant' BY DEF ContentInv, FileInvariant
  <2> QED BY <2>2, <2>3, <2>4, <2>5 DEF ContentInv
<1> QED BY <1>1, <1>2 DEF ContentShrinks

LEMMA InsertKeepsContent ==
  ASSUME IInv, ContentInv, NEW r \in Requests, Insert(r)
  PROVE  ContentInv'
<1> USE DEF IInv, Typed, RowTypes, ContentTypes
<1>1. /\ status[r] = "none" /\ object[r] = "none" /\ r \notin pending
  BY DEF Insert, Insertable, CallInvariant, BeforeCommit, ContentInv, FileInvariant
<1>2. CASE r \in WithFile
  <2>1. Held' = Held \cup {r} /\ r \notin Held BY <1>1, <1>2 DEF Insert, Held
  <2>2. Cardinality(Held') = Cardinality(Held) + 1 BY <2>1, HeldFinite, FS_AddElement
  <2>3. used' = used + 1 /\ used' <= MediaLimit BY <1>2 DEF Insert
  <2>4. used = Cardinality(Held) /\ used \in Nat BY QuotaOfHeld DEF ContentInv
  <2>5. used' = Cardinality(Held') /\ used' \in Nat BY <2>2, <2>3, <2>4
  <2>6. QuotaMatchesObjects' BY <2>3, <2>5 DEF QuotaMatchesObjects, Held
  <2> QED BY <1>1, <1>2, <2>5, <2>6
          DEF Insert, ContentInv, FileInvariant, FileFollowsContent, NoCommittedOrphan
<1>3. CASE r \notin WithFile
  <2>1. object' = object /\ used' = used BY <1>3 DEF Insert
  <2>2. QuotaMatchesObjects' /\ used' \in Nat BY <2>1 DEF ContentInv, QuotaMatchesObjects
  <2> QED BY <1>1, <1>3, <2>1, <2>2
          DEF Insert, ContentInv, FileInvariant, FileFollowsContent, NoCommittedOrphan
<1> QED BY <1>2, <1>3

LEMMA FinishDeletionKeepsContent ==
  ASSUME Typed, ContentInv, RowsStay, NEW r \in Requests, FinishDeletion(r)
  PROVE  ContentInv'
<1> USE DEF Typed, RowTypes, ContentTypes, FinishDeletion, Gone, Releasable, RowsStay
<1>1. CASE object[r] = "purging"
  <2>1. Held' = Held \ {r} /\ r \in Held BY <1>1 DEF Held
  <2>2. Cardinality(Held') = Cardinality(Held) - 1 /\ IsFiniteSet(Held')
    BY <2>1, HeldFinite, FS_RemoveElement
  <2>3. Cardinality(Held') \in Nat BY <2>2, FS_CardinalityType
  <2>4. used' = used - 1 BY <1>1
  <2>5. used = Cardinality(Held) /\ used <= MediaLimit BY QuotaOfHeld DEF ContentInv
  <2>6. used' = Cardinality(Held') /\ used' <= MediaLimit /\ used' \in Nat
    BY <2>2, <2>3, <2>4, <2>5, HeldFinite, BoundAssumption
  <2>7. QuotaMatchesObjects' BY <2>6 DEF QuotaMatchesObjects, Held
  <2> QED BY <1>1, <2>6, <2>7
          DEF ContentInv, FileInvariant, FileFollowsContent, NoCommittedOrphan
<1>2. CASE object[r] # "purging"
  <2>1. QuotaMatchesObjects' /\ used' \in Nat
    BY <1>2 DEF ContentInv, QuotaMatchesObjects
  <2> QED BY <1>2, <2>1
          DEF ContentInv, FileInvariant, FileFollowsContent, NoCommittedOrphan
<1> QED BY <1>1, <1>2

\* The three steps that only change what R2 holds.
LEMMA WriteKeepsContent ==
  ASSUME IInv, ContentInv, RowsStay, NEW r \in Requests,
         WriteObject(r) \/ CleanUp(r) \/ DeleteObject(r)
  PROVE  ContentInv'
<1> USE DEF IInv, Typed, RowTypes, ContentTypes, RowsStay
<1>1. UNCHANGED <<pending, object, used>> /\ intents \subseteq intents'
  BY DEF WriteObject, CleanUp, DeleteObject
<1>2. QuotaMatchesObjects' /\ used' \in Nat BY <1>1 DEF ContentInv, QuotaMatchesObjects
<1>3. r2' \subseteq r2 \/ (WriteObject(r) /\ r2' = r2 \cup {r} /\ status[r] = "none" /\ r \in WithFile)
  BY DEF WriteObject, CleanUp, DeleteObject, CallInvariant, BeforeCommit
<1> QED BY <1>1, <1>2, <1>3 DEF ContentInv, FileInvariant, FileFollowsContent, NoCommittedOrphan

LEMMA MostStepsShrink ==
  ASSUME Typed, [Next]_vars, RowsStay
  PROVE  \/ ContentShrinks
         \/ \E r \in Requests :
              \/ Commit(r) \/ CommitLost(r) \/ FinishDeletion(r)
              \/ WriteObject(r) \/ CleanUp(r) \/ DeleteObject(r)
<1> USE DEF ContentShrinks
<1>1. ASSUME NEW r \in Requests,
             ReplayBound(r) \/ RecordInTime(r) \/ RecordBesideUpsert(r) \/ RecordLate(r)
      PROVE ContentShrinks
  <2>1. CASE ReplayBound(r)
    <3> DEFINE over == {q \in {seen[r]} : LeaseOver(q, observedAt[r])}
    <3>1. DropPending(Leaving(over)) BY <2>1 DEF ReplayBound
    <3>2. over \subseteq Requests
      BY <2>1, IdentityAssumption DEF ReplayBound, Locks, Typed, CallTypes
    <3>3. Leaving(over) \subseteq Requests BY <3>2 DEF Leaving
    <3> QED BY <2>1, <3>1, <3>3 DEF ReplayBound
  <2>2. CASE RecordInTime(r)
    <3>1. \E S : S \subseteq Requests /\ DropPending(S)
      <4> DEFINE a == answer[r]
                 drops == \/ a.status = "failed" \/ Keeps(r, a)
                          \/ a.identity /\ message[r] # "none"
      <4>1. DropPending({q \in {r} : drops} \cup Leaving({r})) BY <2>2 DEF RecordInTime
      <4>2. {q \in {r} : drops} \cup Leaving({r}) \subseteq Requests BY DEF Leaving
      <4> QED BY <4>1, <4>2
    <3>2. UNCHANGED <<used, r2>> BY <2>2 DEF RecordInTime
    <3> QED BY <3>1, <3>2
  <2>3. CASE RecordLate(r)
    <3> DEFINE over == {q \in {r} : LeaseOver(q, answer[r].at)}
    <3>1. DropPending(Leaving(over)) BY <2>3 DEF RecordLate
    <3>2. Leaving(over) \subseteq Requests BY DEF Leaving
    <3> QED BY <2>3, <3>1, <3>2 DEF RecordLate
  <2>4. CASE RecordBesideUpsert(r) BY <2>4 DEF RecordBesideUpsert, Leaving
  <2> QED BY <1>1, <2>1, <2>2, <2>3, <2>4
<1>2. ASSUME NEW r \in Requests, Webhook(r) PROVE ContentShrinks
  <2>1. ASSUME NEW s \in Reports, EvidenceUnmatched(r, s) PROVE ContentShrinks
    BY <2>1 DEF EvidenceUnmatched
  <2>2. ASSUME NEW s \in Reports, EvidenceMatched(r, s) PROVE ContentShrinks
    <3>1. \E b \in BOOLEAN : DropPending({q \in {r} : b}) BY <2>2 DEF EvidenceMatched
    <3>2. UNCHANGED <<used, r2>> BY <2>2 DEF EvidenceMatched
    <3>3. \A b \in BOOLEAN : {q \in {r} : b} \subseteq Requests OBVIOUS
    <3> QED BY <3>1, <3>2, <3>3
  <2>3. CASE Upsert(r)
    <3>1. \E b \in BOOLEAN : DropPending({q \in {r} : b /\ known[q]}) BY <2>3 DEF Upsert
    <3>2. UNCHANGED <<used, r2>> BY <2>3 DEF Upsert
    <3>3. \A b \in BOOLEAN : {q \in {r} : b /\ known[q]} \subseteq Requests OBVIOUS
    <3> QED BY <3>1, <3>2, <3>3
  <2> QED BY <1>2, <2>1, <2>2, <2>3 DEF Webhook
<1>3. CASE Sweep \/ PurgePending \/ RemoveShells \/ Tick
  <2>1. CASE Sweep BY <2>1 DEF Sweep, Leaving
  <2>2. CASE PurgePending BY <2>2 DEF PurgePending, Typed, ContentTypes
  <2> QED BY <1>3, <2>1, <2>2 DEF RemoveShells, Tick
<1>4. CASE User
  <2>1. CASE DeleteConnection BY <2>1 DEF DeleteConnection
  <2>2. CASE FinalizeRule
    <3>1. \A c : PurgedBy(c) \subseteq Requests BY IdentityAssumption DEF PurgedBy
    <3> QED BY <2>2, <3>1 DEF FinalizeRule
  <2> QED BY <1>4, <2>1, <2>2 DEF User, Revoke, ChangeConnection, PrepareRule
<1>5. ASSUME NEW r \in Requests,
             \/ Preflight(r) \/ Start(r) \/ ReadBinding(r) \/ Deny(r) \/ Refuse(r) \/ Admit(r)
             \/ Rollback(r) \/ Dispatch(r) \/ Respond(r) \/ Abandon(r) \/ RecordFails(r) \/ Crash(r)
      PROVE ContentShrinks
  BY <1>5 DEF Preflight, Start, ReadBinding, Deny, Refuse, Admit, Rollback, Dispatch,
     Respond, Abandon, RecordFails, Crash
<1>6. CASE UNCHANGED vars BY <1>6 DEF vars
<1> QED BY <1>1, <1>2, <1>3, <1>4, <1>5, <1>6 DEF Next, Call, Cron

LEMMA ContentInvStep == ASSUME IInv, ContentInv, [Next]_vars PROVE ContentInv'
<1>1. ASSUME NEW r \in Requests, Commit(r) \/ CommitLost(r) PROVE ContentInv'
  BY <1>1, InsertKeepsContent DEF Commit, CommitLost
<1>2. CASE RowsStay
  BY <1>1, <1>2, MostStepsShrink, ShrinkKeepsContent, FinishDeletionKeepsContent,
     WriteKeepsContent DEF IInv
<1> QED BY <1>1, <1>2, OnlyCommitAddsRows DEF IInv

LEMMA ContentInvariance == Spec => [](IInv /\ ContentInv)
<1>1. (IInv /\ ContentInv) /\ [Next]_vars => (IInv /\ ContentInv)'
  BY IInvStep, ContentInvStep
<1> QED BY IInvInit, ContentInvInit, <1>1, PTL DEF Spec

\* Every variable has its type, the quota counter included: it never underflows.
THEOREM TypeCorrectness == Spec => []TypeOK
<1>1. IInv /\ ContentInv => TypeOK BY DEF IInv, ContentInv, TypeOK
<1> QED BY <1>1, ContentInvariance, PTL

\* The used bytes are those of the files a row still holds, within the limit.
THEOREM QuotaExact == Spec => []QuotaMatchesObjects
<1>1. ContentInv => QuotaMatchesObjects BY DEF ContentInv
<1> QED BY <1>1, ContentInvariance, PTL

\* A readable file has its content, a purged one has its deletion queued, and committed
\* operations leave no untracked object behind.
THEOREM FileLifetime == Spec => []FilesAccounted
<1>1. ContentInv => FilesAccounted BY DEF ContentInv, FilesAccounted
<1> QED BY <1>1, ContentInvariance, PTL

-----------------------------------------------------------------------------
(* Eligibility under the lock                                              *)

\* Nobody can exclude the recipient or leave the connection while a transaction
\* that checked them is open, and every purge cutoff is in the past.
LEMMA EligibilityStep == ASSUME IInv, EligibilityHeld, [Next]_vars PROVE EligibilityHeld'
<1> USE DEF EligibilityHeld, IInv, Typed, WorldTypes
<1>1. ASSUME NEW r \in Requests, Call(r) PROVE EligibilityHeld'
  <2>1. UNCHANGED <<now, conn, rule>>
    BY <1>1 DEF Call, Preflight, Start, ReadBinding, Deny, ReplayBound, Refuse, Admit,
       WriteObject, Commit, CommitLost, Insert, Rollback, CleanUp, Dispatch, Respond,
       Abandon, RecordInTime, RecordBesideUpsert, RecordLate, RecordFails, Crash
  <2>2. writer' # None => writer # None \/ (conn = "connected" /\ ~rule.excluded)
    <3>1. CASE Admit(r) BY <3>1 DEF Admit, Eligible
    <3>2. CASE ~Admit(r)
      BY <1>1, <3>2 DEF Call, Preflight, Start, ReadBinding, Deny, ReplayBound, Refuse,
         WriteObject, Commit, CommitLost, Insert, Rollback, CleanUp, Dispatch, Respond,
         Abandon, RecordInTime, RecordBesideUpsert, RecordLate, RecordFails, Crash
    <3> QED BY <3>1, <3>2
  <2> QED BY <2>1, <2>2
<1>2. ASSUME NEW r \in Requests, Webhook(r) PROVE EligibilityHeld'
  BY <1>2 DEF Webhook, EvidenceUnmatched, EvidenceMatched, Upsert
<1>3. CASE Cron
  BY <1>3 DEF Cron, Sweep, PurgePending, RemoveShells, Tick, DeleteObject, FinishDeletion
<1>4. CASE User
  <2>1. CASE PrepareRule BY <2>1 DEF PrepareRule
  <2>2. CASE FinalizeRule BY <2>2 DEF FinalizeRule
  <2> QED BY <1>4, <2>1, <2>2 DEF User, Revoke, ChangeConnection, DeleteConnection
<1>5. CASE UNCHANGED vars BY <1>5 DEF vars
<1> QED BY <1>1, <1>2, <1>3, <1>4, <1>5 DEF Next

-----------------------------------------------------------------------------
(* Stored Messages of the recipient                                        *)

\* Messages are stored at the present time, which is after every cutoff.
LEMMA StoredNow ==
  ASSUME Typed, [Next]_vars
  PROVE  \/ FinalizeRule
         \/ /\ rule'.cutoff = rule.cutoff
            /\ \A r \in Requests :
                 message'[r] = "content" =>
                   \/ message[r] = "content" /\ storedAt'[r] = storedAt[r]
                   \/ storedAt'[r] = now
<1> DEFINE Goal == /\ rule'.cutoff = rule.cutoff
                   /\ \A r \in Requests :
                        message'[r] = "content" =>
                          \/ message[r] = "content" /\ storedAt'[r] = storedAt[r]
                          \/ storedAt'[r] = now
<1> USE DEF Typed, WebhookTypes
<1>1. ASSUME NEW r \in Requests, Call(r) PROVE Goal
  <2>1. CASE RecordInTime(r) BY <2>1 DEF RecordInTime
  <2>2. CASE RecordBesideUpsert(r) BY <2>2 DEF RecordBesideUpsert
  <2>3. CASE ~RecordInTime(r) /\ ~RecordBesideUpsert(r)
    BY <1>1, <2>3 DEF Call, Preflight, Start, ReadBinding, Deny, ReplayBound, Refuse, Admit,
       WriteObject, Commit, CommitLost, Insert, Rollback, CleanUp, Dispatch, Respond,
       Abandon, RecordLate, RecordFails, Crash
  <2> QED BY <2>1, <2>2, <2>3
<1>2. ASSUME NEW r \in Requests, Webhook(r) PROVE Goal
  <2>1. ASSUME NEW s \in Reports, EvidenceMatched(r, s) PROVE Goal BY <2>1 DEF EvidenceMatched
  <2>2. ASSUME NEW s \in Reports, EvidenceUnmatched(r, s) PROVE Goal
    BY <2>2 DEF EvidenceUnmatched
  <2>3. CASE Upsert(r) BY <2>3 DEF Upsert
  <2> QED BY <1>2, <2>1, <2>2, <2>3 DEF Webhook
<1>3. CASE Cron
  BY <1>3 DEF Cron, Sweep, PurgePending, RemoveShells, Tick, DeleteObject, FinishDeletion
<1>4. CASE User
  BY <1>4 DEF User, Revoke, ChangeConnection, DeleteConnection, PrepareRule
<1>5. CASE UNCHANGED vars BY <1>5 DEF vars
<1> QED BY <1>1, <1>2, <1>3, <1>4, <1>5 DEF Next

LEMMA PurgedStep ==
  ASSUME IInv, EligibilityHeld, PurgedStaysPurged, [Next]_vars
  PROVE  PurgedStaysPurged'
<1> USE DEF IInv, Typed, WorldTypes, WebhookTypes, PurgedStaysPurged, ForRecipient
<1>1. CASE FinalizeRule
  BY <1>1, IdentityAssumption DEF FinalizeRule, Expired
<1>2. CASE ~FinalizeRule
  BY <1>2, StoredNow, IdentityAssumption DEF EligibilityHeld
<1> QED BY <1>1, <1>2

-----------------------------------------------------------------------------
(* Pending Send Content                                                    *)

\* Content only becomes pending at the commit, under the lock, of a new row.
LEMMA PendingAppears ==
  ASSUME IInv, [Next]_vars
  PROVE  /\ \A q \in Requests : status[q] # "none" => createdAt'[q] = createdAt[q]
         /\ \A q \in pending' \ pending : \E r \in Requests : q = r /\ Insert(r)
<1> DEFINE Goal == /\ \A q \in Requests : status[q] # "none" => createdAt'[q] = createdAt[q]
                   /\ \A q \in pending' \ pending : \E r \in Requests : q = r /\ Insert(r)
<1> USE DEF IInv, Typed, RowTypes, ContentTypes
<1>1. ASSUME NEW r \in Requests, Call(r) PROVE Goal
  <2>1. CASE Commit(r) \/ CommitLost(r)
    <3>1. Insert(r) BY <2>1 DEF Commit, CommitLost
    <3>2. status[r] = "none" BY <3>1 DEF Insert, Insertable, CallInvariant, BeforeCommit
    <3>3. createdAt' = [createdAt EXCEPT ![r] = observedAt[r]] /\ pending' = pending \cup {r}
      BY <3>1 DEF Insert
    <3> QED BY <3>1, <3>2, <3>3
  <2>2. CASE ~Commit(r) /\ ~CommitLost(r)
    <3>1. createdAt' = createdAt
      BY <1>1, <2>2 DEF Call, Preflight, Start, ReadBinding, Deny, ReplayBound, Refuse, Admit,
         WriteObject, Rollback, CleanUp, Dispatch, Respond, Abandon, RecordInTime,
         RecordBesideUpsert, RecordLate, RecordFails, Crash
    <3>2. pending' \subseteq pending
      BY <1>1, <2>2 DEF Call, Preflight, Start, ReadBinding, Deny, ReplayBound, Refuse, Admit,
         WriteObject, Rollback, CleanUp, Dispatch, Respond, Abandon, RecordInTime,
         RecordBesideUpsert, RecordLate, RecordFails, Crash, DropPending
    <3> QED BY <3>1, <3>2
  <2> QED BY <2>1, <2>2
<1>2. ASSUME NEW r \in Requests, Webhook(r) PROVE Goal
  BY <1>2 DEF Webhook, EvidenceUnmatched, EvidenceMatched, Upsert, DropPending
<1>3. CASE Cron
  BY <1>3 DEF Cron, Sweep, PurgePending, RemoveShells, Tick, DeleteObject, FinishDeletion,
     DropPending
<1>4. CASE User
  BY <1>4 DEF User, Revoke, ChangeConnection, DeleteConnection, PrepareRule, FinalizeRule,
     DropPending
<1>5. CASE UNCHANGED vars BY <1>5 DEF vars
<1> QED BY <1>1, <1>2, <1>3, <1>4, <1>5 DEF Next

LEMMA RuleOnlyByUser ==
  ASSUME [Next]_vars PROVE rule' = rule \/ PrepareRule \/ FinalizeRule
<1>1. ASSUME NEW r \in Requests, Call(r) PROVE rule' = rule
  BY <1>1 DEF Call, Preflight, Start, ReadBinding, Deny, ReplayBound, Refuse, Admit,
     WriteObject, Commit, CommitLost, Insert, Rollback, CleanUp, Dispatch, Respond,
     Abandon, RecordInTime, RecordBesideUpsert, RecordLate, RecordFails, Crash
<1>2. ASSUME NEW r \in Requests, Webhook(r) PROVE rule' = rule
  BY <1>2 DEF Webhook, EvidenceUnmatched, EvidenceMatched, Upsert
<1>3. CASE Cron
  BY <1>3 DEF Cron, Sweep, PurgePending, RemoveShells, Tick, DeleteObject, FinishDeletion
<1>4. CASE UNCHANGED vars BY <1>4 DEF vars
<1> QED BY <1>1, <1>2, <1>3, <1>4
        DEF Next, User, Revoke, ChangeConnection, DeleteConnection

LEMMA ExclusionStep ==
  ASSUME IInv, ContentInv, EligibilityHeld, ExclusionDropsPending, [Next]_vars
  PROVE  ExclusionDropsPending'
<1> USE DEF IInv, Typed, WorldTypes, RowTypes, ContentTypes, ExclusionDropsPending
<1>1. \A q \in pending : status[q] # "none" BY DEF ContentInv, FileInvariant
<1>2. CASE FinalizeRule
  <2>1. createdAt' = createdAt BY <1>2 DEF FinalizeRule
  <2>2. CASE rule.next = "exclude"
    <3>1. rule'.excluded /\ rule'.cutoff = rule.nextAt BY <1>2, <2>2 DEF FinalizeRule
    <3>2. pending' = pending \ {q \in PurgedBy(rule.nextAt) : TRUE}
      BY <1>2, <2>2 DEF FinalizeRule, DropPending
    <3> QED BY <2>1, <3>1, <3>2 DEF PurgedBy
  <2>3. CASE rule.next # "exclude" BY <1>2, <2>3 DEF FinalizeRule
  <2> QED BY <2>2, <2>3
<1>3. CASE rule' = rule \/ PrepareRule
  <2>1. rule'.excluded = rule.excluded /\ rule'.cutoff = rule.cutoff
    BY <1>3 DEF PrepareRule
  <2>2. rule.excluded => pending' \subseteq pending
    <3>1. ASSUME NEW r \in Requests, Insert(r) PROVE ~rule.excluded
      BY <3>1, IdentityAssumption DEF Insert, Insertable, CallInvariant, EligibilityHeld
    <3> QED BY <3>1, PendingAppears
  <2> QED BY <1>1, <2>1, <2>2, PendingAppears
<1> QED BY <1>2, <1>3, RuleOnlyByUser

\* Each status update drops the Direct Address text it leaves behind.
LEMMA NeededStep ==
  ASSUME IInv, ContentInv, EligibilityHeld, PendingIsNeeded, [Next]_vars
  PROVE  PendingIsNeeded'
<1> USE DEF IInv, Typed, WorldTypes, RowTypes, ContentTypes, PendingIsNeeded
<1>1. ASSUME NEW r \in Requests, Call(r) PROVE PendingIsNeeded'
  <2>1. CASE Commit(r) \/ CommitLost(r)
    <3>1. Insert(r) BY <2>1 DEF Commit, CommitLost
    <3>2. writer = r BY <3>1 DEF Insert, Insertable, CallInvariant
    <3>3. conn = "connected" BY <3>2, IdentityAssumption DEF EligibilityHeld
    <3> QED BY <3>1, <3>3 DEF Insert
  <2>2. CASE ReplayBound(r)
    <3> DEFINE over == {q \in {seen[r]} : LeaseOver(q, observedAt[r])}
    <3>1. pending' = pending \ Leaving(over) /\ conn' = conn
      BY <2>2 DEF ReplayBound, DropPending
    <3>2. status' = [q \in Requests |-> IF q \in over THEN "unknown" ELSE status[q]]
      BY <2>2 DEF ReplayBound
    <3> QED BY <3>1, <3>2 DEF Leaving
  <2>3. CASE RecordInTime(r) \/ RecordBesideUpsert(r)
    <3>1. pending' \subseteq pending \ Leaving({r}) /\ conn' = conn
      BY <2>3 DEF RecordInTime, RecordBesideUpsert, DropPending
    <3>2. status' = [status EXCEPT ![r] = answer[r].status]
      BY <2>3 DEF RecordInTime, RecordBesideUpsert
    <3> QED BY <3>1, <3>2 DEF Leaving
  <2>4. CASE RecordLate(r)
    <3> DEFINE over == {q \in {r} : LeaseOver(q, answer[r].at)}
    <3>1. pending' = pending \ Leaving(over) /\ conn' = conn
      BY <2>4 DEF RecordLate, DropPending
    <3>2. status' = [q \in Requests |-> IF q \in over THEN "unknown" ELSE status[q]]
      BY <2>4 DEF RecordLate
    <3> QED BY <3>1, <3>2 DEF Leaving
  <2>5. CASE UNCHANGED <<pending, status, conn>> BY <2>5
  <2> QED BY <1>1, <2>1, <2>2, <2>3, <2>4, <2>5
          DEF Call, Preflight, Start, ReadBinding, Deny, Refuse, Admit, WriteObject,
              Rollback, CleanUp, Dispatch, Respond, Abandon, RecordFails, Crash
<1>2. ASSUME NEW r \in Requests, Webhook(r) PROVE PendingIsNeeded'
  <2>1. conn' = conn /\ pending' \subseteq pending
    BY <1>2 DEF Webhook, EvidenceUnmatched, EvidenceMatched, Upsert, DropPending
  <2>2. \A q \in Requests : status[q] = "processing" => status'[q] = "processing"
    <3>1. known[r] => status[r] # "processing"
      BY DEF OutcomeInvariant, EvidenceStatuses, Positive
    <3>2. CASE UNCHANGED status BY <3>2
    <3>3. CASE known[r] /\ \E x : status' = [status EXCEPT ![r] = x] BY <3>1, <3>3
    <3>4. ASSUME NEW s, EvidenceUnmatched(r, s) PROVE UNCHANGED status
      BY <3>4 DEF EvidenceUnmatched, rowVars
    <3>5. ASSUME NEW s, EvidenceMatched(r, s)
          PROVE  known[r] /\ \E x : status' = [status EXCEPT ![r] = x]
      BY <3>5 DEF EvidenceMatched
    <3>6. ASSUME Upsert(r)
          PROVE  UNCHANGED status \/ (known[r] /\ \E x : status' = [status EXCEPT ![r] = x])
      BY <3>6 DEF Upsert
    <3> QED BY <1>2, <3>2, <3>3, <3>4, <3>5, <3>6 DEF Webhook
  <2> QED BY <2>1, <2>2
<1>3. CASE Cron
  <2>1. CASE Sweep
    <3> DEFINE over == {q \in Requests : LeaseOver(q, now)}
    <3>1. pending' = pending \ Leaving(over) /\ conn' = conn
      BY <2>1 DEF Sweep, DropPending
    <3>2. status' = [q \in Requests |-> IF q \in over THEN "unknown" ELSE status[q]]
      BY <2>1 DEF Sweep
    <3> QED BY <3>1, <3>2 DEF Leaving
  <2>2. CASE PurgePending BY <2>2 DEF PurgePending, DropPending
  <2>3. CASE RemoveShells \/ Tick \/ \E r \in Requests : DeleteObject(r) \/ FinishDeletion(r)
    BY <2>3 DEF RemoveShells, Tick, DeleteObject, FinishDeletion
  <2> QED BY <1>3, <2>1, <2>2, <2>3 DEF Cron
<1>4. CASE User
  <2>1. CASE DeleteConnection
    <3>1. pending' = {} BY <2>1 DEF DeleteConnection, DropPending
    <3> QED BY <3>1
  <2>2. CASE FinalizeRule BY <2>2 DEF FinalizeRule, DropPending
  <2>3. CASE ChangeConnection BY <2>3 DEF ChangeConnection
  <2> QED BY <1>4, <2>1, <2>2, <2>3 DEF User, Revoke, PrepareRule
<1>5. CASE UNCHANGED vars BY <1>5 DEF vars
<1> QED BY <1>1, <1>2, <1>3, <1>4, <1>5 DEF Next

-----------------------------------------------------------------------------
(* The theorems                                                            *)

PrivacyInv ==
  EligibilityHeld /\ PendingIsNeeded /\ ExclusionDropsPending /\ PurgedStaysPurged

LEMMA PrivacyInvInit == Init => PrivacyInv
BY IdentityAssumption DEF Init, PrivacyInv, EligibilityHeld, PendingIsNeeded, ExclusionDropsPending,
   PurgedStaysPurged, ForRecipient

LEMMA PrivacyInvariance == Spec => []PrivacyInv
<1>1. (IInv /\ ContentInv /\ PrivacyInv) /\ [Next]_vars => PrivacyInv'
  BY EligibilityStep, NeededStep, ExclusionStep, PurgedStep DEF PrivacyInv
<1> QED BY PrivacyInvInit, ContentInvariance, <1>1, PTL DEF Spec

\* No pending text outlives its use: a decided Direct Address operation and a
\* deleted Connection keep none.
THEOREM PendingMinimal == Spec => []PendingIsNeeded
<1>1. PrivacyInv => PendingIsNeeded BY DEF PrivacyInv
<1> QED BY <1>1, PrivacyInvariance, PTL

\* An excluded recipient has no pending text from before the cutoff, and nobody
\* has any to an address that might be the recipient's.
THEOREM ExclusionIsEffective == Spec => []ExclusionDropsPending
<1>1. PrivacyInv => ExclusionDropsPending BY DEF PrivacyInv
<1> QED BY <1>1, PrivacyInvariance, PTL

\* What a purge removed no later step of anybody restores.
THEOREM PurgeIsPermanent == Spec => []PurgedStaysPurged
<1>1. PrivacyInv => PurgedStaysPurged BY DEF PrivacyInv
<1> QED BY <1>1, PrivacyInvariance, PTL

\* Webhook items received while the recipient was excluded, or before, never make
\* a message of the recipient.
THEOREM LateItems == Spec => NoLateResurrection
<1> DEFINE Appears(r) == message[r] = "none" /\ message'[r] = "content" /\ item' # item
           Goal == \A r \in ForRecipient :
                     Appears(r) => ~rule.excluded /\ received'[r] > rule.effectiveAt
<1>1. ASSUME IInv, [Next]_vars PROVE Goal
  <2> USE DEF IInv, Typed, WorldTypes, WebhookTypes, ForRecipient
  <2>6. rule.effectiveAt \in Nat BY <1>1
  <2>1. ASSUME NEW r \in Requests, Webhook(r) PROVE Goal
    <3>1. ASSUME NEW s \in Reports, EvidenceMatched(r, s) PROVE Goal
      <4>1. PICK at \in ReceivedAt(r) :
              LET isHidden == r \notin Direct /\ Suppressed(at)
                  turns == ~isHidden /\ Materializes(r, s, at)
                  stores == turns /\ message[r] = "none"
              IN  /\ message' = [message EXCEPT ![r] = IF stores THEN "content" ELSE @]
                  /\ received' = [received EXCEPT ![r] = IF stores THEN at ELSE @]
        BY <3>1 DEF EvidenceMatched
      <4>2. \A q \in Requests : q # r => message'[q] = message[q] BY <4>1
      <4>3. at \in Int BY <4>1 DEF ReceivedAt
      <4>4. message[r] = "none" /\ message'[r] = "content"
              => ~Suppressed(at) /\ received'[r] = at
        BY <1>1, <4>1 DEF Materializes
      <4>5. ~Suppressed(at) => ~rule.excluded /\ at > rule.effectiveAt
        BY <4>3, <2>6 DEF Suppressed
      <4> QED BY <4>2, <4>4, <4>5, IdentityAssumption
    <3>2. ASSUME NEW s \in Reports, EvidenceUnmatched(r, s) PROVE Goal
      BY <3>2 DEF EvidenceUnmatched
    <3>3. CASE Upsert(r)
      <4>1. PICK at \in ReceivedAt(r) :
              LET isHidden == r \in ForRecipient /\ Suppressed(at)
                  lands == ~isHidden
                  stores == lands /\ message[r] = "none"
              IN  /\ message' = [message EXCEPT ![r] = IF stores THEN "content" ELSE @]
                  /\ received' = [received EXCEPT ![r] = IF lands THEN at ELSE @]
        BY <3>3 DEF Upsert
      <4>2. \A q \in Requests : q # r => message'[q] = message[q] BY <4>1
      <4>3. at \in Int BY <4>1 DEF ReceivedAt
      <4>4. r \in ForRecipient /\ message[r] = "none" /\ message'[r] = "content"
              => ~Suppressed(at) /\ received'[r] = at
        BY <1>1, <4>1
      <4>5. ~Suppressed(at) => ~rule.excluded /\ at > rule.effectiveAt
        BY <4>3, <2>6 DEF Suppressed
      <4> QED BY <4>2, <4>4, <4>5, IdentityAssumption
    <3> QED BY <2>1, <3>1, <3>2, <3>3 DEF Webhook
  <2>7. ASSUME NEW r \in Requests, RecordBesideUpsert(r) PROVE Goal
    <3>1. PICK at \in ReceivedAt(r) : /\ r \in ForRecipient => ~Suppressed(at)
                                      /\ received' = [received EXCEPT ![r] = at]
      BY <2>7 DEF RecordBesideUpsert
    <3>2. message' = [message EXCEPT ![r] = "content"] BY <2>7 DEF RecordBesideUpsert
    <3>3. received'[r] = at BY <1>1, <3>1
    <3>4. at \in Int BY DEF ReceivedAt
    <3>5. ~Suppressed(at) => ~rule.excluded /\ at > rule.effectiveAt
      BY <3>4, <2>6 DEF Suppressed
    <3>6. \A q \in Requests : q # r => message'[q] = message[q] BY <1>1, <3>2
    <3> QED BY <3>1, <3>3, <3>5, <3>6, IdentityAssumption
  <2>2. ASSUME NEW r \in Requests, Call(r), ~RecordBesideUpsert(r) PROVE item' = item
    BY <2>2 DEF Call, Preflight, Start, ReadBinding, Deny, ReplayBound, Refuse, Admit,
       WriteObject, Commit, CommitLost, Insert, Rollback, CleanUp, Dispatch, Respond,
       Abandon, RecordInTime, RecordLate, RecordFails, Crash
  <2>3. CASE Cron
    BY <2>3 DEF Cron, Sweep, PurgePending, RemoveShells, Tick, DeleteObject, FinishDeletion
  <2>4. CASE User
    BY <2>4 DEF User, Revoke, ChangeConnection, DeleteConnection, PrepareRule, FinalizeRule
  <2>5. CASE UNCHANGED vars BY <2>5 DEF vars
  <2> QED BY <1>1, <2>1, <2>2, <2>3, <2>4, <2>5, <2>7 DEF Next
<1>2. Spec => [][Goal]_vars BY <1>1, Invariance, PTL DEF Spec
<1>3. [Goal]_vars => [Goal]_<<message, item, rule>>
  BY DEF vars
<1> QED BY <1>2, <1>3, PTL DEF NoLateResurrection

-----------------------------------------------------------------------------
(* The rolling quota                                                       *)

\* What the quota count gave under the lock still holds at the insert, because
\* nobody else can insert meanwhile.
WindowInv ==
  \A r \in Requests : pc[r] \in {"admitted", "written"}
    => Cardinality(ReservedAt(observedAt[r])) < SendLimit

ReservedNext(t) == {q \in Requests : /\ status'[q] # "none"
                                     /\ createdAt'[q] <= t /\ t < createdAt'[q] + Window}

LEMMA OnlyInsertReserves ==
  ASSUME IInv, [Next]_vars
  PROVE  \/ \E r \in Requests : Insert(r)
         \/ \A t : ReservedNext(t) = ReservedAt(t)
<1> USE DEF IInv, Typed, RowTypes, ReservedAt, ReservedNext
<1>1. CASE RowsStay /\ ~\E r \in Requests : Insert(r)
  <2>1. \A q \in Requests : status[q] # "none" => createdAt'[q] = createdAt[q]
    BY PendingAppears
  <2>2. \A q \in Requests : status'[q] = "none" <=> status[q] = "none"
    BY <1>1 DEF RowsStay
  <2> QED BY <2>1, <2>2
<1>2. ASSUME NEW r \in Requests, Commit(r) \/ CommitLost(r) PROVE Insert(r)
  BY <1>2 DEF Commit, CommitLost
<1> QED BY <1>1, <1>2, OnlyCommitAddsRows

\* A call enters its critical section only by Admit.
LEMMA EntersByAdmit ==
  ASSUME Typed, [Next]_vars, NEW r \in Requests, pc'[r] \in {"admitted", "written"}
  PROVE  /\ observedAt'[r] = observedAt[r]
         /\ pc[r] \in {"admitted", "written"} \/ Admit(r)
<1> USE DEF Typed, CallTypes, Goto, Finish
<1>1. ASSUME NEW q \in Requests, Call(q)
      PROVE  observedAt'[r] = observedAt[r] /\ (pc[r] \in {"admitted", "written"} \/ Admit(r))
  <2>1. CASE Start(q) BY <2>1 DEF Start
  <2>2. CASE Admit(q) BY <2>2 DEF Admit
  <2>3. CASE WriteObject(q) BY <2>3 DEF WriteObject
  <2>4. CASE Preflight(q) BY <2>4 DEF Preflight
  <2>5. CASE ReadBinding(q) \/ Deny(q) \/ ReplayBound(q) \/ Refuse(q)
    BY <2>5 DEF ReadBinding, Deny, ReplayBound, Refuse
  <2>6. CASE Commit(q) \/ CommitLost(q) \/ Rollback(q) \/ CleanUp(q)
    BY <2>6 DEF Commit, CommitLost, Rollback, CleanUp
  <2>7. CASE Dispatch(q) \/ Respond(q) \/ Abandon(q) BY <2>7 DEF Dispatch, Respond, Abandon
  <2>8. CASE RecordInTime(q) \/ RecordBesideUpsert(q) \/ RecordLate(q) \/ RecordFails(q) \/ Crash(q)
    BY <2>8 DEF RecordInTime, RecordBesideUpsert, RecordLate, RecordFails, Crash
  <2> QED BY <1>1, <2>1, <2>2, <2>3, <2>4, <2>5, <2>6, <2>7, <2>8 DEF Call
<1>2. ASSUME NEW q \in Requests, Webhook(q) PROVE UNCHANGED <<pc, observedAt>>
  BY <1>2 DEF Webhook, EvidenceUnmatched, EvidenceMatched, Upsert
<1>3. CASE Cron
  BY <1>3 DEF Cron, Sweep, PurgePending, RemoveShells, Tick, DeleteObject, FinishDeletion
<1>4. CASE User
  BY <1>4 DEF User, Revoke, ChangeConnection, DeleteConnection, PrepareRule, FinalizeRule
<1>5. CASE UNCHANGED vars BY <1>5 DEF vars
<1> QED BY <1>1, <1>2, <1>3, <1>4, <1>5 DEF Next

LEMMA WindowInvStep == ASSUME IInv, WindowInv, [Next]_vars PROVE WindowInv'
<1> SUFFICES ASSUME NEW r \in Requests, pc'[r] \in {"admitted", "written"}
             PROVE  Cardinality(ReservedNext(observedAt'[r])) < SendLimit
  BY DEF WindowInv, ReservedAt, ReservedNext
<1> USE DEF IInv
<1>1. observedAt'[r] = observedAt[r] BY EntersByAdmit
<1>2. Cardinality(ReservedAt(observedAt[r])) < SendLimit
  <2>1. ASSUME NEW t PROVE IsFiniteSet(ReservedAt(t)) /\ Cardinality(ReservedAt(t)) \in Nat
    BY BoundAssumption, FS_Subset, FS_CardinalityType DEF ReservedAt
  <2>2. CASE Admit(r) BY <2>1, <2>2, BoundAssumption DEF Admit, Limited
  <2> QED BY <2>2, EntersByAdmit DEF WindowInv
<1>3. ASSUME NEW q \in Requests, Insert(q) PROVE FALSE
  <2>1. writer = q /\ writer' = None
    BY <1>3 DEF Insert, Insertable, CallInvariant
  <2>2. CallInvariant' BY IInvStep
  <2> QED BY <2>1, <2>2, IdentityAssumption DEF CallInvariant
<1> QED BY <1>1, <1>2, <1>3, OnlyInsertReserves

\* Reservations are counted and made under one lock: the window that ends at a
\* committed reservation holds at most the limit.
THEOREM QuotaWindow == Spec => WindowHolds
<1> DEFINE Count(r) == {q \in Requests : /\ status'[q] # "none"
                                         /\ createdAt'[q] <= createdAt'[r]
                                         /\ createdAt'[r] < createdAt'[q] + Window}
           Step == \A r \in Requests : status[r] = "none" /\ status'[r] # "none"
                                         => Cardinality(Count(r)) <= SendLimit
<1>1. Init => WindowInv BY DEF Init, WindowInv
<1>2. ASSUME IInv, WindowInv, [Next]_vars PROVE Step
  <2> USE DEF IInv, Typed, RowTypes
  <2>1. ASSUME NEW r \in Requests, Insert(r) PROVE Step
    <3>1. pc[r] \in {"admitted", "written"} BY <1>2, <2>1 DEF Insert, Insertable
    <3>2. /\ createdAt' = [createdAt EXCEPT ![r] = observedAt[r]]
          /\ status' = [status EXCEPT ![r] = "processing"]
      BY <2>1 DEF Insert
    <3>3. Cardinality(ReservedAt(observedAt[r])) < SendLimit BY <1>2, <3>1 DEF WindowInv
    <3>4. observedAt[r] \in Nat BY <1>2 DEF CallTypes
    <3>5. status[r] = "none"
      BY <1>2, <3>1 DEF CallInvariant, BeforeCommit
    <3>6. Count(r) \subseteq ReservedAt(observedAt[r]) \cup {r}
      BY <1>2, <3>2, <3>4 DEF ReservedAt
    <3>7. IsFiniteSet(ReservedAt(observedAt[r]))
      BY BoundAssumption, FS_Subset DEF ReservedAt
    <3>8. Cardinality(Count(r)) <= SendLimit
      <4>1. r \notin ReservedAt(observedAt[r]) BY <3>5 DEF ReservedAt
      <4>2. IsFiniteSet(ReservedAt(observedAt[r]) \cup {r})
            /\ Cardinality(ReservedAt(observedAt[r]) \cup {r})
                 = Cardinality(ReservedAt(observedAt[r])) + 1
        BY <3>7, <4>1, FS_AddElement
      <4>3. IsFiniteSet(Count(r))
            /\ Cardinality(Count(r)) <= Cardinality(ReservedAt(observedAt[r]) \cup {r})
        BY <3>6, <4>2, FS_Subset
      <4>4. Cardinality(Count(r)) \in Nat /\ Cardinality(ReservedAt(observedAt[r])) \in Nat
        BY <4>3, <3>7, FS_CardinalityType
      <4> QED BY <3>3, <4>2, <4>3, <4>4, BoundAssumption
    <3> QED BY <1>2, <3>2, <3>8
  <2>2. ASSUME \A r \in Requests : ~Insert(r) PROVE Step
    <3>1. RowsStay BY <1>2, <2>2, OnlyCommitAddsRows DEF Commit, CommitLost
    <3> QED BY <3>1 DEF RowsStay
  <2> QED BY <2>1, <2>2
<1>3. Step => [Step]_<<status, createdAt>> OBVIOUS
<1> QED BY <1>1, <1>2, <1>3, WindowInvStep, Invariance, PTL DEF Spec, WindowHolds
=============================================================================
