--------------------------- MODULE RecoveryDrill ----------------------------
(***************************************************************************)
(* One recovery drill: the durable workflow of apps/recovery-control, the  *)
(* guarded client of the Neon control plane it uses and the verification   *)
(* of apps/recovery-verifier on the restored branch.                       *)
(*                                                                         *)
(* The workflow restores production into a child branch, migrates it       *)
(* forward, replays the authorities kept outside the restore, has the      *)
(* branch verified and deletes it.  A step that fails is tried again and   *)
(* a workflow that fails rolls the branch back.  Every call of the control *)
(* plane can fail with or without its effect, a step can be cut off, and a *)
(* verification whose answer was lost can still be running when the next   *)
(* attempt starts another one.                                             *)
(***************************************************************************)
EXTENDS Naturals, FiniteSets

CONSTANTS
  Attempts,   \* how often a retryable step is tried
  Faults,     \* how many calls fail and steps are cut off
  Quarterly,  \* the quarterly game day, otherwise the weekly restore
  Foreign     \* whether somebody else may make a branch of the same name

DrillAssumption ==
  /\ Attempts \in Nat \ {0}
  /\ Faults \in Nat
  /\ {Quarterly, Foreign} \subseteq BOOLEAN

Runs == 1..Attempts

VARIABLES
  wf,         \* the workflow: at, tries, known (the branch step's output), bad
  branch,     \* our branch: "none", "init", "ready" or "gone"
  made,       \* how many branches of ours were ever created
  foreign,    \* the other branch of the name: "absent", "there" or "gone"
  owner,      \* who knows the migration owner's password: "nobody" or "migrator"
  endpoints,  \* the read-write endpoints of the branch
  next,       \* the identity of the next endpoint
  db,         \* the restored database: migrated, readiness state, probes
  run,        \* the verifications, one per attempt of the step
  proved,     \* what was observed on the branch: "rls", "media"
  faults

vars == <<wf, branch, made, foreign, owner, endpoints, next, db, run, proved, faults>>
neon == <<branch, made, foreign, endpoints, next>>

NoRun == [at |-> "none", uri |-> 0, old |-> 0, bad |-> FALSE, turned |-> FALSE]

Init ==
  /\ wf = [at |-> "list", tries |-> 1, known |-> FALSE, bad |-> FALSE]
  /\ branch = "none" /\ made = 0
  /\ foreign \in IF Foreign THEN {"absent", "there"} ELSE {"absent"}
  /\ owner = "migrator"
  /\ endpoints = {} /\ next = 1
  /\ db = [migrated |-> FALSE, state |-> "serving", probe |-> FALSE, media |-> "none"]
  /\ run = [v \in Runs |-> NoRun]
  /\ proved = {}
  /\ faults = 0

Fail == faults < Faults /\ faults' = faults + 1
Go(to) == wf' = [wf EXCEPT !.at = to]

(* A failed attempt starts the step again, and the last one rolls back.     *)
Retry(step) ==
  wf' = IF wf.tries < Attempts THEN [wf EXCEPT !.at = step, !.tries = @ + 1, !.bad = FALSE]
                               ELSE [wf EXCEPT !.at = "rollback", !.tries = 1, !.bad = FALSE]
NextStep(step) == wf' = [wf EXCEPT !.at = step, !.tries = 1, !.bad = FALSE]

Listed == (IF branch \in {"init", "ready"} THEN {"ours"} ELSE {})
          \cup (IF foreign = "there" THEN {"foreign"} ELSE {})

(***************************************************************************)
(* reconcile guarded PITR branch                                           *)
(***************************************************************************)

(* Mutant: the name is not looked up before the branch is created.          *)
ListBlind ==
  /\ wf.at = "list"
  /\ Go("create")
  /\ UNCHANGED <<neon, owner, db, run, proved, faults>>

(* One branch of the name is taken if it is exactly ours, none makes one,   *)
(* anything else fails.                                                     *)
List ==
  /\ wf.at = "list"
  /\ CASE Listed = {"ours"} -> Go("settle")
       [] Listed = {} -> Go("create")
       [] OTHER -> Retry("list")
  /\ UNCHANGED <<neon, owner, db, run, proved, faults>>

Created ==
  /\ branch' = "init"
  /\ made' = made + 1
  /\ endpoints' = {next} /\ next' = next + 1
  /\ UNCHANGED foreign

(* Neon refuses a second branch of a name. *)
Create ==
  /\ wf.at = "create" /\ foreign # "there"
  /\ Created
  /\ Go("settle")
  /\ UNCHANGED <<owner, db, run, proved, faults>>

CreateFails ==
  /\ wf.at = "create"
  /\ \/ Fail /\ foreign # "there" /\ (Created \/ UNCHANGED neon)
     \/ foreign = "there" /\ UNCHANGED <<neon, faults>>
  /\ Go("adopt")
  /\ UNCHANGED <<owner, db, run, proved>>

(* After a failed creation the name is looked up again.                     *)
Adopt ==
  /\ wf.at = "adopt"
  /\ IF Listed = {"ours"} THEN Go("settle") ELSE Retry("list")
  /\ UNCHANGED <<neon, owner, db, run, proved, faults>>

Settle ==
  /\ wf.at = "settle"
  /\ branch = "ready"
  /\ wf' = [wf EXCEPT !.at = "reset", !.tries = 1, !.known = TRUE]
  /\ UNCHANGED <<neon, owner, db, run, proved, faults>>

(* Somebody else makes a branch of the name, perhaps after we looked for it. *)
Intrude ==
  /\ Foreign /\ foreign = "absent"
  /\ branch \notin {"init", "ready"}
  /\ foreign' = "there"
  /\ UNCHANGED <<wf, branch, made, owner, endpoints, next, db, run, proved, faults>>

BranchReady ==
  /\ branch = "init"
  /\ branch' = "ready"
  /\ UNCHANGED <<wf, made, foreign, owner, endpoints, next, db, run, proved, faults>>

(***************************************************************************)
(* forward migrate guarded PITR branch                                     *)
(***************************************************************************)

(* The owner's password is reset, which nobody keeps, and then read for the *)
(* migration.                                                               *)
Reset ==
  /\ wf.at = "reset"
  /\ owner' = "nobody"
  /\ Go("migrate")
  /\ UNCHANGED <<neon, db, run, proved, faults>>

Migrate ==
  /\ wf.at = "migrate"
  /\ owner' = "migrator"
  /\ db' = [db EXCEPT !.migrated = TRUE]
  /\ Go("seal")
  /\ UNCHANGED <<neon, run, proved, faults>>

(* It fails before it migrates, or after: its answer or the rotation of the *)
(* verifier's password is lost.                                             *)
MigrateFails ==
  /\ wf.at = "migrate"
  /\ Fail
  /\ owner' = "migrator"
  /\ db' \in {db, [db EXCEPT !.migrated = TRUE]}
  /\ wf' = [wf EXCEPT !.at = "seal", !.bad = TRUE]
  /\ UNCHANGED <<neon, run, proved>>

(* Mutant: the password is reset only after a failed migration.             *)
SealIfBad ==
  /\ wf.at = "seal"
  /\ IF wf.bad THEN owner' = "nobody" /\ Retry("reset")
               ELSE UNCHANGED owner /\ NextStep("replay")
  /\ UNCHANGED <<neon, db, run, proved, faults>>

(* Whatever the migration did, its password is reset again.                 *)
Seal ==
  /\ wf.at = "seal"
  /\ owner' = "nobody"
  /\ IF wf.bad THEN Retry("reset") ELSE NextStep("replay")
  /\ UNCHANGED <<neon, db, run, proved, faults>>

(***************************************************************************)
(* replay restore-external authorities: tried once                         *)
(***************************************************************************)

(* Mutant: the replay forgets that the branch must be verified.             *)
CompleteReplayServing ==
  /\ wf.at = "replayed"
  /\ db' = [db EXCEPT !.state = "ready"]
  /\ NextStep("verify")
  /\ UNCHANGED <<neon, owner, run, proved, faults>>

BeginReplay ==
  /\ wf.at = "replay"
  /\ db' = [db EXCEPT !.state = "replaying"]
  /\ Go("replayed")
  /\ UNCHANGED <<neon, owner, run, proved, faults>>

CompleteReplay ==
  /\ wf.at = "replayed"
  /\ db' = [db EXCEPT !.state = "awaiting"]
  /\ NextStep("verify")
  /\ UNCHANGED <<neon, owner, run, proved, faults>>

(* A failed replay fails the workflow, even one that was complete.          *)
ReplayFails ==
  /\ wf.at \in {"replay", "replayed"}
  /\ Fail
  /\ db' \in {db, [db EXCEPT !.state = IF wf.at = "replay" THEN "serving" ELSE "awaiting"]}
  /\ NextStep("rollback")
  /\ UNCHANGED <<neon, owner, run, proved>>

(***************************************************************************)
(* verify recovery and aggregate availability                              *)
(***************************************************************************)

AskVerifier ==
  /\ wf.at = "verify"
  /\ run' = [run EXCEPT ![wf.tries] = [NoRun EXCEPT !.at = "open"]]
  /\ Go("answer")
  /\ UNCHANGED <<neon, owner, db, proved, faults>>

(* Mutant: an error of the verifier is taken for its evidence.              *)
AnsweredAnyhow ==
  /\ wf.at = "answer"
  /\ run[wf.tries].at \in {"answered", "error"}
  /\ NextStep("delete")
  /\ UNCHANGED <<neon, owner, db, run, proved, faults>>

(* The evidence must be of this attempt's request; an error is a failed     *)
(* attempt.                                                                 *)
Answered ==
  /\ wf.at = "answer"
  /\ \/ run[wf.tries].at = "answered" /\ NextStep("delete")
     \/ run[wf.tries].at = "error" /\ Retry("verify")
  /\ UNCHANGED <<neon, owner, db, run, proved, faults>>

(* The request times out or its answer is lost: the verification goes on.   *)
AnswerLost ==
  /\ wf.at = "answer"
  /\ Fail
  /\ Retry("verify")
  /\ UNCHANGED <<neon, owner, db, run, proved>>

(***************************************************************************)
(* delete guarded PITR branch, as a step and as the rollback               *)
(***************************************************************************)

Undoing == wf.at \in {"rollback", "undo", "undone"}
Deleted == IF Undoing THEN NextStep("errored") ELSE NextStep("complete")
AgainDelete == IF ~Undoing THEN Retry("delete")
               ELSE IF wf.tries < Attempts
                 THEN wf' = [wf EXCEPT !.at = "rollback", !.tries = @ + 1]
                 ELSE NextStep("errored")

(* Mutant: the rollback deletes whatever bears the name.                    *)
FindAny ==
  /\ wf.at \in {"delete", "rollback"}
  /\ IF foreign = "there" /\ ~wf.known
       THEN foreign' = "gone" /\ Deleted
       ELSE /\ IF branch \in {"init", "ready"} THEN Go(IF Undoing THEN "undo" ELSE "drop") ELSE Deleted
            /\ UNCHANGED foreign
  /\ UNCHANGED <<branch, made, endpoints, next, owner, db, run, proved, faults>>

(* The branch is looked up again, by its name when the first step left no   *)
(* output, and must be exactly ours.                                        *)
Find ==
  /\ wf.at \in {"delete", "rollback"}
  /\ CASE Listed = {} -> Deleted
       [] wf.known /\ branch \in {"init", "ready"} -> Go(IF Undoing THEN "undo" ELSE "drop")
       [] wf.known /\ branch \notin {"init", "ready"} -> Deleted
       [] ~wf.known /\ Listed = {"ours"} -> Go(IF Undoing THEN "undo" ELSE "drop")
       [] OTHER -> AgainDelete
  /\ UNCHANGED <<neon, owner, db, run, proved, faults>>

Dropped == branch' = "gone" /\ endpoints' = {} /\ UNCHANGED <<made, foreign, next>>

Drop ==
  /\ wf.at \in {"drop", "undo"}
  /\ Dropped
  /\ Deleted
  /\ UNCHANGED <<owner, db, run, proved, faults>>

DropFails ==
  /\ wf.at \in {"drop", "undo"}
  /\ Fail
  /\ Dropped \/ UNCHANGED neon
  /\ Go(IF Undoing THEN "undone" ELSE "dropped")
  /\ UNCHANGED <<owner, db, run, proved>>

(* Mutant: a failed deletion is taken for a deletion.                       *)
DropTrusted ==
  /\ wf.at \in {"dropped", "undone"}
  /\ Deleted
  /\ UNCHANGED <<neon, owner, db, run, proved, faults>>

(* After a failed deletion only an absent branch counts as deleted.         *)
DropChecked ==
  /\ wf.at \in {"dropped", "undone"}
  /\ IF branch = "gone" THEN Deleted ELSE AgainDelete
  /\ UNCHANGED <<neon, owner, db, run, proved, faults>>

(* A read of the control plane fails or the step is cut off.                *)
StepOf == [list |-> "list", create |-> "list", adopt |-> "list", settle |-> "list",
           reset |-> "reset", migrate |-> "reset", seal |-> "reset",
           delete |-> "delete", drop |-> "delete", dropped |-> "delete",
           rollback |-> "rollback", undo |-> "rollback", undone |-> "rollback"]

StepCut ==
  /\ wf.at \in DOMAIN StepOf
  /\ Fail
  /\ IF StepOf[wf.at] \in {"delete", "rollback"} THEN AgainDelete ELSE Retry(StepOf[wf.at])
  /\ UNCHANGED <<neon, owner, db, run, proved>>

(***************************************************************************)
(* the verification of one attempt                                         *)
(***************************************************************************)

At(v, place) == run[v].at = place
To(v, place) == run' = [run EXCEPT ![v].at = place]
Reaches(v) == branch = "ready" /\ run[v].uri \in endpoints
Keep == UNCHANGED <<wf, branch, made, foreign, owner>>

(* The branch is found under its guard and opened through its endpoint.     *)
Open(v) ==
  /\ At(v, "open")
  /\ IF branch = "ready" /\ endpoints # {}
       THEN \E e \in endpoints : run' = [run EXCEPT ![v].at = "check", ![v].uri = e]
       ELSE To(v, "error")
  /\ Keep /\ UNCHANGED <<endpoints, next, db, proved, faults>>

Verifiable(v) == Reaches(v) /\ db.migrated /\ db.state \in {"awaiting", "verified"}

Check(v) ==
  /\ At(v, "check")
  /\ To(v, IF ~Verifiable(v) THEN "error" ELSE IF Quarterly THEN "pick" ELSE "probe")
  /\ Keep /\ UNCHANGED <<endpoints, next, db, proved, faults>>

(* The endpoint is rotated: the only one is deleted, none may remain, one   *)
(* is created and must be the only one and another one.                     *)
PickEndpoint(v) ==
  /\ At(v, "pick")
  /\ IF branch = "ready" /\ Cardinality(endpoints) = 1
       THEN \E e \in endpoints : run' = [run EXCEPT ![v].at = "remove", ![v].old = e]
       ELSE To(v, "error")
  /\ Keep /\ UNCHANGED <<endpoints, next, db, proved, faults>>

RemoveEndpoint(v) ==
  /\ At(v, "remove")
  /\ \/ endpoints' = endpoints \ {run[v].old} /\ UNCHANGED faults
     \/ Fail /\ UNCHANGED endpoints
  /\ To(v, IF endpoints' = {} THEN "create" ELSE "error")
  /\ Keep /\ UNCHANGED <<next, db, proved>>

(* Neon keeps one read-write endpoint per branch: a creation that finds one *)
(* fails, and the client adopts what it then sees.                          *)
CreateEndpoint(v) ==
  /\ At(v, "create")
  /\ \/ /\ endpoints = {} /\ branch = "ready"
        /\ endpoints' = {next} /\ next' = next + 1 /\ UNCHANGED faults
     \/ /\ endpoints # {} /\ UNCHANGED <<endpoints, next, faults>>
     \/ endpoints = {} /\ Fail /\ UNCHANGED <<endpoints, next>>
     \/ endpoints = {} /\ branch # "ready" /\ UNCHANGED <<endpoints, next, faults>>
  /\ IF endpoints' = {} THEN To(v, "error")
     ELSE \E e \in endpoints' : run' = [run EXCEPT ![v].at = "turned", ![v].uri = e]
  /\ Keep /\ UNCHANGED <<db, proved>>

(* The old endpoint must no longer answer and the new one must verify.      *)
Turned(v) ==
  /\ At(v, "turned")
  /\ IF run[v].uri # run[v].old /\ run[v].old \notin endpoints /\ Verifiable(v)
       THEN run' = [run EXCEPT ![v].at = "game", ![v].turned = TRUE]
       ELSE To(v, "error")
  /\ Keep /\ UNCHANGED <<endpoints, next, db, proved, faults>>

(* The game day (module GameDay) is executed and verified.                  *)
Game(v) ==
  /\ At(v, "game")
  /\ To(v, "probe")
  /\ Keep /\ UNCHANGED <<endpoints, next, db, proved, faults>>

(* prepare_recovery_rls_probe: a verified branch needs no probe; otherwise  *)
(* two synthetic accounts are made, or found from an earlier attempt.       *)
PrepareProbe(v) ==
  /\ At(v, "probe")
  /\ \/ /\ Verifiable(v) /\ db.state = "verified" /\ ~db.probe
        /\ To(v, "judge") /\ UNCHANGED db
     \/ /\ Verifiable(v) /\ db.state = "awaiting"
        /\ db' = [db EXCEPT !.probe = TRUE] /\ To(v, "rls")
     \/ /\ ~Verifiable(v) \/ (db.state = "verified" /\ db.probe)
        /\ To(v, "error") /\ UNCHANGED db
  /\ Keep /\ UNCHANGED <<endpoints, next, proved, faults>>

Bad(v) == run' = [run EXCEPT ![v].at = "clean", ![v].bad = TRUE]

(* The API role must see exactly its own probe account. *)
CheckIsolation(v) ==
  /\ At(v, "rls")
  /\ IF branch = "ready" /\ endpoints # {} /\ db.probe
       THEN /\ proved' = proved \cup {"rls"}
            /\ To(v, IF Quarterly THEN "media" ELSE "clean")
       ELSE Bad(v) /\ UNCHANGED proved
  /\ Keep /\ UNCHANGED <<endpoints, next, db, faults>>

Probing(v) == Reaches(v) /\ db.state = "awaiting" /\ db.probe

(* prepare_recovery_media_loss_probe: the synthetic media row is made ready *)
(* or found as an earlier attempt left it.                                  *)
PrepareMedia(v) ==
  /\ At(v, "media")
  /\ IF Probing(v)
       THEN /\ db' = [db EXCEPT !.media = IF @ = "none" THEN "ready" ELSE @]
            /\ To(v, IF db.media = "failed" THEN "seen" ELSE "lose")
       ELSE Bad(v) /\ UNCHANGED db
  /\ Keep /\ UNCHANGED <<endpoints, next, proved, faults>>

LoseMedia(v) ==
  /\ At(v, "lose")
  /\ IF Reaches(v) /\ db.probe /\ db.media # "none"
       THEN db' = [db EXCEPT !.media = "failed"] /\ To(v, "seen")
       ELSE Bad(v) /\ UNCHANGED db
  /\ Keep /\ UNCHANGED <<endpoints, next, proved, faults>>

SeeMedia(v) ==
  /\ At(v, "seen")
  /\ IF Probing(v) /\ db.media = "failed"
       THEN proved' = proved \cup {"media"} /\ To(v, "clean")
       ELSE Bad(v) /\ UNCHANGED proved
  /\ Keep /\ UNCHANGED <<endpoints, next, db, faults>>

(* complete_recovery_rls_probe, run whatever happened: both accounts are    *)
(* deleted with all that hangs on them, or it fails.                        *)
CompleteProbe(v) ==
  /\ At(v, "clean")
  /\ IF Probing(v)
       THEN /\ db' = [db EXCEPT !.probe = FALSE, !.media = "none"]
            /\ To(v, IF run[v].bad THEN "error" ELSE "judge")
       ELSE To(v, "error") /\ UNCHANGED db
  /\ Keep /\ UNCHANGED <<endpoints, next, proved, faults>>

(* Availability and objectives are judged, and the gate of a quarterly      *)
(* branch must still be shut.                                               *)
Judge(v) ==
  /\ At(v, "judge")
  /\ To(v, IF Quarterly /\ ~Reaches(v) THEN "error" ELSE "finish")
  /\ Keep /\ UNCHANGED <<endpoints, next, db, proved, faults>>

(* complete_recovery_drill_verification: idempotent, and only without probes. *)
Finish(v) ==
  /\ At(v, "finish")
  /\ IF Verifiable(v) /\ (db.state = "verified" \/ ~db.probe)
       THEN db' = [db EXCEPT !.state = "verified"] /\ To(v, "answered")
       ELSE To(v, "error") /\ UNCHANGED db
  /\ Keep /\ UNCHANGED <<endpoints, next, proved, faults>>

(* A call of the verification fails: what follows the probe is cleaned up,  *)
(* unless the whole verification is cut off.                                *)
RunFails(v) ==
  /\ run[v].at \notin {"none", "answered", "error"}
  /\ Fail
  /\ \/ To(v, "error")
     \/ run[v].at \in {"rls", "media", "lose", "seen"} /\ Bad(v)
  /\ Keep /\ UNCHANGED <<endpoints, next, db, proved>>

WorkflowStep ==
  \/ List \/ Create \/ Adopt \/ Settle \/ Reset \/ Migrate \/ Seal
  \/ BeginReplay \/ CompleteReplay \/ AskVerifier \/ Answered
  \/ Find \/ Drop \/ DropChecked

WorkflowFault == CreateFails \/ MigrateFails \/ ReplayFails \/ AnswerLost \/ DropFails \/ StepCut

RunStep(v) ==
  \/ Open(v) \/ Check(v) \/ PickEndpoint(v) \/ RemoveEndpoint(v) \/ CreateEndpoint(v)
  \/ Turned(v) \/ Game(v) \/ PrepareProbe(v) \/ CheckIsolation(v) \/ PrepareMedia(v)
  \/ LoseMedia(v) \/ SeeMedia(v) \/ CompleteProbe(v) \/ Judge(v) \/ Finish(v)

Next ==
  \/ WorkflowStep \/ WorkflowFault \/ BranchReady \/ Intrude
  \/ \E v \in Runs : RunStep(v) \/ RunFails(v)

Spec == Init /\ [][Next]_vars

(* The workflow is durable and goes on, verifications go on, Neon finishes  *)
(* what it started.                                                         *)
Fairness ==
  /\ WF_vars(WorkflowStep)
  /\ WF_vars(BranchReady)
  /\ \A v \in Runs : WF_vars(RunStep(v))

FairSpec == Spec /\ Fairness

-----------------------------------------------------------------------------
(* What a recovery drill promises. *)

Places == DOMAIN StepOf \cup {"replay", "replayed", "verify", "answer", "complete", "errored"}
RunPlaces == {"none", "open", "check", "pick", "remove", "create", "turned", "game", "probe",
              "rls", "media", "lose", "seen", "clean", "judge", "finish", "answered", "error"}

(* Before the replay, during it, and as it may leave the restored branch.    *)
Readiness == {"serving", "replaying", "awaiting", "verified", "ready"}

(* Every record keeps the form the workflow and the verifier give it.       *)
TypeOK ==
  /\ wf \in [at : Places, tries : Runs, known : BOOLEAN, bad : BOOLEAN]
  /\ branch \in {"none", "init", "ready", "gone"}
  /\ made \in Nat
  /\ foreign \in {"absent", "there", "gone"}
  /\ owner \in {"nobody", "migrator"}
  /\ next \in Nat /\ endpoints \subseteq 1..(next - 1)
  /\ db \in [migrated : BOOLEAN, state : Readiness,
             probe : BOOLEAN, media : {"none", "ready", "failed"}]
  /\ run \in [Runs -> [at : RunPlaces, uri : Nat, old : Nat, bad : BOOLEAN, turned : BOOLEAN]]
  /\ proved \subseteq {"rls", "media"}
  /\ faults \in 0..Faults

(* One drill makes one branch, however often its creation is tried: a       *)
(* creation whose answer was lost is found again by its name.               *)
OneBranch == made <= 1

(* A branch of the same name that is not exactly ours is never touched.     *)
OnlyOurs == foreign # "gone"

(* A drill that completes earned its evidence on this branch: row level     *)
(* security was observed through the API role, a lost object became failed, *)
(* the endpoint was turned, and the branch stands verified, whichever       *)
(* attempt saw it and whichever answer was lost.                            *)
EvidenceEarned ==
  wf.at \in {"delete", "drop", "dropped", "complete"} =>
    /\ db.state = "verified"
    /\ "rls" \in proved
    /\ Quarterly => "media" \in proved /\ \E v \in Runs : run[v].turned

(* A verified branch holds no synthetic account: attempts that overlap do   *)
(* not record a verification over each other's probes, nor leave theirs     *)
(* behind ("removes both probes before recording verification",             *)
(* docs/architecture.md).                                                   *)
NoProbeVerified == db.state = "verified" => ~db.probe /\ db.media = "none"

(* The restored branch never serves: its own readiness is never "ready".    *)
NeverServing == db.state # "ready"

(* Once the authorities are replayed nobody holds the password the          *)
(* migration used, however often the migration was cut off.                 *)
OwnerSealed ==
  wf.at \in {"replay", "replayed", "verify", "answer", "delete", "drop", "dropped", "complete"}
    => owner = "nobody"

(* Every drill ends, and no branch of ours is left behind.                  *)
LeavesNothing == <>[](wf.at \in {"complete", "errored"} /\ branch \in {"none", "gone"})
=============================================================================
