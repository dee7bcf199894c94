------------------------------- MODULE EndsMC -------------------------------
(***************************************************************************)
(* What must end.  One run explores several cases; `part` is the one that  *)
(* moves, and the others stand in an initial state, so that each is as     *)
(* fair as its own module says and no fairer:                              *)
(*   send       one call with a file, whose isolate may die                *)
(*   deletion   one Connection with media, or its whole                    *)
(*              account, deleted by requests and crons that may fail       *)
(*   setup      one Connection Setup provisioned by two invocations        *)
(*   scan       two tabs poll a setup whose code was scanned               *)
(*   exclusion  a Recipient Exclusion prepared and left by its request     *)
(*   drill      the weekly restore and its branch                          *)
(***************************************************************************)
EXTENDS SendOperations, TLC

CONSTANTS callA, k1, c1, d1, w1, w2, n1, o1, t1, t2, asked, other, hidden, x1, x2, z1

VARIABLES
  part,
  clock, db, saved, marker, capsule, session, bucket, request, job, purge, replay, restores,
  failures, late, acked,
  setup, worker, observer, sessions, inflight, faults,
  hour, scanned, provider, row, tab, shown, retries,
  moment, exclusion, bindings, directory, messages, journal, slot, cron, ids, serving, reading,
  todo, unresolved, backup, answers, errors, returns,
  wf, branch, made, foreign, owner, endpoints, next, database, run, proved, breaks

deletionVars == <<clock, db, saved, marker, capsule, session, bucket, request, job, purge, replay,
                  restores, failures, late, acked>>
setupVars == <<setup, worker, observer, sessions, inflight, faults>>
scanVars == <<hour, scanned, provider, row, tab, shown, retries>>
exclusionVars == <<moment, exclusion, bindings, directory, messages, journal, slot, cron, ids,
                   serving, reading, todo, unresolved, backup, answers, errors, returns>>
drillVars == <<wf, branch, made, foreign, owner, endpoints, next, database, run, proved, breaks>>
all == <<part, vars, deletionVars, setupVars, scanVars, exclusionVars, drillVars>>

KeyOne == [r \in {callA} |-> k1]
PrintOne == [r \in {callA} |-> "hello"]

Deleted == INSTANCE Deletion WITH
  Connections <- {c1}, Files <- {}, PendingMedia <- {}, Requests <- {d1},
  Kinds <- {"connection", "account"}, MaxTime <- 1, Failures <- 1, Restores <- 0,
  Faults <- {}, r2 <- bucket

Setup == INSTANCE ConnectionSetup WITH
  Keys <- {x1}, Numbers <- {n1}, Workers <- {w1, w2}, Observers <- {o1}, Limit <- 1, Lease <- 2,
  Life <- 3, LateCreates <- FALSE,
  Prompt <- {"reconcile", "renew", "create", "posted", "finish", "fail", "release", "clean",
             "renewCleanup", "delete", "releaseCleanup", "complete"},
  MaxSessions <- 2, MaxFaults <- 2

Scan == INSTANCE QrActivation WITH
  Tabs <- {t1, t2}, Phones <- {asked, other, hidden}, Asked <- asked, Hidden <- hidden,
  Expires <- 1, MaxTime <- 1, Failures <- 1,
  clock <- hour, setup <- scanned, conn <- row, failures <- retries

Exclusion == INSTANCE RecipientExclusion WITH
  Keys <- {x1, x2}, Slots <- {z1}, Messages <- {}, PerMs <- 1, Retention <- 9, MaxTime <- 2,
  MaxTransitions <- 2, MaxFaults <- 2, MaxRestores <- 0,
  now <- moment, rule <- exclusion, replay <- reading, faults <- errors, restores <- returns

Drill == INSTANCE RecoveryDrill WITH
  Attempts <- 3, Faults <- 2, Quarterly <- FALSE, Foreign <- FALSE, db <- database, faults <- breaks

ASSUME /\ Deleted!DeletionAssumption /\ Setup!SetupAssumption /\ Scan!QrActivationAssumption
       /\ Exclusion!ExclusionAssumption /\ Drill!DrillAssumption

-----------------------------------------------------------------------------
RunInit ==
  /\ part \in {"send", "deletion", "setup", "scan", "exclusion", "drill"}
  /\ Init /\ Deleted!Init /\ Setup!Init /\ Scan!Init /\ Exclusion!Init /\ Drill!Init

RunNext ==
  \/ /\ part = "send" /\ Next
     /\ UNCHANGED <<part, deletionVars, setupVars, scanVars, exclusionVars, drillVars>>
  \/ /\ part = "deletion" /\ Deleted!Next
     /\ UNCHANGED <<part, vars, setupVars, scanVars, exclusionVars, drillVars>>
  \/ /\ part = "setup" /\ Setup!Next
     /\ UNCHANGED <<part, vars, deletionVars, scanVars, exclusionVars, drillVars>>
  \/ /\ part = "scan" /\ Scan!Next
     /\ UNCHANGED <<part, vars, deletionVars, setupVars, exclusionVars, drillVars>>
  \/ /\ part = "exclusion" /\ Exclusion!Next
     /\ UNCHANGED <<part, vars, deletionVars, setupVars, scanVars, drillVars>>
  \/ /\ part = "drill" /\ Drill!Next
     /\ UNCHANGED <<part, vars, deletionVars, setupVars, scanVars, exclusionVars>>

-----------------------------------------------------------------------------
(* The fairness of each component, for the case that moves.                *)

SendFairness ==
  /\ WF_vars(part = "send" /\ Tick)
  /\ WF_vars(part = "send" /\ Sweep)
  /\ WF_vars(part = "send" /\ PurgePending)
  /\ \A r \in Requests :
       /\ WF_vars(part = "send" /\ EndsTransaction(r))
       /\ WF_vars(part = "send" /\ DeleteObject(r))
       /\ WF_vars(part = "send" /\ FinishDeletion(r))

DeletionFairness ==
  /\ WF_deletionVars(part = "deletion" /\ Deleted!RequestStep(d1))
  /\ WF_deletionVars(/\ part = "deletion" /\ db.account.state = "deleting"
                     /\ Deleted!PrepareAccountDeletion(d1))
  /\ WF_deletionVars(part = "deletion" /\ Deleted!Reconcile(c1))
  /\ WF_deletionVars(part = "deletion" /\ Deleted!PurgeStep(c1))
  /\ WF_deletionVars(part = "deletion" /\ Deleted!PurgeAccount)
  /\ WF_deletionVars(part = "deletion" /\ Deleted!ReplayStep)

SetupFairness ==
  /\ WF_setupVars(part = "setup" /\ Setup!Tick)
  /\ WF_setupVars(part = "setup" /\ Setup!Expire)
  /\ SF_setupVars(part = "setup" /\ \E w \in {w1, w2} : Setup!ClaimCleanup(w, x1))
  /\ \A w \in {w1, w2} : /\ WF_setupVars(part = "setup" /\ Setup!Provisioning(w))
                         /\ WF_setupVars(part = "setup" /\ Setup!Cleanup(w))

ScanFairness ==
  \A t \in {t1, t2} : /\ WF_scanVars(part = "scan" /\ Scan!Load(t))
                      /\ WF_scanVars(part = "scan" /\ Scan!PollStep(t))

ExclusionFairness ==
  /\ WF_exclusionVars(part = "exclusion" /\ Exclusion!Cron)
  /\ WF_exclusionVars(part = "exclusion" /\ Exclusion!Replay)
  /\ WF_exclusionVars(part = "exclusion" /\ Exclusion!Sweep)

DrillFairness ==
  /\ WF_drillVars(part = "drill" /\ Drill!WorkflowStep)
  /\ WF_drillVars(part = "drill" /\ Drill!BranchReady)
  /\ \A v \in 1..3 : WF_drillVars(part = "drill" /\ Drill!RunStep(v))

RunSpec ==
  /\ RunInit /\ [][RunNext]_all
  /\ SendFairness /\ DeletionFairness /\ SetupFairness /\ ScanFairness
  /\ ExclusionFairness /\ DrillFairness

-----------------------------------------------------------------------------
\* No operation stays "processing" and every file leaves R2; a deletion reaches its end;
\* every setup is activated or cleaned up, a scanned code included; a prepared exclusion is
\* completed; and a drill leaves no branch behind, whatever failed (send-text-message.ts,
\* deletion-coordinator, connection-setup.ts, qr-activation.ts, recipient-exclusion.ts,
\* recovery-control/src/workflow.ts).
WorkIsFinished ==
  /\ LeavesProcessing /\ FileReleased
  /\ Deleted!DeletionEnds /\ Deleted!AccountEnds
  /\ Setup!EverySetupSettles /\ Scan!ScanSettles
  /\ Exclusion!PreparedSettles
  /\ <>[](part = "drill" => wf.at \in {"complete", "errored"} /\ branch \in {"none", "gone"})
=============================================================================
