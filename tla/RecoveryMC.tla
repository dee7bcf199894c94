------------------------------ MODULE RecoveryMC ------------------------------
(***************************************************************************)
(* Deletion, and what is left to do after the database was restored to an  *)
(* earlier point.  One run explores several cases; `part` is the one that  *)
(* moves, and the others stand in an initial state:                        *)
(*   restored   one Connection with a file, deleted alone or with its      *)
(*              account, and one restore at any moment                     *)
(*   live       two requests for a Connection whose media arrives late     *)
(*   bootstrap  two tabs open the same account                             *)
(*   revived    an operator recovers the key of a damaged account          *)
(*   both       the same for two damaged accounts at once                  *)
(*   drill      the quarterly drill with its probes                        *)
(*   foreign    somebody else makes a branch of the drill's name           *)
(*   gate       two requests to start a drill                              *)
(*   gameday    two calls of the game day and two deliveries               *)
(*   stale      the same where a read of the key-value store may be stale  *)
(***************************************************************************)
EXTENDS Deletion, TLC

CONSTANTS c1, r1, r2r, u1, u2, i1, i2, i3, k1, k2, k3, s1, s2, t1, t2,
          a, b, o1, o2, o3, o4, weekly, quarterly, None

VARIABLES
  part,
  account, keys, slot, tab, drawn, recovery, evidence, lost,
  wf, branch, made, foreign, owner, endpoints, next, database, run, proved, breaks,
  active, flows, req, inside, misses,
  kv, kvOld, oauth, fixture, kms, media, queue, alerts, delivered, call, work, replayed, slips

envelopeVars == <<account, keys, slot, tab, drawn, recovery, evidence, lost>>
drillVars == <<wf, branch, made, foreign, owner, endpoints, next, database, run, proved, breaks>>
gateVars == <<active, flows, req, inside, misses>>
gameVars == <<kv, kvOld, oauth, fixture, kms, media, queue, alerts, delivered, call, work,
              replayed, slips>>

-----------------------------------------------------------------------------
Deleted == INSTANCE Deletion WITH
  Files <- {}, PendingMedia <- {c1}, Requests <- {r1, r2r}, Failures <- 0, Restores <- 0,
  Faults <- {"late"}

Bootstraps == INSTANCE KeyEnvelopes WITH
  Users <- {u1}, Ids <- {i1, i2, i3}, Materials <- {k1, k2, k3}, Slots <- {s1}, Tabs <- {t1, t2},
  Owner <- i1 :> u1, Original <- <<>>, Kept <- <<>>, Points <- {}, Failures <- 1, Runs <- 0,
  job <- recovery, failures <- lost

Revived == INSTANCE KeyEnvelopes WITH
  Users <- {u1}, Ids <- {i1, i2}, Materials <- {k1, k2}, Slots <- {s1}, Tabs <- {t1},
  Owner <- i1 :> u1, Original <- i1 :> k1, Kept <- i1 :> s1,
  Points <- {"before", "after", "early"}, Failures <- 2, Runs <- 3,
  job <- recovery, failures <- lost

Both == INSTANCE KeyEnvelopes WITH
  Users <- {u1, u2}, Ids <- {i1, i2}, Materials <- {k1, k2}, Slots <- {s1, s2}, Tabs <- {},
  Owner <- i1 :> u1 @@ i2 :> u2, Original <- i1 :> k1 @@ i2 :> k2, Kept <- i1 :> s1 @@ i2 :> s2,
  Points <- {"before", "after", "early"}, Failures <- 1, Runs <- 2,
  job <- recovery, failures <- lost

Drill == INSTANCE RecoveryDrill WITH
  Attempts <- 3, Faults <- 2, Quarterly <- TRUE, Foreign <- FALSE, db <- database, faults <- breaks

ForeignDrill == INSTANCE RecoveryDrill WITH
  Attempts <- 2, Faults <- 4, Quarterly <- FALSE, Foreign <- TRUE, db <- database, faults <- breaks

Gate == INSTANCE RecoveryGate WITH
  Callers <- {a, b}, Ops <- {o1, o2, o3, o4}, Drills <- {weekly, quarterly}, NoOp <- None,
  Faults <- 2, LostLookups <- FALSE, MaxAge <- 1, faults <- misses

Game == INSTANCE GameDay WITH
  Calls <- {a, b}, Consumers <- {o1, o2}, Faults <- 1, Stale <- FALSE, Stranding <- TRUE,
  faults <- slips

StaleGame == INSTANCE GameDay WITH
  Calls <- {a, b}, Consumers <- {o1}, Faults <- 0, Stale <- TRUE, Stranding <- TRUE,
  faults <- slips

ASSUME /\ Deleted!DeletionAssumption
       /\ Bootstraps!OwnedOnce /\ Revived!OwnedOnce /\ Both!OwnedOnce /\ Both!PointsNamed
       /\ Drill!DrillAssumption /\ ForeignDrill!DrillAssumption
       /\ Gate!GateAssumption /\ Game!GameDayAssumption /\ StaleGame!GameDayAssumption

-----------------------------------------------------------------------------
RunInit ==
  /\ part \in {"restored", "live", "bootstrap", "revived", "both", "drill", "foreign", "gate",
               "gameday", "stale"}
  /\ IF part = "live" THEN Deleted!Init ELSE Init
  /\ CASE part = "revived" -> Revived!Init
       [] part = "both" -> Both!Init
       [] OTHER -> Bootstraps!Init
  /\ IF part = "foreign" THEN ForeignDrill!Init ELSE Drill!Init
  /\ Gate!Init /\ (part = "gate" \/ \A c \in {a, b} : req[c].drill = weekly)
  /\ IF part = "stale" THEN StaleGame!Init ELSE Game!Init

RunNext ==
  \/ /\ \/ part = "restored" /\ Next
        \/ part = "live" /\ Deleted!Next
     /\ UNCHANGED <<part, envelopeVars, drillVars, gateVars, gameVars>>
  \/ /\ \/ part = "bootstrap" /\ Bootstraps!Next
        \/ part = "revived" /\ Revived!Next
        \/ part = "both" /\ Both!Next
     /\ UNCHANGED <<part, vars, drillVars, gateVars, gameVars>>
  \/ /\ \/ part = "drill" /\ Drill!Next
        \/ part = "foreign" /\ ForeignDrill!Next
     /\ UNCHANGED <<part, vars, envelopeVars, gateVars, gameVars>>
  \/ part = "gate" /\ Gate!Next /\ UNCHANGED <<part, vars, envelopeVars, drillVars, gameVars>>
  \/ /\ \/ part = "gameday" /\ Game!Next
        \/ part = "stale" /\ StaleGame!Next
     /\ UNCHANGED <<part, vars, envelopeVars, drillVars, gateVars>>

RunSpec == RunInit /\ [][RunNext]_<<part, vars, envelopeVars, drillVars, gateVars, gameVars>>

-----------------------------------------------------------------------------
\* Until a Connection is known to be absent its setup row and its session are there, its
\* capsule can do what is left, a purge leaves nothing behind, and what is charged are
\* the files that exist, restored or not.  Whoever opens an account finds one account with
\* one key that opens its Connections; a deleted account's envelope is closed; a key is
\* revived only as it was recorded and for the one account it fits, and no branch is left
\* (deletion/capsule.ts, deletion-coordinator, restore-coordinator/src/replay.ts,
\* personal-account.ts, recover-unavailable-account-envelope.ts).
AccountsAreWhole ==
  /\ [](CASE part = "restored" -> ReservedUntilAbsent /\ QuotaExact
          [] part = "live" -> Deleted!CleanupPossible /\ Deleted!NothingLeftBehind
          [] part = "bootstrap" -> Bootstraps!OnePerPerson /\ Bootstraps!KeysFit
          [] part = "revived" -> Revived!MarkedIsClosed /\ Revived!BranchRarelyLeft
          [] part = "both" -> Both!KeysFit
          [] OTHER -> TRUE)
  /\ Both!RevivedAsRecorded

\* A drill reports only what it proved on its own branch, which never serves and whose
\* owner credentials nobody keeps; one drill runs at a time and a started one is never
\* forgotten; and a game day is verified by what its own calls did (recovery-control,
\* recovery-verifier, recovery-game-day).
DrillsAreEarned ==
  CASE part = "drill" -> /\ Drill!EvidenceEarned /\ Drill!NoProbeVerified /\ Drill!OneBranch
                         /\ Drill!NeverServing /\ Drill!OwnerSealed
    [] part = "foreign" -> ForeignDrill!OnlyOurs
    [] part = "gate" -> Gate!OneRun /\ Gate!StartedExists /\ Gate!Remembered
    [] part = "gameday" -> Game!ChecksEarned /\ Game!OneWriter
    [] part = "stale" -> StaleGame!ChecksEarned
    [] OTHER -> TRUE
=============================================================================
