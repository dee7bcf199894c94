------------------------------- MODULE SetupsMC -------------------------------
(***************************************************************************)
(* A Connection Setup from the page that starts it to the connection.  One *)
(* run explores several cases; `part` is the one that moves, and the       *)
(* others stand in an initial state:                                       *)
(*   activation        three tabs poll one provisioned setup               *)
(*   overlap, late     one setup, two invocations and two browsers; in     *)
(*                     `late` the provider may apply a create after its    *)
(*                     timeout and a step may outlast its lease            *)
(*   numbers           two setups for one number                           *)
(*   page, bodies      the page that starts, polls and cancels; in         *)
(*                     `bodies` a reply is read after its headers          *)
(*   callers, unawaited, budget: one marker at the provider, used by two   *)
(*                     callers, by two whose writes land late, and by one  *)
(*                     under the time limits                               *)
(***************************************************************************)
EXTENDS QrActivation, TLC

CONSTANTS t1, t2, t3, asked, other, hidden, k1, k2, n1, m1, None,
  p1, p2,  \* invocations of the queue, and callers of the provider
  q1, q2   \* browsers, and sessions at the provider

VARIABLES
  part,
  row, worker, observer, sessions, inflight, faults,
  setups, page, tasks, timer, draft, drawn, signOuts, pageFaults,
  named, issued, calls, late, callFaults

setupVars == <<row, worker, observer, sessions, inflight, faults>>
pageVars == <<setups, page, tasks, timer, draft, drawn, signOuts, pageFaults>>
controlVars == <<named, issued, calls, late, callFaults>>

-----------------------------------------------------------------------------
Overlap == INSTANCE ConnectionSetup WITH
  Keys <- {k1}, Numbers <- {n1}, Workers <- {p1, p2}, Observers <- {q1, q2},
  Limit <- 1, Lease <- 2, Life <- 3, LateCreates <- FALSE, Prompt <- {"create", "posted"},
  MaxSessions <- 2, MaxFaults <- 2, setup <- row

Delayed == INSTANCE ConnectionSetup WITH
  Keys <- {k1}, Numbers <- {n1}, Workers <- {p1, p2}, Observers <- {q1, q2},
  Limit <- 1, Lease <- 2, Life <- 3, LateCreates <- TRUE, Prompt <- {},
  MaxSessions <- 2, MaxFaults <- 2, setup <- row

Two == INSTANCE ConnectionSetup WITH
  Keys <- {k1, k2}, Numbers <- {n1}, Workers <- {p1}, Observers <- {q1},
  Limit <- 2, Lease <- 2, Life <- 3, LateCreates <- FALSE, Prompt <- {"create", "posted"},
  MaxSessions <- 2, MaxFaults <- 1, setup <- row

Page == INSTANCE SetupPage WITH
  MaxKeys <- 2, Drafts <- 0, SignOuts <- 1, Faults <- 1, BodyLater <- FALSE, faults <- pageFaults

Bodies == INSTANCE SetupPage WITH
  MaxKeys <- 2, Drafts <- 1, SignOuts <- 1, Faults <- 1, BodyLater <- TRUE, faults <- pageFaults

Concurrent == INSTANCE ProviderControl WITH
  Callers <- {p1, p2}, Markers <- {m1}, Ids <- {q1, q2}, Credentials <- {"whole"}, Delays <- {0},
  Operations <- {"create", "delete", "repair", "connect", "reconcile"},
  MaxAttempts <- 2, AttemptLimit <- 1, ReadLimit <- 2, WriteLimit <- 1, Late <- FALSE, Faults <- 1,
  sessions <- named, faults <- callFaults

Unawaited == INSTANCE ProviderControl WITH
  Callers <- {p1, p2}, Markers <- {m1}, Ids <- {q1, q2}, Credentials <- {"whole"}, Delays <- {0},
  Operations <- {"create", "delete", "reconcile"},
  MaxAttempts <- 1, AttemptLimit <- 1, ReadLimit <- 1, WriteLimit <- 1, Late <- TRUE, Faults <- 1,
  sessions <- named, faults <- callFaults

Budget == INSTANCE ProviderControl WITH
  Callers <- {p1}, Markers <- {m1}, Ids <- {q1, q2}, Credentials <- {"whole", "missing"},
  Delays <- {0, 1},
  Operations <- {"create", "delete", "repair", "connect", "disconnect", "reconcile", "getQrCode", "verify"},
  MaxAttempts <- 3, AttemptLimit <- 2, ReadLimit <- 4, WriteLimit <- 2, Late <- FALSE, Faults <- 2,
  sessions <- named, faults <- callFaults

ASSUME Overlap!SetupAssumption /\ Delayed!SetupAssumption /\ Two!SetupAssumption
ASSUME Page!SetupPageAssumption /\ Bodies!SetupPageAssumption
ASSUME /\ Concurrent!ProviderControlAssumption /\ Unawaited!ProviderControlAssumption
       /\ Budget!ProviderControlAssumption

-----------------------------------------------------------------------------
RunInit ==
  /\ part \in {"activation", "overlap", "late", "numbers", "page", "bodies",
               "callers", "unawaited", "budget"}
  /\ Init
  /\ IF part = "numbers" THEN Two!Init ELSE Overlap!Init
  /\ Page!Init
  /\ CASE part = "budget" -> Budget!Init
       [] part \in {"callers", "unawaited"} -> Concurrent!Init
       [] OTHER -> Concurrent!Init /\ issued = {}

RunNext ==
  \/ part = "activation" /\ Next /\ UNCHANGED <<part, setupVars, pageVars, controlVars>>
  \/ /\ \/ part = "overlap" /\ Overlap!Next
        \/ part = "late" /\ Delayed!Next
        \/ part = "numbers" /\ Two!Next
     /\ UNCHANGED <<part, vars, pageVars, controlVars>>
  \/ /\ \/ part = "page" /\ Page!Next
        \/ part = "bodies" /\ Bodies!Next
     /\ UNCHANGED <<part, vars, setupVars, controlVars>>
  \/ /\ \/ part = "callers" /\ Concurrent!Next
        \/ part = "unawaited" /\ Unawaited!Next
        \/ part = "budget" /\ Budget!Next
     /\ UNCHANGED <<part, vars, setupVars, pageVars>>

RunSpec == RunInit /\ [][RunNext]_<<part, vars, setupVars, pageVars, controlVars>>

Symmetry == Permutations({p1, p2}) \cup Permutations({q1, q2})

-----------------------------------------------------------------------------
\* A number is released for another setup only when no session and no create is left under
\* the marker; a setup that may be activated has the one session whose credentials it
\* stores, and keeps it whatever arrives late; two setups never have sessions for one
\* number (connection-setup.ts, claim_connection_setup_cleanup).
SessionsAccounted ==
  CASE part = "overlap" -> Overlap!UsableIsUnique /\ Overlap!ReleasedWithoutSession
    [] part = "late" -> Delayed!StoredSessionStays
    [] part = "numbers" -> Two!OneSetupPerNumber
    [] OTHER -> TRUE

\* The page starts one setup for one draft however often it is pressed, shows the code of
\* the setup it names, polls in one loop, says cancelled of what the server cancelled, and
\* is quiet once it is left (public-boundary-journey.tsx).
PageFollowsSetup ==
  CASE part = "page" -> /\ Page!OneSetupPerDraft /\ Page!QrIsOfSetup /\ Page!OneLoop
                        /\ Page!QuietAfterLeaving
    [] part = "bodies" -> /\ Bodies!OneSetupPerDraft /\ Bodies!QrIsOfSetup /\ Bodies!OneLoop
                          /\ Bodies!CancelledIsCancelled
    [] OTHER -> TRUE

\* What a lifecycle call answers is what is there: a failure called definitive changed
\* nothing, a session answered is configured, a deletion answered is done, two callers are
\* given one session; and a read stays within its attempts and its time
\* (control-wasender.ts).
ControlIsTruthful ==
  CASE part = "callers" -> /\ Concurrent!DefinitiveMeansUndone /\ Concurrent!OneSessionPerMarker
                           /\ Concurrent!AnsweredIsConfigured
    [] part = "unawaited" -> /\ Unawaited!DefinitiveMeansUndone /\ Unawaited!AnswersAgree
                             /\ Unawaited!AnsweredIsConfigured /\ Unawaited!AbsentIsGone
    [] part = "budget" -> Budget!ReadWithinBudget
    [] OTHER -> TRUE
=============================================================================
