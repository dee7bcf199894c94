----------------------------- MODULE ConnectionsMC -----------------------------
(***************************************************************************)
(* A WhatsApp Connection that is there: its health and its Ingestion Gaps, *)
(* and the page that lists it.  One run explores several cases; `part` is  *)
(* the one that moves, and the others stand in an initial state:           *)
(*   order   a check that repairs, a lifecycle call and webhook items, each *)
(*           as slow as it may be                                          *)
(*   gaps    outages, found by a check that is read and stored in one      *)
(*           moment, with a lifecycle call and webhook items between       *)
(*   lapse   two checks, one of which is missed                            *)
(*   incident  a measured ingress outage, reported while checks are missed *)
(*   list    the list of connections in the browser                        *)
(***************************************************************************)
EXTENDS ConnectionHealth, TLC

CONSTANTS c1, c2, u1, n1, n2

VARIABLES part, server, list, form, tasks, page, budget

listVars == <<server, list, form, tasks, page, budget>>

Outages == INSTANCE ConnectionHealth WITH
  Checks <- {c1}, Calls <- {u1}, Bin <- 1, HealthLease <- 1, LifecycleLease <- 1,
  States <- {"disconnected"}, Drift <- TRUE, Repairs <- {FALSE}, Prompt <- TRUE,
  MaxTime <- 3, MaxChanges <- 2, MaxCalls <- 1, MaxFaults <- 0, MaxIncidents <- 0

Lapses == INSTANCE ConnectionHealth WITH
  Checks <- {c1, c2}, Calls <- {}, Bin <- 1, HealthLease <- 1, LifecycleLease <- 1,
  States <- {"absent"}, Drift <- TRUE, Repairs <- {TRUE}, Prompt <- FALSE,
  MaxTime <- 5, MaxChanges <- 0, MaxCalls <- 0, MaxFaults <- 1, MaxIncidents <- 0

Incidents == INSTANCE ConnectionHealth WITH
  Checks <- {c1}, Calls <- {}, Bin <- 1, HealthLease <- 1, LifecycleLease <- 1,
  States <- {"absent"}, Drift <- TRUE, Repairs <- {TRUE}, Prompt <- FALSE,
  MaxTime <- 4, MaxChanges <- 0, MaxCalls <- 0, MaxFaults <- 1, MaxIncidents <- 1

Listed == INSTANCE ConnectionList WITH
  Names <- {n1, n2}, Days <- {7, 30, 90}, Default <- 30, Refetches <- 1, Edits <- 1,
  Lifecycles <- 1, Deletions <- 1, Others <- 1, Faults <- 1

ASSUME /\ Outages!HealthAssumption /\ Lapses!HealthAssumption /\ Incidents!HealthAssumption
       /\ Listed!ConnectionListAssumption

-----------------------------------------------------------------------------
RunInit ==
  /\ part \in {"order", "gaps", "lapse", "incident", "list"}
  /\ CASE part = "lapse" -> Lapses!Init
       [] part = "incident" -> Incidents!Init
       [] OTHER -> Init
  /\ Listed!Init
  /\ server.entry.state = "connected" \/ (part = "list" /\ server.entry.days = 30)
  /\ server.entry.days = 30 \/ (part = "list" /\ server.entry.days = 90)

RunNext ==
  \/ /\ \/ part = "order" /\ Next
        \/ part = "gaps" /\ Outages!Next
        \/ part = "lapse" /\ Lapses!Next
        \/ part = "incident" /\ Incidents!Next
     /\ UNCHANGED <<part, listVars>>
  \/ part = "list" /\ Listed!Next /\ UNCHANGED <<part, vars>>

RunSpec == RunInit /\ [][RunNext]_<<part, vars, listVars>>

Symmetry == Permutations({c1, c2})

-----------------------------------------------------------------------------
\* An outage that a check found is inside Ingestion Gaps from its first moment to its last,
\* a healthy check leaves no gap open, and a lapse of the checks themselves is recorded
\* (connection-health.ts, docs/adr/0022).
OutagesAreDisclosed ==
  CASE part = "gaps" -> Outages!OutageDisclosed /\ Outages!HealthyEndsGaps
    [] part = "lapse" -> Lapses!LapseDisclosed
    [] part = "incident" -> Incidents!LapseDisclosed
    [] OTHER -> TRUE

\* What the browser lists follows the server: a deleted connection comes back only by
\* reading the list, a lifecycle reply leaves the policy alone, and a save replaces only a
\* policy it was shown (replaceConnection, reconcileConnectionLifecycle).
ListFollows ==
  /\ Listed!BackOnlyByReading
  /\ Listed!LifecycleKeepsPolicy
  /\ Listed!SeenPolicyIsReplaced
=============================================================================
