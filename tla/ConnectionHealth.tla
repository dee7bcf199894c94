-------------------------- MODULE ConnectionHealth --------------------------
(***************************************************************************)
(* The state of one active WhatsApp Connection and its Ingestion Gaps.     *)
(* Three writers share the row: the five-minute health cron (Checks), the  *)
(* disconnect and reconnect requests of the User (Calls), and connection   *)
(* state items of webhooks.  Each orders what it knows by its own rule:    *)
(* claims with leases, the moment a check started, the snapshot a webhook  *)
(* must be newer than.                                                     *)
(*                                                                         *)
(* The provider's session is up, down or misconfigured (drift); outages    *)
(* keeps, for the properties, when it could not deliver, and conn.seen the *)
(* moment at which what the row says was true.  The convergence version of *)
(* a webhook item is its occurrence, so the two are one field here.        *)
(***************************************************************************)
EXTENDS Integers, Sequences

CONSTANTS Checks, Calls, None,
          Bin,             \* the five minutes between two checks
          HealthLease,     \* four minutes
          LifecycleLease,  \* two minutes
          States,          \* session states the provider may move to
          Drift, Repairs,  \* webhook drift may happen; outcomes of a repair
          Prompt,          \* a check ends in the moment it reads
          MaxTime, MaxChanges, MaxCalls, MaxFaults, MaxIncidents

ASSUME HealthAssumption ==
  /\ None \notin Int
  /\ Bin \in Nat \ {0} /\ HealthLease \in Nat \ {0} /\ LifecycleLease \in Nat \ {0}
  /\ States \subseteq {"connected", "connecting", "disconnected", "reconnect_required",
                  "absent", "duplicates"}
  /\ Drift \in BOOLEAN /\ Repairs \subseteq BOOLEAN /\ Prompt \in BOOLEAN
  /\ MaxTime \in Nat \ {0} /\ {MaxChanges, MaxCalls, MaxFaults, MaxIncidents} \subseteq Nat

VARIABLES now, conn, gaps, check, call,
          session,   \* the provider's session and whether its webhook drifted
          outages,   \* when the session could not deliver
          events,    \* connection state webhooks on their way
          lapses,    \* stretches without a completed check
          incident,  \* a measured ingress outage and what was reported of it
          used       \* bounds

vars == <<now, conn, gaps, check, call, session, outages, events, lapses, incident, used>>

NoClaim == [owner |-> None, until |-> 0]
NoCheck == [step |-> "idle", started |-> 0, read |-> 0, found |-> 0, result |-> None]
NoCall == [step |-> "idle", action |-> None, state |-> None, read |-> 0]

Init ==
  /\ now = 1
  /\ conn = [state |-> "connected", changed |-> 0, occurred |-> None, received |-> 0,
             snapshot |-> 0, checked |-> -1, confirmed |-> 0,
             health |-> NoClaim, lifecycle |-> NoClaim, seen |-> 0, last |-> 0]
  /\ gaps = {} /\ lapses = {}
  /\ check = [c \in Checks |-> NoCheck]
  /\ call = [u \in Calls |-> NoCall]
  /\ session = [state |-> "connected", drift |-> FALSE]
  /\ outages = <<>>
  /\ events = {}
  /\ incident = [from |-> 0, rejected |-> FALSE]
  /\ used = [changes |-> 0, calls |-> 0, faults |-> 0, incidents |-> 0]

Later(a, b) == IF a > b THEN a ELSE b
Free(claim) == claim.owner = None \/ claim.until <= now
Fault == used.faults < MaxFaults /\ used' = [used EXCEPT !.faults = @ + 1]

Tick ==
  /\ now < MaxTime
  /\ Prompt => \A c \in Checks : check[c].step \notin {"repair", "finish"}
  /\ now' = now + 1
  /\ UNCHANGED <<conn, gaps, check, call, session, outages, events, lapses, incident, used>>

-----------------------------------------------------------------------------
(* The provider.                                                           *)

Up(s) == s.state = "connected" /\ ~s.drift
Ongoing == IF outages # <<>> /\ outages[Len(outages)].to = None THEN Len(outages) ELSE 0

(* No session has the marker of the Connection, or several have it.        *)
Single(s) == s.state \notin {"absent", "duplicates"}

(* The session changes; the provider sends a webhook for a change of state.*)
Move(s) ==
  /\ session' = s
  /\ outages' = IF Up(session) /\ ~Up(s)
                THEN Append(outages, [from |-> now, to |-> None, found |-> FALSE])
                ELSE IF ~Up(session) /\ Up(s)
                THEN [outages EXCEPT ![Ongoing].to = now]
                ELSE outages
  /\ events' = IF s.state = session.state \/ ~Single(s) THEN events
               ELSE events \union {[state |-> s.state, occurred |-> now, received |-> None]}

Change ==
  /\ used.changes < MaxChanges
  /\ used' = [used EXCEPT !.changes = @ + 1]
  /\ \/ \E s \in States \ {session.state} : Move([session EXCEPT !.state = s])
     \/ Drift /\ Move([session EXCEPT !.drift = ~@])
  /\ UNCHANGED <<now, conn, gaps, check, call, lapses, incident>>

-----------------------------------------------------------------------------
(* The health cron: claim_whatsapp_connection_health, the safe read with   *)
(* its repair, finish_whatsapp_connection_health.                          *)

Due == conn.checked < now - (now % Bin)

ClaimHealth(c) ==
  /\ check[c].step = "idle"
  /\ Free(conn.lifecycle) /\ Free(conn.health) /\ Due
  /\ conn' = [conn EXCEPT !.health = [owner |-> c, until |-> now + HealthLease]]
  /\ check' = [check EXCEPT ![c].step = "start"]
  /\ UNCHANGED <<now, gaps, call, session, outages, events, lapses, incident, used>>

StartCheck(c) ==
  /\ check[c].step = "start"
  /\ check' = [check EXCEPT ![c].step = "read", ![c].started = now]
  /\ UNCHANGED <<now, conn, gaps, call, session, outages, events, lapses, incident, used>>

Observation(state, evidence, configured) ==
  [state |-> state, evidence |-> evidence, configured |-> configured]

Unknown == Observation("degraded", "unknown", FALSE)
Drifted == Observation("degraded", "webhook_configuration", FALSE)

Normalize(s) ==
  CASE s = "connected" -> Observation("connected", "healthy", TRUE)
    [] s \in {"disconnected", "reconnect_required"} -> Observation(s, "connection_unavailable", TRUE)
    [] s = "connecting" -> Observation("degraded", "connection_unavailable", TRUE)
    [] s = "absent" -> Observation("reconnect_required", "connection_unavailable", FALSE)
    [] s = "duplicates" -> Observation("degraded", "connection_unavailable", FALSE)

Observed(c, result) == [check[c] EXCEPT !.step = "finish", !.read = now, !.found = Ongoing,
                                        !.result = result]

(* The configuration of a single session is repaired next if it drifted.   *)
ReadSession(c) ==
  /\ check[c].step = "read"
  /\ check' = [check EXCEPT ![c] =
       IF session.drift /\ Single(session)
       THEN [@ EXCEPT !.step = "repair", !.found = Ongoing]
       ELSE Observed(c, Normalize(session.state))]
  /\ UNCHANGED <<now, conn, gaps, call, session, outages, events, lapses, incident, used>>

ReadSessionFails(c) ==
  /\ check[c].step = "read" /\ Fault
  /\ check' = [check EXCEPT ![c] = Observed(c, Unknown)]
  /\ UNCHANGED <<now, conn, gaps, call, session, outages, events, lapses, incident>>

RepairSession(c) ==
  /\ check[c].step = "repair"
  /\ \/ /\ TRUE \in Repairs /\ Single(session)
        /\ Move([session EXCEPT !.drift = FALSE])
        /\ check' = [check EXCEPT ![c] = [Observed(c, Normalize(session.state))
                                          EXCEPT !.found = check[c].found]]
     \/ /\ FALSE \in Repairs \/ ~Single(session)
        /\ check' = [check EXCEPT ![c] = [Observed(c, Drifted)
                                          EXCEPT !.found = check[c].found]]
        /\ UNCHANGED <<session, outages, events>>
  /\ UNCHANGED <<now, conn, gaps, call, lapses, incident, used>>

Gap(cause, from, to, detected) == [cause |-> cause, from |-> from, to |-> to, detected |-> detected]
Active(cause) == {g \in gaps : g.cause = cause /\ g.to = None}
Close(gs, at) == {[g EXCEPT !.to = Later(g.from, at)] : g \in gs}

SupersededIfChecked(started, checked) == checked < conn.checked
Superseded(started, checked) == started <= conn.received \/ checked < conn.checked

GapStartDetected == now
GapStart == conn.confirmed
PreviousCheck == Later(0, conn.checked)

LapsedLater(started) == started > PreviousCheck + 3 * Bin
Lapsed(started) == started > PreviousCheck + 2 * Bin

ClosedByUnavailable(result) == IF result.evidence = "healthy" THEN Active("connection_unavailable") ELSE {}
Closed(result) ==
  (IF result.configured THEN Active("webhook_configuration") ELSE {})
    \union (IF result.evidence = "healthy" THEN Active("connection_unavailable") ELSE {})

Opened(result, checked) ==
  {Gap(result.evidence, GapStart, None, checked) : x \in
     IF result.evidence \in {"connection_unavailable", "webhook_configuration"}
        /\ Active(result.evidence) = {} THEN {1} ELSE {}}

Missed(started, checked) ==
  {Gap("health_check_failure", PreviousCheck, checked, checked) : x \in IF Lapsed(started) THEN {1} ELSE {}}

Completes(started, checked) ==
  lapses' = IF started > conn.last + 2 * Bin
            THEN lapses \union {[from |-> conn.last, to |-> checked]} ELSE lapses

(* The Worker stamps the check after it has read and before it commits.    *)
FinishHealth(c) ==
  /\ check[c].step = "finish"
  /\ conn.health.owner = c
  /\ \E checked \in check[c].read..now :
       LET this == check[c]
           result == this.result
       IN /\ IF Superseded(this.started, checked)
             THEN /\ conn' = [conn EXCEPT !.checked = Later(@, checked), !.health = NoClaim,
                                          !.last = Later(@, checked)]
                  /\ UNCHANGED <<gaps, outages>>
             ELSE /\ conn' = [conn EXCEPT
                       !.checked = checked,
                       !.confirmed = IF result.evidence = "healthy" THEN checked ELSE @,
                       !.health = NoClaim,
                       !.state = result.state,
                       !.changed = IF conn.state = result.state THEN @ ELSE checked,
                       !.occurred = None, !.received = checked, !.snapshot = checked,
                       !.seen = this.read, !.last = checked]
                  /\ gaps' = (gaps \ Closed(result)) \union Close(Closed(result), checked)
                               \union Opened(result, checked) \union Missed(this.started, checked)
                  /\ outages' = IF this.found = 0 \/ result = Unknown THEN outages
                                ELSE [outages EXCEPT ![this.found].found = TRUE]
          /\ Completes(this.started, checked)
  /\ check' = [check EXCEPT ![c] = NoCheck]
  /\ UNCHANGED <<now, call, session, events, incident, used>>

(* The claim was taken over, or the invocation ended (Promise.all rejects, *)
(* the Worker is evicted); a claim left behind lapses.                     *)
StopCheck(c) ==
  /\ check[c].step # "idle"
  /\ IF check[c].step = "finish" /\ conn.health.owner # c THEN UNCHANGED used ELSE Fault
  /\ check' = [check EXCEPT ![c] = NoCheck]
  /\ UNCHANGED <<now, conn, gaps, call, session, outages, events, lapses, incident>>

-----------------------------------------------------------------------------
(* Disconnect and reconnect: claim_whatsapp_connection_lifecycle, the      *)
(* reconciled write, finish_whatsapp_connection_lifecycle.  Two writes of  *)
(* the row fall in different milliseconds (Apart).                         *)

Target(action) == IF action = "disconnect" THEN "disconnected" ELSE "connected"
Pending(action) == IF action = "disconnect" THEN "degraded" ELSE "connecting"

Apart == now > conn.received \/ conn.snapshot = conn.received

Written(state, at) ==
  [conn EXCEPT !.state = state, !.changed = IF conn.state = state THEN @ ELSE Later(@, now),
               !.occurred = None, !.received = Later(@, now),
               !.snapshot = IF now > conn.received THEN now ELSE @, !.seen = at]

ClaimLifecycle(u, action) ==
  /\ call[u].step = "idle" /\ used.calls < MaxCalls /\ Apart
  /\ Free(conn.lifecycle)
  /\ conn.state # Target(action)
  /\ used' = [used EXCEPT !.calls = @ + 1]
  /\ conn' = [Written(Pending(action), now) EXCEPT
                !.lifecycle = [owner |-> u, until |-> now + LifecycleLease]]
  /\ call' = [call EXCEPT ![u] = [NoCall EXCEPT !.step = "read", !.action = action]]
  /\ UNCHANGED <<now, gaps, check, session, outages, events, lapses, incident>>

(* Already where it should be: answered at once, an old claim is dropped.  *)
AlreadyThere(action) ==
  /\ conn.lifecycle # NoClaim /\ Free(conn.lifecycle)
  /\ conn.state = Target(action)
  /\ conn' = [conn EXCEPT !.lifecycle = NoClaim]
  /\ UNCHANGED <<now, gaps, check, call, session, outages, events, lapses, incident, used>>

LifecycleState(action, s) ==
  CASE s = "absent" -> IF action = "disconnect" THEN "disconnected" ELSE "reconnect_required"
    [] s = "duplicates" -> "degraded"
    [] OTHER -> s

NeedsWrite(action, s) ==
  IF action = "disconnect" THEN s \in {"connected", "connecting"} ELSE s \in {"disconnected", "reconnect_required"}

Learns(u, step, state) == call' = [call EXCEPT ![u].step = step, ![u].state = state, ![u].read = now]

ReadLifecycle(u) ==
  /\ call[u].step = "read"
  /\ Learns(u, IF NeedsWrite(call[u].action, session.state) THEN "write" ELSE "finish",
            LifecycleState(call[u].action, session.state))
  /\ UNCHANGED <<now, conn, gaps, check, session, outages, events, lapses, incident, used>>

ReadLifecycleFails(u) ==
  /\ call[u].step \in {"read", "reread"} /\ Fault
  /\ Learns(u, "finish", "degraded")
  /\ UNCHANGED <<now, conn, gaps, check, session, outages, events, lapses, incident>>

WriteLifecycle(u) ==
  /\ call[u].step = "write"
  /\ \E s \in IF call[u].action = "disconnect" THEN {"disconnected"} ELSE {"connected", "connecting"} :
       /\ IF Single(session) THEN Move([session EXCEPT !.state = s])
          ELSE UNCHANGED <<session, outages, events>>
       /\ IF session.state = "absent" THEN Learns(u, "reread", "degraded") ELSE Learns(u, "finish", s)
  /\ UNCHANGED <<now, conn, gaps, check, lapses, incident, used>>

(* The answer of the write is lost; it was applied or not.                 *)
WriteAmbiguous(u) ==
  /\ call[u].step = "write" /\ Fault
  /\ \/ UNCHANGED <<session, outages, events>>
     \/ Single(session) /\ Move([session EXCEPT !.state = Target(call[u].action)])
  /\ Learns(u, "reread", "degraded")
  /\ UNCHANGED <<now, conn, gaps, check, lapses, incident>>

Reread(u) ==
  /\ call[u].step = "reread"
  /\ Learns(u, "finish", LifecycleState(call[u].action, session.state))
  /\ UNCHANGED <<now, conn, gaps, check, session, outages, events, lapses, incident, used>>

FinalState(action, s) ==
  IF action = "reconnect" THEN s
  ELSE IF s \in {"disconnected", "reconnect_required"} THEN "disconnected" ELSE "degraded"

Finishes(u) == conn.lifecycle.owner = u /\ now >= conn.changed

FinishLifecycle(u) ==
  /\ call[u].step = "finish" /\ Apart
  /\ conn' = IF Finishes(u)
             THEN [Written(FinalState(call[u].action, call[u].state), call[u].read)
                   EXCEPT !.lifecycle = NoClaim]
             ELSE conn
  /\ call' = [call EXCEPT ![u] = NoCall]
  /\ UNCHANGED <<now, gaps, check, session, outages, events, lapses, incident, used>>

StopCall(u) ==
  /\ call[u].step # "idle" /\ Fault
  /\ call' = [call EXCEPT ![u] = NoCall]
  /\ UNCHANGED <<now, conn, gaps, check, session, outages, events, lapses, incident>>

-----------------------------------------------------------------------------
(* Webhooks: ingress stamps the receipt, the consumer projects the state.  *)

Receive(e) ==
  /\ e.received = None
  /\ events' = (events \ {e}) \union {[e EXCEPT !.received = now]}
  /\ UNCHANGED <<now, conn, gaps, check, call, session, outages, lapses, incident, used>>

ShouldApply(e) ==
  /\ e.occurred > conn.snapshot
  /\ IF conn.occurred # None /\ e.occurred # conn.occurred
     THEN e.occurred > conn.occurred
     ELSE conn.occurred = None \/ e.received >= conn.received

ProjectConnectionState(e) ==
  /\ e.received # None
  /\ events' = events \ {e}
  /\ conn' = IF ShouldApply(e)
             THEN [conn EXCEPT !.state = e.state,
                               !.changed = IF conn.state = e.state THEN @ ELSE e.occurred,
                               !.occurred = e.occurred, !.received = e.received,
                               !.seen = e.occurred]
             ELSE conn
  /\ UNCHANGED <<now, gaps, check, call, session, outages, lapses, incident, used>>

-----------------------------------------------------------------------------
(* record_ingestion_gap_evidence: the operator reports a measured ingress  *)
(* outage with the moment it began, and later the moment it ended.         *)

IngressFails ==
  /\ incident.from = 0 /\ used.incidents < MaxIncidents
  /\ used' = [used EXCEPT !.incidents = @ + 1]
  /\ incident' = [incident EXCEPT !.from = now]
  /\ UNCHANGED <<now, conn, gaps, check, call, session, outages, events, lapses>>

ReportOpen ==
  /\ incident.from # 0 /\ ~incident.rejected /\ Active("ingress_failure") = {}
  /\ IF incident.from < GapStart
     THEN incident' = [incident EXCEPT !.rejected = TRUE] /\ UNCHANGED gaps
     ELSE gaps' = gaps \union {Gap("ingress_failure", GapStart, None, now)} /\ UNCHANGED incident
  /\ UNCHANGED <<now, conn, check, call, session, outages, events, lapses, used>>

ReportClose(at) ==
  /\ incident.from # 0 /\ Active("ingress_failure") # {}
  /\ at \in incident.from..now /\ at >= GapStart
  /\ gaps' = (gaps \ Active("ingress_failure"))
               \union {[g EXCEPT !.to = Later(g.from, at)] : g \in Active("ingress_failure")}
  /\ incident' = [incident EXCEPT !.from = 0]
  /\ UNCHANGED <<now, conn, check, call, session, outages, events, lapses, used>>

-----------------------------------------------------------------------------
Check(c) ==
  \/ ClaimHealth(c) \/ StartCheck(c) \/ ReadSession(c) \/ ReadSessionFails(c)
  \/ RepairSession(c) \/ FinishHealth(c) \/ StopCheck(c)

Call(u) ==
  \/ \E action \in {"disconnect", "reconnect"} : ClaimLifecycle(u, action)
  \/ ReadLifecycle(u) \/ ReadLifecycleFails(u) \/ WriteLifecycle(u) \/ WriteAmbiguous(u)
  \/ Reread(u) \/ FinishLifecycle(u) \/ StopCall(u)

Next ==
  \/ Tick \/ Change
  \/ \E c \in Checks : Check(c)
  \/ \E u \in Calls : Call(u)
  \/ \E action \in {"disconnect", "reconnect"} : AlreadyThere(action)
  \/ \E e \in events : Receive(e) \/ ProjectConnectionState(e)
  \/ IngressFails \/ ReportOpen
  \/ \E at \in 1..now : ReportClose(at)

Spec == Init /\ [][Next]_vars

-----------------------------------------------------------------------------
(* What the state of a Connection and its Ingestion Gaps promise.          *)

ConnectionRow ==
  /\ conn.state \in {"connected", "connecting", "disconnected", "reconnect_required", "degraded"}
  /\ conn.received \in 0..now /\ conn.snapshot \in 0..now /\ conn.seen \in 0..now
  /\ conn.checked \in -1..now /\ conn.confirmed \in 0..now /\ conn.changed \in 0..now
  /\ conn.health.owner \in Checks \union {None} /\ conn.lifecycle.owner \in Calls \union {None}

(* One gap of a cause is open at most, and it ends no earlier than it starts. *)
GapRows ==
  /\ \A g, h \in gaps : g.cause = h.cause /\ g.to = None /\ h.to = None => g = h
  /\ \A g \in gaps : g.to = None \/ g.from <= g.to

(* The shape of the state; a cause has at most one active gap (the index   *)
(* ingestion_gaps_one_active_cause) and gaps do not end before they start. *)
TypeOK ==
  /\ now \in 1..MaxTime
  /\ ConnectionRow /\ GapRows

Covered(m, causes) ==
  \E g \in gaps : g.cause \in causes /\ g.from <= m /\ (g.to = None \/ m <= g.to)

(* ADR 0022: an outage that reconciliation found is inside Ingestion Gaps  *)
(* from its first moment to its last, although the state was meanwhile     *)
(* rewritten by disconnects, reconnects and webhooks.                      *)
OutageDisclosed ==
  \A i \in DOMAIN outages : outages[i].found =>
    \A m \in outages[i].from..(IF outages[i].to = None THEN now ELSE outages[i].to) :
      Covered(m, {"connection_unavailable", "webhook_configuration"})

(* A reconciliation gap that is still active was detected after the last   *)
(* confirmed healthy point: a healthy check leaves none behind.            *)
HealthyEndsGaps ==
  \A g \in gaps : g.to = None /\ g.cause \in {"connection_unavailable", "webhook_configuration"} =>
    g.detected >= conn.confirmed

(* A check and a webhook item never replace the state by an older truth,   *)
(* whatever they overlapped with.                                          *)
KeepsNewer ==
  [][(\E c \in Checks : FinishHealth(c)) \/ (\E e \in events : ProjectConnectionState(e))
       => conn'.seen >= conn.seen]_vars

(* ADR 0022: a lapse of more than two reconciliation intervals between two *)
(* completed observations is recorded as health_check_failure.             *)
LapseDisclosed ==
  \A l \in lapses : \A m \in l.from..l.to : Covered(m, {"health_check_failure"})

(* docs/configuration.md: sends fail closed while a lifecycle command is   *)
(* reconciled, so the row does not say connected under an unexpired claim. *)
FailsClosed == ~Free(conn.lifecycle) => conn.state # "connected"

(* docs/configuration.md: a slow earlier result of a lifecycle command     *)
(* does not regress a newer state.                                         *)
NotRegressed ==
  [][\A u \in Calls : FinishLifecycle(u) /\ Finishes(u) => call[u].read >= conn.seen]_vars

(* docs/runbooks/deployment.md: a measured ingress outage is recorded with *)
(* the exact time it began.                                                *)
IncidentRecorded == ~incident.rejected
=============================================================================
