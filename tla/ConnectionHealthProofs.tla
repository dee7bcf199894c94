------------------------ MODULE ConnectionHealthProofs ------------------------
(***************************************************************************)
(* What ConnectionHealth promises, proved for any number of checks and     *)
(* lifecycle calls under way, any leases and any drift and repairs.        *)
(*                                                                         *)
(* The three writers of the row never meet under one lock.  What keeps     *)
(* them apart is how the moments in the row are ordered (Moments): what it *)
(* says was true (seen) when it was received or before, and either a       *)
(* webhook said so at that occurrence or the snapshot is not older.        *)
(***************************************************************************)
EXTENDS ConnectionHealth, SequenceTheorems, TLAPS

ConnectionStates == {"connected", "connecting", "disconnected", "reconnect_required", "degraded"}
Sessions == {"connected", "connecting", "disconnected", "reconnect_required", "absent", "duplicates"}
Reconciled == {"connection_unavailable", "webhook_configuration"}
Causes == Reconciled \union {"health_check_failure", "ingress_failure"}

Rows ==
  [state : ConnectionStates, changed : Nat, occurred : Nat \union {None}, received : Nat,
   snapshot : Nat, checked : Int, confirmed : Nat,
   health : [owner : Checks \union {None}, until : Nat],
   lifecycle : [owner : Calls \union {None}, until : Nat], seen : Nat, last : Nat]

Results == {Unknown, Drifted} \union {Normalize(s) : s \in Sessions}

CheckStates ==
  [step : {"idle", "start", "read", "repair", "finish"}, started : Nat, read : Nat,
   found : Nat, result : Results \union {None}]

CallStates ==
  [step : {"idle", "read", "write", "reread", "finish"},
   action : {"disconnect", "reconnect", None}, state : ConnectionStates \union {None}, read : Nat]

Gaps == [cause : Causes, from : Nat, to : Nat \union {None}, detected : Nat]
Events == [state : Sessions \ {"absent", "duplicates"}, occurred : Nat, received : Nat \union {None}]
Outages == [from : Nat, to : Nat \union {None}, found : BOOLEAN]
Used == [changes : Nat, calls : Nat, faults : Nat, incidents : Nat]

Types ==
  /\ now \in 1..MaxTime /\ conn \in Rows /\ gaps \subseteq Gaps /\ events \subseteq Events
  /\ check \in [Checks -> CheckStates] /\ call \in [Calls -> CallStates]
  /\ outages \in Seq(Outages)
  /\ session \in [state : Sessions, drift : BOOLEAN]
  /\ incident \in [from : Nat, rejected : BOOLEAN] /\ used \in Used

\* What the row says was true when it was received or before; a webhook item says when it
\* was, and of anything else the snapshot is at least as new.
Moments ==
  /\ conn.seen <= conn.received /\ conn.received <= now /\ conn.snapshot <= conn.received
  /\ conn.changed <= now /\ conn.confirmed <= conn.snapshot /\ conn.checked <= now /\ -1 <= conn.checked
  /\ IF conn.occurred = None THEN conn.seen <= conn.snapshot ELSE conn.occurred = conn.seen

\* A check read after it started, a call read before now, a webhook was sent before it came.
Underway ==
  /\ \A c \in Checks :
       /\ check[c].started <= now
       /\ check[c].step = "finish" =>
            /\ check[c].started <= check[c].read /\ check[c].read <= now
            /\ check[c].result \in Results
  /\ \A u \in Calls : /\ call[u].read <= now
                      /\ call[u].step = "finish" => call[u].state \in ConnectionStates
  /\ \A e \in events : /\ e.occurred <= now
                       /\ e.received # None => e.occurred <= e.received /\ e.received <= now

\* A cause has one active gap, gaps end after they start, and a gap of reconciliation that
\* is active was detected after the last healthy check.
Disclosed ==
  /\ \A g, h \in gaps : g.cause = h.cause /\ g.to = None /\ h.to = None => g = h
  /\ \A g \in gaps : g.to = None \/ g.from <= g.to
  /\ HealthyEndsGaps

IInv == Types /\ Moments /\ Underway /\ Disclosed

-----------------------------------------------------------------------------
LEMMA Numbers ==
  /\ None \notin Int /\ Bin \in Nat \ {0} /\ HealthLease \in Nat /\ LifecycleLease \in Nat
  /\ MaxTime \in Nat \ {0} /\ States \subseteq Sessions
BY HealthAssumption DEF Sessions

Tells(r) ==
  /\ r.state \in ConnectionStates /\ r.configured \in BOOLEAN
  /\ r.evidence \in Reconciled \union {"healthy", "unknown"}
  /\ r.evidence = "healthy" => r.configured

LEMMA ResultFacts == \A r \in Results : Tells(r)
<1>1. ASSUME NEW s \in Sessions PROVE Tells(Normalize(s))
  <2> USE DEF Observation, ConnectionStates, Reconciled, Tells
  <2>1. CASE s = "connected" BY <2>1 DEF Normalize
  <2>2. CASE s = "connecting" BY <2>2 DEF Normalize
  <2>3. CASE s \in {"disconnected", "reconnect_required"} BY <2>3 DEF Normalize
  <2>4. CASE s = "absent" BY <2>4 DEF Normalize
  <2>5. CASE s = "duplicates" BY <2>5 DEF Normalize
  <2> QED BY <2>1, <2>2, <2>3, <2>4, <2>5 DEF Sessions
<1>2. Tells(Unknown) /\ Tells(Drifted)
  BY DEF Observation, ConnectionStates, Reconciled, Tells, Unknown, Drifted
<1> QED BY <1>1, <1>2 DEF Results

LEMMA OngoingFacts == Types => Ongoing \in Nat
BY LenProperties DEF Types, Ongoing

LEMMA FaultFacts == Types /\ (Fault \/ used' = used) => used' \in Used
BY DEF Types, Fault, Used

LEMMA InitIInv == Init => IInv
<1> SUFFICES ASSUME Init PROVE IInv OBVIOUS
<1> USE Numbers DEF Init, NoClaim, NoCheck, NoCall
<1>0. 1 \in 1..MaxTime OBVIOUS
<1>1. conn \in Rows BY DEF Rows, ConnectionStates
<1>2. check \in [Checks -> CheckStates] BY DEF CheckStates
<1>3. call \in [Calls -> CallStates] BY DEF CallStates
<1>4. outages \in Seq(Outages) OBVIOUS
<1>5. Types BY <1>0, <1>1, <1>2, <1>3, <1>4 DEF Types, Sessions, Used
<1>6. Moments BY DEF Moments
<1>7. Underway BY DEF Underway
<1>8. Disclosed BY DEF Disclosed, HealthyEndsGaps
<1> QED BY <1>5, <1>6, <1>7, <1>8 DEF IInv

\* The session moves: what the other parts need to know of it.
LEMMA Moved ==
  ASSUME IInv, NEW s \in [state : Sessions, drift : BOOLEAN], Move(s)
  PROVE  /\ session' \in [state : Sessions, drift : BOOLEAN] /\ outages' \in Seq(Outages)
         /\ events' \subseteq Events
         /\ \A e \in events' : /\ e.occurred <= now
                               /\ e.received # None => e.occurred <= e.received /\ e.received <= now
<1> USE Numbers DEF IInv, Types
<1>0. now \in Nat OBVIOUS
<1>1. outages' \in Seq(Outages)
  <2>1. [from |-> now, to |-> None, found |-> FALSE] \in Outages BY DEF Outages
  <2>2. Append(outages, [from |-> now, to |-> None, found |-> FALSE]) \in Seq(Outages)
    BY <2>1, AppendProperties
  <2>3. [outages EXCEPT ![Ongoing].to = now] \in Seq(Outages)
    <3> DEFINE n == Ongoing
               entry == [outages[n] EXCEPT !.to = now]
    <3>0. outages \in [1..Len(outages) -> Outages] BY LenProperties
    <3>1. CASE n \in 1..Len(outages)
      <4>1. outages[n] \in Outages BY <3>0, <3>1
      <4>2. entry \in Outages BY <1>0, <4>1 DEF Outages
      <4>3. [outages EXCEPT ![n].to = now] = [outages EXCEPT ![n] = entry] OBVIOUS
      <4> HIDE DEF n, entry
      <4> QED BY <3>1, <4>2, <4>3, ExceptSeq DEF n
    <3>2. CASE n \notin 1..Len(outages)
      <4> HIDE DEF n
      <4>1. [outages EXCEPT ![n].to = now] = outages BY <3>0, <3>2
      <4> QED BY <4>1 DEF n
    <3> QED BY <3>1, <3>2
  <2> QED BY <2>2, <2>3 DEF Move
<1>2. Single(s) => [state |-> s.state, occurred |-> now, received |-> None] \in Events
  BY <1>0 DEF Events, Single
<1>3. events' \subseteq Events BY <1>2 DEF Move
<1>4. \A e \in events' : /\ e.occurred <= now
                         /\ e.received # None => e.occurred <= e.received /\ e.received <= now
  BY <1>0 DEF Move, Underway
<1> QED BY <1>1, <1>3, <1>4 DEF Move

-----------------------------------------------------------------------------
LEMMA TickStep == IInv /\ Tick => IInv'
<1> SUFFICES ASSUME IInv, Tick PROVE IInv' OBVIOUS
<1> USE Numbers DEF Tick, IInv
<1>1. now \in Nat /\ now' \in 1..MaxTime /\ now' = now + 1 BY DEF Types
<1>2. Types' BY <1>1 DEF Types
<1>3. Moments' BY <1>1 DEF Moments, Types, Rows
<1>4. Underway'
  <2>1. \A c \in Checks : check[c].started \in Nat /\ check[c].read \in Nat BY DEF Types, CheckStates
  <2>2. \A u \in Calls : call[u].read \in Nat BY DEF Types, CallStates
  <2>3. \A e \in events : e.occurred \in Nat /\ (e.received # None => e.received \in Nat)
    BY DEF Types, Events
  <2> QED BY <1>1, <2>1, <2>2, <2>3 DEF Underway
<1>5. Disclosed' BY DEF Disclosed, HealthyEndsGaps
<1> QED BY <1>2, <1>3, <1>4, <1>5

LEMMA ChangeStep == IInv /\ Change => IInv'
<1> SUFFICES ASSUME IInv, Change PROVE IInv' OBVIOUS
<1>1. PICK s \in [state : Sessions, drift : BOOLEAN] : Move(s)
  BY Numbers DEF Change, IInv, Types
<1>2. UNCHANGED <<now, conn, gaps, check, call, lapses, incident>> /\ used' \in Used
  BY DEF Change, IInv, Types, Used
<1>3. Types' BY <1>1, <1>2, Moved DEF IInv, Types
<1>4. Moments' /\ Disclosed' BY <1>2 DEF IInv, Moments, Disclosed, HealthyEndsGaps
<1>5. Underway' BY <1>1, <1>2, Moved DEF IInv, Underway
<1> QED BY <1>3, <1>4, <1>5 DEF IInv

\* A check that claims, starts, reads, repairs or stops leaves the row's moments alone.
LEMMA CheckingStep ==
  ASSUME NEW c \in Checks, IInv,
         \/ ClaimHealth(c) \/ StartCheck(c) \/ ReadSession(c) \/ ReadSessionFails(c)
         \/ RepairSession(c) \/ StopCheck(c)
  PROVE  IInv'
<1> USE Numbers DEF IInv
<1>0. now \in Nat /\ now \in 1..MaxTime BY DEF Types
<1>1. UNCHANGED <<now, gaps, call, lapses, incident>>
  BY DEF ClaimHealth, StartCheck, ReadSession, ReadSessionFails, RepairSession, StopCheck
<1>2. used' \in Used
  <2>1. Fault \/ used' = used
    BY DEF ClaimHealth, StartCheck, ReadSession, ReadSessionFails, RepairSession, StopCheck
  <2> QED BY <2>1, FaultFacts
<1>3. /\ conn' \in Rows
      /\ conn'.seen = conn.seen /\ conn'.received = conn.received /\ conn'.snapshot = conn.snapshot
      /\ conn'.changed = conn.changed /\ conn'.confirmed = conn.confirmed
      /\ conn'.checked = conn.checked /\ conn'.occurred = conn.occurred
  <2>1. CASE ClaimHealth(c)
    <3>1. [owner |-> c, until |-> now + HealthLease] \in [owner : Checks \union {None}, until : Nat]
      BY <1>0
    <3> QED BY <2>1, <3>1 DEF ClaimHealth, Types, Rows
  <2>2. CASE ~ClaimHealth(c)
    <3>1. conn' = conn BY <2>2 DEF StartCheck, ReadSession, ReadSessionFails, RepairSession, StopCheck
    <3> QED BY <3>1 DEF Types
  <2> QED BY <2>1, <2>2
<1>4. /\ session' \in [state : Sessions, drift : BOOLEAN] /\ outages' \in Seq(Outages)
      /\ events' \subseteq Events
      /\ \A e \in events' : /\ e.occurred <= now
                            /\ e.received # None => e.occurred <= e.received /\ e.received <= now
  <2>1. CASE RepairSession(c) /\ Move([session EXCEPT !.drift = FALSE])
    <3>1. [session EXCEPT !.drift = FALSE] \in [state : Sessions, drift : BOOLEAN] BY DEF Types
    <3> QED BY <2>1, <3>1, Moved
  <2>2. CASE UNCHANGED <<session, outages, events>> BY <2>2 DEF Types, Underway
  <2> QED BY <2>1, <2>2 DEF ClaimHealth, StartCheck, ReadSession, ReadSessionFails, RepairSession, StopCheck
<1>5. /\ check' \in [Checks -> CheckStates]
      /\ \A b \in Checks :
           /\ check'[b].started <= now
           /\ check'[b].step = "finish" =>
                /\ check'[b].started <= check'[b].read /\ check'[b].read <= now
                /\ check'[b].result \in Results
  <2> DEFINE Fine(k) == /\ k \in CheckStates /\ k.started <= now
                        /\ k.step = "finish" => /\ k.started <= k.read /\ k.read <= now
                                                /\ k.result \in Results
  <2>0. check \in [Checks -> CheckStates] /\ \A b \in Checks : Fine(check[b]) BY DEF Types, Underway
  <2>a. Ongoing \in Nat BY OngoingFacts
  <2>b. Normalize(session.state) \in Results /\ Unknown \in Results /\ Drifted \in Results
    BY DEF Types, Results
  <2>1. PICK k : Fine(k) /\ check' = [check EXCEPT ![c] = k]
    <3>0. check[c] \in CheckStates /\ check[c].started <= now /\ check[c].found \in Nat BY <2>0 DEF CheckStates
    <3>1. CASE ClaimHealth(c)
      <4>1. Fine([check[c] EXCEPT !.step = "start"]) BY <3>0 DEF CheckStates
      <4> QED BY <3>1, <4>1 DEF ClaimHealth
    <3>2. CASE StartCheck(c)
      <4>1. [check[c] EXCEPT !.step = "read", !.started = now] \in CheckStates
        BY <1>0, <3>0 DEF CheckStates
      <4>2. /\ [check[c] EXCEPT !.step = "read", !.started = now].started = now
            /\ [check[c] EXCEPT !.step = "read", !.started = now].step = "read"
        BY <3>0 DEF CheckStates
      <4>3. Fine([check[c] EXCEPT !.step = "read", !.started = now]) BY <1>0, <4>1, <4>2
      <4> QED BY <3>2, <4>3 DEF StartCheck
    <3>3. ASSUME NEW r \in Results PROVE Fine(Observed(c, r))
      <4>1. Observed(c, r) \in CheckStates BY <1>0, <2>a, <3>0 DEF CheckStates, Observed
      <4>2. /\ Observed(c, r).started = check[c].started /\ Observed(c, r).read = now
            /\ Observed(c, r).result = r
        BY <3>0 DEF CheckStates, Observed
      <4> HIDE DEF Observed
      <4> QED BY <1>0, <3>0, <4>1, <4>2
    <3>4. ASSUME NEW r \in Results PROVE Fine([Observed(c, r) EXCEPT !.found = check[c].found])
      <4>1. Fine(Observed(c, r)) BY <3>3
      <4> HIDE DEF Observed
      <4> QED BY <3>0, <4>1 DEF CheckStates
    <3>5. CASE ReadSession(c)
      <4>1. Fine([check[c] EXCEPT !.step = "repair", !.found = Ongoing]) BY <2>a, <3>0 DEF CheckStates
      <4>2. Fine(Observed(c, Normalize(session.state))) BY <2>b, <3>3
      <4> QED BY <3>5, <4>1, <4>2 DEF ReadSession
    <3>6. CASE ReadSessionFails(c) BY <2>b, <3>3, <3>6 DEF ReadSessionFails
    <3>7. CASE RepairSession(c) BY <2>b, <3>4, <3>7 DEF RepairSession
    <3>8. CASE StopCheck(c)
      <4>1. Fine(NoCheck) BY <1>0 DEF NoCheck, CheckStates
      <4> QED BY <3>8, <4>1 DEF StopCheck
    <3> QED BY <3>1, <3>2, <3>5, <3>6, <3>7, <3>8
  <2>2. check' \in [Checks -> CheckStates] /\ \A b \in Checks : Fine(check'[b])
    <3> HIDE DEF Fine
    <3>1. k \in CheckStates BY <2>1 DEF Fine
    <3> QED BY <2>0, <2>1, <3>1
  <2> QED BY <2>2
<1>6. Types' BY <1>0, <1>1, <1>2, <1>3, <1>4, <1>5 DEF Types
<1>7. Moments' BY <1>1, <1>3 DEF Moments
<1>8. Underway' BY <1>1, <1>4, <1>5 DEF Underway
<1>9. Disclosed' BY <1>1, <1>3 DEF Disclosed, HealthyEndsGaps
<1> QED BY <1>6, <1>7, <1>8, <1>9

-----------------------------------------------------------------------------
\* The gaps after a check that stores what it found.
LEMMA GapsAfterCheck ==
  ASSUME IInv, NEW r \in Results, NEW started \in Nat, NEW checked \in Nat,
         checked >= conn.confirmed, checked >= conn.checked, NEW confirmed,
         confirmed = IF r.evidence = "healthy" THEN checked ELSE conn.confirmed,
         NEW after, after = (gaps \ Closed(r)) \union Close(Closed(r), checked)
                              \union Opened(r, checked) \union Missed(started, checked)
  PROVE  /\ after \subseteq Gaps
         /\ \A g, h \in after : g.cause = h.cause /\ g.to = None /\ h.to = None => g = h
         /\ \A g \in after : g.to = None \/ g.from <= g.to
         /\ \A g \in after : g.to = None /\ g.cause \in Reconciled => g.detected >= confirmed
<1> USE Numbers DEF IInv
<1>0. conn.confirmed \in Nat /\ conn.checked \in Int /\ gaps \subseteq Gaps
  BY DEF Types, Rows
<1>1. Tells(r) BY ResultFacts
<1>2. \A g \in Closed(r) : g \in gaps /\ g.to = None BY DEF Closed, Active
<1>3. \A g \in Close(Closed(r), checked) : /\ g \in Gaps /\ g.to \in Nat /\ g.from <= g.to
  <2>1. ASSUME NEW g \in Closed(r)
        PROVE  /\ [g EXCEPT !.to = Later(g.from, checked)] \in Gaps
               /\ [g EXCEPT !.to = Later(g.from, checked)].to \in Nat
               /\ [g EXCEPT !.to = Later(g.from, checked)].from <= [g EXCEPT !.to = Later(g.from, checked)].to
    <3>1. g \in Gaps BY <1>0, <1>2
    <3>2. g.from \in Nat /\ Later(g.from, checked) \in Nat /\ g.from <= Later(g.from, checked)
      BY <1>0, <3>1 DEF Gaps, Later
    <3> HIDE DEF Later
    <3> QED BY <3>1, <3>2 DEF Gaps
  <2> QED BY <2>1 DEF Close
<1>4. \A g \in Opened(r, checked) : /\ g \in Gaps /\ g.to = None /\ g.cause = r.evidence /\ g.detected = checked
                           /\ r.evidence \in Reconciled /\ Active(r.evidence) = {}
                           /\ g = Gap(r.evidence, GapStart, None, checked)
  BY <1>0 DEF Opened, Gap, Gaps, GapStart, Reconciled, Causes
<1>5. \A g \in Missed(started, checked) : /\ g \in Gaps /\ g.to = checked /\ g.from <= g.to
  <2>1. PreviousCheck \in Nat /\ PreviousCheck <= checked BY <1>0 DEF PreviousCheck, Later
  <2> QED BY <1>0, <2>1 DEF Missed, Gap, Gaps, Causes
<1>6. after \subseteq Gaps BY <1>0, <1>3, <1>4, <1>5
<1>7. \A g \in after : g.to = None => (g \in gaps /\ g \notin Closed(r)) \/ g \in Opened(r, checked)
  BY <1>0, <1>3, <1>5
<1>8. ASSUME NEW g \in after, NEW h \in after, g.cause = h.cause, g.to = None, h.to = None
      PROVE  g = h
  <2>1. CASE g \in gaps /\ h \in gaps BY <1>8, <2>1 DEF Disclosed
  <2>2. CASE g \in Opened(r, checked) /\ h \in Opened(r, checked) BY <1>4, <2>2
  <2>3. CASE g \in gaps /\ h \in Opened(r, checked) BY <1>4, <1>8, <2>3 DEF Active
  <2>4. CASE g \in Opened(r, checked) /\ h \in gaps BY <1>4, <1>8, <2>4 DEF Active
  <2> QED BY <1>7, <1>8, <2>1, <2>2, <2>3, <2>4
<1>9. ASSUME NEW g \in after PROVE g.to = None \/ g.from <= g.to
  <2>1. CASE g \in gaps BY <2>1 DEF Disclosed
  <2> QED BY <1>3, <1>4, <1>5, <2>1
<1>10. ASSUME NEW g \in after, g.to = None, g.cause \in Reconciled PROVE g.detected >= confirmed
  <2>1. CASE g \in Opened(r, checked) BY <1>0, <1>4, <2>1
  <2>2. CASE g \in gaps /\ g \notin Closed(r)
    <3>1. r.evidence # "healthy" BY <1>1, <1>10, <2>2 DEF Closed, Active, Reconciled, Tells
    <3>2. g.detected >= conn.confirmed BY <1>10, <2>2 DEF Disclosed, HealthyEndsGaps, Reconciled
    <3> QED BY <3>1, <3>2
  <2> QED BY <1>7, <1>10, <2>1, <2>2
<1> QED BY <1>6, <1>8, <1>9, <1>10

LEMMA FoundMarked ==
  ASSUME Types, NEW n \in Nat
  PROVE  [outages EXCEPT ![n].found = TRUE] \in Seq(Outages)
<1>0. outages \in Seq(Outages) /\ outages \in [1..Len(outages) -> Outages] BY LenProperties DEF Types
<1>1. CASE n \in 1..Len(outages)
  <2> DEFINE entry == [outages[n] EXCEPT !.found = TRUE]
  <2>1. outages[n] \in Outages BY <1>0, <1>1
  <2>2. entry \in Outages BY <2>1 DEF Outages
  <2>3. [outages EXCEPT ![n].found = TRUE] = [outages EXCEPT ![n] = entry] OBVIOUS
  <2> HIDE DEF entry
  <2> QED BY <1>0, <1>1, <2>2, <2>3, ExceptSeq
<1>2. CASE n \notin 1..Len(outages)
  <2>1. [outages EXCEPT ![n].found = TRUE] = outages BY <1>0, <1>2
  <2> QED BY <1>0, <2>1
<1> QED BY <1>1, <1>2

\* What a check leaves in the row, superseded or not.
LEMMA RowAfterCheck ==
  ASSUME NEW c \in Checks, IInv, FinishHealth(c)
  PROVE  /\ conn' \in Rows /\ Moments' /\ conn.seen <= conn'.seen
         /\ \/ /\ conn'.confirmed = conn.confirmed /\ UNCHANGED <<gaps, outages>>
            \/ \E checked \in Nat :
                 /\ checked >= conn.confirmed /\ checked >= conn.checked
                 /\ conn'.confirmed = IF check[c].result.evidence = "healthy" THEN checked ELSE conn.confirmed
                 /\ gaps' = (gaps \ Closed(check[c].result)) \union Close(Closed(check[c].result), checked)
                            \union Opened(check[c].result, checked) \union Missed(check[c].started, checked)
                 /\ \/ outages' = outages
                    \/ outages' = [outages EXCEPT ![check[c].found].found = TRUE]
<1> USE Numbers DEF IInv
<1> DEFINE this == check[c]
<1>0. /\ now \in Nat /\ conn \in Rows /\ now' = now
      /\ this \in CheckStates /\ this.step = "finish" /\ this.started \in Nat /\ this.read \in Nat
      /\ this.started <= this.read /\ this.read <= now /\ this.result \in Results
      /\ this.result.state \in ConnectionStates
  <2>1. this.result \in Results BY DEF FinishHealth, Underway
  <2> QED BY <2>1, ResultFacts DEF FinishHealth, Types, Underway, CheckStates, Tells
<1>1. /\ conn.seen \in Nat /\ conn.received \in Nat /\ conn.snapshot \in Nat /\ conn.changed \in Nat
      /\ conn.confirmed \in Nat /\ conn.checked \in Int /\ conn.state \in ConnectionStates
      /\ conn.seen <= conn.received /\ conn.received <= now /\ conn.snapshot <= conn.received
      /\ conn.changed <= now /\ conn.confirmed <= conn.snapshot /\ conn.checked <= now /\ -1 <= conn.checked
      /\ conn.last \in Nat
  BY <1>0 DEF Moments, Rows
<1>2. NoClaim.until \in Nat /\ NoClaim \in [owner : Checks \union {None}, until : Nat] BY DEF NoClaim
<1>a. PICK checked \in this.read..now :
        IF Superseded(this.started, checked)
        THEN /\ conn' = [conn EXCEPT !.checked = Later(@, checked), !.health = NoClaim,
                                     !.last = Later(@, checked)]
             /\ UNCHANGED <<gaps, outages>>
        ELSE /\ conn' = [conn EXCEPT
                  !.checked = checked,
                  !.confirmed = IF this.result.evidence = "healthy" THEN checked ELSE @,
                  !.health = NoClaim,
                  !.state = this.result.state,
                  !.changed = IF conn.state = this.result.state THEN @ ELSE checked,
                  !.occurred = None, !.received = checked, !.snapshot = checked,
                  !.seen = this.read, !.last = checked]
             /\ gaps' = (gaps \ Closed(this.result)) \union Close(Closed(this.result), checked)
                          \union Opened(this.result, checked) \union Missed(this.started, checked)
             /\ outages' = IF this.found = 0 \/ this.result = Unknown THEN outages
                           ELSE [outages EXCEPT ![this.found].found = TRUE]
  BY DEF FinishHealth
<1>b. checked \in Nat /\ this.read <= checked /\ checked <= now BY <1>0, <1>a
<1> HIDE DEF this
<1>3. CASE Superseded(this.started, checked)
  <2> DEFINE latest == Later(conn.checked, checked)
             last == Later(conn.last, checked)
  <2>1. conn' = [conn EXCEPT !.checked = latest, !.health = NoClaim, !.last = last]
        /\ UNCHANGED <<gaps, outages>>
    BY <1>0, <1>3, <1>a DEF Rows
  <2>2. latest \in Int /\ -1 <= latest /\ latest <= now /\ last \in Nat BY <1>0, <1>1, <1>b DEF Later
  <2> HIDE DEF latest, last
  <2>3. conn' \in Rows BY <1>0, <1>2, <2>1, <2>2 DEF Rows
  <2>4. /\ conn'.seen = conn.seen /\ conn'.received = conn.received /\ conn'.snapshot = conn.snapshot
        /\ conn'.changed = conn.changed /\ conn'.confirmed = conn.confirmed /\ conn'.checked = latest
        /\ conn'.occurred = conn.occurred
    BY <1>0, <2>1 DEF Rows
  <2>5. Moments' BY <1>0, <1>1, <2>2, <2>4 DEF Moments
  <2> QED BY <1>1, <2>1, <2>3, <2>4, <2>5
<1>4. CASE ~Superseded(this.started, checked)
  <2> DEFINE confirmed == IF this.result.evidence = "healthy" THEN checked ELSE conn.confirmed
             changed == IF conn.state = this.result.state THEN conn.changed ELSE checked
  <2>1. conn' = [conn EXCEPT
                  !.checked = checked, !.confirmed = confirmed, !.health = NoClaim,
                  !.state = this.result.state, !.changed = changed,
                  !.occurred = None, !.received = checked, !.snapshot = checked,
                  !.seen = this.read, !.last = checked]
    BY <1>0, <1>4, <1>a DEF Rows
  <2>a. conn.received < this.started /\ conn.checked <= checked /\ conn.confirmed <= checked
    BY <1>0, <1>1, <1>4, <1>b DEF Superseded
  <2>2. confirmed \in Nat /\ confirmed <= checked /\ changed \in Nat /\ changed <= now
    BY <1>0, <1>1, <1>b, <2>a
  <2>6. confirmed = IF this.result.evidence = "healthy" THEN checked ELSE conn.confirmed OBVIOUS
  <2> HIDE DEF confirmed, changed
  <2>3. conn' \in Rows
    <3>1. conn' = [state |-> this.result.state, changed |-> changed, occurred |-> None,
                   received |-> checked, snapshot |-> checked, checked |-> checked, confirmed |-> confirmed,
                   health |-> NoClaim, lifecycle |-> conn.lifecycle, seen |-> this.read, last |-> checked]
      BY <1>0, <2>1 DEF Rows
    <3>2. checked \in Int /\ conn.lifecycle \in [owner : Calls \union {None}, until : Nat]
      BY <1>0, <1>b DEF Rows
    <3> QED BY <1>0, <1>2, <1>b, <2>2, <3>1, <3>2 DEF Rows
  <2>4. /\ conn'.seen = this.read /\ conn'.received = checked /\ conn'.snapshot = checked
        /\ conn'.changed = changed /\ conn'.confirmed = confirmed /\ conn'.checked = checked
        /\ conn'.occurred = None
    BY <1>0, <2>1 DEF Rows
  <2>5. Moments' BY <1>0, <1>1, <1>b, <2>2, <2>4 DEF Moments
  <2>b. conn.seen <= conn'.seen BY <1>0, <1>1, <2>4, <2>a
  <2>7. /\ gaps' = (gaps \ Closed(this.result)) \union Close(Closed(this.result), checked)
                   \union Opened(this.result, checked) \union Missed(this.started, checked)
        /\ outages' = outages \/ outages' = [outages EXCEPT ![this.found].found = TRUE]
    BY <1>4, <1>a
  <2> QED BY <1>b, <2>3, <2>4, <2>5, <2>6, <2>7, <2>a, <2>b DEF this
<1> QED BY <1>3, <1>4

LEMMA FinishHealthStep == ASSUME NEW c \in Checks, IInv, FinishHealth(c) PROVE IInv'
<1> USE DEF IInv
<1>1. UNCHANGED <<now, call, session, events, incident, used>>
      /\ check' = [check EXCEPT ![c] = NoCheck] /\ check[c].step = "finish"
  BY DEF FinishHealth
<1>2. now \in Nat /\ check[c] \in CheckStates /\ check[c].started \in Nat /\ check[c].found \in Nat
      /\ check[c].result \in Results
  BY <1>1, Numbers DEF Types, Underway, CheckStates
<1>3. gaps' \subseteq Gaps /\ Disclosed'
  <2>1. CASE conn'.confirmed = conn.confirmed /\ UNCHANGED <<gaps, outages>>
    BY <2>1 DEF Types, Disclosed, HealthyEndsGaps
  <2>2. ASSUME NEW checked \in Nat, checked >= conn.confirmed, checked >= conn.checked,
               conn'.confirmed = IF check[c].result.evidence = "healthy" THEN checked ELSE conn.confirmed,
               gaps' = (gaps \ Closed(check[c].result)) \union Close(Closed(check[c].result), checked)
                         \union Opened(check[c].result, checked) \union Missed(check[c].started, checked)
        PROVE  gaps' \subseteq Gaps /\ Disclosed'
    <3>1. /\ gaps' \subseteq Gaps
          /\ \A g, h \in gaps' : g.cause = h.cause /\ g.to = None /\ h.to = None => g = h
          /\ \A g \in gaps' : g.to = None \/ g.from <= g.to
          /\ \A g \in gaps' : g.to = None /\ g.cause \in Reconciled => g.detected >= conn'.confirmed
      <4> DEFINE r == check[c].result
                 started == check[c].started
                 confirmed == conn'.confirmed
                 after == gaps'
      <4>1. /\ r \in Results /\ started \in Nat
            /\ confirmed = IF r.evidence = "healthy" THEN checked ELSE conn.confirmed
            /\ after = (gaps \ Closed(r)) \union Close(Closed(r), checked)
                         \union Opened(r, checked) \union Missed(started, checked)
        BY <1>2, <2>2
      <4> HIDE DEF r, started, confirmed, after
      <4>2. /\ after \subseteq Gaps
            /\ \A g, h \in after : g.cause = h.cause /\ g.to = None /\ h.to = None => g = h
            /\ \A g \in after : g.to = None \/ g.from <= g.to
            /\ \A g \in after : g.to = None /\ g.cause \in Reconciled => g.detected >= confirmed
        BY <2>2, <4>1, GapsAfterCheck
      <4> QED BY <4>2 DEF after, confirmed
    <3> QED BY <3>1 DEF Disclosed, HealthyEndsGaps, Reconciled
  <2> QED BY <2>1, <2>2, RowAfterCheck
<1>4. outages' \in Seq(Outages)
  <2>1. Types /\ outages \in Seq(Outages) BY DEF Types
  <2> HIDE DEF IInv
  <2>2. [outages EXCEPT ![check[c].found].found = TRUE] \in Seq(Outages) BY <1>2, <2>1, FoundMarked
  <2>3. outages' = outages \/ outages' = [outages EXCEPT ![check[c].found].found = TRUE]
    BY RowAfterCheck
  <2> QED BY <2>1, <2>2, <2>3
<1>5. NoCheck \in CheckStates /\ NoCheck.started = 0 /\ NoCheck.step = "idle"
  BY DEF NoCheck, CheckStates
<1>6. Types' BY <1>1, <1>3, <1>4, <1>5, RowAfterCheck DEF Types
<1>7. Underway' BY <1>1, <1>2, <1>5 DEF Underway, Types
<1> QED BY <1>3, <1>6, <1>7, RowAfterCheck

-----------------------------------------------------------------------------
\* The row after a lifecycle call writes what was true at `at`: two writes lie apart, so the
\* snapshot is taken now.
LEMMA RowAfterWrite ==
  ASSUME IInv, Apart, NEW state \in ConnectionStates, NEW at \in Nat, at <= now
  PROVE  /\ Written(state, at) \in Rows /\ conn.confirmed <= now
         /\ Written(state, at).seen = at /\ Written(state, at).occurred = None
         /\ Written(state, at).snapshot = now /\ Written(state, at).received = now
         /\ Written(state, at).checked = conn.checked /\ Written(state, at).confirmed = conn.confirmed
         /\ Written(state, at).changed <= now
<1> USE DEF IInv
<1>0. now \in Nat /\ conn \in Rows BY Numbers DEF Types
<1>1. /\ conn.received \in Nat /\ conn.snapshot \in Nat /\ conn.changed \in Nat
      /\ conn.received <= now /\ conn.snapshot <= conn.received /\ conn.changed <= now
      /\ conn.confirmed \in Nat /\ conn.confirmed <= now
  BY <1>0 DEF Moments, Rows
<1>2. Later(conn.received, now) = now /\ Later(conn.changed, now) = now BY <1>0, <1>1 DEF Later
<1>3. (IF now > conn.received THEN now ELSE conn.snapshot) = now BY <1>0, <1>1 DEF Apart
<1> DEFINE changed == IF conn.state = state THEN conn.changed ELSE now
<1>4. changed \in Nat /\ changed <= now BY <1>0, <1>1
<1>a. Written(state, at) =
        [conn EXCEPT !.state = state, !.changed = changed, !.occurred = None, !.received = now,
                     !.snapshot = now, !.seen = at]
  BY <1>0, <1>2, <1>3 DEF Written, Rows
<1>5. Written(state, at) =
        [state |-> state, changed |-> changed, occurred |-> None, received |-> now, snapshot |-> now,
         checked |-> conn.checked, confirmed |-> conn.confirmed, health |-> conn.health,
         lifecycle |-> conn.lifecycle, seen |-> at, last |-> conn.last]
  <2> HIDE DEF changed
  <2> QED BY <1>0, <1>a DEF Rows
<1> HIDE DEF changed
<1> QED BY <1>0, <1>1, <1>4, <1>5 DEF Rows

LEMMA ClaimLifecycleStep ==
  ASSUME NEW u \in Calls, NEW action \in {"disconnect", "reconnect"}, IInv, ClaimLifecycle(u, action)
  PROVE  IInv'
<1> USE DEF IInv
<1>0. now \in Nat /\ now <= now BY Numbers DEF Types
<1> DEFINE row == Written(Pending(action), now)
           claim == [owner |-> u, until |-> now + LifecycleLease]
<1>1. /\ conn' = [row EXCEPT !.lifecycle = claim]
      /\ used' = [used EXCEPT !.calls = @ + 1]
      /\ call' = [call EXCEPT ![u] = [NoCall EXCEPT !.step = "read", !.action = action]]
      /\ Apart /\ UNCHANGED <<now, gaps, check, session, outages, events, lapses, incident>>
  BY DEF ClaimLifecycle
<1>2. Pending(action) \in ConnectionStates BY DEF Pending, ConnectionStates
<1>3. /\ row \in Rows /\ row.seen = now /\ row.occurred = None /\ row.snapshot = now /\ row.received = now
      /\ row.checked = conn.checked /\ row.confirmed = conn.confirmed /\ row.changed <= now
      /\ conn.confirmed <= now
  BY <1>0, <1>1, <1>2, RowAfterWrite
<1>4. claim \in [owner : Calls \union {None}, until : Nat] BY <1>0, Numbers
<1> HIDE DEF row, claim
<1>5. conn' \in Rows /\ conn'.seen = now /\ conn'.occurred = None /\ conn'.snapshot = now
      /\ conn'.received = now /\ conn'.checked = conn.checked /\ conn'.confirmed = conn.confirmed
      /\ conn'.changed <= now /\ conn'.confirmed <= now
  BY <1>1, <1>3, <1>4 DEF Rows
<1>6. [NoCall EXCEPT !.step = "read", !.action = action] \in CallStates BY DEF NoCall, CallStates
<1>7. used' \in Used BY <1>1 DEF Types, Used
<1>8. Types' BY <1>1, <1>5, <1>6, <1>7 DEF Types
<1>9. Moments' BY <1>0, <1>1, <1>5 DEF Moments
<1>10. Underway' BY <1>0, <1>1, <1>6 DEF Underway, Types, NoCall
<1>11. Disclosed' BY <1>1, <1>5 DEF Disclosed, HealthyEndsGaps
<1> QED BY <1>8, <1>9, <1>10, <1>11

LEMMA FinishLifecycleStep == ASSUME NEW u \in Calls, IInv, FinishLifecycle(u) PROVE IInv'
<1> USE DEF IInv
<1>0. now \in Nat /\ call[u] \in CallStates BY Numbers DEF Types
<1>1. /\ call[u].step = "finish" /\ Apart /\ call' = [call EXCEPT ![u] = NoCall]
      /\ UNCHANGED <<now, gaps, check, session, outages, events, lapses, incident, used>>
  BY DEF FinishLifecycle
<1> DEFINE row == Written(FinalState(call[u].action, call[u].state), call[u].read)
<1>2. conn' = conn \/ conn' = [row EXCEPT !.lifecycle = NoClaim] BY DEF FinishLifecycle
<1>3. call[u].state \in ConnectionStates /\ call[u].read \in Nat /\ call[u].read <= now
  BY <1>0, <1>1 DEF Underway, CallStates
<1>4. FinalState(call[u].action, call[u].state) \in ConnectionStates
  BY <1>3 DEF FinalState, ConnectionStates
<1>5. /\ row \in Rows /\ row.seen <= now /\ row.occurred = None /\ row.snapshot = now /\ row.received = now
      /\ row.checked = conn.checked /\ row.confirmed = conn.confirmed /\ row.changed <= now
      /\ conn.confirmed <= now
  BY <1>1, <1>3, <1>4, RowAfterWrite
<1>6. NoClaim \in [owner : Calls \union {None}, until : Nat] BY DEF NoClaim
<1> HIDE DEF row
<1>7. NoCall \in CallStates /\ NoCall.read = 0 /\ NoCall.step = "idle" BY DEF NoCall, CallStates
<1>8. conn' \in Rows /\ conn'.confirmed = conn.confirmed /\ Moments'
  <2>1. CASE conn' = conn BY <1>1, <2>1 DEF Types, Moments
  <2>2. CASE conn' = [row EXCEPT !.lifecycle = NoClaim]
    <3>1. /\ conn' \in Rows /\ conn'.seen <= now /\ conn'.occurred = None /\ conn'.snapshot = now
          /\ conn'.received = now /\ conn'.checked = conn.checked /\ conn'.confirmed = conn.confirmed
          /\ conn'.changed <= now /\ conn'.confirmed <= now
      BY <1>5, <1>6, <2>2 DEF Rows
    <3> QED BY <1>0, <1>1, <3>1 DEF Moments
  <2> QED BY <1>2, <2>1, <2>2
<1>9. Types' BY <1>1, <1>7, <1>8 DEF Types
<1>10. Underway' BY <1>0, <1>1, <1>7 DEF Underway, Types
<1>11. Disclosed' BY <1>1, <1>8 DEF Disclosed, HealthyEndsGaps
<1> QED BY <1>8, <1>9, <1>10, <1>11

\* A lifecycle call that reads, writes or stops leaves the row alone.
LEMMA CallingStep ==
  ASSUME NEW u \in Calls, IInv,
         \/ ReadLifecycle(u) \/ ReadLifecycleFails(u) \/ WriteLifecycle(u) \/ WriteAmbiguous(u)
         \/ Reread(u) \/ StopCall(u)
  PROVE  IInv'
<1> USE Numbers DEF IInv
<1>0. now \in Nat BY DEF Types
<1>1. UNCHANGED <<now, conn, gaps, check, lapses, incident>>
  BY DEF ReadLifecycle, ReadLifecycleFails, WriteLifecycle, WriteAmbiguous, Reread, StopCall
<1>2. used' \in Used
  <2>1. Fault \/ used' = used
    BY DEF ReadLifecycle, ReadLifecycleFails, WriteLifecycle, WriteAmbiguous, Reread, StopCall
  <2> QED BY <2>1, FaultFacts
<1>3. /\ session' \in [state : Sessions, drift : BOOLEAN] /\ outages' \in Seq(Outages)
      /\ events' \subseteq Events
      /\ \A e \in events' : /\ e.occurred <= now
                            /\ e.received # None => e.occurred <= e.received /\ e.received <= now
  <2>1. \/ UNCHANGED <<session, outages, events>>
        \/ \E s \in {"connected", "connecting", "disconnected"} : Move([session EXCEPT !.state = s])
    BY DEF ReadLifecycle, ReadLifecycleFails, WriteLifecycle, WriteAmbiguous, Reread, StopCall, Target
  <2>2. \A s \in {"connected", "connecting", "disconnected"} :
          [session EXCEPT !.state = s] \in [state : Sessions, drift : BOOLEAN]
    BY DEF Types, Sessions
  <2>3. UNCHANGED <<session, outages, events>> \/ \E s \in [state : Sessions, drift : BOOLEAN] : Move(s)
    BY <2>1, <2>2
  <2>4. CASE UNCHANGED <<session, outages, events>> BY <2>4 DEF Types, Underway
  <2> QED BY <2>3, <2>4, Moved
<1>4. PICK k \in CallStates :
        /\ k.read <= now /\ (k.step = "finish" => k.state \in ConnectionStates)
        /\ call' = [call EXCEPT ![u] = k]
  <2>0. call[u] \in CallStates /\ session.state \in Sessions BY DEF Types
  <2>1. ASSUME NEW step \in {"finish", "write", "reread"}, NEW state \in ConnectionStates, Learns(u, step, state)
        PROVE  \E k \in CallStates :
                 /\ k.read <= now /\ (k.step = "finish" => k.state \in ConnectionStates)
                 /\ call' = [call EXCEPT ![u] = k]
    <3> DEFINE k == [call[u] EXCEPT !.step = step, !.state = state, !.read = now]
    <3>1. k \in CallStates /\ k.read = now /\ k.state = state BY <1>0, <2>0 DEF CallStates
    <3>2. call' = [call EXCEPT ![u] = k] BY <2>1 DEF Learns
    <3> HIDE DEF k
    <3>3. k.read <= now /\ (k.step = "finish" => k.state \in ConnectionStates) BY <1>0, <3>1
    <3>4. k \in CallStates BY <3>1
    <3> QED BY <3>2, <3>3, <3>4
  <2>2. \A a : LifecycleState(a, session.state) \in ConnectionStates
    <3>1. CASE session.state = "absent" BY <3>1 DEF LifecycleState, ConnectionStates
    <3>2. CASE session.state = "duplicates" BY <3>2 DEF LifecycleState, ConnectionStates
    <3>3. CASE session.state \notin {"absent", "duplicates"}
      <4>1. \A a : LifecycleState(a, session.state) = session.state BY <3>3 DEF LifecycleState
      <4> QED BY <2>0, <3>3, <4>1 DEF Sessions, ConnectionStates
    <3> QED BY <3>1, <3>2, <3>3
  <2>3. "degraded" \in ConnectionStates /\ \A s \in {"disconnected", "connected", "connecting"} : s \in ConnectionStates
    BY DEF ConnectionStates
  <2>4. CASE StopCall(u)
    <3>1. NoCall \in CallStates /\ NoCall.read <= now /\ NoCall.step = "idle" BY <1>0 DEF NoCall, CallStates
    <3> QED BY <2>4, <3>1 DEF StopCall
  <2>5. CASE ~StopCall(u)
    <3>1. \E step \in {"finish", "write", "reread"}, state \in ConnectionStates : Learns(u, step, state)
      BY <2>2, <2>3, <2>5 DEF ReadLifecycle, ReadLifecycleFails, WriteLifecycle, WriteAmbiguous, Reread
    <3> QED BY <2>1, <3>1
  <2> QED BY <2>4, <2>5
<1>5. Types' BY <1>1, <1>2, <1>3, <1>4 DEF Types
<1>6. Moments' /\ Disclosed' BY <1>1 DEF Moments, Disclosed, HealthyEndsGaps
<1>7. Underway' BY <1>1, <1>3, <1>4 DEF Underway, Types
<1> QED BY <1>5, <1>6, <1>7

LEMMA AlreadyThereStep == ASSUME NEW action, IInv, AlreadyThere(action) PROVE IInv'
<1> USE DEF IInv
<1>1. /\ conn' = [conn EXCEPT !.lifecycle = NoClaim]
      /\ UNCHANGED <<now, gaps, check, call, session, outages, events, lapses, incident, used>>
  BY DEF AlreadyThere
<1>2. /\ conn' \in Rows
      /\ conn'.seen = conn.seen /\ conn'.received = conn.received /\ conn'.snapshot = conn.snapshot
      /\ conn'.changed = conn.changed /\ conn'.confirmed = conn.confirmed
      /\ conn'.checked = conn.checked /\ conn'.occurred = conn.occurred
  <2>1. NoClaim \in [owner : Calls \union {None}, until : Nat] BY DEF NoClaim
  <2> QED BY <1>1, <2>1 DEF Types, Rows
<1>3. Types' BY <1>1, <1>2 DEF Types
<1>4. Moments' /\ Disclosed' /\ Underway'
  BY <1>1, <1>2 DEF Moments, Disclosed, HealthyEndsGaps, Underway
<1> QED BY <1>3, <1>4

-----------------------------------------------------------------------------
LEMMA ReceiveStep == ASSUME NEW e \in events, IInv, Receive(e) PROVE IInv'
<1> USE Numbers DEF IInv
<1>0. now \in Nat /\ e \in Events BY DEF Types
<1> DEFINE item == [e EXCEPT !.received = now]
<1>1. /\ events' = (events \ {e}) \union {item}
      /\ UNCHANGED <<now, conn, gaps, check, call, session, outages, lapses, incident, used>>
  BY DEF Receive
<1>2. /\ item \in Events /\ item.received = now
      /\ item.occurred = e.occurred /\ e.occurred <= now
  BY <1>0 DEF Events, Underway
<1> HIDE DEF item
<1>3. Types' BY <1>1, <1>2 DEF Types
<1>4. Moments' /\ Disclosed' BY <1>1 DEF Moments, Disclosed, HealthyEndsGaps
<1>5. Underway' BY <1>0, <1>1, <1>2 DEF Underway
<1> QED BY <1>3, <1>4, <1>5

\* A webhook item that applies is newer than the snapshot and than the item before it.
LEMMA RowAfterItem ==
  ASSUME NEW e \in events, IInv, ProjectConnectionState(e)
  PROVE  conn' \in Rows /\ Moments' /\ conn'.confirmed = conn.confirmed /\ conn.seen <= conn'.seen
<1> USE Numbers DEF IInv
<1>0. /\ now \in Nat /\ conn \in Rows /\ now' = now /\ e \in Events /\ e.received # None
      /\ conn.seen \in Nat /\ conn.received \in Nat /\ conn.snapshot \in Nat
  <2>1. now \in Nat /\ conn \in Rows /\ e \in Events BY DEF Types
  <2>2. now' = now /\ e.received # None BY DEF ProjectConnectionState
  <2> QED BY <2>1, <2>2 DEF Rows
<1>1. /\ e.occurred \in Nat /\ e.occurred # None /\ e.received \in Nat
      /\ e.occurred <= e.received /\ e.received <= now
      /\ e.state \in ConnectionStates
  BY <1>0 DEF Events, Underway, Sessions, ConnectionStates
<1>2. CASE ~ShouldApply(e)
  <2>1. conn' = conn BY <1>2 DEF ProjectConnectionState
  <2> QED BY <1>0, <2>1 DEF Moments
<1>3. CASE ShouldApply(e)
  <2> DEFINE changed == IF conn.state = e.state THEN conn.changed ELSE e.occurred
  <2>1. conn' = [conn EXCEPT !.state = e.state, !.changed = changed, !.occurred = e.occurred,
                             !.received = e.received, !.seen = e.occurred]
    BY <1>0, <1>3 DEF ProjectConnectionState, Rows
  <2>2. changed \in Nat /\ changed <= now BY <1>0, <1>1 DEF Moments, Rows
  <2>3. conn.seen <= e.occurred
    <3>1. CASE conn.occurred = None BY <1>0, <1>1, <1>3, <3>1 DEF ShouldApply, Moments
    <3>2. CASE conn.occurred # None
      <4>1. conn.occurred = conn.seen BY <3>2 DEF Moments
      <4> QED BY <1>0, <1>1, <1>3, <3>2, <4>1 DEF ShouldApply
    <3> QED BY <3>1, <3>2
  <2>4. conn.snapshot <= e.received BY <1>0, <1>1, <1>3 DEF ShouldApply
  <2> HIDE DEF changed
  <2>5. /\ conn'.seen = e.occurred /\ conn'.received = e.received /\ conn'.snapshot = conn.snapshot
        /\ conn'.changed = changed /\ conn'.confirmed = conn.confirmed /\ conn'.checked = conn.checked
        /\ conn'.occurred = e.occurred
    BY <1>0, <2>1 DEF Rows
  <2>6. Moments' BY <1>0, <1>1, <2>2, <2>4, <2>5 DEF Moments
  <2>7. conn' \in Rows BY <1>0, <1>1, <2>1, <2>2 DEF Rows
  <2> QED BY <2>3, <2>5, <2>6, <2>7
<1> QED BY <1>2, <1>3

LEMMA ProjectStep == ASSUME NEW e \in events, IInv, ProjectConnectionState(e) PROVE IInv'
<1> USE DEF IInv
<1>1. UNCHANGED <<now, gaps, check, call, session, outages, lapses, incident, used>> /\ events' \subseteq events
  BY DEF ProjectConnectionState
<1>2. Types' BY <1>1, RowAfterItem DEF Types
<1>3. Underway' BY <1>1 DEF Underway
<1>4. Disclosed' BY <1>1, RowAfterItem DEF Disclosed, HealthyEndsGaps
<1> QED BY <1>2, <1>3, <1>4, RowAfterItem

-----------------------------------------------------------------------------
LEMMA IngressFailsStep == IInv /\ IngressFails => IInv'
<1> SUFFICES ASSUME IInv, IngressFails PROVE IInv' OBVIOUS
<1> USE DEF IInv
<1>1. now \in Nat /\ UNCHANGED <<now, conn, gaps, check, call, session, outages, events, lapses>>
  <2>1. now \in Nat BY Numbers DEF Types
  <2> QED BY <2>1 DEF IngressFails
<1>2. used' \in Used /\ incident' \in [from : Nat, rejected : BOOLEAN]
  <2>1. used \in Used /\ incident \in [from : Nat, rejected : BOOLEAN] BY DEF Types
  <2> QED BY <1>1, <2>1 DEF IngressFails, Used
<1> QED BY <1>1, <1>2 DEF Types, Moments, Underway, Disclosed, HealthyEndsGaps

LEMMA ReportOpenStep == IInv /\ ReportOpen => IInv'
<1> SUFFICES ASSUME IInv, ReportOpen PROVE IInv' OBVIOUS
<1> USE Numbers DEF IInv
<1>1. UNCHANGED <<now, conn, check, call, session, outages, events, lapses, used>> BY DEF ReportOpen
<1>2. now \in Nat /\ conn.confirmed \in Nat BY DEF Types, Rows
<1>3. gaps' \subseteq Gaps /\ Disclosed' /\ incident' \in [from : Nat, rejected : BOOLEAN]
  <2>1. CASE UNCHANGED gaps
    BY <1>1, <2>1 DEF ReportOpen, Types, Disclosed, HealthyEndsGaps
  <2>2. CASE gaps' = gaps \union {Gap("ingress_failure", GapStart, None, now)} /\ UNCHANGED incident
    <3> DEFINE new == Gap("ingress_failure", GapStart, None, now)
    <3>1. new \in Gaps /\ new.cause = "ingress_failure" /\ new.to = None
      BY <1>2 DEF Gap, GapStart, Gaps, Causes
    <3>2. \A g \in gaps : g.cause = "ingress_failure" => g.to # None BY DEF ReportOpen, Active
    <3> HIDE DEF new
    <3>3. gaps' = gaps \union {new} BY <2>2 DEF new
    <3> QED BY <1>1, <2>2, <3>1, <3>2, <3>3 DEF Types, Disclosed, HealthyEndsGaps
  <2> QED BY <2>1, <2>2 DEF ReportOpen
<1>4. Types' BY <1>1, <1>3 DEF Types
<1> QED BY <1>1, <1>3, <1>4 DEF Moments, Underway

LEMMA ReportCloseStep == ASSUME NEW at \in 1..now, IInv, ReportClose(at) PROVE IInv'
<1> USE Numbers DEF IInv
<1>1. UNCHANGED <<now, conn, check, call, session, outages, events, lapses, used>> BY DEF ReportClose
<1>2. now \in Nat /\ at \in Nat BY DEF Types
<1> DEFINE ended == {[g EXCEPT !.to = Later(g.from, at)] : g \in Active("ingress_failure")}
<1>3. gaps' = (gaps \ Active("ingress_failure")) \union ended BY DEF ReportClose
<1>4. \A g \in ended : g \in Gaps /\ g.to # None /\ g.from <= g.to
  <2>1. ASSUME NEW g \in Active("ingress_failure")
        PROVE  /\ [g EXCEPT !.to = Later(g.from, at)] \in Gaps
               /\ [g EXCEPT !.to = Later(g.from, at)].to \in Nat
               /\ [g EXCEPT !.to = Later(g.from, at)].from <= [g EXCEPT !.to = Later(g.from, at)].to
    <3>1. g \in Gaps BY DEF Active, Types
    <3>2. g.from \in Nat /\ Later(g.from, at) \in Nat /\ g.from <= Later(g.from, at)
      BY <1>2, <3>1 DEF Gaps, Later
    <3> HIDE DEF Later
    <3> QED BY <3>1, <3>2 DEF Gaps
  <2> HIDE DEF Later, Active
  <2>2. ASSUME NEW h \in ended PROVE h \in Gaps /\ h.to # None /\ h.from <= h.to
    <3>1. PICK g \in Active("ingress_failure") : h = [g EXCEPT !.to = Later(g.from, at)] OBVIOUS
    <3>2. h \in Gaps /\ h.to \in Nat /\ h.from <= h.to BY <2>1, <3>1
    <3> QED BY <3>2
  <2> QED BY <2>2
<1> HIDE DEF ended
<1>5. gaps' \subseteq Gaps BY <1>3, <1>4 DEF Types
<1>6. Disclosed' BY <1>1, <1>3, <1>4 DEF Disclosed, HealthyEndsGaps
<1>7. incident' \in [from : Nat, rejected : BOOLEAN] BY DEF ReportClose, Types
<1>8. Types' BY <1>1, <1>5, <1>7 DEF Types
<1> QED BY <1>1, <1>6, <1>8 DEF Moments, Underway

LEMMA NextIInv == IInv /\ [Next]_vars => IInv'
<1> SUFFICES ASSUME IInv, [Next]_vars PROVE IInv' OBVIOUS
<1>1. CASE Tick \/ Change BY <1>1, TickStep, ChangeStep
<1>2. ASSUME NEW c \in Checks, Check(c) PROVE IInv' BY <1>2, CheckingStep, FinishHealthStep DEF Check
<1>3. ASSUME NEW u \in Calls, Call(u) PROVE IInv'
  BY <1>3, ClaimLifecycleStep, CallingStep, FinishLifecycleStep DEF Call
<1>4. CASE \E action \in {"disconnect", "reconnect"} : AlreadyThere(action) BY <1>4, AlreadyThereStep
<1>5. CASE \E e \in events : Receive(e) \/ ProjectConnectionState(e) BY <1>5, ReceiveStep, ProjectStep
<1>6. CASE IngressFails \/ ReportOpen \/ \E at \in 1..now : ReportClose(at)
  BY <1>6, IngressFailsStep, ReportOpenStep, ReportCloseStep
<1>7. CASE UNCHANGED vars
  BY <1>7 DEF vars, IInv, Types, Moments, Underway, Disclosed, HealthyEndsGaps
<1> QED BY <1>1, <1>2, <1>3, <1>4, <1>5, <1>6, <1>7 DEF Next

THEOREM Invariance == Spec => []IInv
BY InitIInv, NextIInv, PTL DEF Spec

-----------------------------------------------------------------------------
(* The row and its gaps have their shape: no moment of the row is in the   *)
(* future, and a cause has at most one active gap, whoever opens it.       *)
THEOREM TypeCorrectness == Spec => []TypeOK
<1>1. IInv => TypeOK
  <2> SUFFICES ASSUME IInv PROVE TypeOK OBVIOUS
  <2>1. now \in 1..MaxTime /\ now \in Nat /\ conn \in Rows BY Numbers DEF IInv, Types
  <2>2. conn.state \in {"connected", "connecting", "disconnected", "reconnect_required", "degraded"}
    BY <2>1 DEF Rows, ConnectionStates
  <2>3. /\ conn.received \in 0..now /\ conn.snapshot \in 0..now /\ conn.seen \in 0..now
        /\ conn.checked \in -1..now /\ conn.confirmed \in 0..now /\ conn.changed \in 0..now
    BY <2>1 DEF IInv, Moments, Rows
  <2>4. conn.health.owner \in Checks \union {None} /\ conn.lifecycle.owner \in Calls \union {None}
    BY <2>1 DEF Rows
  <2> QED BY <2>1, <2>2, <2>3, <2>4 DEF IInv, Disclosed, TypeOK, ConnectionRow, GapRows
<1> QED BY <1>1, Invariance, PTL

(* A check or a webhook item never replaces what the row says by something *)
(* that was true earlier, whatever it overlapped with: not a repair that   *)
(* takes minutes, not a lifecycle call, not an item that was overtaken.    *)
THEOREM KeepsNewerHolds == Spec => KeepsNewer
<1> DEFINE P == (\E c \in Checks : FinishHealth(c)) \/ (\E e \in events : ProjectConnectionState(e))
                  => conn'.seen >= conn.seen
<1>1. IInv /\ [Next]_vars => [P]_vars
  <2>1. ASSUME IInv, NEW c \in Checks, FinishHealth(c) PROVE conn'.seen >= conn.seen
    <3>1. conn.seen \in Nat /\ conn'.seen \in Nat /\ conn.seen <= conn'.seen
      BY <2>1, RowAfterCheck DEF IInv, Types, Rows
    <3> QED BY <3>1
  <2>2. ASSUME IInv, NEW e \in events, ProjectConnectionState(e) PROVE conn'.seen >= conn.seen
    <3>1. conn.seen \in Nat /\ conn'.seen \in Nat /\ conn.seen <= conn'.seen
      BY <2>2, RowAfterItem DEF IInv, Types, Rows
    <3> QED BY <3>1
  <2> QED BY <2>1, <2>2
<1>2. Spec => [][P]_vars BY <1>1, Invariance, PTL DEF Spec
<1> QED BY <1>2 DEF KeepsNewer

(* A healthy check leaves no active gap of reconciliation behind.          *)
THEOREM HealthyEndsGapsHolds == Spec => []HealthyEndsGaps
<1>1. IInv => HealthyEndsGaps BY DEF IInv, Disclosed
<1> QED BY <1>1, Invariance, PTL
=============================================================================
