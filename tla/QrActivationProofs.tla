------------------------- MODULE QrActivationProofs -------------------------
(***************************************************************************)
(* Theorems about QrActivation for every set of tabs and phones, every     *)
(* expiry and any number of failures; then those about ConnectionSetup for *)
(* every set of setups, numbers, invocations and browsers.                 *)
(***************************************************************************)
EXTENDS QrActivation, FiniteSetTheorems, TLAPS

\* What a connection row holds.
Row == [state : {"none", "connected", "deleting"},
        name : [key : Key, text : {"none", "given", "renamed"}], search : Key,
        covered : BOOLEAN, phone : Phones \cup {NoPhone}]

\* The activation of a poll is only reached with the number asked for.
ActivatesAsked == \A t \in Tabs : tab[t].phase = "activate" => tab[t].phone = Asked

\* There is one row at most, and every tab was told of rows only.
OneRow == /\ \A r, t \in Rows : r = t
          /\ \A t \in Tabs : shown[t] \subseteq Rows

IInv == TypeOK /\ OneRow /\ Readable /\ VerifiedNumber /\ ActivatesAsked

LEMMA InitIInv == Init => IInv
BY QrActivationAssumption DEF Init, IInv, TypeOK, OneRow, Readable, VerifiedNumber, ActivatesAsked,
   Rows, NoConnection, Idle, NoPhone, Key

\* A step that leaves the rows, what was shown and the state of the setup alone keeps what
\* relates them.
LEMMA RowsKept ==
  ASSUME IInv, TypeOK', conn' = conn, shown' = shown, ActivatesAsked'
  PROVE  IInv'
BY DEF IInv, OneRow, Readable, VerifiedNumber, Rows

Phases == {"idle", "loaded", "connect", "verify", "qr", "activate", "reject"}
PollState == [phase : Phases, phone : Phones \cup {NoPhone}]

\* A poll that does not go to its activation, or goes there with the number asked for.
LEMMA PollTyped ==
  ASSUME IInv, NEW t \in Tabs, NEW changes \in PollState, Polls(t, changes),
         changes.phase = "activate" => changes.phone = Asked
  PROVE  tab' \in [Tabs -> PollState] /\ ActivatesAsked'
BY DEF IInv, TypeOK, PollState, Phases, Polls, ActivatesAsked

LEMMA GoesTyped ==
  ASSUME IInv, NEW t \in Tabs, NEW phase \in Phases \ {"activate"}, Goes(t, phase)
  PROVE  tab' \in [Tabs -> PollState] /\ ActivatesAsked'
<1>1. [tab[t] EXCEPT !.phase = phase] \in PollState /\ [tab[t] EXCEPT !.phase = phase].phase # "activate"
  BY DEF IInv, TypeOK, PollState, Phases
<1> QED BY <1>1, PollTyped DEF Goes

LEMMA IdleTyped ==
  ASSUME IInv, NEW t \in Tabs, Polls(t, Idle) PROVE tab' \in [Tabs -> PollState] /\ ActivatesAsked'
<1>1. Idle \in PollState /\ Idle.phase # "activate" BY DEF Idle, PollState, Phases, NoPhone
<1> QED BY <1>1, PollTyped

LEMMA PollKeeps ==
  ASSUME IInv, NEW t \in Tabs,
         \/ Load(t) \/ Reconcile(t) \/ Connect(t) \/ VerifyNumber(t) \/ GetQrCode(t) \/ Reject(t)
         \/ PollFails(t)
  PROVE  IInv'
<1> USE QrActivationAssumption
<1>a. ASSUME tab' \in [Tabs -> PollState], ActivatesAsked', UNCHANGED <<clock, setup, provider, conn, shown, failures>>
      PROVE  IInv'
  BY <1>a, RowsKept DEF IInv, TypeOK, PollState, Phases, Rows
<1>1. CASE Load(t)
  <2>1. CASE Goes(t, "loaded") /\ UNCHANGED shown
    BY <1>1, <1>a, <2>1, GoesTyped DEF Load, Phases
  <2>2. CASE UNCHANGED tab /\ shown' = [shown EXCEPT ![t] = @ \cup Visible]
    <3>1. Visible \subseteq Rows BY DEF Visible, Rows
    <3>2. UNCHANGED <<clock, setup, provider, conn, failures, tab>> BY <1>1, <2>2 DEF Load
    <3>3. TypeOK' /\ ActivatesAsked' BY <2>2, <3>1, <3>2 DEF IInv, TypeOK, ActivatesAsked, Rows
    <3>4. \A u \in Tabs : shown'[u] \subseteq Rows
      BY <2>2, <3>1 DEF IInv, OneRow, TypeOK
    <3> QED BY <3>2, <3>3, <3>4 DEF IInv, OneRow, Readable, VerifiedNumber, Rows
  <2> QED BY <1>1, <2>1, <2>2 DEF Load
<1>2. CASE Reconcile(t)
  <2>1. NextPhase(provider.status, FALSE) \in Phases \ {"activate"} BY DEF NextPhase, Phases
  <2> QED BY <1>2, <1>a, <2>1, GoesTyped, IdleTyped DEF Reconcile
<1>3. CASE Connect(t)
  <2>1. provider' \in [status : {"disconnected", "connecting", "connected", "logged_out", "absent"},
                       phone : Phones \cup {NoPhone}]
    BY <1>3 DEF Connect, Connected, IInv, TypeOK
  <2>2. NextPhase(provider'.status, TRUE) \in Phases \ {"activate"} BY DEF NextPhase, Phases
  <2>3. tab' \in [Tabs -> PollState] /\ ActivatesAsked'
    BY <1>3, <2>2, GoesTyped, IdleTyped DEF Connect
  <2>4. TypeOK' BY <1>3, <2>1, <2>3 DEF Connect, IInv, TypeOK, PollState, Phases, Rows
  <2> QED BY <1>3, <2>3, <2>4, RowsKept DEF Connect
<1>4. CASE VerifyNumber(t)
  <2>1. CASE Polls(t, Idle) BY <1>4, <1>a, <2>1, IdleTyped DEF VerifyNumber
  <2>2. CASE Polls(t, [phase |-> IF Accepted(provider.phone) THEN "activate" ELSE "reject", phone |-> provider.phone])
    <3>1. [phase |-> IF Accepted(provider.phone) THEN "activate" ELSE "reject", phone |-> provider.phone] \in PollState
      BY DEF IInv, TypeOK, PollState, Phases
    <3>2. tab' \in [Tabs -> PollState] /\ ActivatesAsked'
      BY <2>2, <3>1, PollTyped DEF Accepted
    <3> QED BY <1>4, <1>a, <3>2 DEF VerifyNumber
  <2> QED BY <1>4, <2>1, <2>2 DEF VerifyNumber
<1>5. CASE GetQrCode(t) BY <1>5, <1>a, IdleTyped DEF GetQrCode
<1>6. CASE Reject(t)
  <2>1. tab' \in [Tabs -> PollState] /\ ActivatesAsked' BY <1>6, IdleTyped DEF Reject
  <2>2. TypeOK' BY <1>6, <2>1 DEF Reject, Rejectable, IInv, TypeOK, PollState, Phases, Rows
  <2> QED BY <1>6, <2>1, <2>2, RowsKept DEF Reject
<1>7. CASE PollFails(t)
  <2>1. tab' \in [Tabs -> PollState] /\ ActivatesAsked' BY <1>7, IdleTyped DEF PollFails
  <2>2. TypeOK' BY <1>7, <2>1 DEF PollFails, Connected, IInv, TypeOK, PollState, Phases, Rows
  <2> QED BY <1>7, <2>1, <2>2, RowsKept DEF PollFails
<1> QED BY <1>1, <1>2, <1>3, <1>4, <1>5, <1>6, <1>7

\* Installing touches the poll's own row only, and leaves it readable.
LEMMA InstalledRow ==
  ASSUME NEW rows \in [Tabs -> Row], NEW t \in Tabs,
         rows[t].state # "none" =>
           rows[t].search \in {"none", t} /\ (rows[t].search # "none" => rows[t].covered)
  PROVE  /\ Installed(rows, t) \in [Tabs -> Row]
         /\ \A u \in Tabs : Installed(rows, t)[u].state = rows[u].state /\ Installed(rows, t)[u].phone = rows[u].phone
         /\ \A u \in Tabs \ {t} : Installed(rows, t)[u] = rows[u]
         /\ rows[t].state # "none" =>
              /\ Installed(rows, t)[t].name.key = t
              /\ Installed(rows, t)[t].search = t /\ Installed(rows, t)[t].covered
<1>1. CASE rows[t].state = "none" BY <1>1 DEF Installed, Searchable, Named
<1>2. CASE rows[t].state # "none"
  <2> DEFINE named == Named(rows, t)
  <2>1. named = [rows EXCEPT ![t].name = [key |-> t, text |-> "given"]]
    BY <1>2 DEF Named, Encrypted
  <2>2. /\ named \in [Tabs -> Row]
        /\ named[t].state = rows[t].state /\ named[t].search = rows[t].search
        /\ named[t].covered = rows[t].covered /\ named[t].phone = rows[t].phone
        /\ named[t].name.key = t
        /\ \A u \in Tabs \ {t} : named[u] = rows[u]
    BY <2>1 DEF Row, Key
  <2>3. CASE rows[t].search # "none"
    BY <1>2, <2>2, <2>3 DEF Installed, Searchable
  <2>4. CASE rows[t].search = "none"
    <3>1. Installed(rows, t) = [named EXCEPT ![t].search = t, ![t].covered = TRUE]
      BY <1>2, <2>2, <2>4 DEF Installed, Searchable
    <3> HIDE DEF named
    <3>2. named[t] \in Row BY <2>2
    <3>3. Installed(rows, t)[t] = [named[t] EXCEPT !.search = t, !.covered = TRUE]
      BY <2>2, <3>1
    <3>4. [named[t] EXCEPT !.search = t, !.covered = TRUE] \in Row BY <3>2 DEF Row, Key
    <3>5. \A u \in Tabs \ {t} : Installed(rows, t)[u] = named[u] BY <2>2, <3>1
    <3>6. Installed(rows, t) \in [Tabs -> Row] BY <2>2, <3>1, <3>4
    <3>7. /\ Installed(rows, t)[t].state = named[t].state /\ Installed(rows, t)[t].phone = named[t].phone
          /\ Installed(rows, t)[t].name = named[t].name
          /\ Installed(rows, t)[t].search = t /\ Installed(rows, t)[t].covered
      BY <3>2, <3>3 DEF Row
    <3> QED BY <2>2, <3>5, <3>6, <3>7
  <2> QED BY <2>3, <2>4
<1> QED BY <1>1, <1>2

LEMMA NoConnectionIsRow == NoConnection \in Row /\ NoConnection.search = "none"
BY DEF NoConnection, Row, Key

LEMMA ActivateKeeps == ASSUME IInv, NEW t \in Tabs, Activate(t) PROVE IInv'
<1> USE DEF IInv
<1>1. conn \in [Tabs -> Row] BY DEF TypeOK, Row
<1>2. /\ tab' \in [Tabs -> [phase : {"idle", "loaded", "connect", "verify", "qr", "activate", "reject"},
                            phone : Phones \cup {NoPhone}]]
      /\ ActivatesAsked' /\ tab[t].phone = Asked
  BY DEF Activate, Polls, Idle, TypeOK, ActivatesAsked
<1>3. CASE Activatable
  <2> DEFINE inserted == Inserted(t)
  <2>1. Rows = {} BY <1>3 DEF Activatable, TypeOK
  <2>2. /\ inserted \in [Tabs -> Row]
        /\ inserted[t].state = "connected" /\ inserted[t].search = "none" /\ inserted[t].phone = Asked
        /\ \A u \in Tabs \ {t} : inserted[u] = conn[u]
    <3> DEFINE x == [NoConnection EXCEPT !.state = "connected", !.phone = tab[t].phone]
    <3>1. NoConnection \in Row /\ NoConnection.search = "none" BY NoConnectionIsRow
    <3> HIDE DEF IInv
    <3>2. x \in Row /\ x.state = "connected" /\ x.search = "none" /\ x.phone = Asked
      BY <1>2, <3>1, QrActivationAssumption DEF Row
    <3>3. inserted = [conn EXCEPT ![t] = x] BY DEF Inserted
    <3> HIDE DEF x, inserted
    <3> QED BY <1>1, <3>2, <3>3
  <2>3. conn' = Installed(inserted, t) /\ setup' = [setup EXCEPT !.state = "activated"]
        /\ shown' = [shown EXCEPT ![t] = @ \cup {t}]
    BY <1>3 DEF Activate
  <2> HIDE DEF inserted
  <2>4. /\ conn' \in [Tabs -> Row]
        /\ conn'[t].state = "connected" /\ conn'[t].phone = Asked
        /\ conn'[t].name.key = t /\ conn'[t].search = t /\ conn'[t].covered
        /\ \A u \in Tabs \ {t} : conn'[u] = conn[u]
    BY <2>2, <2>3, InstalledRow
  <2>5. Rows' = {t} BY <2>1, <2>4 DEF Rows
  <2>6. TypeOK'
    <3>1. UNCHANGED <<clock, failures, provider>> BY DEF Activate
    <3>2. setup' \in [state : {"provisioned", "activated", "provisioning_failed"}, cleanup : BOOLEAN]
          /\ setup'.state = "activated" /\ shown' \in [Tabs -> SUBSET Tabs]
      BY <2>3 DEF TypeOK
    <3> QED BY <1>2, <2>4, <2>5, <3>1, <3>2 DEF TypeOK, Row
  <2>7. OneRow' BY <2>1, <2>3, <2>5 DEF OneRow, TypeOK
  <2> QED BY <1>2, <2>4, <2>5, <2>6, <2>7 DEF Readable, VerifiedNumber
<1>4. CASE setup.state = "activated" /\ Visible # {} /\ ~Activatable
  <2>1. conn' = Installed(conn, t) /\ shown' = [shown EXCEPT ![t] = @ \cup Visible] /\ setup' = setup
    BY <1>4 DEF Activate
  <2>2. conn[t].state # "none" =>
          conn[t].search \in {"none", t} /\ (conn[t].search # "none" => conn[t].covered)
    BY DEF Readable, Rows
  <2>3. /\ conn' \in [Tabs -> Row]
        /\ \A u \in Tabs : conn'[u].state = conn[u].state /\ conn'[u].phone = conn[u].phone
        /\ \A u \in Tabs \ {t} : conn'[u] = conn[u]
        /\ conn[t].state # "none" => conn'[t].name.key = t /\ conn'[t].search = t /\ conn'[t].covered
    BY <1>1, <2>1, <2>2, InstalledRow
  <2>4. Rows' = Rows BY <2>3 DEF Rows
  <2>5. Visible \subseteq Rows BY DEF Visible, Rows
  <2>6. TypeOK' BY <1>2, <2>1, <2>3, <2>4, <2>5 DEF Activate, TypeOK, Row, Rows
  <2>7. OneRow' BY <2>1, <2>4, <2>5 DEF OneRow, TypeOK
  <2>8. Readable' BY <2>3, <2>4 DEF Readable, Rows
  <2>9. VerifiedNumber' BY <2>3, <2>4 DEF VerifiedNumber, Rows
  <2> QED BY <1>2, <2>6, <2>7, <2>8, <2>9
<1>5. CASE ~Activatable /\ ~(setup.state = "activated" /\ Visible # {})
  <2>1. UNCHANGED <<conn, setup, shown, clock, provider, failures>> BY <1>5 DEF Activate
  <2>2. TypeOK' BY <1>2, <2>1 DEF TypeOK, Rows
  <2> QED BY <1>2, <2>1, <2>2, RowsKept
<1> QED BY <1>3, <1>4, <1>5

LEMMA UserKeeps ==
  ASSUME IInv, Tick \/ Unlink \/ Cleanup \/ (\E p \in Phones : Scan(p)) \/ (\E t \in Tabs : Rename(t) \/ DeleteConnection(t))
  PROVE  IInv'
<1> USE QrActivationAssumption DEF IInv, TypeOK, ActivatesAsked
<1>1. CASE Tick BY <1>1, RowsKept DEF Tick, Rows
<1>2. CASE Unlink BY <1>2, RowsKept DEF Unlink, Rows
<1>3. CASE Cleanup BY <1>3, RowsKept DEF Cleanup, Rows
<1>4. ASSUME NEW p \in Phones, Scan(p) PROVE IInv' BY <1>4, RowsKept DEF Scan, Rows
<1>5. ASSUME NEW t \in Tabs, Rename(t) PROVE IInv'
  <2>1. conn' = [conn EXCEPT ![t].name = [key |-> t, text |-> "renamed"]] /\ conn[t].state = "connected"
    BY <1>5 DEF Rename, Encrypted
  <2>2. /\ \A u \in Tabs : conn'[u].state = conn[u].state /\ conn'[u].phone = conn[u].phone
                           /\ conn'[u].search = conn[u].search /\ conn'[u].covered = conn[u].covered
        /\ conn'[t].name.key = t /\ \A u \in Tabs \ {t} : conn'[u] = conn[u]
    BY <2>1
  <2>3. Rows' = Rows BY <2>2 DEF Rows
  <2>4. conn[t] \in Row /\ conn'[t] = [conn[t] EXCEPT !.name = [key |-> t, text |-> "renamed"]]
    BY <2>1 DEF Row
  <2>a. [key |-> t, text |-> "renamed"] \in [key : Key, text : {"none", "given", "renamed"}]
    BY DEF Key
  <2>5. conn' \in [Tabs -> Row]
    <3>1. conn'[t] \in Row BY <2>4, <2>a DEF Row
    <3>2. conn \in [Tabs -> Row] BY DEF Row
    <3> QED BY <2>1, <2>4, <3>1, <3>2
  <2>6. TypeOK' BY <1>5, <2>3, <2>5 DEF Rename, Row
  <2> QED BY <1>5, <2>2, <2>3, <2>6 DEF Rename, OneRow, Readable, VerifiedNumber, Rows
<1>6. ASSUME NEW t \in Tabs, DeleteConnection(t) PROVE IInv'
  <2>1. conn' = [conn EXCEPT ![t].state = "deleting"] /\ conn[t].state = "connected"
    BY <1>6 DEF DeleteConnection
  <2>2. \A u \in Tabs : /\ conn'[u].phone = conn[u].phone /\ conn'[u].name = conn[u].name
                        /\ conn'[u].search = conn[u].search /\ conn'[u].covered = conn[u].covered
                        /\ (conn'[u].state = "none" <=> conn[u].state = "none")
    BY <2>1
  <2>3. Rows' = Rows BY <2>2 DEF Rows
  <2>4. conn[t] \in Row /\ conn'[t] = [conn[t] EXCEPT !.state = "deleting"] BY <2>1 DEF Row
  <2>5. conn' \in [Tabs -> Row]
    <3>1. conn'[t] \in Row BY <2>4 DEF Row
    <3>2. conn \in [Tabs -> Row] BY DEF Row
    <3> QED BY <2>1, <2>4, <3>1, <3>2
  <2>6. TypeOK' BY <1>6, <2>3, <2>5 DEF DeleteConnection, Row
  <2> QED BY <1>6, <2>2, <2>3, <2>6 DEF DeleteConnection, OneRow, Readable, VerifiedNumber, Rows
<1> QED BY <1>1, <1>2, <1>3, <1>4, <1>5, <1>6

LEMMA StepIInv == IInv /\ [Next]_vars => IInv'
<1> SUFFICES ASSUME IInv, [Next]_vars PROVE IInv' OBVIOUS
<1>1. CASE UNCHANGED vars
  <2>1. TypeOK' /\ ActivatesAsked' BY <1>1 DEF vars, IInv, TypeOK, ActivatesAsked, Rows
  <2> QED BY <1>1, <2>1, RowsKept DEF vars
<1>2. ASSUME NEW t \in Tabs, Load(t) \/ PollStep(t) \/ PollFails(t) PROVE IInv'
  BY <1>2, PollKeeps, ActivateKeeps DEF PollStep
<1> QED BY <1>1, <1>2, UserKeeps DEF Next

LEMMA Invariant == Spec => []IInv
BY InitIInv, StepIInv, PTL DEF Spec

\* The variables have their types, and a setup has a connection exactly when it was activated.
THEOREM TypeCorrectness == Spec => []TypeOK
BY Invariant, PTL DEF IInv

\* However many tabs poll, one connection is activated and every tab is told of that one
\* (activate_connection_setup).
THEOREM OneConnectionHolds == Spec => []OneConnection
<1>1. ASSUME IInv PROVE OneConnection
  <2>1. CASE Rows = {} BY <1>1, <2>1, FS_EmptySet DEF OneConnection, IInv, OneRow
  <2>2. CASE Rows # {}
    <3>1. PICK t \in Rows : Rows = {t} BY <1>1, <2>2 DEF IInv, OneRow
    <3>2. Cardinality(Rows) = 1 BY <3>1, FS_Singleton
    <3> QED BY <1>1, <3>2 DEF OneConnection, IInv, OneRow
  <2> QED BY <2>1, <2>2
<1> QED BY <1>1, Invariant, PTL

\* What is stored with a connection is encrypted under its own key, whichever poll wrote it.
THEOREM ReadableHolds == Spec => []Readable
BY Invariant, PTL DEF IInv

\* A connection is only made for the number that was asked for.
THEOREM VerifiedNumberHolds == Spec => []VerifiedNumber
BY Invariant, PTL DEF IInv

\* A setup ends once: an activated one is never failed, a failed one never activated.
THEOREM EndIsFinalHolds == Spec => EndIsFinal
<1>1. ASSUME IInv, [Next]_vars, setup.state # "provisioned" PROVE setup'.state = setup.state
  <2> USE <1>1 DEF IInv, TypeOK
  <2>1. ASSUME NEW t \in Tabs, Activate(t) PROVE setup'.state = setup.state
    BY <2>1 DEF Activate, Activatable
  <2>2. ASSUME NEW t \in Tabs, Reject(t) PROVE setup'.state = setup.state
    BY <2>2 DEF Reject, Rejectable
  <2>3. CASE Cleanup BY <2>3 DEF Cleanup
  <2>4. ASSUME NEW t \in Tabs,
               \/ Load(t) \/ Reconcile(t) \/ Connect(t) \/ VerifyNumber(t) \/ GetQrCode(t)
               \/ PollFails(t) \/ Rename(t) \/ DeleteConnection(t)
        PROVE  setup' = setup
    BY <2>4 DEF Load, Reconcile, Connect, VerifyNumber, GetQrCode, PollFails, Rename, DeleteConnection
  <2>5. CASE Tick \/ Unlink \/ (\E p \in Phones : Scan(p)) \/ UNCHANGED vars
    BY <2>5 DEF Tick, Unlink, Scan, vars
  <2> QED BY <2>1, <2>2, <2>3, <2>4, <2>5 DEF Next, PollStep
<1> QED BY <1>1, Invariant, PTL DEF Spec, EndIsFinal

-----------------------------------------------------------------------------
(* ConnectionSetup: the saga around it.  What is stored holds whatever     *)
(* arrives late (StoredInv); that there is one session, and none once the  *)
(* number is released, needs the lease to outlast its creates (LeaseInv).  *)

CONSTANTS Keys, Numbers, Workers, Observers, None, Limit, Lease, Life, LateCreates, Prompt,
          MaxSessions, MaxFaults

VARIABLES setups, worker, observer, sessions, inflight, faults

Setup == INSTANCE ConnectionSetup WITH setup <- setups

\* The instance's operators of finite sets are those the library's theorems speak of.
LEMMA SameSize == ASSUME NEW S PROVE Setup!Cardinality(S) = Cardinality(S)
BY DEF Setup!Cardinality, Cardinality, Setup!IsFiniteSet, IsFiniteSet

Steps == {"idle", "reconcile", "renew", "create", "posted", "finish", "fail", "release",
          "clean", "renewCleanup", "delete", "releaseCleanup", "complete"}

Leases == [owner : Workers \cup {None}, left : 0..Lease]

SetupRows == [state : {"none"} \cup Setup!States, number : Numbers \cup {None}, left : 0..Life,
              provisioning : Leases, cleanup : {"none", "pending", "complete"},
              cleaning : Leases, rows : SUBSET (1..MaxSessions), key : BOOLEAN,
              released : BOOLEAN]

Jobs == [step : Steps, of : Keys \cup {None}, seen : SUBSET (1..MaxSessions)]

SetupTyped ==
  /\ setups \in [Keys -> SetupRows]
  /\ worker \in [Workers -> Jobs]
  /\ \A w \in Workers : worker[w].step # "idle" => worker[w].of \in Keys
  /\ observer \in [Observers -> Keys \cup {None}]
  /\ sessions \in [Keys -> SUBSET (1..MaxSessions)]
  /\ inflight \in [Keys -> Int]

\* A key that was not used has no number.
Unused == \A k \in Keys : setups[k].state = "none" => setups[k].number = None

\* Only a setup that is over is cleaned up, and it stays over.
CleanSteps == {"clean", "renewCleanup", "delete", "releaseCleanup", "complete"}
OverWhenCleaned ==
  /\ \A k \in Keys : setups[k].cleanup # "none" => setups[k].state \in Setup!Cleanable
  /\ \A w \in Workers : worker[w].step \in CleanSteps => Setup!Row(w).state \in Setup!Cleanable

\* What an invocation is about to store is at the provider, unless the setup is over.
SeenStays ==
  \A w \in Workers : Setup!At(w, "finish") /\ Setup!Row(w).state \notin Setup!Cleanable =>
    worker[w].seen \subseteq sessions[worker[w].of]

StoredInv == SetupTyped /\ Unused /\ OverWhenCleaned /\ SeenStays /\ Setup!StoredSessionStays

\* Whoever posts, or is about to, has the lease.
LeaseHeld ==
  \A w \in Workers : worker[w].step \in {"create", "posted"} =>
    Setup!Row(w).provisioning.owner = w /\ Setup!Row(w).provisioning.left > 0

\* There is no such lease once a setup was provisioned, has failed or is cleaned up.
LeaseOver ==
  /\ \A k \in Keys : setups[k].state \notin {"pending"} \cup Setup!Terminal
     => setups[k].provisioning.left = 0
  /\ \A w \in Workers : worker[w].step \in CleanSteps => Setup!Row(w).provisioning.left = 0

\* One create is under way at a time, and only while there is no session.
Posting(k) == \E w \in Workers : Setup!At(w, "posted") /\ worker[w].of = k
OneCreate ==
  \A k \in Keys :
    /\ inflight[k] = IF Posting(k) THEN 1 ELSE 0
    /\ Posting(k) => sessions[k] = {}
OneSession == \A k \in Keys : \A s, t \in sessions[k] : s = t

\* Who still has the lease has seen all there is.
SeenIsAll == \A w \in Workers :
  Setup!At(w, "finish") /\ Setup!Holds(w) => worker[w].seen = sessions[worker[w].of]

Absent ==
  /\ \A w \in Workers : Setup!At(w, "complete") => sessions[worker[w].of] = {}
  /\ \A k \in Keys : setups[k].released =>
       setups[k].state \in Setup!Cleanable /\ setups[k].provisioning.left = 0 /\ sessions[k] = {}

NumbersApart ==
  \A j, k \in Keys : j # k /\ setups[j].number = setups[k].number /\ setups[j].number # None =>
    setups[j].released \/ setups[k].released

Usable == \A k \in Keys : setups[k].state \in {"provisioned", "activated"} =>
    sessions[k] = setups[k].rows /\ sessions[k] # {}

LeaseInv ==
  /\ LeaseHeld /\ LeaseOver /\ OneCreate /\ OneSession /\ SeenIsAll /\ Absent /\ NumbersApart
  /\ Usable

-----------------------------------------------------------------------------
\* What a step leaves alone.
RowOnly(k) == \A j \in Keys \ {k} : setups'[j] = setups[j]
JobOnly(w) == \A v \in Workers \ {w} : worker'[v] = worker[v]
JobIs(w, step) ==
  /\ JobOnly(w)
  /\ worker'[w] = [step |-> step, of |-> worker[w].of, seen |-> worker[w].seen]
JobDone(w) == JobOnly(w) /\ worker'[w] = Setup!Idle

\* A setup written anew, and an invocation that goes on.
LEMMA RowStep ==
  ASSUME SetupTyped, NEW k \in Keys, NEW row \in SetupRows, Setup!Update(k, row)
  PROVE  setups' \in [Keys -> SetupRows] /\ setups'[k] = row /\ RowOnly(k)
BY DEF SetupTyped, Setup!Update, RowOnly

LEMMA JobStep ==
  ASSUME SetupTyped, NEW w \in Workers, NEW job \in Jobs, job.step # "idle" => job.of \in Keys,
         worker' = [worker EXCEPT ![w] = job]
  PROVE  /\ worker' \in [Workers -> Jobs] /\ worker'[w] = job /\ JobOnly(w)
         /\ \A v \in Workers : worker'[v].step # "idle" => worker'[v].of \in Keys
BY DEF SetupTyped, JobOnly

LEMMA DoneStep ==
  ASSUME SetupTyped, NEW w \in Workers, Setup!Done(w)
  PROVE  /\ worker' \in [Workers -> Jobs] /\ JobDone(w)
         /\ \A v \in Workers : worker'[v].step # "idle" => worker'[v].of \in Keys
<1>1. Setup!Idle \in Jobs /\ Setup!Idle.step = "idle" BY DEF Setup!Idle, Jobs, Steps
<1> QED BY <1>1, JobStep DEF Setup!Done, JobDone

LEMMA GotoStep ==
  ASSUME SetupTyped, NEW w \in Workers, worker[w].step # "idle", NEW step \in Steps,
         Setup!Goto(w, step)
  PROVE  /\ worker' \in [Workers -> Jobs] /\ JobIs(w, step)
         /\ \A v \in Workers : worker'[v].step # "idle" => worker'[v].of \in Keys
<1> DEFINE job == [worker[w] EXCEPT !.step = step]
<1>1. worker[w] \in Jobs /\ worker[w].of \in Keys BY DEF SetupTyped
<1>2. job \in Jobs /\ job = [step |-> step, of |-> worker[w].of, seen |-> worker[w].seen]
  BY <1>1 DEF Jobs
<1>3. worker' = [worker EXCEPT ![w] = job] BY DEF Setup!Goto
<1>4. job.of \in Keys BY <1>1, <1>2
<1> HIDE DEF job
<1> QED BY <1>2, <1>3, <1>4, JobStep DEF JobIs

LEMMA NatBounds ==
  ASSUME Setup!SetupAssumption
  PROVE  Lease \in Nat /\ Lease # 0 /\ Life \in Nat /\ MaxSessions \in Nat
BY DEF Setup!SetupAssumption

\* The session a create makes is a new one.
LEMMA NewIsNew ==
  ASSUME Setup!SetupAssumption, SetupTyped, NEW k \in Keys, Setup!Room(k)
  PROVE  Setup!New(k) \in 1..MaxSessions /\ Setup!New(k) \notin sessions[k]
<1>1. \E i \in 1..MaxSessions : i \notin sessions[k]
  <2> SUFFICES ASSUME \A i \in 1..MaxSessions : i \in sessions[k] PROVE FALSE OBVIOUS
  <2>1. sessions[k] = 1..MaxSessions BY DEF SetupTyped
  <2>2. MaxSessions \in Nat BY DEF Setup!SetupAssumption
  <2>3. Cardinality(1..MaxSessions) = MaxSessions BY <2>2, FS_Interval
  <2> QED BY <2>1, <2>2, <2>3, SameSize DEF Setup!Room
<1> QED BY <1>1 DEF Setup!New

LEMMA LandedStep ==
  ASSUME Setup!SetupAssumption, SetupTyped, NEW k \in Keys, Setup!Landed(k)
  PROVE  /\ sessions' \in [Keys -> SUBSET (1..MaxSessions)]
         /\ sessions'[k] = sessions[k] \cup {Setup!New(k)} /\ Setup!New(k) \in 1..MaxSessions
         /\ \A j \in Keys : j # k => sessions'[j] = sessions[j]
         /\ inflight' \in [Keys -> Int] /\ inflight'[k] = inflight[k] - 1
         /\ \A j \in Keys : j # k => inflight'[j] = inflight[j]
<1>1. Setup!New(k) \in 1..MaxSessions BY NewIsNew DEF Setup!Landed
<1> QED BY <1>1 DEF Setup!Landed, SetupTyped

LEMMA LostStep ==
  ASSUME SetupTyped, NEW k \in Keys, Setup!Lost(k)
  PROVE  /\ sessions' = sessions
         /\ inflight' \in [Keys -> Int] /\ inflight'[k] = inflight[k] - 1
         /\ \A j \in Keys : j # k => inflight'[j] = inflight[j]
BY DEF Setup!Lost, SetupTyped

-----------------------------------------------------------------------------
\* What a step may do to what is stored: a setup that is over stays over, only its session is
\* removed, and only an invocation that has seen the session stores it.
CleanedAfter == \A k \in Keys :
  /\ setups'[k].state = "none" => setups'[k].number = None
  /\ setups'[k].cleanup # "none" => setups'[k].state \in Setup!Cleanable
OverStays == \A k \in Keys : setups[k].state \in Setup!Cleanable
=> setups'[k].state \in Setup!Cleanable
SessionsStay == \A k \in Keys : setups[k].state \in Setup!Cleanable
\/ sessions[k] \subseteq sessions'[k]
JobFollows(w) ==
  \/ worker'[w] = worker[w]
  \/ LET job == worker'[w]
     IN /\ job.step \in CleanSteps => setups'[job.of].state \in Setup!Cleanable
        /\ job.step = "finish" => job.seen \subseteq sessions'[job.of]
RowFollows(k) ==
  setups'[k].state \in {"provisioned", "activated"} =>
    \/ setups[k].state \in {"provisioned", "activated"} /\ setups'[k].rows = setups[k].rows
    \/ setups'[k].rows # {} /\ setups'[k].rows \subseteq sessions'[k]

LEMMA StoredKeeps ==
  ASSUME StoredInv, SetupTyped', CleanedAfter, OverStays, SessionsStay,
         \A w \in Workers : JobFollows(w), \A k \in Keys : RowFollows(k)
  PROVE  StoredInv'
<1>1. Unused' BY DEF CleanedAfter, Unused
<1>2. OverWhenCleaned'
  <2>1. ASSUME NEW w \in Workers, worker'[w].step \in CleanSteps
        PROVE  setups'[worker'[w].of].state \in Setup!Cleanable
    <3>1. worker'[w].of \in Keys BY <2>1 DEF SetupTyped, CleanSteps
    <3>2. CASE worker'[w] = worker[w]
      BY <2>1, <3>1, <3>2 DEF StoredInv, OverWhenCleaned, OverStays, Setup!Row
    <3>3. CASE worker'[w] # worker[w] BY <2>1, <3>3 DEF JobFollows
    <3> QED BY <3>2, <3>3
  <2> QED BY <2>1 DEF OverWhenCleaned, CleanedAfter, Setup!Row, Setup!Cleanable, Setup!Terminal
<1>3. SeenStays'
  <2>1. ASSUME NEW w \in Workers, worker'[w].step = "finish",
               setups'[worker'[w].of].state \notin Setup!Cleanable
        PROVE  worker'[w].seen \subseteq sessions'[worker'[w].of]
    <3>1. worker'[w].of \in Keys BY <2>1 DEF SetupTyped
    <3>2. CASE worker'[w] = worker[w]
      BY <2>1, <3>1, <3>2 DEF StoredInv, SeenStays, OverStays, SessionsStay, Setup!Row, Setup!At
    <3>3. CASE worker'[w] # worker[w] BY <2>1, <3>3 DEF JobFollows
    <3> QED BY <3>2, <3>3
  <2> QED BY <2>1 DEF SeenStays, Setup!Row, Setup!At, Setup!Cleanable, Setup!Terminal
<1>4. Setup!StoredSessionStays'
  <2>1. \A k \in Keys : setups[k].state \in {"provisioned",
        "activated"} => setups[k].state \notin Setup!Cleanable
    BY DEF Setup!Cleanable, Setup!Terminal
  <2> QED BY <2>1 DEF StoredInv, Setup!StoredSessionStays, RowFollows, SessionsStay
<1> QED BY <1>1, <1>2, <1>3, <1>4 DEF StoredInv

LEMMA StoredQuiet ==
  ASSUME StoredInv, SetupTyped', UNCHANGED <<setups, sessions>>, \A w \in Workers : JobFollows(w)
  PROVE  StoredInv'
BY StoredKeeps
   DEF StoredInv, Unused, OverWhenCleaned, CleanedAfter, OverStays, SessionsStay, RowFollows

LEMMA StoredRow ==
  ASSUME StoredInv, SetupTyped', UNCHANGED sessions, \A w \in Workers : JobFollows(w),
         NEW k \in Keys, RowOnly(k), RowFollows(k), setups'[k].state # "none",
         setups'[k].cleanup # "none" => setups'[k].state \in Setup!Cleanable,
         setups[k].state \in Setup!Cleanable => setups'[k].state \in Setup!Cleanable
  PROVE  StoredInv'
<1>1. CleanedAfter BY DEF StoredInv, Unused, OverWhenCleaned, CleanedAfter, RowOnly
<1>2. OverStays /\ SessionsStay BY DEF OverStays, SessionsStay, RowOnly
<1>3. \A j \in Keys : RowFollows(j) BY DEF RowFollows, RowOnly
<1> QED BY <1>1, <1>2, <1>3, StoredKeeps

\* An invocation that goes on with what it has, or ends, breaks nothing.
LEMMA GoesFollows ==
  ASSUME StoredInv, OverStays, SessionsStay, SetupTyped', NEW w \in Workers,
         worker[w].step # "idle",
         NEW step \in Steps \ {"finish"}, JobIs(w, step),
         step \in CleanSteps => worker[w].step \in CleanSteps
  PROVE  \A v \in Workers : JobFollows(v)
<1>1. worker[w].of \in Keys BY DEF StoredInv, SetupTyped
<1>2. JobFollows(w)
  BY <1>1 DEF JobFollows, JobIs, StoredInv, OverWhenCleaned, OverStays, Setup!Row
<1> QED BY <1>2 DEF JobFollows, JobIs, JobOnly

LEMMA DoneFollows ==
  ASSUME NEW w \in Workers, JobDone(w) PROVE \A v \in Workers : JobFollows(v)
BY DEF JobFollows, JobDone, JobOnly, Setup!Idle, CleanSteps

-----------------------------------------------------------------------------
\* The steps of provisioning, and what each changes.
LEMMA InitStored == Setup!SetupAssumption => (Setup!Init => StoredInv)
BY DEF Setup!SetupAssumption, Setup!Init, StoredInv, SetupTyped, Unused, OverWhenCleaned,
   SeenStays,
   Setup!StoredSessionStays, SetupRows, Leases, Jobs, Steps, Setup!NoSetup, Setup!NoLease,
   Setup!Idle, CleanSteps, Setup!At, Setup!Row, Setup!States

LEMMA StartChange ==
  ASSUME Setup!SetupAssumption, SetupTyped, NEW k \in Keys, NEW n \in Numbers, Setup!Start(k, n)
  PROVE  /\ SetupTyped' /\ RowOnly(k)
         /\ setups[k].state = "none" /\ ~Setup!Reserved(n)
         /\ setups'[k].state = "pending" /\ setups'[k].number = n /\ setups'[k].cleanup = "none"
         /\ setups'[k].provisioning = Setup!NoLease /\ setups'[k].released = FALSE
         /\ UNCHANGED <<worker, observer, sessions, inflight, faults>>
<1> DEFINE row == [Setup!NoSetup EXCEPT !.state = "pending", !.number = n, !.left = Life,
    !.key = TRUE]
<1>0. Setup!NoLease \in Leases BY NatBounds DEF Setup!NoLease, Leases
<1>1. row \in SetupRows /\ row.state = "pending" /\ row.number = n /\ row.cleanup = "none"
      /\ row.provisioning = Setup!NoLease /\ row.released = FALSE
  <2>1. Setup!NoSetup \in SetupRows /\ Setup!NoSetup.released = FALSE
        /\ Setup!NoSetup.cleanup = "none"
        /\ Setup!NoSetup.provisioning = Setup!NoLease
    BY <1>0, NatBounds DEF Setup!NoSetup, SetupRows
  <2>2. Life \in 0..Life BY NatBounds
  <2> QED BY <2>1, <2>2 DEF SetupRows, Setup!States
<1>2. Setup!Update(k, row) /\ UNCHANGED <<worker, observer, sessions, inflight, faults>>
  BY DEF Setup!Start
<1>3. Setup!Outcome(k, n) = "created" BY DEF Setup!Start, Setup!Admitted
<1>a. Setup!Prepared(k, n) # "created" /\ Setup!Taken(n) # "created"
  BY DEF Setup!Prepared, Setup!Taken
<1>4. Setup!Prepared(k, n) = "unbound" BY <1>3, <1>a DEF Setup!Outcome
<1>5. setups[k].state = "none" BY <1>4 DEF Setup!Prepared
<1>6. ~Setup!Reserved(n) BY <1>3, <1>a DEF Setup!Outcome
<1> HIDE DEF row
<1>7. setups' \in [Keys -> SetupRows] /\ setups'[k] = row /\ RowOnly(k) BY <1>1, <1>2, RowStep
<1>8. SetupTyped' BY <1>2, <1>7 DEF SetupTyped
<1> QED BY <1>1, <1>2, <1>5, <1>6, <1>7, <1>8

LEMMA ClaimChange ==
  ASSUME Setup!SetupAssumption, SetupTyped, NEW w \in Workers, NEW k \in Keys, Setup!Claim(w, k)
  PROVE  /\ SetupTyped' /\ RowOnly(k) /\ JobOnly(w)
         /\ Setup!At(w, "idle") /\ setups[k].state = "pending" /\ setups[k].provisioning.left = 0
         /\ setups'[k] = [setups[k] EXCEPT !.provisioning = [owner |-> w, left |-> Lease]]
         /\ worker'[w] = [step |-> "reconcile", of |-> k, seen |-> {}]
         /\ UNCHANGED <<observer, sessions, inflight, faults>>
<1> DEFINE row == [setups[k] EXCEPT !.provisioning = [owner |-> w, left |-> Lease]]
           job == [step |-> "reconcile", of |-> k, seen |-> {}]
<1>1. row \in SetupRows
  <2>1. [owner |-> w, left |-> Lease] \in Leases BY NatBounds DEF Leases
  <2>2. setups[k] \in SetupRows BY DEF SetupTyped
  <2> QED BY <2>1, <2>2 DEF SetupRows
<1>2. job \in Jobs /\ job.of \in Keys BY DEF Jobs, Steps
<1>3. Setup!Update(k, row) /\ worker' = [worker EXCEPT ![w] = job]
  BY DEF Setup!Claim
<1>4. UNCHANGED <<observer, sessions, inflight, faults>> /\ Setup!At(w, "idle") BY DEF Setup!Claim
<1>5. setups[k].state = "pending" /\ ~(setups[k].provisioning.left > 0)
  BY DEF Setup!Claim, Setup!ProvisioningClaim
<1>6. setups[k].provisioning.left \in Nat BY DEF SetupTyped, SetupRows, Leases
<1> HIDE DEF row, job
<1>7. setups' \in [Keys -> SetupRows] /\ setups'[k] = row /\ RowOnly(k) BY <1>1, <1>3, RowStep
<1>8. /\ worker' \in [Workers -> Jobs] /\ worker'[w] = job /\ JobOnly(w)
      /\ \A v \in Workers : worker'[v].step # "idle" => worker'[v].of \in Keys
  BY <1>2, <1>3, JobStep
<1>9. SetupTyped' BY <1>4, <1>7, <1>8 DEF SetupTyped
<1> QED BY <1>4, <1>5, <1>6, <1>7, <1>8, <1>9 DEF row, job

LEMMA ReconcileChange ==
  ASSUME SetupTyped, NEW w \in Workers, Setup!Reconcile(w)
  PROVE  /\ SetupTyped' /\ JobOnly(w) /\ Setup!At(w, "reconcile") /\ worker[w].of \in Keys
         /\ worker'[w].of = worker[w].of /\ worker'[w].seen = sessions[worker[w].of]
         /\ worker'[w].step \in {"renew", "finish"}
         /\ UNCHANGED <<setups, observer, sessions, inflight, faults>>
<1>1. PICK k \in Keys : k = worker[w].of BY DEF Setup!Reconcile, SetupTyped, Setup!At
<1>2. worker[w] \in Jobs /\ sessions[k] \in SUBSET (1..MaxSessions) BY DEF SetupTyped
<1>3. PICK step \in {"renew", "finish"} :
        worker' = [worker EXCEPT ![w].seen = sessions[k], ![w].step = step]
  BY <1>1 DEF Setup!Reconcile
<1> DEFINE job == [worker[w] EXCEPT !.seen = sessions[k], !.step = step]
<1>4. job \in Jobs /\ job.of = k /\ job.seen = sessions[k] /\ job.step = step
  BY <1>1, <1>2 DEF Jobs, Steps
<1>5. worker' = [worker EXCEPT ![w] = job] BY <1>3 DEF SetupTyped
<1> HIDE DEF job
<1>6. /\ worker' \in [Workers -> Jobs] /\ worker'[w] = job /\ JobOnly(w)
      /\ \A v \in Workers : worker'[v].step # "idle" => worker'[v].of \in Keys
  BY <1>4, <1>5, JobStep
<1>7. UNCHANGED <<setups, observer, sessions, inflight, faults>> /\ Setup!At(w, "reconcile")
  BY DEF Setup!Reconcile
<1>8. SetupTyped' BY <1>6, <1>7 DEF SetupTyped
<1> QED BY <1>1, <1>4, <1>6, <1>7, <1>8

\* An invocation that fails its read, or ends without having written.
LEMMA FailsChange ==
  ASSUME SetupTyped, NEW w \in Workers, Setup!ReconcileFails(w) \/ Setup!CleanupReadFails(w)
  PROVE  /\ SetupTyped' /\ worker[w].of \in Keys
  /\ UNCHANGED <<setups, observer, sessions, inflight>>
         /\ \/ Setup!At(w, "reconcile") /\ JobIs(w, "fail")
            \/ Setup!At(w, "clean") /\ JobIs(w, "releaseCleanup")
<1>1. CASE Setup!ReconcileFails(w)
  <2>1. Setup!At(w, "reconcile")
        /\ Setup!Goto(w, "fail") /\ UNCHANGED <<setups, observer, sessions, inflight>>
    BY <1>1 DEF Setup!ReconcileFails
  <2>2. "fail" \in Steps /\ worker[w].step # "idle" BY <2>1 DEF Steps, Setup!At
  <2>3. /\ worker' \in [Workers -> Jobs] /\ JobIs(w, "fail")
        /\ \A v \in Workers : worker'[v].step # "idle" => worker'[v].of \in Keys
    BY <2>1, <2>2, GotoStep
  <2> QED BY <2>1, <2>2, <2>3 DEF SetupTyped
<1>2. CASE Setup!CleanupReadFails(w)
  <2>1. Setup!At(w, "clean")
        /\ Setup!Goto(w, "releaseCleanup") /\ UNCHANGED <<setups, observer, sessions, inflight>>
    BY <1>2 DEF Setup!CleanupReadFails
  <2>2. "releaseCleanup" \in Steps /\ worker[w].step # "idle" BY <2>1 DEF Steps, Setup!At
  <2>3. /\ worker' \in [Workers -> Jobs] /\ JobIs(w, "releaseCleanup")
        /\ \A v \in Workers : worker'[v].step # "idle" => worker'[v].of \in Keys
    BY <2>1, <2>2, GotoStep
  <2> QED BY <2>1, <2>2, <2>3 DEF SetupTyped
<1> QED BY <1>1, <1>2

\* A lease taken again by the invocation that holds it.
LEMMA RenewChange ==
  ASSUME Setup!SetupAssumption, SetupTyped, NEW w \in Workers, Setup!Renew(w)
  PROVE  /\ SetupTyped' /\ worker[w].of \in Keys /\ Setup!At(w, "renew")
         /\ UNCHANGED <<observer, sessions, inflight, faults>>
         /\ \/ /\ Setup!Holds(w) /\ JobIs(w, "create") /\ RowOnly(worker[w].of)
               /\ setups'[worker[w].of] = [setups[worker[w].of] EXCEPT !.provisioning.left = Lease]
            \/ JobDone(w) /\ UNCHANGED setups
<1>1. PICK k \in Keys : k = worker[w].of BY DEF Setup!Renew, SetupTyped, Setup!At
<1>2. UNCHANGED <<observer, sessions, inflight, faults>> /\ Setup!At(w, "renew")
  BY DEF Setup!Renew
<1>3. CASE Setup!Holds(w) /\ setups[k].left > 0
  <2> DEFINE row == [setups[k] EXCEPT !.provisioning.left = Lease]
  <2>1. Setup!Update(k, row) /\ Setup!Goto(w, "create") BY <1>1, <1>3 DEF Setup!Renew, Setup!Row
  <2>2. row \in SetupRows
    <3>1. [setups[k].provisioning EXCEPT !.left = Lease] \in Leases
      BY NatBounds DEF SetupTyped, SetupRows, Leases
    <3>2. setups[k] \in SetupRows BY DEF SetupTyped
    <3> QED BY <3>1, <3>2 DEF SetupRows
  <2> HIDE DEF row
  <2>3. setups' \in [Keys -> SetupRows] /\ setups'[k] = row /\ RowOnly(k) BY <2>1, <2>2, RowStep
  <2>4. "create" \in Steps /\ worker[w].step # "idle" BY <1>2 DEF Steps, Setup!At
  <2>5. /\ worker' \in [Workers -> Jobs] /\ JobIs(w, "create")
        /\ \A v \in Workers : worker'[v].step # "idle" => worker'[v].of \in Keys
    BY <2>1, <2>4, GotoStep
  <2>6. SetupTyped' BY <1>2, <2>3, <2>5 DEF SetupTyped
  <2> QED BY <1>1, <1>2, <1>3, <2>3, <2>5, <2>6 DEF row
<1>4. CASE ~(Setup!Holds(w) /\ setups[k].left > 0)
  <2>1. Setup!Done(w) /\ UNCHANGED setups BY <1>1, <1>4 DEF Setup!Renew, Setup!Row
  <2>2. /\ worker' \in [Workers -> Jobs] /\ JobDone(w)
        /\ \A v \in Workers : worker'[v].step # "idle" => worker'[v].of \in Keys
    BY <2>1, DoneStep
  <2>3. SetupTyped' BY <1>2, <2>1, <2>2 DEF SetupTyped
  <2> QED BY <1>1, <1>2, <2>1, <2>2, <2>3
<1> QED BY <1>3, <1>4

LEMMA CreateChange ==
  ASSUME SetupTyped, NEW w \in Workers, Setup!Create(w)
  PROVE  /\ SetupTyped' /\ worker[w].of \in Keys /\ Setup!At(w, "create") /\ JobOnly(w)
         /\ UNCHANGED <<setups, observer, sessions, faults>>
         /\ \/ /\ sessions[worker[w].of] = {} /\ JobIs(w, "posted")
               /\ inflight'[worker[w].of] = inflight[worker[w].of] + 1
               /\ \A j \in Keys : j # worker[w].of => inflight'[j] = inflight[j]
            \/ /\ worker'[w].step \in {"finish", "fail"} /\ worker'[w].of = worker[w].of
               /\ worker'[w].seen = sessions[worker[w].of] /\ UNCHANGED inflight
<1>1. PICK k \in Keys : k = worker[w].of BY DEF Setup!Create, SetupTyped, Setup!At
<1>2. UNCHANGED <<setups, observer, sessions, faults>> /\ Setup!At(w, "create")
  BY DEF Setup!Create
<1>3. CASE sessions[k] = {}
  <2>1. Setup!Goto(w, "posted") /\ inflight' = [inflight EXCEPT ![k] = @ + 1]
    BY <1>1, <1>3 DEF Setup!Create
  <2>2. "posted" \in Steps /\ worker[w].step # "idle" BY <1>2 DEF Steps, Setup!At
  <2>3. /\ worker' \in [Workers -> Jobs] /\ JobIs(w, "posted")
        /\ \A v \in Workers : worker'[v].step # "idle" => worker'[v].of \in Keys
    BY <2>1, <2>2, GotoStep
  <2>4. /\ inflight' \in [Keys -> Int] /\ inflight'[k] = inflight[k] + 1
        /\ \A j \in Keys : j # k => inflight'[j] = inflight[j]
    BY <2>1 DEF SetupTyped
  <2>5. SetupTyped' BY <1>2, <2>3, <2>4 DEF SetupTyped
  <2> QED BY <1>1, <1>2, <1>3, <2>3, <2>4, <2>5 DEF JobIs
<1>4. CASE sessions[k] # {}
  <2>1. PICK step \in {"finish", "fail"} :
          worker' = [worker EXCEPT ![w].seen = sessions[k], ![w].step = step]
    BY <1>1, <1>4 DEF Setup!Create
  <2>2. UNCHANGED inflight BY <1>1, <1>4 DEF Setup!Create
  <2> DEFINE job == [worker[w] EXCEPT !.seen = sessions[k], !.step = step]
  <2>3. worker[w] \in Jobs /\ sessions[k] \in SUBSET (1..MaxSessions) BY DEF SetupTyped
  <2>4. job \in Jobs /\ job.of = k /\ job.seen = sessions[k] /\ job.step = step
    BY <1>1, <2>3 DEF Jobs, Steps
  <2>5. worker' = [worker EXCEPT ![w] = job] BY <2>1 DEF SetupTyped
  <2> HIDE DEF job
  <2>6. /\ worker' \in [Workers -> Jobs] /\ worker'[w] = job /\ JobOnly(w)
        /\ \A v \in Workers : worker'[v].step # "idle" => worker'[v].of \in Keys
    BY <2>4, <2>5, JobStep
  <2>7. SetupTyped' BY <1>2, <2>2, <2>6 DEF SetupTyped
  <2> QED BY <1>1, <1>2, <2>2, <2>4, <2>6, <2>7
<1> QED BY <1>3, <1>4

\* What becomes of one create: it makes a session, is lost, or is still under way.
Applied(k) ==
  /\ sessions'[k] = sessions[k] \cup {Setup!New(k)} /\ \A j \in Keys : j # k
     => sessions'[j] = sessions[j]
  /\ inflight'[k] = inflight[k] - 1 /\ \A j \in Keys : j # k => inflight'[j] = inflight[j]
Dropped(k) ==
  /\ sessions' = sessions
  /\ inflight'[k] = inflight[k] - 1 /\ \A j \in Keys : j # k => inflight'[j] = inflight[j]
ProviderTyped == sessions \in [Keys -> SUBSET (1..MaxSessions)] /\ inflight \in [Keys -> Int]

LEMMA OutcomeStep ==
  ASSUME Setup!SetupAssumption, SetupTyped, NEW k \in Keys, Setup!Landed(k) \/ Setup!Lost(k)
  PROVE  ProviderTyped' /\ (Applied(k) \/ Dropped(k))
BY LandedStep, LostStep DEF ProviderTyped, Applied, Dropped, SetupTyped

LEMMA CreatedChange ==
  ASSUME Setup!SetupAssumption, SetupTyped, NEW w \in Workers, Setup!Created(w)
  PROVE  /\ SetupTyped' /\ worker[w].of \in Keys /\ Setup!At(w, "posted") /\ JobOnly(w)
         /\ UNCHANGED <<setups, observer, faults>> /\ Applied(worker[w].of)
         /\ worker'[w].step = "finish" /\ worker'[w].of = worker[w].of
         /\ worker'[w].seen = {Setup!New(worker[w].of)}
<1>1. PICK k \in Keys : k = worker[w].of BY DEF Setup!Created, SetupTyped, Setup!At
<1>2. UNCHANGED <<setups, observer, faults>> /\ Setup!At(w, "posted") /\ Setup!Landed(k)
  BY <1>1 DEF Setup!Created
<1>3. ProviderTyped' /\ Applied(k) /\ Setup!New(k) \in 1..MaxSessions
  BY <1>2, LandedStep DEF ProviderTyped, Applied
<1> DEFINE job == [worker[w] EXCEPT !.seen = {Setup!New(k)}, !.step = "finish"]
<1>4. job \in Jobs /\ job.step = "finish" /\ job.of = k /\ job.seen = {Setup!New(k)}
  BY <1>1, <1>3 DEF SetupTyped, Jobs, Steps
<1>5. worker' = [worker EXCEPT ![w] = job] BY <1>1 DEF Setup!Created, SetupTyped
<1> HIDE DEF job
<1>6. /\ worker' \in [Workers -> Jobs] /\ worker'[w] = job /\ JobOnly(w)
      /\ \A v \in Workers : worker'[v].step # "idle" => worker'[v].of \in Keys
  BY <1>4, <1>5, JobStep
<1>7. SetupTyped' BY <1>2, <1>3, <1>6 DEF SetupTyped, ProviderTyped
<1> QED BY <1>1, <1>2, <1>3, <1>4, <1>6, <1>7

LEMMA UncertainChange ==
  ASSUME Setup!SetupAssumption, SetupTyped, NEW w \in Workers,
         Setup!Rejected(w) \/ Setup!TimedOut(w)
  PROVE  /\ SetupTyped' /\ worker[w].of \in Keys /\ Setup!At(w, "posted")
         /\ UNCHANGED <<setups, observer>> /\ (JobIs(w, "fail") \/ JobIs(w, "release"))
         /\ \/ Applied(worker[w].of) \/ Dropped(worker[w].of)
            \/ LateCreates /\ UNCHANGED <<sessions, inflight>>
<1>1. PICK k \in Keys : k = worker[w].of
  BY DEF Setup!Rejected, Setup!TimedOut, SetupTyped, Setup!At
<1>2. Setup!At(w, "posted") /\ UNCHANGED <<setups, observer>>
  BY DEF Setup!Rejected, Setup!TimedOut
<1>3. \/ Setup!Landed(k) \/ Setup!Lost(k)
      \/ LateCreates /\ UNCHANGED <<sessions, inflight>>
  BY <1>1 DEF Setup!Rejected, Setup!TimedOut
<1>4. PICK step \in {"fail", "release"} : Setup!Goto(w, step)
  BY DEF Setup!Rejected, Setup!TimedOut
<1>5. step \in Steps /\ worker[w].step # "idle" BY <1>2 DEF Steps, Setup!At
<1>6. /\ worker' \in [Workers -> Jobs] /\ JobIs(w, step)
      /\ \A v \in Workers : worker'[v].step # "idle" => worker'[v].of \in Keys
  BY <1>4, <1>5, GotoStep
<1>7. ProviderTyped' /\ (\/ Applied(k) \/ Dropped(k)
                         \/ LateCreates /\ UNCHANGED <<sessions, inflight>>)
  BY <1>3, OutcomeStep DEF ProviderTyped, SetupTyped
<1>8. SetupTyped' BY <1>2, <1>6, <1>7 DEF SetupTyped, ProviderTyped
<1> QED BY <1>1, <1>2, <1>4, <1>6, <1>7, <1>8

LEMMA SettleChange ==
  ASSUME Setup!SetupAssumption, SetupTyped, NEW k \in Keys, Setup!Settle(k)
  PROVE  /\ SetupTyped' /\ Setup!Unawaited(k) /\ (Applied(k) \/ Dropped(k))
         /\ UNCHANGED <<setups, worker, observer, faults>>
BY OutcomeStep DEF Setup!Settle, SetupTyped, ProviderTyped

\* The end of a provisioning: who holds the lease writes the row, and gives the lease up.
LEMMA FinishChange ==
  ASSUME Setup!SetupAssumption, SetupTyped, NEW w \in Workers, Setup!Finish(w)
  PROVE  /\ SetupTyped' /\ worker[w].of \in Keys /\ Setup!At(w, "finish") /\ JobDone(w)
         /\ UNCHANGED <<observer, sessions, inflight, faults>>
         /\ \/ /\ Setup!Holds(w) /\ RowOnly(worker[w].of)
               /\ \E state \in {"provisioned", "quarantined"} :
                    /\ state = "provisioned" <=> Setup!Cardinality(worker[w].seen) = 1
                    /\ setups'[worker[w].of] =
                         [setups[worker[w].of] EXCEPT !.state = state,
                         !.provisioning = Setup!NoLease,
                                                     !.rows = worker[w].seen]
            \/ UNCHANGED setups
<1>1. PICK k \in Keys : k = worker[w].of BY DEF Setup!Finish, SetupTyped, Setup!At
<1>2. UNCHANGED <<observer, sessions, inflight, faults>> /\ Setup!At(w, "finish") /\ Setup!Done(w)
  BY DEF Setup!Finish
<1>3. /\ worker' \in [Workers -> Jobs] /\ JobDone(w)
      /\ \A v \in Workers : worker'[v].step # "idle" => worker'[v].of \in Keys
  BY <1>2, DoneStep
<1>4. CASE Setup!Holds(w)
  <2>1. PICK state \in {"provisioned", "quarantined"} :
          /\ state = "provisioned" <=> Setup!Cardinality(worker[w].seen) = 1
          /\ Setup!Update(k, [Setup!Ended(setups[k], state) EXCEPT !.rows = worker[w].seen])
    BY <1>1, <1>4 DEF Setup!Finish, Setup!Row
  <2> DEFINE row == [setups[k] EXCEPT !.state = state, !.provisioning = Setup!NoLease,
                                     !.rows = worker[w].seen]
  <2>2. setups[k] \in SetupRows /\ worker[w].seen \in SUBSET (1..MaxSessions)
    BY DEF SetupTyped, Jobs
  <2>3. Setup!Update(k, row) BY <2>1, <2>2 DEF Setup!Ended
  <2>4. row \in SetupRows
    <3>1. Setup!NoLease \in Leases BY NatBounds DEF Setup!NoLease, Leases
    <3> QED BY <2>2, <3>1 DEF SetupRows, Setup!States
  <2> HIDE DEF row
  <2>5. setups' \in [Keys -> SetupRows] /\ setups'[k] = row /\ RowOnly(k) BY <2>3, <2>4, RowStep
  <2>6. SetupTyped' BY <1>2, <1>3, <2>5 DEF SetupTyped
  <2> QED BY <1>1, <1>2, <1>3, <1>4, <2>1, <2>5, <2>6 DEF row
<1>5. CASE ~Setup!Holds(w)
  <2>1. UNCHANGED setups BY <1>5 DEF Setup!Finish
  <2> QED BY <1>1, <1>2, <1>3, <2>1 DEF SetupTyped
<1> QED BY <1>4, <1>5

LEMMA GivesUpChange ==
  ASSUME Setup!SetupAssumption, SetupTyped, NEW w \in Workers, Setup!Fail(w) \/ Setup!Release(w)
  PROVE  /\ SetupTyped' /\ worker[w].of \in Keys /\ ~Setup!At(w, "posted") /\ JobDone(w)
         /\ UNCHANGED <<observer, sessions, inflight, faults>>
         /\ \/ /\ Setup!Row(w).state = "pending" /\ Setup!Row(w).provisioning.owner = w
               /\ ~Setup!At(w, "create") /\ RowOnly(worker[w].of)
               /\ \E state \in {"pending", "provisioning_failed"} :
                    setups'[worker[w].of] =
                      [setups[worker[w].of] EXCEPT !.state = state,
                      !.provisioning = Setup!NoLease]
            \/ UNCHANGED setups
<1>1. PICK k \in Keys : k = worker[w].of BY DEF Setup!Fail, Setup!Release, SetupTyped, Setup!At
<1>2. /\ UNCHANGED <<observer, sessions, inflight, faults>> /\ Setup!Done(w)
      /\ ~Setup!At(w, "posted") /\ ~Setup!At(w, "create")
  BY DEF Setup!Fail, Setup!Release, Setup!At
<1>3. /\ worker' \in [Workers -> Jobs] /\ JobDone(w)
      /\ \A v \in Workers : worker'[v].step # "idle" => worker'[v].of \in Keys
  BY <1>2, DoneStep
<1>4. CASE UNCHANGED setups BY <1>1, <1>2, <1>3, <1>4 DEF SetupTyped
<1>5. CASE ~UNCHANGED setups
  <2>1. Setup!Row(w).state = "pending" /\ Setup!Row(w).provisioning.owner = w
    BY <1>5 DEF Setup!Fail, Setup!Release, Setup!Holds
  <2>2. PICK state \in {"pending", "provisioning_failed"} :
          Setup!Update(k, Setup!Ended(setups[k], state))
    BY <1>1, <1>5 DEF Setup!Fail, Setup!Release, Setup!Row
  <2> DEFINE row == [setups[k] EXCEPT !.state = state, !.provisioning = Setup!NoLease]
  <2>3. row \in SetupRows
    <3>1. Setup!NoLease \in Leases BY NatBounds DEF Setup!NoLease, Leases
    <3>2. setups[k] \in SetupRows BY DEF SetupTyped
    <3> QED BY <3>1, <3>2 DEF SetupRows, Setup!States
  <2>4. Setup!Update(k, row) BY <2>2 DEF Setup!Ended
  <2> HIDE DEF row
  <2>5. setups' \in [Keys -> SetupRows] /\ setups'[k] = row /\ RowOnly(k) BY <2>3, <2>4, RowStep
  <2>6. SetupTyped' BY <1>2, <1>3, <2>5 DEF SetupTyped
  <2> QED BY <1>1, <1>2, <1>3, <2>1, <2>5, <2>6 DEF row
<1> QED BY <1>4, <1>5

\* An invocation is lost: its leases are nobody's, and its create may have been applied.
LEMMA OrphanedLease ==
  ASSUME NEW lease \in Leases, NEW w
  PROVE  /\ Setup!Orphaned(lease, w) \in Leases /\ Setup!Orphaned(lease, w).left = lease.left
         /\ Setup!Orphaned(lease, w).owner = IF lease.owner = w THEN None ELSE lease.owner
BY DEF Setup!Orphaned, Leases

LEMMA StopChange ==
  ASSUME Setup!SetupAssumption, SetupTyped, NEW w \in Workers, Setup!Stop(w)
  PROVE  /\ SetupTyped' /\ worker[w].of \in Keys /\ JobDone(w) /\ RowOnly(worker[w].of)
         /\ UNCHANGED observer
         /\ \E p, c \in Leases :
              /\ setups'[worker[w].of] = [setups[worker[w].of] EXCEPT !.provisioning = p,
                 !.cleaning = c]
              /\ p.left = setups[worker[w].of].provisioning.left
              /\ setups[worker[w].of].provisioning.owner # w =>
                   p.owner = setups[worker[w].of].provisioning.owner
              /\ p.owner = setups[worker[w].of].provisioning.owner \/ p.owner = None
         /\ \/ /\ Setup!At(w, "posted") /\ ~LateCreates
               /\ Applied(worker[w].of) \/ Dropped(worker[w].of)
            \/ ~Setup!At(w, "posted") /\ UNCHANGED <<sessions, inflight>>
            \/ LateCreates /\ UNCHANGED <<sessions, inflight>>
<1>1. PICK k \in Keys : k = worker[w].of BY DEF Setup!Stop, SetupTyped, Setup!At
<1>2. Setup!Done(w) /\ UNCHANGED observer BY DEF Setup!Stop
<1>3. /\ worker' \in [Workers -> Jobs] /\ JobDone(w)
      /\ \A v \in Workers : worker'[v].step # "idle" => worker'[v].of \in Keys
  BY <1>2, DoneStep
<1>4. setups[k] \in SetupRows /\ setups[k].provisioning \in Leases
      /\ setups[k].cleaning \in Leases
  BY DEF SetupTyped, SetupRows
<1> DEFINE p == Setup!Orphaned(setups[k].provisioning, w)
           c == Setup!Orphaned(setups[k].cleaning, w)
           row == [setups[k] EXCEPT !.provisioning = p, !.cleaning = c]
<1>5. /\ p \in Leases /\ c \in Leases /\ p.left = setups[k].provisioning.left
      /\ p.owner = IF setups[k].provisioning.owner = w THEN None ELSE setups[k].provisioning.owner
  BY <1>4, OrphanedLease
<1>6. Setup!Update(k, row) BY <1>1 DEF Setup!Stop, Setup!Row
<1> HIDE DEF p, c
<1>7. row \in SetupRows BY <1>4, <1>5 DEF SetupRows
<1>8. row = [setups[k] EXCEPT !.provisioning = p, !.cleaning = c] OBVIOUS
<1> HIDE DEF row
<1>9. setups' \in [Keys -> SetupRows] /\ setups'[k] = row /\ RowOnly(k) BY <1>6, <1>7, RowStep
<1>10. ProviderTyped' /\ (\/ /\ Setup!At(w, "posted") /\ ~LateCreates
                             /\ Applied(k) \/ Dropped(k)
                          \/ ~Setup!At(w, "posted") /\ UNCHANGED <<sessions, inflight>>
                          \/ LateCreates /\ UNCHANGED <<sessions, inflight>>)
  BY <1>1, OutcomeStep DEF Setup!Stop, ProviderTyped, SetupTyped
<1>11. SetupTyped' BY <1>2, <1>3, <1>9, <1>10 DEF SetupTyped, ProviderTyped
<1>12. \E q, d \in Leases :
         /\ setups'[k] = [setups[k] EXCEPT !.provisioning = q, !.cleaning = d]
         /\ q.left = setups[k].provisioning.left
         /\ setups[k].provisioning.owner # w => q.owner = setups[k].provisioning.owner
         /\ q.owner = setups[k].provisioning.owner \/ q.owner = None
  BY <1>5, <1>8, <1>9
<1> QED BY <1>1, <1>2, <1>3, <1>9, <1>10, <1>11, <1>12

-----------------------------------------------------------------------------
\* The browser, the clock and the cleanup.
LEMMA LoadChange ==
  ASSUME SetupTyped, NEW o \in Observers, NEW k \in Keys, Setup!Load(o, k)
  PROVE  SetupTyped' /\ UNCHANGED <<setups, worker, sessions, inflight>>
BY DEF SetupTyped, Setup!Load

\* An activation, or its rejection, ends a provisioned setup.
LEMMA BrowserChange ==
  ASSUME Setup!SetupAssumption, SetupTyped, NEW o \in Observers,
         Setup!Activate(o) \/ Setup!RejectActivation(o)
  PROVE  /\ SetupTyped' /\ UNCHANGED <<worker, sessions, inflight>>
         /\ \/ UNCHANGED setups
            \/ \E k \in Keys :
                 /\ RowOnly(k) /\ setups[k].state = "provisioned"
                 /\ setups'[k] = [setups[k] EXCEPT !.state = "activated"]
            \/ \E k \in Keys :
                 /\ RowOnly(k) /\ setups[k].state = "provisioning_failed"
                 /\ setups'[k] = [setups[k] EXCEPT !.cleanup = "pending"]
            \/ \E k \in Keys :
                 /\ RowOnly(k) /\ setups[k].state = "provisioned"
                 /\ setups'[k] = [setups[k] EXCEPT !.state = "provisioning_failed",
                        !.provisioning = Setup!NoLease, !.cleanup = "pending",
                        !.cleaning = Setup!NoLease]
<1>1. PICK k \in Keys : k = observer[o] BY DEF Setup!Activate, Setup!RejectActivation, SetupTyped
<1>2. /\ observer' \in [Observers -> Keys \cup {None}]
      /\ UNCHANGED <<worker, sessions, inflight>>
  BY DEF Setup!Activate, Setup!RejectActivation, SetupTyped
<1>3. setups[k] \in SetupRows BY DEF SetupTyped
<1>4. Setup!NoLease \in Leases BY NatBounds DEF Setup!NoLease, Leases
<1>5. CASE UNCHANGED setups BY <1>2, <1>5 DEF SetupTyped
<1>6. CASE Setup!Activate(o) /\ ~UNCHANGED setups
  <2>1. Setup!Activatable(k) /\ Setup!Update(k, [setups[k] EXCEPT !.state = "activated"])
    BY <1>1, <1>6 DEF Setup!Activate
  <2>2. [setups[k] EXCEPT !.state = "activated"] \in SetupRows BY <1>3 DEF SetupRows, Setup!States
  <2>3. /\ setups' \in [Keys -> SetupRows] /\ RowOnly(k)
        /\ setups'[k] = [setups[k] EXCEPT !.state = "activated"]
    BY <2>1, <2>2, RowStep
  <2>4. SetupTyped' BY <1>2, <2>3 DEF SetupTyped
  <2> QED BY <1>2, <2>1, <2>3, <2>4 DEF Setup!Activatable
<1>7. CASE Setup!RejectActivation(o) /\ setups[k].state = "provisioning_failed"
  <2>1. Setup!Update(k, [setups[k] EXCEPT !.cleanup = "pending"])
    BY <1>1, <1>7 DEF Setup!RejectActivation, Setup!Activatable
  <2>2. [setups[k] EXCEPT !.cleanup = "pending"] \in SetupRows BY <1>3 DEF SetupRows
  <2>3. /\ setups' \in [Keys -> SetupRows] /\ RowOnly(k)
        /\ setups'[k] = [setups[k] EXCEPT !.cleanup = "pending"]
    BY <2>1, <2>2, RowStep
  <2>4. SetupTyped' BY <1>2, <2>3 DEF SetupTyped
  <2> QED BY <1>2, <1>7, <2>3, <2>4
<1>8. CASE Setup!RejectActivation(o) /\ setups[k].state # "provisioning_failed"
      /\ ~UNCHANGED setups
  <2> DEFINE row == [setups[k] EXCEPT !.state = "provisioning_failed",
      !.provisioning = Setup!NoLease,
                                     !.cleanup = "pending", !.cleaning = Setup!NoLease]
  <2>1. Setup!Activatable(k) /\ Setup!Update(k, [Setup!Ended(setups[k], "provisioning_failed")
                                       EXCEPT !.cleanup = "pending", !.cleaning = Setup!NoLease])
    BY <1>1, <1>8 DEF Setup!RejectActivation
  <2>2. Setup!Update(k, row) BY <1>3, <2>1 DEF Setup!Ended
  <2>3. row \in SetupRows BY <1>3, <1>4 DEF SetupRows, Setup!States
  <2>4. row = [setups[k] EXCEPT !.state = "provisioning_failed", !.provisioning = Setup!NoLease,
                               !.cleanup = "pending", !.cleaning = Setup!NoLease]
    OBVIOUS
  <2> HIDE DEF row
  <2>5. setups' \in [Keys -> SetupRows] /\ RowOnly(k) /\ setups'[k] = row BY <2>2, <2>3, RowStep
  <2>6. SetupTyped' BY <1>2, <2>5 DEF SetupTyped
  <2> QED BY <1>2, <2>1, <2>4, <2>5, <2>6 DEF Setup!Activatable
<1> QED BY <1>5, <1>6, <1>7, <1>8

\* The clock takes from what is left, and never the last of a lease that a prompt step needs.
LEMMA TickChange ==
  ASSUME Setup!SetupAssumption, SetupTyped, Setup!Tick
  PROVE  /\ SetupTyped' /\ UNCHANGED <<worker, observer, sessions, inflight, faults>>
         /\ \A k \in Keys : \E n \in 0..Life, p, c \in Leases :
              /\ setups'[k] = [setups[k] EXCEPT !.left = n, !.provisioning = p, !.cleaning = c]
              /\ p.owner = setups[k].provisioning.owner
              /\ p.left <= setups[k].provisioning.left
              /\ setups[k].provisioning.left > 1 => p.left > 0
         /\ \A w \in Workers : worker[w].step \in Prompt /\ Setup!Row(w).provisioning.owner = w =>
              Setup!Row(w).provisioning.left # 1
<1>1. UNCHANGED <<worker, observer, sessions, inflight, faults>> BY DEF Setup!Tick
<1>2. \A w \in Workers : worker[w].step \in Prompt /\ Setup!Row(w).provisioning.owner = w =>
        Setup!Row(w).provisioning.left # 1
  BY DEF Setup!Tick
<1>3. ASSUME NEW k \in Keys
      PROVE  /\ Setup!Older(setups[k]) \in SetupRows
             /\ \E n \in 0..Life, p, c \in Leases :
                  /\ Setup!Older(setups[k]) = [setups[k] EXCEPT !.left = n, !.provisioning = p,
                     !.cleaning = c]
                  /\ p.owner = setups[k].provisioning.owner
                  /\ p.left <= setups[k].provisioning.left
                  /\ setups[k].provisioning.left > 1 => p.left > 0
  <2> DEFINE row == setups[k]
             n == Setup!Down(row.left)
             p == [row.provisioning EXCEPT !.left = Setup!Down(@)]
             c == [row.cleaning EXCEPT !.left = Setup!Down(@)]
  <2>1. row \in SetupRows /\ row.left \in 0..Life /\ row.provisioning \in Leases
        /\ row.cleaning \in Leases
    BY DEF SetupTyped, SetupRows
  <2>2. n \in 0..Life BY <2>1, NatBounds DEF Setup!Down
  <2>3. p \in Leases /\ c \in Leases BY <2>1, NatBounds DEF Setup!Down, Leases
  <2>4. /\ p.owner = row.provisioning.owner /\ p.left <= row.provisioning.left
        /\ row.provisioning.left > 1 => p.left > 0
    BY <2>1, NatBounds DEF Setup!Down, Leases
  <2>5. Setup!Older(row) = [row EXCEPT !.left = n, !.provisioning = p, !.cleaning = c]
    BY <2>1 DEF Setup!Older, SetupRows
  <2> HIDE DEF n, p, c
  <2>6. [row EXCEPT !.left = n, !.provisioning = p, !.cleaning = c] \in SetupRows
    BY <2>1, <2>2, <2>3 DEF SetupRows
  <2> QED BY <2>2, <2>3, <2>4, <2>5, <2>6
<1>4. setups' = [k \in Keys |-> Setup!Older(setups[k])] BY DEF Setup!Tick
<1>5. setups' \in [Keys -> SetupRows] BY <1>3, <1>4
<1>6. SetupTyped' BY <1>1, <1>5 DEF SetupTyped
<1>7. \A k \in Keys : setups'[k] = Setup!Older(setups[k]) BY <1>4
<1>8. ASSUME NEW k \in Keys
      PROVE  \E n \in 0..Life, p, c \in Leases :
               /\ setups'[k] = [setups[k] EXCEPT !.left = n, !.provisioning = p, !.cleaning = c]
               /\ p.owner = setups[k].provisioning.owner
               /\ p.left <= setups[k].provisioning.left
               /\ setups[k].provisioning.left > 1 => p.left > 0
  <2>1. PICK n \in 0..Life, p \in Leases, c \in Leases :
          /\ Setup!Older(setups[k]) = [setups[k] EXCEPT !.left = n, !.provisioning = p,
             !.cleaning = c]
          /\ p.owner = setups[k].provisioning.owner
          /\ p.left <= setups[k].provisioning.left
          /\ setups[k].provisioning.left > 1 => p.left > 0
    BY <1>3
  <2>2. setups'[k] = [setups[k] EXCEPT !.left = n, !.provisioning = p, !.cleaning = c]
    BY <1>7, <2>1
  <2> QED BY <2>1, <2>2
<1> QED BY <1>1, <1>2, <1>6, <1>8

\* Cancellation and expiry end a setup and ask for its cleanup.
LEMMA EndChange ==
  ASSUME SetupTyped, Setup!Expire \/ \E k \in Keys : Setup!Cancel(k)
  PROVE  /\ SetupTyped' /\ UNCHANGED <<worker, observer, sessions, inflight, faults>>
         /\ \A k \in Keys :
              \/ setups'[k] = setups[k]
              \/ /\ setups[k].state \notin {"none", "activated"}
                 /\ \E state \in Setup!Terminal :
                      setups'[k] = [setups[k] EXCEPT !.state = state, !.cleanup = "pending"]
<1>1. UNCHANGED <<worker, observer, sessions, inflight, faults>> BY DEF Setup!Expire, Setup!Cancel
<1>2. ASSUME NEW k \in Keys, NEW state \in Setup!Terminal
      PROVE  [setups[k] EXCEPT !.state = state, !.cleanup = "pending"] \in SetupRows
  <2>1. setups[k] \in SetupRows /\ state \in {"none"} \cup Setup!States
    BY DEF SetupTyped, Setup!States, Setup!Terminal
  <2> QED BY <2>1 DEF SetupRows
<1>3. CASE Setup!Expire
  <2>1. ASSUME NEW k \in Keys
        PROVE  /\ setups'[k] \in SetupRows
               /\ \/ setups'[k] = setups[k]
                  \/ /\ setups[k].state \notin {"none", "activated"}
                     /\ setups'[k] = [setups[k] EXCEPT !.state = "expired", !.cleanup = "pending"]
    <3>1. CASE k \in Setup!Overdue
      BY <1>2, <1>3, <3>1 DEF Setup!Expire, Setup!Overdue, Setup!Terminal
    <3>2. CASE k \notin Setup!Overdue BY <1>3, <3>2 DEF Setup!Expire, SetupTyped
    <3> QED BY <3>1, <3>2
  <2>2. setups' = [k \in Keys |-> setups'[k]] BY <1>3 DEF Setup!Expire
  <2>3. setups' \in [Keys -> SetupRows] BY <2>1, <2>2
  <2> QED BY <1>1, <2>1, <2>3 DEF SetupTyped, Setup!Terminal
<1>4. ASSUME NEW k \in Keys, Setup!Cancel(k)
      PROVE  /\ SetupTyped' /\ RowOnly(k) /\ setups[k].state \notin {"none", "activated"}
             /\ setups'[k] = [setups[k] EXCEPT !.state = "cancelled", !.cleanup = "pending"]
  <2>1. setups[k].state \notin {"none", "activated"} BY <1>4 DEF Setup!Cancel, Setup!Cancellation
  <2>2. Setup!Update(k, [setups[k] EXCEPT !.state = "cancelled", !.cleanup = "pending"])
    BY <1>4 DEF Setup!Cancel
  <2>3. "cancelled" \in Setup!Terminal BY DEF Setup!Terminal
  <2>4. /\ setups' \in [Keys -> SetupRows] /\ RowOnly(k)
        /\ setups'[k] = [setups[k] EXCEPT !.state = "cancelled", !.cleanup = "pending"]
    BY <1>2, <2>2, <2>3, RowStep
  <2> QED BY <1>1, <2>1, <2>4 DEF SetupTyped
<1> QED BY <1>1, <1>3, <1>4 DEF RowOnly, Setup!Terminal

LEMMA ClaimCleanupChange ==
  ASSUME Setup!SetupAssumption, SetupTyped, NEW w \in Workers, NEW k \in Keys,
         Setup!ClaimCleanup(w, k)
  PROVE  /\ SetupTyped' /\ RowOnly(k) /\ JobOnly(w)
         /\ Setup!At(w, "idle")
         /\ setups[k].cleanup = "pending" /\ setups[k].provisioning.left = 0
         /\ setups'[k] = [setups[k] EXCEPT !.provisioning = Setup!NoLease,
                                         !.cleaning = [owner |-> w, left |-> Lease]]
         /\ worker'[w] = [step |-> "clean", of |-> k, seen |-> {}]
         /\ UNCHANGED <<observer, sessions, inflight, faults>>
<1> DEFINE row == [setups[k] EXCEPT !.provisioning = Setup!NoLease,
                                   !.cleaning = [owner |-> w, left |-> Lease]]
           job == [step |-> "clean", of |-> k, seen |-> {}]
<1>0. setups[k] \in SetupRows BY DEF SetupTyped
<1>1. row \in SetupRows
  <2>1. [owner |-> w, left |-> Lease] \in Leases /\ Setup!NoLease \in Leases
    BY NatBounds DEF Leases, Setup!NoLease
  <2> QED BY <1>0, <2>1 DEF SetupRows
<1>2. job \in Jobs /\ job.of \in Keys BY DEF Jobs, Steps
<1>3. Setup!Update(k, row) /\ worker' = [worker EXCEPT ![w] = job] BY DEF Setup!ClaimCleanup
<1>4. UNCHANGED <<observer, sessions, inflight, faults>> /\ Setup!At(w, "idle")
  BY DEF Setup!ClaimCleanup
<1>5. Setup!CleanupClaim(k) = "claimed" BY DEF Setup!ClaimCleanup
<1>6. setups[k].cleanup \in {"none", "pending", "complete"} BY <1>0 DEF SetupRows
<1>7. setups[k].cleanup = "pending" /\ Setup!Cleared(k) BY <1>5, <1>6 DEF Setup!CleanupClaim
<1> HIDE DEF row, job
<1>8. setups' \in [Keys -> SetupRows] /\ setups'[k] = row /\ RowOnly(k) BY <1>1, <1>3, RowStep
<1>9. /\ worker' \in [Workers -> Jobs] /\ worker'[w] = job /\ JobOnly(w)
      /\ \A v \in Workers : worker'[v].step # "idle" => worker'[v].of \in Keys
  BY <1>2, <1>3, JobStep
<1>10. SetupTyped' BY <1>4, <1>8, <1>9 DEF SetupTyped
<1> QED BY <1>4, <1>7, <1>8, <1>9, <1>10 DEF row, job, Setup!Cleared

LEMMA ReconcileForCleanupChange ==
  ASSUME SetupTyped, NEW w \in Workers, Setup!ReconcileForCleanup(w)
  PROVE  /\ SetupTyped' /\ JobOnly(w) /\ Setup!At(w, "clean") /\ worker[w].of \in Keys
         /\ worker'[w].of = worker[w].of
         /\ \/ worker'[w].step = "complete" /\ sessions[worker[w].of] = {}
            \/ worker'[w].step = "renewCleanup"
         /\ UNCHANGED <<setups, observer, sessions, inflight, faults>>
<1>1. PICK k \in Keys : k = worker[w].of BY DEF Setup!ReconcileForCleanup, SetupTyped, Setup!At
<1>2. UNCHANGED <<setups, observer, sessions, inflight, faults>> /\ Setup!At(w, "clean")
  BY DEF Setup!ReconcileForCleanup
<1>3. CASE sessions[k] = {}
  <2>1. Setup!Goto(w, "complete") BY <1>1, <1>3 DEF Setup!ReconcileForCleanup
  <2>2. "complete" \in Steps /\ worker[w].step # "idle" BY <1>2 DEF Steps, Setup!At
  <2>3. /\ worker' \in [Workers -> Jobs] /\ JobIs(w, "complete")
        /\ \A v \in Workers : worker'[v].step # "idle" => worker'[v].of \in Keys
    BY <2>1, <2>2, GotoStep
  <2> QED BY <1>1, <1>2, <1>3, <2>3 DEF SetupTyped, JobIs
<1>4. CASE sessions[k] # {}
  <2>1. PICK s \in sessions[k] :
          worker' = [worker EXCEPT ![w].seen = {s}, ![w].step = "renewCleanup"]
    BY <1>1, <1>4 DEF Setup!ReconcileForCleanup
  <2> DEFINE job == [worker[w] EXCEPT !.seen = {s}, !.step = "renewCleanup"]
  <2>2. worker[w] \in Jobs /\ s \in 1..MaxSessions BY DEF SetupTyped
  <2>3. job \in Jobs /\ job.of = k /\ job.step = "renewCleanup" BY <1>1, <2>2 DEF Jobs, Steps
  <2>4. worker' = [worker EXCEPT ![w] = job] BY <2>1 DEF SetupTyped
  <2> HIDE DEF job
  <2>5. /\ worker' \in [Workers -> Jobs] /\ worker'[w] = job /\ JobOnly(w)
        /\ \A v \in Workers : worker'[v].step # "idle" => worker'[v].of \in Keys
    BY <2>3, <2>4, JobStep
  <2> QED BY <1>1, <1>2, <2>3, <2>5 DEF SetupTyped
<1> QED BY <1>3, <1>4

\* A cleanup renews its lease, or gives it up.
LEMMA CleaningChange ==
  ASSUME Setup!SetupAssumption, SetupTyped, NEW w \in Workers,
         Setup!RenewCleanup(w) \/ Setup!ReleaseCleanup(w)
  PROVE  /\ SetupTyped' /\ worker[w].of \in Keys /\ worker[w].step \in CleanSteps
         /\ UNCHANGED <<observer, sessions, inflight, faults>>
         /\ JobIs(w, "delete") \/ JobDone(w)
         /\ \/ UNCHANGED setups
            \/ \E c \in Leases : /\ RowOnly(worker[w].of)
                                 /\ setups'[worker[w].of] = [setups[worker[w].of] EXCEPT !.cleaning = c]
<1>1. PICK k \in Keys : k = worker[w].of
  BY DEF Setup!RenewCleanup, Setup!ReleaseCleanup, SetupTyped, Setup!At
<1>2. UNCHANGED <<observer, sessions, inflight, faults>> /\ worker[w].step \in CleanSteps
  BY DEF Setup!RenewCleanup, Setup!ReleaseCleanup, CleanSteps, Setup!At
<1>3. setups[k] \in SetupRows BY DEF SetupTyped
<1>4. \/ UNCHANGED setups
      \/ \E c \in Leases : Setup!Update(k, [setups[k] EXCEPT !.cleaning = c])
  <2>1. CASE UNCHANGED setups BY <2>1
  <2>2. CASE Setup!RenewCleanup(w) /\ ~UNCHANGED setups
    <3>1. Setup!Update(k, [setups[k] EXCEPT !.cleaning.left = Lease])
      BY <1>1, <2>2 DEF Setup!RenewCleanup, Setup!Row
    <3>2. [setups[k].cleaning EXCEPT !.left = Lease] \in Leases
      BY <1>3, NatBounds DEF SetupRows, Leases
    <3> QED BY <3>1, <3>2
  <2>3. CASE Setup!ReleaseCleanup(w) /\ ~UNCHANGED setups
    <3>1. Setup!Update(k, [setups[k] EXCEPT !.cleaning = Setup!NoLease])
      BY <1>1, <2>3 DEF Setup!ReleaseCleanup, Setup!Row
    <3>2. Setup!NoLease \in Leases BY NatBounds DEF Leases, Setup!NoLease
    <3> QED BY <3>1, <3>2
  <2> QED BY <2>1, <2>2, <2>3
<1>5. \/ UNCHANGED setups
      \/ \E c \in Leases : /\ RowOnly(k) /\ setups' \in [Keys -> SetupRows]
                           /\ setups'[k] = [setups[k] EXCEPT !.cleaning = c]
  <2>1. ASSUME NEW c \in Leases PROVE [setups[k] EXCEPT !.cleaning = c] \in SetupRows
    BY <1>3 DEF SetupRows
  <2> QED BY <1>4, <2>1, RowStep
<1>6. Setup!Goto(w, "delete") \/ Setup!Done(w) BY DEF Setup!RenewCleanup, Setup!ReleaseCleanup
<1>7. "delete" \in Steps /\ worker[w].step # "idle" BY <1>2 DEF Steps, CleanSteps
<1>8. /\ worker' \in [Workers -> Jobs] /\ (JobIs(w, "delete") \/ JobDone(w))
      /\ \A v \in Workers : worker'[v].step # "idle" => worker'[v].of \in Keys
  BY <1>6, <1>7, GotoStep, DoneStep
<1>9. SetupTyped' BY <1>2, <1>5, <1>8 DEF SetupTyped
<1> QED BY <1>1, <1>2, <1>5, <1>8, <1>9

LEMMA DeleteChange ==
  ASSUME SetupTyped, NEW w \in Workers, Setup!DeleteSession(w)
  PROVE  /\ SetupTyped' /\ worker[w].of \in Keys /\ Setup!At(w, "delete")
         /\ JobIs(w, "releaseCleanup")
         /\ UNCHANGED <<setups, observer, inflight>>
         /\ sessions'[worker[w].of] \subseteq sessions[worker[w].of]
         /\ \A j \in Keys : j # worker[w].of => sessions'[j] = sessions[j]
<1>1. PICK k \in Keys : k = worker[w].of BY DEF Setup!DeleteSession, SetupTyped, Setup!At
<1>2. UNCHANGED <<setups, observer, inflight>> /\ Setup!At(w, "delete")
      /\ Setup!Goto(w, "releaseCleanup")
  BY DEF Setup!DeleteSession
<1>3. "releaseCleanup" \in Steps /\ worker[w].step # "idle" BY <1>2 DEF Steps, Setup!At
<1>4. /\ worker' \in [Workers -> Jobs] /\ JobIs(w, "releaseCleanup")
      /\ \A v \in Workers : worker'[v].step # "idle" => worker'[v].of \in Keys
  BY <1>2, <1>3, GotoStep
<1>5. sessions' = sessions \/ sessions' = [sessions EXCEPT ![k] = @ \ worker[w].seen]
  BY <1>1 DEF Setup!DeleteSession
<1>6. /\ sessions' \in [Keys -> SUBSET (1..MaxSessions)] /\ sessions'[k] \subseteq sessions[k]
      /\ \A j \in Keys : j # k => sessions'[j] = sessions[j]
  BY <1>5 DEF SetupTyped
<1> QED BY <1>1, <1>2, <1>4, <1>6 DEF SetupTyped

\* The number is released by the cleanup that found nothing and still has its lease.
LEMMA CompleteChange ==
  ASSUME Setup!SetupAssumption, SetupTyped, NEW w \in Workers, Setup!CompleteCleanup(w)
  PROVE  /\ SetupTyped' /\ worker[w].of \in Keys /\ Setup!At(w, "complete") /\ JobDone(w)
         /\ UNCHANGED <<observer, sessions, inflight, faults>>
         /\ \/ UNCHANGED setups
            \/ /\ RowOnly(worker[w].of)
               /\ setups'[worker[w].of] = [setups[worker[w].of] EXCEPT !.cleanup = "complete",
                    !.released = TRUE, !.rows = {}, !.key = FALSE, !.cleaning = Setup!NoLease,
                    !.provisioning = Setup!NoLease]
<1>1. PICK k \in Keys : k = worker[w].of BY DEF Setup!CompleteCleanup, SetupTyped, Setup!At
<1>2. UNCHANGED <<observer, sessions, inflight, faults>>
      /\ Setup!At(w, "complete") /\ Setup!Done(w)
  BY DEF Setup!CompleteCleanup
<1>3. /\ worker' \in [Workers -> Jobs] /\ JobDone(w)
      /\ \A v \in Workers : worker'[v].step # "idle" => worker'[v].of \in Keys
  BY <1>2, DoneStep
<1>4. CASE UNCHANGED setups BY <1>1, <1>2, <1>3, <1>4 DEF SetupTyped
<1>5. CASE ~UNCHANGED setups
  <2> DEFINE row == [setups[k] EXCEPT !.cleanup = "complete", !.released = TRUE, !.rows = {},
                       !.key = FALSE, !.cleaning = Setup!NoLease, !.provisioning = Setup!NoLease]
  <2>1. Setup!Update(k, row) BY <1>1, <1>5 DEF Setup!CompleteCleanup, Setup!Row
  <2>2. row \in SetupRows
    <3>1. Setup!NoLease \in Leases BY NatBounds DEF Setup!NoLease, Leases
    <3>2. setups[k] \in SetupRows BY DEF SetupTyped
    <3> QED BY <3>1, <3>2 DEF SetupRows
  <2> HIDE DEF row
  <2>3. setups' \in [Keys -> SetupRows] /\ setups'[k] = row /\ RowOnly(k) BY <2>1, <2>2, RowStep
  <2>4. SetupTyped' BY <1>2, <1>3, <2>3 DEF SetupTyped
  <2> QED BY <1>1, <1>2, <1>3, <2>3, <2>4 DEF row
<1> QED BY <1>4, <1>5

-----------------------------------------------------------------------------
LEMMA ProvisioningStored ==
  ASSUME Setup!SetupAssumption, StoredInv, NEW w \in Workers,
         \/ Setup!Provisioning(w) \/ Setup!ReconcileFails(w) \/ Setup!Rejected(w)
            \/ Setup!TimedOut(w) \/ Setup!Stop(w)
         \/ \E k \in Keys : Setup!Claim(w, k)
  PROVE  StoredInv'
<1>0. SetupTyped BY DEF StoredInv
<1>1. ASSUME NEW k \in Keys, Setup!Claim(w, k) PROVE StoredInv'
  <2>1. /\ SetupTyped' /\ RowOnly(k) /\ JobOnly(w) /\ UNCHANGED sessions
        /\ setups[k].state = "pending"
        /\ setups'[k] = [setups[k] EXCEPT !.provisioning = [owner |-> w, left |-> Lease]]
        /\ worker'[w] = [step |-> "reconcile", of |-> k, seen |-> {}]
    BY <1>0, <1>1, ClaimChange
  <2>2. setups'[k].state = setups[k].state /\ setups'[k].cleanup = setups[k].cleanup
    BY <1>0, <2>1 DEF SetupTyped, SetupRows
  <2>3. \A v \in Workers : JobFollows(v) BY <2>1 DEF JobFollows, JobOnly, CleanSteps
  <2> QED BY <2>1, <2>2, <2>3, StoredRow DEF StoredInv, OverWhenCleaned, RowFollows
<1>2. CASE Setup!Reconcile(w) \/ Setup!Create(w)
  <2>1. /\ SetupTyped' /\ JobOnly(w) /\ UNCHANGED <<setups, sessions>>
        /\ worker'[w].step \in {"renew", "finish", "fail", "posted"}
        /\ worker'[w].of = worker[w].of /\ worker[w].of \in Keys
        /\ worker'[w].step = "finish" => worker'[w].seen = sessions[worker[w].of]
    <3>1. CASE Setup!Reconcile(w) BY <1>0, <3>1, ReconcileChange
    <3>2. CASE Setup!Create(w)
      <4>1. /\ SetupTyped' /\ JobOnly(w) /\ UNCHANGED <<setups, sessions>>
               /\ worker[w].of \in Keys
            /\ \/ JobIs(w, "posted")
               \/ /\ worker'[w].step \in {"finish", "fail"} /\ worker'[w].of = worker[w].of
                  /\ worker'[w].seen = sessions[worker[w].of]
        BY <1>0, <3>2, CreateChange
      <4> QED BY <4>1 DEF JobIs
    <3> QED BY <1>2, <3>1, <3>2
  <2>2. \A v \in Workers : JobFollows(v) BY <2>1 DEF JobFollows, JobOnly, CleanSteps
  <2> QED BY <2>1, <2>2, StoredQuiet
<1>3. CASE Setup!ReconcileFails(w)
  <2>1. /\ SetupTyped' /\ UNCHANGED <<setups, sessions>> /\ Setup!At(w, "reconcile")
        /\ JobIs(w, "fail")
    BY <1>0, <1>3, FailsChange DEF Setup!ReconcileFails, Setup!At
  <2>2. \A v \in Workers : JobFollows(v) BY <2>1 DEF JobFollows, JobIs, JobOnly, CleanSteps
  <2> QED BY <2>1, <2>2, StoredQuiet
<1>4. CASE Setup!Renew(w)
  <2>1. SetupTyped' /\ UNCHANGED sessions /\ worker[w].of \in Keys BY <1>0, <1>4, RenewChange
  <2>2. CASE JobDone(w) /\ UNCHANGED setups BY <2>1, <2>2, DoneFollows, StoredQuiet
  <2>3. CASE /\ Setup!Holds(w) /\ JobIs(w, "create") /\ RowOnly(worker[w].of)
             /\ setups'[worker[w].of] = [setups[worker[w].of] EXCEPT !.provisioning.left = Lease]
    <3>1. PICK k \in Keys : k = worker[w].of BY <2>1
    <3>2. setups'[k].state = "pending" /\ setups[k].state = "pending"
          /\ setups'[k].cleanup = setups[k].cleanup
      BY <1>0, <2>3, <3>1 DEF SetupTyped, SetupRows, Setup!Holds, Setup!Row
    <3>3. \A v \in Workers : JobFollows(v) BY <2>3 DEF JobFollows, JobIs, JobOnly, CleanSteps
    <3> QED
      BY <2>1, <2>3, <3>1, <3>2, <3>3, StoredRow
      DEF StoredInv, OverWhenCleaned, RowFollows, Setup!Cleanable, Setup!Terminal
  <2> QED BY <1>0, <1>4, <2>2, <2>3, RenewChange
<1>5. CASE Setup!Created(w)
  <2>1. /\ SetupTyped' /\ JobOnly(w) /\ UNCHANGED setups /\ Applied(worker[w].of)
        /\ worker'[w].step = "finish" /\ worker'[w].of = worker[w].of /\ worker[w].of \in Keys
        /\ worker'[w].seen = {Setup!New(worker[w].of)}
    BY <1>0, <1>5, CreatedChange
  <2>2. \A v \in Workers : JobFollows(v) BY <2>1 DEF JobFollows, JobOnly, CleanSteps, Applied
  <2>3. CleanedAfter /\ OverStays /\ \A k \in Keys : RowFollows(k)
    BY <2>1 DEF StoredInv, Unused, OverWhenCleaned, CleanedAfter, OverStays, RowFollows
  <2>4. SessionsStay BY <2>1 DEF SessionsStay, Applied
  <2> QED BY <2>1, <2>2, <2>3, <2>4, StoredKeeps
<1>6. CASE Setup!Rejected(w) \/ Setup!TimedOut(w)
  <2>1. /\ SetupTyped' /\ worker[w].of \in Keys /\ UNCHANGED setups
        /\ JobIs(w, "fail") \/ JobIs(w, "release")
        /\ \/ Applied(worker[w].of) \/ Dropped(worker[w].of) \/ UNCHANGED sessions
    BY <1>0, <1>6, UncertainChange
  <2>2. \A v \in Workers : JobFollows(v) BY <2>1 DEF JobFollows, JobIs, JobOnly, CleanSteps
  <2>3. CleanedAfter /\ OverStays /\ \A k \in Keys : RowFollows(k)
    BY <2>1 DEF StoredInv, Unused, OverWhenCleaned, CleanedAfter, OverStays, RowFollows
  <2>4. SessionsStay BY <2>1 DEF SessionsStay, Applied, Dropped
  <2> QED BY <2>1, <2>2, <2>3, <2>4, StoredKeeps
<1>7. CASE Setup!Finish(w)
  <2>1. SetupTyped' /\ UNCHANGED sessions /\ JobDone(w) /\ worker[w].of \in Keys
        /\ Setup!At(w, "finish")
    BY <1>0, <1>7, FinishChange
  <2>2. \A v \in Workers : JobFollows(v) BY <2>1, DoneFollows
  <2>3. CASE UNCHANGED setups BY <2>1, <2>2, <2>3, StoredQuiet
  <2>4. CASE ~UNCHANGED setups
    <3>1. PICK k \in Keys : k = worker[w].of BY <2>1
    <3>2. PICK state \in {"provisioned", "quarantined"} :
            /\ state = "provisioned" <=> Setup!Cardinality(worker[w].seen) = 1
            /\ setups'[k] = [setups[k] EXCEPT !.state = state, !.provisioning = Setup!NoLease,
                                            !.rows = worker[w].seen]
      BY <1>0, <1>7, <2>4, <3>1, FinishChange
    <3>3. Setup!Holds(w) /\ RowOnly(k) BY <1>0, <1>7, <2>4, <3>1, FinishChange
    <3>4. /\ setups'[k].state = state /\ setups'[k].cleanup = setups[k].cleanup
          /\ setups'[k].rows = worker[w].seen /\ setups[k].state = "pending"
      BY <1>0, <3>1, <3>2, <3>3 DEF SetupTyped, SetupRows, Setup!Holds, Setup!Row
    <3>5. worker[w].seen \subseteq sessions[k]
      BY <2>1, <3>1, <3>4 DEF StoredInv, SeenStays, Setup!Row, Setup!Cleanable, Setup!Terminal
    <3>6. Setup!Cardinality(worker[w].seen) = 1 => worker[w].seen # {} BY FS_EmptySet, SameSize
    <3>7. RowFollows(k) BY <2>1, <3>2, <3>4, <3>5, <3>6 DEF RowFollows
    <3>8. setups[k].cleanup = "none"
      BY <3>4 DEF StoredInv, OverWhenCleaned, Setup!Cleanable, Setup!Terminal
    <3> QED BY <2>1, <2>2, <3>3, <3>4, <3>7, <3>8, StoredRow DEF Setup!Cleanable, Setup!Terminal
  <2> QED BY <2>3, <2>4
<1>8. CASE Setup!Fail(w) \/ Setup!Release(w)
  <2>1. SetupTyped' /\ UNCHANGED sessions /\ JobDone(w) /\ worker[w].of \in Keys
    BY <1>0, <1>8, GivesUpChange
  <2>2. \A v \in Workers : JobFollows(v) BY <2>1, DoneFollows
  <2>3. CASE UNCHANGED setups BY <2>1, <2>2, <2>3, StoredQuiet
  <2>4. CASE ~UNCHANGED setups
    <3>1. PICK k \in Keys : k = worker[w].of BY <2>1
    <3>2. PICK state \in {"pending", "provisioning_failed"} :
            setups'[k] = [setups[k] EXCEPT !.state = state, !.provisioning = Setup!NoLease]
      BY <1>0, <1>8, <2>4, <3>1, GivesUpChange
    <3>3. setups[k].state = "pending" /\ RowOnly(k)
      BY <1>0, <1>8, <2>4, <3>1, GivesUpChange DEF Setup!Row
    <3>4. setups'[k].state = state /\ setups'[k].cleanup = setups[k].cleanup
      BY <1>0, <3>1, <3>2 DEF SetupTyped, SetupRows
    <3>5. setups[k].cleanup = "none"
      BY <3>3 DEF StoredInv, OverWhenCleaned, Setup!Cleanable, Setup!Terminal
    <3> QED
      BY <2>1, <2>2, <3>3, <3>4, <3>5, StoredRow DEF Setup!Cleanable, Setup!Terminal, RowFollows
  <2> QED BY <2>3, <2>4
<1>9. CASE Setup!Stop(w)
  <2>1. /\ SetupTyped' /\ worker[w].of \in Keys /\ JobDone(w) /\ RowOnly(worker[w].of)
        /\ Applied(worker[w].of) \/ Dropped(worker[w].of) \/ UNCHANGED sessions
    BY <1>0, <1>9, StopChange
  <2>2. PICK k \in Keys : k = worker[w].of BY <2>1
  <2>3. PICK p \in Leases, c \in Leases :
          setups'[k] = [setups[k] EXCEPT !.provisioning = p, !.cleaning = c]
    BY <1>0, <1>9, <2>2, StopChange
  <2>4. /\ setups'[k].state = setups[k].state /\ setups'[k].cleanup = setups[k].cleanup
        /\ setups'[k].rows = setups[k].rows /\ setups'[k].number = setups[k].number
    BY <1>0, <2>3 DEF SetupTyped, SetupRows
  <2>6. \A v \in Workers : JobFollows(v) BY <2>1, DoneFollows
  <2>7. CleanedAfter
    BY <2>1, <2>2, <2>4 DEF StoredInv, Unused, OverWhenCleaned, CleanedAfter, RowOnly
  <2>8. OverStays BY <2>1, <2>2, <2>4 DEF OverStays, RowOnly
  <2>9. SessionsStay BY <2>1 DEF SessionsStay, Applied, Dropped
  <2>10. \A j \in Keys : RowFollows(j) BY <2>1, <2>2, <2>4 DEF RowFollows, RowOnly
  <2> QED BY <2>1, <2>6, <2>7, <2>8, <2>9, <2>10, StoredKeeps
<1> QED BY <1>1, <1>2, <1>3, <1>4, <1>5, <1>6, <1>7, <1>8, <1>9 DEF Setup!Provisioning

LEMMA CleanupStored ==
  ASSUME Setup!SetupAssumption, StoredInv, NEW w \in Workers,
         Setup!Cleanup(w) \/ Setup!CleanupReadFails(w) \/ \E k \in Keys : Setup!ClaimCleanup(w, k)
  PROVE  StoredInv'
<1>0. SetupTyped BY DEF StoredInv
<1>1. ASSUME NEW k \in Keys, Setup!ClaimCleanup(w, k) PROVE StoredInv'
  <2>1. /\ SetupTyped' /\ RowOnly(k) /\ JobOnly(w) /\ UNCHANGED sessions
        /\ setups[k].cleanup = "pending"
        /\ setups'[k] = [setups[k] EXCEPT !.provisioning = Setup!NoLease,
                                        !.cleaning = [owner |-> w, left |-> Lease]]
        /\ worker'[w] = [step |-> "clean", of |-> k, seen |-> {}]
    BY <1>0, <1>1, ClaimCleanupChange
  <2>2. /\ setups'[k].state = setups[k].state /\ setups'[k].cleanup = setups[k].cleanup
        /\ setups'[k].rows = setups[k].rows
    BY <1>0, <2>1 DEF SetupTyped, SetupRows
  <2>3. setups[k].state \in Setup!Cleanable BY <2>1 DEF StoredInv, OverWhenCleaned
  <2>a. worker'[w].step = "clean" /\ worker'[w].of = k /\ setups'[k].state \in Setup!Cleanable
    BY <2>1, <2>2, <2>3
  <2>b. JobFollows(w) BY <2>a DEF JobFollows
  <2>4. \A v \in Workers : JobFollows(v) BY <2>1, <2>b DEF JobFollows, JobOnly
  <2> QED BY <2>1, <2>2, <2>3, <2>4, StoredRow DEF RowFollows, Setup!Cleanable, Setup!Terminal
<1>2. CASE Setup!CleanupReadFails(w)
  <2>1. /\ SetupTyped' /\ UNCHANGED <<setups, sessions>> /\ Setup!At(w, "clean")
        /\ JobIs(w, "releaseCleanup") /\ worker[w].of \in Keys
    BY <1>0, <1>2, FailsChange DEF Setup!CleanupReadFails, Setup!At
  <2>2. Setup!Row(w).state \in Setup!Cleanable
    BY <2>1 DEF StoredInv, OverWhenCleaned, CleanSteps, Setup!At
  <2>3. \A v \in Workers : JobFollows(v) BY <2>1, <2>2 DEF JobFollows, JobIs, JobOnly, Setup!Row
  <2> QED BY <2>1, <2>3, StoredQuiet
<1>3. CASE Setup!ReconcileForCleanup(w)
  <2>1. /\ SetupTyped' /\ JobOnly(w) /\ UNCHANGED <<setups, sessions>> /\ Setup!At(w, "clean")
        /\ worker[w].of \in Keys /\ worker'[w].of = worker[w].of
        /\ worker'[w].step \in {"complete", "renewCleanup"}
    BY <1>0, <1>3, ReconcileForCleanupChange
  <2>2. Setup!Row(w).state \in Setup!Cleanable
    BY <2>1 DEF StoredInv, OverWhenCleaned, CleanSteps, Setup!At
  <2>3. \A v \in Workers : JobFollows(v) BY <2>1, <2>2 DEF JobFollows, JobOnly, Setup!Row
  <2> QED BY <2>1, <2>3, StoredQuiet
<1>4. CASE Setup!RenewCleanup(w) \/ Setup!ReleaseCleanup(w)
  <2>1. /\ SetupTyped' /\ worker[w].of \in Keys /\ worker[w].step \in CleanSteps
        /\ UNCHANGED sessions /\ (JobIs(w, "delete") \/ JobDone(w))
    BY <1>0, <1>4, CleaningChange
  <2>2. PICK k \in Keys : k = worker[w].of BY <2>1
  <2>3. setups[k].state \in Setup!Cleanable
    BY <2>1, <2>2 DEF StoredInv, OverWhenCleaned, Setup!Row
  <2>4. RowOnly(k) /\ setups'[k].state = setups[k].state /\ setups'[k].cleanup = setups[k].cleanup
    <3>1. CASE UNCHANGED setups BY <3>1 DEF RowOnly
    <3>2. CASE ~UNCHANGED setups
      <4>1. PICK c \in Leases : RowOnly(k) /\ setups'[k] = [setups[k] EXCEPT !.cleaning = c]
        BY <1>0, <1>4, <2>2, <3>2, CleaningChange
      <4> QED BY <1>0, <4>1 DEF SetupTyped, SetupRows
    <3> QED BY <3>1, <3>2
  <2>5. \A v \in Workers : JobFollows(v)
    BY <2>1, <2>2, <2>3, <2>4, DoneFollows DEF JobFollows, JobIs, JobOnly
  <2> QED BY <2>1, <2>3, <2>4, <2>5, StoredRow DEF RowFollows, Setup!Cleanable, Setup!Terminal
<1>5. CASE Setup!DeleteSession(w)
  <2>1. /\ SetupTyped' /\ worker[w].of \in Keys /\ Setup!At(w, "delete")
        /\ JobIs(w, "releaseCleanup")
        /\ UNCHANGED setups /\ \A j \in Keys : j # worker[w].of => sessions'[j] = sessions[j]
    BY <1>0, <1>5, DeleteChange
  <2>2. Setup!Row(w).state \in Setup!Cleanable
    BY <2>1 DEF StoredInv, OverWhenCleaned, CleanSteps, Setup!At
  <2>3. \A v \in Workers : JobFollows(v) BY <2>1, <2>2 DEF JobFollows, JobIs, JobOnly, Setup!Row
  <2>4. CleanedAfter /\ OverStays /\ \A k \in Keys : RowFollows(k)
    BY <2>1 DEF StoredInv, Unused, OverWhenCleaned, CleanedAfter, OverStays, RowFollows
  <2>5. SessionsStay BY <2>1, <2>2 DEF SessionsStay, Setup!Row
  <2> QED BY <2>1, <2>3, <2>4, <2>5, StoredKeeps
<1>6. CASE Setup!CompleteCleanup(w)
  <2>1. /\ SetupTyped' /\ worker[w].of \in Keys /\ Setup!At(w, "complete") /\ JobDone(w)
        /\ UNCHANGED sessions
    BY <1>0, <1>6, CompleteChange
  <2>2. PICK k \in Keys : k = worker[w].of BY <2>1
  <2>3. setups[k].state \in Setup!Cleanable
    BY <2>1, <2>2 DEF StoredInv, OverWhenCleaned, Setup!Row, CleanSteps, Setup!At
  <2>4. RowOnly(k) /\ setups'[k].state = setups[k].state
    <3>1. CASE UNCHANGED setups BY <3>1 DEF RowOnly
    <3>2. CASE ~UNCHANGED setups
      <4>1. /\ RowOnly(k)
            /\ setups'[k] = [setups[k] EXCEPT !.cleanup = "complete", !.released = TRUE,
               !.rows = {},
                 !.key = FALSE, !.cleaning = Setup!NoLease, !.provisioning = Setup!NoLease]
        BY <1>0, <1>6, <2>2, <3>2, CompleteChange
      <4> QED BY <1>0, <4>1 DEF SetupTyped, SetupRows
    <3> QED BY <3>1, <3>2
  <2>5. \A v \in Workers : JobFollows(v) BY <2>1, DoneFollows
  <2> QED BY <2>1, <2>3, <2>4, <2>5, StoredRow DEF RowFollows, Setup!Cleanable, Setup!Terminal
<1> QED BY <1>1, <1>2, <1>3, <1>4, <1>5, <1>6 DEF Setup!Cleanup

LEMMA OtherStored ==
  ASSUME Setup!SetupAssumption, StoredInv,
         \/ Setup!Tick \/ Setup!Expire
         \/ \E k \in Keys : \/ Setup!Request(k) \/ Setup!Settle(k)
                            \/ \E o \in Observers : Setup!Load(o, k)
         \/ \E o \in Observers : Setup!Activate(o) \/ Setup!RejectActivation(o)
  PROVE  StoredInv'
<1>0. SetupTyped BY DEF StoredInv
<1>1. CASE Setup!Tick
  <2>1. SetupTyped' /\ UNCHANGED <<worker, sessions>> BY <1>0, <1>1, TickChange
  <2>2. ASSUME NEW k \in Keys
        PROVE  /\ setups'[k].state = setups[k].state /\ setups'[k].cleanup = setups[k].cleanup
               /\ setups'[k].rows = setups[k].rows /\ setups'[k].number = setups[k].number
    <3>1. PICK n \in 0..Life, p \in Leases, c \in Leases :
            /\ setups'[k] = [setups[k] EXCEPT !.left = n, !.provisioning = p, !.cleaning = c]
            /\ p.owner = setups[k].provisioning.owner
            /\ p.left <= setups[k].provisioning.left
            /\ setups[k].provisioning.left > 1 => p.left > 0
      BY <1>0, <1>1, TickChange
    <3> QED BY <1>0, <3>1 DEF SetupTyped, SetupRows
  <2>3. CleanedAfter BY <2>2 DEF StoredInv, Unused, OverWhenCleaned, CleanedAfter
  <2> QED BY <2>1, <2>2, <2>3, StoredKeeps DEF OverStays, SessionsStay, RowFollows, JobFollows
<1>2. CASE Setup!Expire \/ \E k \in Keys : Setup!Cancel(k)
  <2>1. SetupTyped' /\ UNCHANGED <<worker, sessions>> BY <1>0, <1>2, EndChange
  <2>2. ASSUME NEW k \in Keys
        PROVE  \/ setups'[k] = setups[k]
               \/ setups'[k].state \in Setup!Terminal
    <3>1. \/ setups'[k] = setups[k]
          \/ \E state \in Setup!Terminal :
               setups'[k] = [setups[k] EXCEPT !.state = state, !.cleanup = "pending"]
      BY <1>0, <1>2, EndChange
    <3> QED BY <1>0, <3>1 DEF SetupTyped, SetupRows
  <2>3. CleanedAfter
    BY <2>2 DEF StoredInv, Unused, OverWhenCleaned, CleanedAfter, Setup!Cleanable, Setup!Terminal
  <2> QED BY <2>1, <2>2, <2>3, StoredKeeps
      DEF OverStays, SessionsStay, RowFollows, JobFollows, Setup!Cleanable, Setup!Terminal
<1>3. ASSUME NEW k \in Keys, NEW n \in Numbers, Setup!Start(k, n) PROVE StoredInv'
  <2>1. /\ SetupTyped' /\ RowOnly(k) /\ setups[k].state = "none" /\ setups'[k].state = "pending"
        /\ setups'[k].cleanup = "none" /\ UNCHANGED <<worker, sessions>>
    BY <1>0, <1>3, StartChange
  <2> QED BY <2>1, StoredRow DEF JobFollows, RowFollows, Setup!Cleanable, Setup!Terminal
<1>4. ASSUME NEW k \in Keys, Setup!Settle(k) PROVE StoredInv'
  <2>1. SetupTyped' /\ UNCHANGED <<setups, worker>> /\ (Applied(k) \/ Dropped(k))
    BY <1>0, <1>4, SettleChange
  <2>2. SessionsStay BY <2>1 DEF SessionsStay, Applied, Dropped
  <2>3. CleanedAfter /\ OverStays /\ \A j \in Keys : RowFollows(j)
    BY <2>1 DEF StoredInv, Unused, OverWhenCleaned, CleanedAfter, OverStays, RowFollows
  <2> QED BY <2>1, <2>2, <2>3, StoredKeeps DEF JobFollows
<1>5. ASSUME NEW k \in Keys, NEW o \in Observers, Setup!Load(o, k) PROVE StoredInv'
  BY <1>0, <1>5, LoadChange, StoredQuiet DEF JobFollows
<1>6. ASSUME NEW o \in Observers, Setup!Activate(o) \/ Setup!RejectActivation(o) PROVE StoredInv'
  <2>1. SetupTyped' /\ UNCHANGED <<worker, sessions>> BY <1>0, <1>6, BrowserChange
  <2>2. \A w \in Workers : JobFollows(w) BY <2>1 DEF JobFollows
  <2>3. CASE UNCHANGED setups BY <2>1, <2>2, <2>3, StoredQuiet
  <2>4. CASE ~UNCHANGED setups
    <3>1. PICK k \in Keys :
            /\ RowOnly(k) /\ setups[k].state \in {"provisioned", "provisioning_failed"}
            /\ \/ /\ setups[k].state = "provisioned"
                  /\ setups'[k] = [setups[k] EXCEPT !.state = "activated"]
               \/ /\ setups[k].state = "provisioning_failed"
                  /\ setups'[k] = [setups[k] EXCEPT !.cleanup = "pending"]
               \/ /\ setups[k].state = "provisioned"
                  /\ setups'[k] = [setups[k] EXCEPT !.state = "provisioning_failed",
                         !.provisioning = Setup!NoLease, !.cleanup = "pending",
                         !.cleaning = Setup!NoLease]
      BY <1>0, <1>6, <2>4, BrowserChange
    <3>2. setups[k] \in SetupRows BY <1>0 DEF SetupTyped
    <3>3. /\ setups'[k].state \in {"activated", "provisioning_failed"}
          /\ setups'[k].state = "activated" => setups[k].state = "provisioned"
               /\ setups'[k].rows = setups[k].rows /\ setups'[k].cleanup = setups[k].cleanup
          /\ setups[k].state \in Setup!Cleanable => setups'[k].state \in Setup!Cleanable
      BY <3>1, <3>2 DEF SetupRows, Setup!Cleanable, Setup!Terminal
    <3>4. setups[k].state = "provisioned" => setups[k].cleanup = "none"
      BY DEF StoredInv, OverWhenCleaned, Setup!Cleanable, Setup!Terminal
    <3> QED
      BY <2>1, <2>2, <3>1, <3>3, <3>4, StoredRow DEF RowFollows, Setup!Cleanable, Setup!Terminal
  <2> QED BY <2>3, <2>4
<1> QED BY <1>1, <1>2, <1>3, <1>4, <1>5, <1>6 DEF Setup!Request

LEMMA StoredStep == ASSUME Setup!SetupAssumption, StoredInv,
         [Setup!Next]_Setup!vars PROVE StoredInv'
<1>1. CASE UNCHANGED Setup!vars
  BY <1>1, StoredQuiet DEF Setup!vars, StoredInv, SetupTyped, JobFollows
<1>2. CASE Setup!Next
  BY <1>2, ProvisioningStored, CleanupStored, OtherStored DEF Setup!Next, Setup!Failure
<1> QED BY <1>1, <1>2

LEMMA StoredInvariant == ASSUME Setup!SetupAssumption PROVE Setup!Spec => []StoredInv
<1>1. Setup!Init => StoredInv BY InitStored
<1>2. StoredInv /\ [Setup!Next]_Setup!vars => StoredInv' BY StoredStep
<1> QED BY <1>1, <1>2, PTL DEF Setup!Spec

-----------------------------------------------------------------------------
\* What a step may do to a row: nobody has a lease that he did not have, and it becomes
\* usable with what the provider has, or released when that is nothing.
RowCalm(k) ==
  LET lease == setups[k].provisioning
      after == setups'[k].provisioning
  IN /\ setups'[k].number = setups[k].number
     /\ \/ setups'[k].released = setups[k].released
        \/ setups'[k].released /\ setups'[k].state \in Setup!Cleanable /\ after.left = 0
           /\ sessions'[k] = {}
     /\ setups'[k].state = "pending" => setups[k].state = "pending"
     /\ setups[k].state \in Setup!Cleanable => setups'[k].state \in Setup!Cleanable
     /\ setups'[k].state \in {"provisioned", "activated"} =>
          \/ setups[k].state \in {"provisioned", "activated"} /\ setups'[k].rows = setups[k].rows
          \/ setups'[k].rows = sessions'[k] /\ setups'[k].rows # {}
     /\ \A v \in Workers : after.owner = v /\ after.left > 0 => lease.owner = v /\ lease.left > 0
     /\ lease.left = 0 => after.left = 0
     /\ setups'[k].state \notin {"pending"} \cup Setup!Terminal => after.left = 0
JobCalm(v) ==
  \/ worker'[v] = worker[v]
  \/ LET job == worker'[v]
     IN /\ job.step \in CleanSteps => setups'[job.of].provisioning.left = 0
        /\ job.step = "finish" => job.seen = sessions'[job.of]
        /\ job.step = "complete" => sessions'[job.of] = {}

\* The clauses about the rows that need no more than this.
LEMMA CalmRows ==
  ASSUME StoredInv, StoredInv', LeaseInv, \A k \in Keys : RowCalm(k)
  PROVE  /\ \A k \in Keys : setups'[k].state \notin {"pending"} \cup Setup!Terminal =>
              setups'[k].provisioning.left = 0
         /\ NumbersApart'
         /\ \A k \in Keys : setups'[k].released =>
              /\ setups'[k].state \in Setup!Cleanable /\ setups'[k].provisioning.left = 0
              /\ sessions[k] = {} \/ sessions'[k] = {}
BY DEF RowCalm, LeaseInv, LeaseOver, NumbersApart, Absent

LEMMA LeaseCalm ==
  ASSUME StoredInv, StoredInv', LeaseInv, LeaseHeld', UNCHANGED <<sessions, inflight>>,
         \A k \in Keys : RowCalm(k), \A v \in Workers : JobCalm(v),
         \A v \in Workers : Setup!At(v, "posted") <=> Setup!At(v, "posted")',
         \A v \in Workers : Setup!At(v, "posted") => worker'[v].of = worker[v].of
  PROVE  LeaseInv'
<1>1. LeaseOver'
  <2>1. ASSUME NEW v \in Workers, worker'[v].step \in CleanSteps
        PROVE  setups'[worker'[v].of].provisioning.left = 0
    <3>1. worker'[v].of \in Keys BY <2>1 DEF StoredInv, SetupTyped, CleanSteps
    <3>2. CASE worker'[v] = worker[v]
      BY <2>1, <3>1, <3>2 DEF LeaseInv, LeaseOver, RowCalm, Setup!Row
    <3>3. CASE worker'[v] # worker[v] BY <2>1, <3>3 DEF JobCalm
    <3> QED BY <3>2, <3>3
  <2> QED BY <2>1, CalmRows DEF LeaseOver, Setup!Row, Setup!Terminal
<1>2. OneCreate'
  <2>1. \A k \in Keys : Posting(k)' <=> Posting(k) BY DEF Posting, Setup!At
  <2> QED BY <2>1 DEF LeaseInv, OneCreate
<1>3. OneSession' BY DEF LeaseInv, OneSession
<1>4. SeenIsAll'
  <2>1. ASSUME NEW v \in Workers, worker'[v].step = "finish",
               setups'[worker'[v].of].state = "pending",
               setups'[worker'[v].of].provisioning.owner = v,
               setups'[worker'[v].of].provisioning.left > 0
        PROVE  worker'[v].seen = sessions'[worker'[v].of]
    <3>1. worker'[v].of \in Keys BY <2>1 DEF StoredInv, SetupTyped
    <3>2. CASE worker'[v] = worker[v]
      BY <2>1, <3>1, <3>2 DEF LeaseInv, SeenIsAll, RowCalm, Setup!Row, Setup!Holds, Setup!At
    <3>3. CASE worker'[v] # worker[v] BY <2>1, <3>3 DEF JobCalm
    <3> QED BY <3>2, <3>3
  <2> QED BY <2>1 DEF SeenIsAll, Setup!Row, Setup!Holds, Setup!At
<1>5. Absent'
  <2>1. ASSUME NEW v \in Workers, worker'[v].step = "complete" PROVE sessions'[worker'[v].of] = {}
    <3>2. CASE worker'[v] = worker[v] BY <2>1, <3>2 DEF LeaseInv, Absent, Setup!At
    <3>3. CASE worker'[v] # worker[v] BY <2>1, <3>3 DEF JobCalm
    <3> QED BY <3>2, <3>3
  <2> QED BY <2>1, CalmRows DEF Absent, Setup!At, Setup!Cleanable, Setup!Terminal
<1>6. NumbersApart' BY CalmRows
<1>7. Usable' BY DEF LeaseInv, Usable, RowCalm
<1> QED BY <1>1, <1>2, <1>3, <1>4, <1>5, <1>6, <1>7 DEF LeaseInv

\* Nobody else has the lease of a setup for which a create is about to be made, or is made.
LEMMA OnlyHolder ==
  ASSUME StoredInv, LeaseInv, NEW w \in Workers, worker[w].step \in {"create", "posted"},
         NEW k \in Keys, k = worker[w].of
  PROVE  /\ setups[k].provisioning.owner = w /\ setups[k].provisioning.left > 0
         /\ setups[k].state \in {"pending"} \cup Setup!Terminal /\ ~setups[k].released
         /\ \A v \in Workers : v # w /\ worker[v].of = k =>
              worker[v].step \notin {"create", "posted"} \cup CleanSteps /\ ~Setup!Holds(v)
<1>1. setups[k].provisioning.owner = w /\ setups[k].provisioning.left > 0
  BY DEF LeaseInv, LeaseHeld, Setup!Row
<1>2. setups[k].state \in {"pending"} \cup Setup!Terminal BY <1>1 DEF LeaseInv, LeaseOver
<1>3. ~setups[k].released BY <1>1 DEF LeaseInv, Absent
<1>4. ASSUME NEW v \in Workers, v # w, worker[v].of = k
      PROVE  worker[v].step \notin {"create", "posted"} \cup CleanSteps /\ ~Setup!Holds(v)
  BY <1>1, <1>4 DEF LeaseInv, LeaseHeld, LeaseOver, Setup!Holds, Setup!Row
<1> QED BY <1>1, <1>2, <1>3, <1>4

\* The create of the one invocation that posts ends, with a session or without one.
LEMMA PostedEnds ==
  ASSUME StoredInv, StoredInv', LeaseInv, NEW w \in Workers, Setup!At(w, "posted"),
         Applied(worker[w].of) \/ Dropped(worker[w].of), LeaseHeld', JobOnly(w),
         \A k \in Keys : /\ RowCalm(k) /\ setups'[k].state = setups[k].state
                         /\ setups'[k].released = setups[k].released,
         worker'[w].step \in {"idle", "fail", "release", "finish"},
         worker'[w].step = "finish" =>
           worker'[w].of = worker[w].of /\ worker'[w].seen = sessions'[worker[w].of]
  PROVE  LeaseInv'
<1>1. PICK k \in Keys : k = worker[w].of BY DEF StoredInv, SetupTyped, Setup!At
<1>2. /\ setups[k].provisioning.owner = w /\ setups[k].provisioning.left > 0
      /\ setups[k].state \in {"pending"} \cup Setup!Terminal /\ ~setups[k].released
      /\ \A v \in Workers : v # w /\ worker[v].of = k =>
           worker[v].step \notin {"create", "posted"} \cup CleanSteps /\ ~Setup!Holds(v)
  BY <1>1, OnlyHolder DEF Setup!At
<1>3. inflight[k] = 1 /\ sessions[k] = {}
  <2>1. Posting(k) BY <1>1 DEF Posting
  <2> QED BY <2>1 DEF LeaseInv, OneCreate
<1>4. inflight'[k] = 0 /\ \A j \in Keys : j # k => inflight'[j] = inflight[j]
      /\ sessions'[j] = sessions[j]
  BY <1>1, <1>3 DEF Applied, Dropped
<1>5. \A s, t \in sessions'[k] : s = t BY <1>1, <1>3 DEF Applied, Dropped
<1>6. LeaseOver'
  <2>1. ASSUME NEW v \in Workers, worker'[v].step \in CleanSteps
        PROVE  setups'[worker'[v].of].provisioning.left = 0
    <3>1. v # w /\ worker'[v] = worker[v] BY <2>1 DEF CleanSteps, JobOnly
    <3>2. worker[v].of \in Keys BY <2>1, <3>1 DEF StoredInv, SetupTyped, CleanSteps
    <3> QED BY <2>1, <3>1, <3>2 DEF LeaseInv, LeaseOver, RowCalm, Setup!Row
  <2> QED BY <2>1, CalmRows DEF LeaseOver, Setup!Row, Setup!Terminal
<1>7. OneCreate'
  <2>1. ~Posting(k)' BY <1>1, <1>2 DEF Posting, Setup!At, JobOnly
  <2>2. \A j \in Keys \ {k} : Posting(j)' <=> Posting(j) BY <1>1 DEF Posting, Setup!At, JobOnly
  <2> QED BY <1>4, <2>1, <2>2 DEF LeaseInv, OneCreate
<1>8. OneSession' BY <1>4, <1>5 DEF LeaseInv, OneSession
<1>9. SeenIsAll'
  <2>1. ASSUME NEW v \in Workers, worker'[v].step = "finish",
               setups'[worker'[v].of].state = "pending",
               setups'[worker'[v].of].provisioning.owner = v,
               setups'[worker'[v].of].provisioning.left > 0
        PROVE  worker'[v].seen = sessions'[worker'[v].of]
    <3>1. CASE v = w BY <2>1, <3>1
    <3>2. CASE v # w
      <4>1. worker'[v] = worker[v] BY <3>2 DEF JobOnly
      <4>2. worker[v].of \in Keys BY <2>1, <4>1 DEF StoredInv, SetupTyped
      <4>3. Setup!Holds(v) BY <2>1, <4>1, <4>2 DEF RowCalm, Setup!Holds, Setup!Row
      <4>4. worker[v].of # k BY <1>2, <3>2, <4>3
      <4> QED BY <1>4, <2>1, <4>1, <4>2, <4>3, <4>4 DEF LeaseInv, SeenIsAll, Setup!At
    <3> QED BY <3>1, <3>2
  <2> QED BY <2>1 DEF SeenIsAll, Setup!Row, Setup!Holds, Setup!At
<1>10. Absent'
  <2>1. ASSUME NEW v \in Workers, worker'[v].step = "complete" PROVE sessions'[worker'[v].of] = {}
    <3>1. v # w /\ worker'[v] = worker[v] BY <2>1 DEF JobOnly
    <3>2. worker[v].of \in Keys /\ worker[v].of # k
      BY <1>2, <2>1, <3>1 DEF StoredInv, SetupTyped, CleanSteps
    <3> QED BY <1>4, <2>1, <3>1, <3>2 DEF LeaseInv, Absent, Setup!At
  <2>2. ~setups'[k].released BY <1>2
  <2> QED BY <1>4, <2>1, <2>2, CalmRows DEF Absent, Setup!At, Setup!Cleanable, Setup!Terminal
<1>11. NumbersApart' BY CalmRows
<1>12. Usable'
  <2>1. setups'[k].state \notin {"provisioned", "activated"} BY <1>2 DEF Setup!Terminal
  <2> QED BY <1>4, <2>1 DEF LeaseInv, Usable, RowCalm
<1> QED BY <1>6, <1>7, <1>8, <1>9, <1>10, <1>11, <1>12 DEF LeaseInv

\* Rows that do not change, and leases that stay.
LEMMA SameCalm ==
  ASSUME StoredInv, LeaseInv, NEW k \in Keys, setups'[k] = setups[k] PROVE RowCalm(k)
BY DEF RowCalm, LeaseInv, LeaseOver

LEMMA HeldStays ==
  ASSUME StoredInv, LeaseInv,
         \A v \in Workers : worker'[v].step \in {"create", "posted"} =>
           /\ worker[v].step \in {"create", "posted"} /\ worker'[v].of = worker[v].of
           /\ setups'[worker[v].of].provisioning.owner = setups[worker[v].of].provisioning.owner
           /\ setups'[worker[v].of].provisioning.left > 0
  PROVE  LeaseHeld'
<1> SUFFICES ASSUME NEW v \in Workers, worker'[v].step \in {"create", "posted"}
             PROVE  setups'[worker'[v].of].provisioning.owner = v
             /\ setups'[worker'[v].of].provisioning.left > 0
  BY DEF LeaseHeld, Setup!Row
<1> QED BY DEF LeaseInv, LeaseHeld, Setup!Row

\* An invocation that goes on without a write.
LEMMA JobGoesOn ==
  ASSUME StoredInv, StoredInv', LeaseInv, NEW w \in Workers, JobOnly(w),
         UNCHANGED <<setups, sessions, inflight>>, ~Setup!At(w, "posted"),
         worker'[w].step \notin {"create", "posted"}, JobCalm(w)
  PROVE  LeaseInv'
<1>1. \A k \in Keys : RowCalm(k) BY SameCalm
<1>2. \A v \in Workers : JobCalm(v) BY DEF JobCalm, JobOnly
<1>3. \A v \in Workers : worker'[v].step \in {"create", "posted"} => worker'[v] = worker[v]
  BY DEF JobOnly
<1>4. LeaseHeld' BY <1>3 DEF LeaseInv, LeaseHeld, Setup!Row
<1>5. \A v \in Workers : /\ Setup!At(v, "posted") <=> Setup!At(v, "posted")'
                         /\ Setup!At(v, "posted") => worker'[v].of = worker[v].of
  BY DEF Setup!At, JobOnly
<1> QED BY <1>1, <1>2, <1>4, <1>5, LeaseCalm

\* An invocation that writes one row.
LEMMA RowWritten ==
  ASSUME StoredInv, StoredInv', LeaseInv, NEW w \in Workers, JobOnly(w), NEW k \in Keys,
         RowOnly(k),
         UNCHANGED <<sessions, inflight>>, ~Setup!At(w, "posted"), worker'[w].step # "posted",
         RowCalm(k),
         JobCalm(w),
         worker'[w].step = "create" =>
           /\ worker'[w].of = k /\ setups'[k].provisioning.owner = w
              /\ setups'[k].provisioning.left > 0,
         \/ setups'[k].provisioning = setups[k].provisioning
         \/ \A v \in Workers : v # w /\ worker[v].of = k => worker[v].step \notin {"create",
            "posted"}
  PROVE  LeaseInv'
<1>1. \A j \in Keys : RowCalm(j) BY SameCalm DEF RowOnly
<1>2. \A v \in Workers : JobCalm(v) BY DEF JobCalm, JobOnly
<1>3. LeaseHeld'
  <2> SUFFICES ASSUME NEW v \in Workers, worker'[v].step \in {"create", "posted"}
               PROVE  /\ setups'[worker'[v].of].provisioning.owner = v
                      /\ setups'[worker'[v].of].provisioning.left > 0
    BY DEF LeaseHeld, Setup!Row
  <2>1. CASE v = w BY <2>1
  <2>2. CASE v # w
    <3>1. worker'[v] = worker[v] BY <2>2 DEF JobOnly
    <3>2. worker[v].of \in Keys BY <3>1 DEF StoredInv, SetupTyped
    <3>3. setups[worker[v].of].provisioning.owner = v
          /\ setups[worker[v].of].provisioning.left > 0
      BY <3>1 DEF LeaseInv, LeaseHeld, Setup!Row
    <3>4. setups'[worker[v].of].provisioning = setups[worker[v].of].provisioning
      BY <2>2, <3>1, <3>2 DEF RowOnly
    <3> QED BY <3>1, <3>3, <3>4
  <2> QED BY <2>1, <2>2
<1>4. \A v \in Workers : /\ Setup!At(v, "posted") <=> Setup!At(v, "posted")'
                         /\ Setup!At(v, "posted") => worker'[v].of = worker[v].of
  BY DEF Setup!At, JobOnly
<1> QED BY <1>1, <1>2, <1>3, <1>4, LeaseCalm

-----------------------------------------------------------------------------
\* Creates end in time, and the invocations that make them end within the lease they hold:
\* 15 seconds of a write against the two minutes of a lease (connection-setup.ts).
Prudent == ~LateCreates /\ {"create", "posted"} \subseteq Prompt

LEMMA InitLease == ASSUME Setup!Init PROVE LeaseInv
BY FS_EmptySet
   DEF Setup!Init, LeaseInv, LeaseHeld, LeaseOver, OneCreate, OneSession, SeenIsAll, Absent,
   NumbersApart, Usable, Posting, Setup!At, Setup!Idle, Setup!NoSetup, Setup!NoLease, CleanSteps,
   Setup!Row, Setup!Holds

LEMMA ClaimLease ==
  ASSUME Setup!SetupAssumption, StoredInv, StoredInv', LeaseInv, NEW w \in Workers,
         NEW k \in Keys, Setup!Claim(w, k)
  PROVE  LeaseInv'
<1>0. SetupTyped BY DEF StoredInv
<1>1. /\ RowOnly(k) /\ JobOnly(w) /\ Setup!At(w, "idle") /\ UNCHANGED <<sessions, inflight>>
      /\ setups[k].state = "pending" /\ setups[k].provisioning.left = 0
  BY <1>0, ClaimChange
<1>2. /\ setups'[k].state = "pending" /\ setups'[k].number = setups[k].number
      /\ setups'[k].released = setups[k].released /\ setups'[k].rows = setups[k].rows
      /\ setups'[k].provisioning.owner = w
  <2>1. setups'[k] = [setups[k] EXCEPT !.provisioning = [owner |-> w, left |-> Lease]]
    BY <1>0, ClaimChange
  <2> QED BY <1>0, <1>1, <2>1 DEF SetupTyped, SetupRows
<1>3. worker'[w].step = "reconcile"
  <2>1. worker'[w] = [step |-> "reconcile", of |-> k, seen |-> {}] BY <1>0, ClaimChange
  <2> QED BY <2>1
<1>4. \A v \in Workers : worker[v].of = k => worker[v].step \notin {"create",
      "posted"} \cup CleanSteps
  BY <1>1
  DEF LeaseInv, LeaseHeld, StoredInv, OverWhenCleaned, Setup!Row, Setup!Cleanable, Setup!Terminal
<1>5. \A v \in Workers : worker'[v].step \in {"create", "posted", "finish"} \cup CleanSteps =>
        v # w /\ worker'[v] = worker[v] /\ worker[v].of \in Keys
  <2> SUFFICES ASSUME NEW v \in Workers,
                      worker'[v].step \in {"create", "posted", "finish"} \cup CleanSteps
               PROVE  v # w /\ worker'[v] = worker[v] /\ worker[v].of \in Keys
    OBVIOUS
  <2>1. v # w BY <1>3 DEF CleanSteps
  <2>2. worker'[v] = worker[v] BY <1>1, <2>1 DEF JobOnly
  <2> QED BY <1>0, <2>1, <2>2 DEF SetupTyped, CleanSteps
<1>6. LeaseHeld' BY <1>1, <1>4, <1>5 DEF LeaseInv, LeaseHeld, Setup!Row, RowOnly
<1>7. LeaseOver' BY <1>1, <1>2, <1>4, <1>5 DEF LeaseInv, LeaseOver, Setup!Row, RowOnly
<1>8. OneCreate'
  <2>1. \A j \in Keys : Posting(j)' <=> Posting(j) BY <1>1, <1>3 DEF Posting, Setup!At, JobOnly
  <2> QED BY <1>1, <2>1 DEF LeaseInv, OneCreate
<1>9. OneSession' BY <1>1 DEF LeaseInv, OneSession
<1>10. SeenIsAll'
  <2> SUFFICES ASSUME NEW v \in Workers, Setup!At(v, "finish")', Setup!Holds(v)'
               PROVE  worker'[v].seen = sessions[worker'[v].of]
    BY <1>1 DEF SeenIsAll
  <2>1. v # w /\ worker'[v] = worker[v] /\ worker[v].of \in Keys BY <1>5 DEF Setup!At
  <2>2. worker[v].of # k BY <1>2, <2>1 DEF Setup!Holds, Setup!Row
  <2>3. Setup!Holds(v) /\ Setup!At(v, "finish")
    BY <1>1, <2>1, <2>2 DEF Setup!Holds, Setup!Row, RowOnly, Setup!At
  <2> QED BY <2>1, <2>3 DEF LeaseInv, SeenIsAll
<1>11. Absent'
  <2>1. \A v \in Workers : Setup!At(v, "complete")' => sessions[worker'[v].of] = {}
    BY <1>5 DEF LeaseInv, Absent, Setup!At, CleanSteps
  <2>2. ~setups'[k].released BY <1>1, <1>2 DEF LeaseInv, Absent, Setup!Cleanable, Setup!Terminal
  <2> QED BY <1>1, <2>1, <2>2 DEF LeaseInv, Absent, RowOnly, Setup!Cleanable, Setup!Terminal
<1>12. NumbersApart' BY <1>1, <1>2 DEF LeaseInv, NumbersApart, RowOnly
<1>13. Usable' BY <1>1, <1>2 DEF LeaseInv, Usable, RowOnly
<1> QED BY <1>6, <1>7, <1>8, <1>9, <1>10, <1>11, <1>12, <1>13 DEF LeaseInv

LEMMA StartLease ==
  ASSUME Setup!SetupAssumption, StoredInv, StoredInv', LeaseInv, NEW k \in Keys,
         NEW n \in Numbers, Setup!Start(k, n)
  PROVE  LeaseInv'
<1>0. SetupTyped BY DEF StoredInv
<1>1. /\ RowOnly(k) /\ UNCHANGED <<worker, sessions, inflight>>
      /\ setups[k].state = "none" /\ ~Setup!Reserved(n) /\ setups'[k].state = "pending"
      /\ setups'[k].number = n /\ setups'[k].released = FALSE
         /\ setups'[k].provisioning = Setup!NoLease
  BY <1>0, StartChange
<1>a. setups'[k].provisioning.left = 0 BY <1>1 DEF Setup!NoLease
<1>2. setups[k].provisioning.left = 0 BY <1>1 DEF LeaseInv, LeaseOver, Setup!Terminal
<1>3. \A v \in Workers : worker[v].of = k => worker[v].step \notin {"create",
      "posted"} \cup CleanSteps
  BY <1>1, <1>2
  DEF LeaseInv, LeaseHeld, StoredInv, OverWhenCleaned, Setup!Row, Setup!Cleanable, Setup!Terminal
<1>4. \A v \in Workers : worker[v].step \in {"create", "posted", "finish"} \cup CleanSteps =>
        worker[v].of \in Keys
  BY <1>0 DEF CleanSteps, SetupTyped
<1>5. LeaseHeld' BY <1>1, <1>3, <1>4 DEF LeaseInv, LeaseHeld, Setup!Row, RowOnly
<1>6. LeaseOver' BY <1>1, <1>a, <1>3, <1>4 DEF LeaseInv, LeaseOver, Setup!Row, RowOnly
<1>7. OneCreate'
  <2>1. \A j \in Keys : Posting(j)' <=> Posting(j) BY <1>1 DEF Posting, Setup!At
  <2> QED BY <1>1, <2>1 DEF LeaseInv, OneCreate
<1>8. OneSession' BY <1>1 DEF LeaseInv, OneSession
<1>9. SeenIsAll'
  BY <1>1, <1>a, <1>4 DEF LeaseInv, SeenIsAll, Setup!Row, RowOnly, Setup!Holds, Setup!At
<1>10. Absent' BY <1>1, <1>3, <1>4 DEF LeaseInv, Absent, RowOnly, Setup!At, CleanSteps
<1>11. NumbersApart' BY <1>1 DEF LeaseInv, NumbersApart, RowOnly, Setup!Reserved
<1>12. Usable' BY <1>1 DEF LeaseInv, Usable, RowOnly
<1> QED BY <1>5, <1>6, <1>7, <1>8, <1>9, <1>10, <1>11, <1>12 DEF LeaseInv

LEMMA ReadsLease ==
  ASSUME Setup!SetupAssumption, StoredInv, StoredInv', LeaseInv, NEW w \in Workers,
         Setup!Reconcile(w) \/ Setup!ReconcileFails(w) \/ Setup!ReconcileForCleanup(w)
         \/ Setup!CleanupReadFails(w)
  PROVE  LeaseInv'
<1>0. SetupTyped BY DEF StoredInv
<1>1. CASE Setup!Reconcile(w)
  <2>1. /\ JobOnly(w) /\ Setup!At(w, "reconcile") /\ UNCHANGED <<setups, sessions, inflight>>
        /\ worker'[w].of = worker[w].of /\ worker'[w].seen = sessions[worker[w].of]
        /\ worker'[w].step \in {"renew", "finish"}
    BY <1>0, <1>1, ReconcileChange
  <2>2. JobCalm(w) BY <2>1 DEF JobCalm, CleanSteps
  <2> QED BY <2>1, <2>2, JobGoesOn DEF Setup!At
<1>2. CASE Setup!ReconcileFails(w)
  <2>1. JobIs(w, "fail") /\ Setup!At(w, "reconcile") /\ UNCHANGED <<setups, sessions, inflight>>
    BY <1>0, <1>2, FailsChange DEF Setup!ReconcileFails, Setup!At
  <2>2. JobOnly(w) /\ worker'[w].step = "fail" BY <2>1 DEF JobIs
  <2>3. JobCalm(w) BY <2>2 DEF JobCalm, CleanSteps
  <2> QED BY <2>1, <2>2, <2>3, JobGoesOn DEF Setup!At
<1>3. CASE Setup!ReconcileForCleanup(w)
  <2>1. /\ JobOnly(w) /\ Setup!At(w, "clean") /\ UNCHANGED <<setups, sessions, inflight>>
        /\ worker'[w].of = worker[w].of
        /\ \/ worker'[w].step = "complete" /\ sessions[worker[w].of] = {}
           \/ worker'[w].step = "renewCleanup"
    BY <1>0, <1>3, ReconcileForCleanupChange
  <2>2. setups[worker[w].of].provisioning.left = 0
    BY <2>1 DEF LeaseInv, LeaseOver, CleanSteps, Setup!At, Setup!Row
  <2>3. JobCalm(w) BY <2>1, <2>2 DEF JobCalm
  <2> QED BY <2>1, <2>3, JobGoesOn DEF Setup!At
<1>4. CASE Setup!CleanupReadFails(w)
  <2>1. JobIs(w, "releaseCleanup")
        /\ Setup!At(w, "clean") /\ UNCHANGED <<setups, sessions, inflight>>
    BY <1>0, <1>4, FailsChange DEF Setup!CleanupReadFails, Setup!At
  <2>2. JobOnly(w) /\ worker'[w].step = "releaseCleanup" /\ worker'[w].of = worker[w].of
    BY <2>1 DEF JobIs
  <2>3. setups[worker[w].of].provisioning.left = 0
    BY <2>1 DEF LeaseInv, LeaseOver, CleanSteps, Setup!At, Setup!Row
  <2>4. JobCalm(w) BY <2>1, <2>2, <2>3 DEF JobCalm
  <2> QED BY <2>1, <2>2, <2>4, JobGoesOn DEF Setup!At
<1> QED BY <1>1, <1>2, <1>3, <1>4

LEMMA RenewLease ==
  ASSUME Setup!SetupAssumption, StoredInv, StoredInv', LeaseInv, NEW w \in Workers, Setup!Renew(w)
  PROVE  LeaseInv'
<1>0. SetupTyped BY DEF StoredInv
<1>1. worker[w].of \in Keys /\ Setup!At(w, "renew") /\ UNCHANGED <<sessions, inflight>>
  BY <1>0, RenewChange
<1>2. CASE JobDone(w) /\ UNCHANGED setups
  <2>1. JobOnly(w) /\ worker'[w].step = "idle" BY <1>2 DEF JobDone, Setup!Idle
  <2>2. JobCalm(w) BY <2>1 DEF JobCalm, CleanSteps
  <2> QED BY <1>1, <1>2, <2>1, <2>2, JobGoesOn DEF Setup!At
<1>3. CASE ~(JobDone(w) /\ UNCHANGED setups)
  <2>1. PICK k \in Keys : k = worker[w].of BY <1>1
  <2>2. /\ Setup!Holds(w) /\ JobIs(w, "create") /\ RowOnly(k)
        /\ setups'[k] = [setups[k] EXCEPT !.provisioning.left = Lease]
    BY <1>0, <1>3, <2>1, RenewChange
  <2>3. JobOnly(w) /\ worker'[w].step = "create" /\ worker'[w].of = k BY <2>1, <2>2 DEF JobIs
  <2>4. /\ setups'[k].state = setups[k].state /\ setups'[k].number = setups[k].number
        /\ setups'[k].released = setups[k].released /\ setups'[k].rows = setups[k].rows
        /\ setups'[k].provisioning.owner = setups[k].provisioning.owner
        /\ setups'[k].provisioning.left = Lease
    BY <1>0, <2>2 DEF SetupTyped, SetupRows, Leases
  <2>5. setups[k].state = "pending" /\ setups[k].provisioning.owner = w
        /\ setups[k].provisioning.left > 0
    BY <2>1, <2>2 DEF Setup!Holds, Setup!Row
  <2>6. Lease > 0 BY NatBounds
  <2>7. RowCalm(k) BY <2>4, <2>5 DEF RowCalm, Setup!Cleanable, Setup!Terminal
  <2>8. JobCalm(w) BY <2>3 DEF JobCalm, CleanSteps
  <2>9. \A v \in Workers : v # w /\ worker[v].of = k => worker[v].step \notin {"create", "posted"}
    BY <2>5 DEF LeaseInv, LeaseHeld, Setup!Row
  <2> QED BY <1>1, <2>2, <2>3, <2>4, <2>5, <2>6, <2>7, <2>8, <2>9, RowWritten DEF Setup!At
<1> QED BY <1>2, <1>3

LEMMA CreateLease ==
  ASSUME Setup!SetupAssumption, StoredInv, StoredInv', LeaseInv, NEW w \in Workers,
         Setup!Create(w)
  PROVE  LeaseInv'
<1>0. SetupTyped BY DEF StoredInv
<1>1. PICK k \in Keys : k = worker[w].of BY <1>0, CreateChange
<1>2. Setup!At(w, "create") /\ JobOnly(w) /\ UNCHANGED <<setups, sessions>> BY <1>0, CreateChange
<1>3. CASE UNCHANGED inflight
  <2>1. \/ /\ sessions[k] = {} /\ inflight'[k] = inflight[k] + 1
        \/ /\ worker'[w].step \in {"finish", "fail"} /\ worker'[w].of = k
           /\ worker'[w].seen = sessions[k]
    BY <1>0, <1>1, CreateChange
  <2>2. inflight[k] \in Int BY <1>0 DEF SetupTyped
  <2>3. /\ worker'[w].step \in {"finish", "fail"} /\ worker'[w].of = k
        /\ worker'[w].seen = sessions[k]
    BY <1>3, <2>1, <2>2
  <2>4. JobCalm(w) BY <1>2, <2>3 DEF JobCalm, CleanSteps
  <2> QED BY <1>2, <1>3, <2>3, <2>4, JobGoesOn DEF Setup!At
<1>4. CASE ~UNCHANGED inflight
  <2>1. /\ sessions[k] = {} /\ JobIs(w, "posted") /\ inflight'[k] = inflight[k] + 1
        /\ \A j \in Keys : j # k => inflight'[j] = inflight[j]
    BY <1>0, <1>1, <1>4, CreateChange
  <2>2. worker'[w].step = "posted" /\ worker'[w].of = k BY <1>1, <2>1 DEF JobIs
  <2>3. \A v \in Workers : v # w /\ worker[v].of = k =>
          worker[v].step \notin {"create", "posted"} \cup CleanSteps /\ ~Setup!Holds(v)
    BY <1>1, <1>2, OnlyHolder DEF Setup!At
  <2>4. \A v \in Workers : v # w => worker'[v] = worker[v] BY <1>2 DEF JobOnly
  <2>5. LeaseHeld' BY <1>1, <1>2, <2>2, <2>4 DEF LeaseInv, LeaseHeld, Setup!Row, Setup!At
  <2>6. LeaseOver' BY <1>2, <2>2, <2>4 DEF LeaseInv, LeaseOver, Setup!Row, CleanSteps
  <2>7. OneCreate'
    <3>1. ~Posting(k) /\ Posting(k)' BY <1>1, <1>2, <2>2, <2>3 DEF Posting, Setup!At
    <3>2. \A j \in Keys \ {k} : Posting(j)' <=> Posting(j)
      BY <1>1, <2>2, <2>4 DEF Posting, Setup!At
    <3> QED BY <1>2, <2>1, <3>1, <3>2 DEF LeaseInv, OneCreate
  <2>8. SeenIsAll' BY <1>2, <2>2, <2>4 DEF LeaseInv, SeenIsAll, Setup!Holds, Setup!Row, Setup!At
  <2>9. Absent' BY <1>2, <2>2, <2>4 DEF LeaseInv, Absent, Setup!At
  <2>10. OneSession' /\ NumbersApart' /\ Usable'
    BY <1>2 DEF LeaseInv, OneSession, NumbersApart, Usable
  <2> QED BY <2>5, <2>6, <2>7, <2>8, <2>9, <2>10 DEF LeaseInv
<1> QED BY <1>3, <1>4

\* The answer to a create, its refusal and its time-out.
LEMMA PostedLease ==
  ASSUME Setup!SetupAssumption, Prudent, StoredInv, StoredInv', LeaseInv, NEW w \in Workers,
         Setup!Created(w) \/ Setup!Rejected(w) \/ Setup!TimedOut(w)
  PROVE  LeaseInv'
<1>0. SetupTyped BY DEF StoredInv
<1>1. /\ Setup!At(w, "posted")
      /\ UNCHANGED setups /\ JobOnly(w) /\ (Applied(worker[w].of) \/ Dropped(worker[w].of))
      /\ worker'[w].step \in {"fail", "release", "finish"}
      /\ worker'[w].step = "finish" => /\ worker'[w].of = worker[w].of
                                       /\ worker'[w].seen = {Setup!New(worker[w].of)}
                                          /\ Applied(worker[w].of)
  <2>1. CASE Setup!Created(w) BY <1>0, <2>1, CreatedChange
  <2>2. CASE Setup!Rejected(w) \/ Setup!TimedOut(w)
    <3>1. /\ Setup!At(w, "posted")
          /\ UNCHANGED setups /\ (Applied(worker[w].of) \/ Dropped(worker[w].of))
          /\ JobIs(w, "fail") \/ JobIs(w, "release")
      BY <1>0, <2>2, UncertainChange DEF Prudent
    <3> QED BY <3>1 DEF JobIs
  <2> QED BY <2>1, <2>2
<1>2. PICK k \in Keys : k = worker[w].of BY <1>0, <1>1 DEF SetupTyped, Setup!At
<1>3. sessions[k] = {}
  <2>1. Posting(k) BY <1>1, <1>2 DEF Posting
  <2> QED BY <2>1 DEF LeaseInv, OneCreate
<1>4. worker'[w].step = "finish" =>
        worker'[w].of = worker[w].of /\ worker'[w].seen = sessions'[worker[w].of]
  BY <1>1, <1>2, <1>3 DEF Applied
<1>5. \A j \in Keys : RowCalm(j) /\ setups'[j].state = setups[j].state
      /\ setups'[j].released = setups[j].released
  BY <1>1, SameCalm
<1>6. \A v \in Workers : worker'[v].step \in {"create", "posted"} => worker'[v] = worker[v]
  BY <1>1 DEF JobOnly
<1>7. LeaseHeld' BY <1>1, <1>6 DEF LeaseInv, LeaseHeld, Setup!Row
<1> QED BY <1>1, <1>4, <1>5, <1>7, PostedEnds

\* No create is under way that nobody waits for.
LEMMA NothingToSettle ==
  ASSUME Setup!SetupAssumption, StoredInv, LeaseInv, NEW k \in Keys PROVE ~Setup!Unawaited(k)
<1> DEFINE P == {w \in Workers : Setup!At(w, "posted") /\ worker[w].of = k}
<1>1. CASE Posting(k)
  <2>1. PICK w \in Workers : Setup!At(w, "posted") /\ worker[w].of = k BY <1>1 DEF Posting
  <2>2. \A v \in P : v = w BY <2>1, OnlyHolder DEF Setup!At
  <2>3. P = {w} BY <2>1, <2>2
  <2>4. Cardinality(P) = 1 BY <2>3, FS_Singleton
  <2>5. inflight[k] = 1 BY <1>1 DEF LeaseInv, OneCreate
  <2> HIDE DEF P
  <2> QED BY <2>4, <2>5, SameSize DEF Setup!Unawaited, P
<1>2. CASE ~Posting(k)
  <2>1. P = {} BY <1>2 DEF Posting
  <2>2. Cardinality(P) = 0 BY <2>1, FS_EmptySet
  <2>3. inflight[k] = 0 BY <1>2 DEF LeaseInv, OneCreate
  <2> HIDE DEF P
  <2> QED BY <2>2, <2>3, SameSize DEF Setup!Unawaited, P
<1> QED BY <1>1, <1>2

LEMMA DoneJob ==
  ASSUME NEW w \in Workers, JobDone(w)
  PROVE  JobOnly(w) /\ worker'[w].step = "idle" /\ JobCalm(w)
BY DEF JobDone, JobCalm, Setup!Idle, CleanSteps

\* Who still has the lease of a pending setup has it alone.
LEMMA PendingHolder ==
  ASSUME StoredInv, LeaseInv, NEW w \in Workers, NEW k \in Keys,
         setups[k].state = "pending", setups[k].provisioning.owner = w
  PROVE  /\ ~setups[k].released
         /\ \A v \in Workers : v # w /\ worker[v].of = k => worker[v].step \notin {"create",
            "posted"}
BY DEF LeaseInv, LeaseHeld, Absent, Setup!Row, Setup!Cleanable, Setup!Terminal

LEMMA FinishLease ==
  ASSUME Setup!SetupAssumption, StoredInv, StoredInv', LeaseInv, NEW w \in Workers,
         Setup!Finish(w)
  PROVE  LeaseInv'
<1>0. SetupTyped BY DEF StoredInv
<1>1. /\ worker[w].of \in Keys
      /\ Setup!At(w, "finish") /\ JobDone(w) /\ UNCHANGED <<sessions, inflight>>
  BY <1>0, FinishChange
<1>2. JobOnly(w) /\ worker'[w].step = "idle" /\ JobCalm(w) BY <1>1, DoneJob
<1>3. CASE UNCHANGED setups BY <1>1, <1>2, <1>3, JobGoesOn DEF Setup!At
<1>4. CASE ~UNCHANGED setups
  <2>1. PICK k \in Keys : k = worker[w].of BY <1>1
  <2>2. Setup!Holds(w) /\ RowOnly(k) BY <1>0, <1>4, <2>1, FinishChange
  <2>3. PICK state \in {"provisioned", "quarantined"} :
          /\ state = "provisioned" <=> Setup!Cardinality(worker[w].seen) = 1
          /\ setups'[k] = [setups[k] EXCEPT !.state = state, !.provisioning = Setup!NoLease,
                                          !.rows = worker[w].seen]
    BY <1>0, <1>4, <2>1, FinishChange
  <2>4. /\ setups'[k].state = state /\ setups'[k].number = setups[k].number
        /\ setups'[k].released = setups[k].released /\ setups'[k].rows = worker[w].seen
        /\ setups'[k].provisioning = Setup!NoLease
    BY <1>0, <2>3 DEF SetupTyped, SetupRows
  <2>5. setups'[k].provisioning.left = 0 BY <2>4 DEF Setup!NoLease
  <2>6. setups[k].state = "pending" /\ setups[k].provisioning.owner = w
    BY <2>1, <2>2 DEF Setup!Holds, Setup!Row
  <2>7. worker[w].seen = sessions[k] BY <1>1, <2>1, <2>2 DEF LeaseInv, SeenIsAll
  <2>8. state = "provisioned" => sessions[k] # {} BY <2>3, <2>7, FS_EmptySet, SameSize
  <2>9. RowCalm(k)
    BY <1>1, <2>4, <2>5, <2>6, <2>7, <2>8 DEF RowCalm, Setup!Cleanable, Setup!Terminal
  <2>10. \A v \in Workers : v # w /\ worker[v].of = k => worker[v].step \notin {"create",
         "posted"}
    BY <2>6, PendingHolder
  <2> QED BY <1>1, <1>2, <2>2, <2>9, <2>10, RowWritten DEF Setup!At
<1> QED BY <1>3, <1>4

LEMMA GivesUpLease ==
  ASSUME Setup!SetupAssumption, StoredInv, StoredInv', LeaseInv, NEW w \in Workers,
         Setup!Fail(w) \/ Setup!Release(w)
  PROVE  LeaseInv'
<1>0. SetupTyped BY DEF StoredInv
<1>1. /\ worker[w].of \in Keys
      /\ ~Setup!At(w, "posted") /\ JobDone(w) /\ UNCHANGED <<sessions, inflight>>
  BY <1>0, GivesUpChange
<1>2. JobOnly(w) /\ worker'[w].step = "idle" /\ JobCalm(w) BY <1>1, DoneJob
<1>3. CASE UNCHANGED setups BY <1>1, <1>2, <1>3, JobGoesOn DEF Setup!At
<1>4. CASE ~UNCHANGED setups
  <2>1. PICK k \in Keys : k = worker[w].of BY <1>1
  <2>2. Setup!Row(w).state = "pending" /\ Setup!Row(w).provisioning.owner = w /\ RowOnly(k)
    BY <1>0, <1>4, <2>1, GivesUpChange
  <2>3. PICK state \in {"pending", "provisioning_failed"} :
          setups'[k] = [setups[k] EXCEPT !.state = state, !.provisioning = Setup!NoLease]
    BY <1>0, <1>4, <2>1, GivesUpChange
  <2>4. /\ setups'[k].state = state /\ setups'[k].number = setups[k].number
        /\ setups'[k].released = setups[k].released /\ setups'[k].rows = setups[k].rows
        /\ setups'[k].provisioning = Setup!NoLease
    BY <1>0, <2>3 DEF SetupTyped, SetupRows
  <2>5. setups'[k].provisioning.left = 0 BY <2>4 DEF Setup!NoLease
  <2>6. setups[k].state = "pending" /\ setups[k].provisioning.owner = w
    BY <2>1, <2>2 DEF Setup!Row
  <2>7. RowCalm(k) BY <1>1, <2>4, <2>5, <2>6 DEF RowCalm, Setup!Cleanable, Setup!Terminal
  <2>8. \A v \in Workers : v # w /\ worker[v].of = k => worker[v].step \notin {"create", "posted"}
    BY <2>6, PendingHolder
  <2> QED BY <1>1, <1>2, <2>2, <2>7, <2>8, RowWritten DEF Setup!At
<1> QED BY <1>3, <1>4

\* An invocation is lost; whoever posts in its place still has his lease.
LEMMA StopLease ==
  ASSUME Setup!SetupAssumption, Prudent, StoredInv, StoredInv', LeaseInv, NEW w \in Workers,
         Setup!Stop(w)
  PROVE  LeaseInv'
<1>0. SetupTyped BY DEF StoredInv
<1>1. /\ worker[w].of \in Keys /\ JobDone(w) /\ RowOnly(worker[w].of)
      /\ \/ Setup!At(w, "posted") /\ (Applied(worker[w].of) \/ Dropped(worker[w].of))
         \/ ~Setup!At(w, "posted") /\ UNCHANGED <<sessions, inflight>>
  BY <1>0, StopChange DEF Prudent
<1>2. JobOnly(w) /\ worker'[w].step = "idle" /\ JobCalm(w) BY <1>1, DoneJob
<1>3. PICK k \in Keys : k = worker[w].of BY <1>1
<1>4. PICK p \in Leases, c \in Leases :
        /\ setups'[k] = [setups[k] EXCEPT !.provisioning = p, !.cleaning = c]
        /\ p.left = setups[k].provisioning.left
        /\ setups[k].provisioning.owner # w => p.owner = setups[k].provisioning.owner
        /\ p.owner = setups[k].provisioning.owner \/ p.owner = None
  BY <1>0, <1>3, StopChange
<1>5. /\ setups'[k].state = setups[k].state /\ setups'[k].number = setups[k].number
      /\ setups'[k].released = setups[k].released /\ setups'[k].rows = setups[k].rows
      /\ setups'[k].provisioning = p
  BY <1>0, <1>4 DEF SetupTyped, SetupRows
<1>6. None \notin Workers BY DEF Setup!SetupAssumption
<1>7. \A v \in Workers : p.owner = v => setups[k].provisioning.owner = v BY <1>4, <1>6
<1>8. setups[k].state \notin {"pending"} \cup Setup!Terminal => setups[k].provisioning.left = 0
  BY DEF LeaseInv, LeaseOver
<1>9. RowCalm(k) BY <1>4, <1>5, <1>7, <1>8 DEF RowCalm
<1>10. \A j \in Keys : /\ RowCalm(j) /\ setups'[j].state = setups[j].state
                       /\ setups'[j].released = setups[j].released
  BY <1>1, <1>3, <1>5, <1>9, SameCalm DEF RowOnly
<1>11. \A v \in Workers : JobCalm(v) BY <1>2 DEF JobCalm, JobOnly
<1>12. LeaseHeld'
  <2> SUFFICES ASSUME NEW v \in Workers, worker'[v].step \in {"create", "posted"}
               PROVE  /\ setups'[worker'[v].of].provisioning.owner = v
                      /\ setups'[worker'[v].of].provisioning.left > 0
    BY DEF LeaseHeld, Setup!Row
  <2>1. v # w /\ worker'[v] = worker[v] BY <1>2 DEF JobOnly
  <2>2. worker[v].of \in Keys BY <1>0, <2>1 DEF SetupTyped
  <2>3. setups[worker[v].of].provisioning.owner = v /\ setups[worker[v].of].provisioning.left > 0
    BY <2>1 DEF LeaseInv, LeaseHeld, Setup!Row
  <2>4. CASE worker[v].of = k BY <1>4, <1>5, <2>1, <2>3, <2>4
  <2>5. CASE worker[v].of # k BY <1>1, <1>3, <2>1, <2>2, <2>3, <2>5 DEF RowOnly
  <2> QED BY <2>4, <2>5
<1>13. CASE Setup!At(w, "posted") BY <1>1, <1>2, <1>10, <1>12, <1>13, PostedEnds
<1>14. CASE ~Setup!At(w, "posted")
  <2>1. \A v \in Workers : /\ Setup!At(v, "posted") <=> Setup!At(v, "posted")'
                           /\ Setup!At(v, "posted") => worker'[v].of = worker[v].of
    BY <1>2, <1>14 DEF Setup!At, JobOnly
  <2> QED BY <1>1, <1>10, <1>11, <1>12, <1>14, <2>1, LeaseCalm
<1> QED BY <1>13, <1>14

LEMMA SettleLease ==
  ASSUME Setup!SetupAssumption, StoredInv, LeaseInv, NEW k \in Keys, Setup!Settle(k) PROVE FALSE
BY NothingToSettle DEF Setup!Settle

LEMMA LoadLease ==
  ASSUME StoredInv, StoredInv', LeaseInv, UNCHANGED <<setups, worker, sessions, inflight>>
  PROVE  LeaseInv'
<1>1. \A k \in Keys : RowCalm(k) BY SameCalm
<1>2. \A v \in Workers : JobCalm(v) BY DEF JobCalm
<1>3. LeaseHeld' BY DEF LeaseInv, LeaseHeld, Setup!Row
<1>4. \A v \in Workers : /\ Setup!At(v, "posted") <=> Setup!At(v, "posted")'
                         /\ Setup!At(v, "posted") => worker'[v].of = worker[v].of
  BY DEF Setup!At
<1> QED BY <1>1, <1>2, <1>3, <1>4, LeaseCalm

\* Rows that change under the invocations: the lease of whoever posts is not touched.
LEMMA RowsMove ==
  ASSUME StoredInv, StoredInv', LeaseInv, UNCHANGED <<worker, sessions, inflight>>,
         \A k \in Keys : RowCalm(k),
         \A v \in Workers : worker[v].step \in {"create", "posted"} =>
           /\ setups'[worker[v].of].provisioning.owner = setups[worker[v].of].provisioning.owner
           /\ setups'[worker[v].of].provisioning.left > 0
  PROVE  LeaseInv'
<1>1. \A v \in Workers : JobCalm(v) BY DEF JobCalm
<1>2. LeaseHeld' BY HeldStays
<1>3. \A v \in Workers : /\ Setup!At(v, "posted") <=> Setup!At(v, "posted")'
                         /\ Setup!At(v, "posted") => worker'[v].of = worker[v].of
  BY DEF Setup!At
<1> QED BY <1>1, <1>2, <1>3, LeaseCalm

LEMMA BrowserLease ==
  ASSUME Setup!SetupAssumption, StoredInv, StoredInv', LeaseInv, NEW o \in Observers,
         Setup!Activate(o) \/ Setup!RejectActivation(o)
  PROVE  LeaseInv'
<1>0. SetupTyped BY DEF StoredInv
<1>1. UNCHANGED <<worker, sessions, inflight>> BY <1>0, BrowserChange
<1>2. CASE UNCHANGED setups BY <1>1, <1>2, LoadLease
<1>3. CASE ~UNCHANGED setups
  <2>1. PICK k \in Keys :
          /\ RowOnly(k) /\ setups[k].state \in {"provisioned", "provisioning_failed"}
          /\ \/ /\ setups[k].state = "provisioned"
                /\ setups'[k] = [setups[k] EXCEPT !.state = "activated"]
             \/ /\ setups[k].state = "provisioning_failed"
                /\ setups'[k] = [setups[k] EXCEPT !.cleanup = "pending"]
             \/ /\ setups[k].state = "provisioned"
                /\ setups'[k] = [setups[k] EXCEPT !.state = "provisioning_failed",
                       !.provisioning = Setup!NoLease, !.cleanup = "pending",
                       !.cleaning = Setup!NoLease]
    BY <1>0, <1>3, BrowserChange
  <2>2. setups[k] \in SetupRows BY <1>0 DEF SetupTyped
  <2>3. /\ setups'[k].state \in {"activated", "provisioning_failed"}
        /\ setups'[k].state = "activated" => setups[k].state = "provisioned"
        /\ setups[k].state \in Setup!Cleanable => setups'[k].state \in Setup!Cleanable
        /\ setups'[k].rows = setups[k].rows /\ setups'[k].number = setups[k].number
        /\ setups'[k].released = setups[k].released
        /\ setups'[k].provisioning \in {setups[k].provisioning, Setup!NoLease}
    BY <2>1, <2>2 DEF SetupRows, Setup!Cleanable, Setup!Terminal
  <2>4. setups[k].provisioning.left = 0 BY <2>1 DEF LeaseInv, LeaseOver, Setup!Terminal
  <2>5. setups'[k].provisioning.left = 0 BY <2>3, <2>4 DEF Setup!NoLease
  <2>6. RowCalm(k) BY <2>3, <2>4, <2>5 DEF RowCalm
  <2>7. \A j \in Keys : RowCalm(j) BY <2>1, <2>6, SameCalm DEF RowOnly
  <2>8. ASSUME NEW v \in Workers, worker[v].step \in {"create", "posted"}
        PROVE 
        /\ setups'[worker[v].of].provisioning.owner = setups[worker[v].of].provisioning.owner
               /\ setups'[worker[v].of].provisioning.left > 0
    <3>1. worker[v].of \in Keys BY <1>0, <2>8 DEF SetupTyped
    <3>2. setups[worker[v].of].provisioning.left > 0 BY <2>8 DEF LeaseInv, LeaseHeld, Setup!Row
    <3>3. worker[v].of # k BY <2>4, <3>2
    <3> QED BY <2>1, <3>1, <3>2, <3>3 DEF RowOnly
  <2> QED BY <1>1, <2>7, <2>8, RowsMove
<1> QED BY <1>2, <1>3

LEMMA TickLease ==
  ASSUME Setup!SetupAssumption, Prudent, StoredInv, StoredInv', LeaseInv,
         Setup!Tick PROVE LeaseInv'
<1>0. SetupTyped BY DEF StoredInv
<1>1. UNCHANGED <<worker, sessions, inflight>> BY <1>0, TickChange
<1>2. ASSUME NEW k \in Keys
      PROVE  /\ RowCalm(k)
             /\ setups'[k].provisioning.owner = setups[k].provisioning.owner
             /\ setups[k].provisioning.left > 1 => setups'[k].provisioning.left > 0
  <2>1. PICK n \in 0..Life, p \in Leases, c \in Leases :
          /\ setups'[k] = [setups[k] EXCEPT !.left = n, !.provisioning = p, !.cleaning = c]
          /\ p.owner = setups[k].provisioning.owner
          /\ p.left <= setups[k].provisioning.left
          /\ setups[k].provisioning.left > 1 => p.left > 0
    BY <1>0, TickChange
  <2>2. /\ setups'[k].state = setups[k].state /\ setups'[k].number = setups[k].number
        /\ setups'[k].released = setups[k].released /\ setups'[k].rows = setups[k].rows
        /\ setups'[k].provisioning = p
    BY <1>0, <2>1 DEF SetupTyped, SetupRows
  <2>3. p.left \in Nat /\ setups[k].provisioning.left \in Nat
    BY <1>0, NatBounds DEF SetupTyped, SetupRows, Leases
  <2>4. p.left > 0 => setups[k].provisioning.left > 0 BY <2>1, <2>3
  <2>5. setups[k].provisioning.left = 0 => p.left = 0 BY <2>1, <2>3
  <2>6. setups[k].state \notin {"pending"} \cup Setup!Terminal => setups[k].provisioning.left = 0
    BY DEF LeaseInv, LeaseOver
  <2>7. RowCalm(k) BY <2>1, <2>2, <2>4, <2>5, <2>6 DEF RowCalm
  <2> QED BY <2>1, <2>2, <2>7
<1>3. ASSUME NEW v \in Workers, worker[v].step \in {"create", "posted"}
      PROVE  /\ setups'[worker[v].of].provisioning.owner = setups[worker[v].of].provisioning.owner
             /\ setups'[worker[v].of].provisioning.left > 0
  <2>1. worker[v].of \in Keys BY <1>0, <1>3 DEF SetupTyped
  <2>2. Setup!Row(v).provisioning.owner = v /\ Setup!Row(v).provisioning.left > 0
    BY <1>3 DEF LeaseInv, LeaseHeld
  <2>3. worker[v].step \in Prompt BY <1>3 DEF Prudent
  <2>4. Setup!Row(v).provisioning.left # 1 BY <1>0, <2>2, <2>3, TickChange
  <2>5. Setup!Row(v).provisioning.left \in Nat
    BY <1>0, <2>1, NatBounds DEF SetupTyped, SetupRows, Leases, Setup!Row
  <2>6. Setup!Row(v).provisioning.left > 1 BY <2>2, <2>4, <2>5
  <2> QED BY <1>2, <2>1, <2>6 DEF Setup!Row
<1> QED BY <1>1, <1>2, <1>3, RowsMove

LEMMA EndLease ==
  ASSUME Setup!SetupAssumption, StoredInv, StoredInv', LeaseInv,
         Setup!Expire \/ \E k \in Keys : Setup!Cancel(k)
  PROVE  LeaseInv'
<1>0. SetupTyped BY DEF StoredInv
<1>1. UNCHANGED <<worker, sessions, inflight>> BY <1>0, EndChange
<1>2. ASSUME NEW k \in Keys
      PROVE  RowCalm(k) /\ setups'[k].provisioning = setups[k].provisioning
  <2>1. CASE setups'[k] = setups[k] BY <2>1, SameCalm
  <2>2. CASE setups'[k] # setups[k]
    <3>1. PICK state \in Setup!Terminal : setups'[k] = [setups[k] EXCEPT !.state = state,
               !.cleanup = "pending"]
      BY <1>0, <2>2, EndChange
    <3>2. /\ setups'[k].state = state /\ setups'[k].number = setups[k].number
          /\ setups'[k].released = setups[k].released /\ setups'[k].rows = setups[k].rows
          /\ setups'[k].provisioning = setups[k].provisioning
      BY <1>0, <3>1 DEF SetupTyped, SetupRows
    <3> QED BY <3>2 DEF RowCalm, Setup!Cleanable, Setup!Terminal
  <2> QED BY <2>1, <2>2
<1>3. ASSUME NEW v \in Workers, worker[v].step \in {"create", "posted"}
      PROVE  /\ setups'[worker[v].of].provisioning.owner = setups[worker[v].of].provisioning.owner
             /\ setups'[worker[v].of].provisioning.left > 0
  <2>1. worker[v].of \in Keys BY <1>0, <1>3 DEF SetupTyped
  <2> QED BY <1>2, <1>3, <2>1 DEF LeaseInv, LeaseHeld, Setup!Row
<1> QED BY <1>1, <1>2, <1>3, RowsMove

-----------------------------------------------------------------------------
\* Cleanup waits for the lease, so nobody posts for the setup it cleans.
LEMMA NobodyPosts ==
  ASSUME StoredInv, LeaseInv, NEW k \in Keys, setups[k].provisioning.left = 0
  PROVE  /\ \A v \in Workers : worker[v].of = k => worker[v].step \notin {"create", "posted"}
         /\ ~Posting(k) /\ inflight[k] = 0
<1>1. \A v \in Workers : worker[v].of = k => worker[v].step \notin {"create", "posted"}
  BY DEF LeaseInv, LeaseHeld, Setup!Row
<1>2. ~Posting(k) BY <1>1 DEF Posting, Setup!At
<1> QED BY <1>1, <1>2 DEF LeaseInv, OneCreate

LEMMA ClaimCleanupLease ==
  ASSUME Setup!SetupAssumption, StoredInv, StoredInv', LeaseInv, NEW w \in Workers,
         NEW k \in Keys,
         Setup!ClaimCleanup(w, k)
  PROVE  LeaseInv'
<1>0. SetupTyped BY DEF StoredInv
<1>1. /\ RowOnly(k) /\ JobOnly(w) /\ Setup!At(w, "idle") /\ UNCHANGED <<sessions, inflight>>
      /\ setups[k].provisioning.left = 0
  BY <1>0, ClaimCleanupChange
<1>2. /\ setups'[k].state = setups[k].state /\ setups'[k].number = setups[k].number
      /\ setups'[k].released = setups[k].released /\ setups'[k].rows = setups[k].rows
      /\ setups'[k].provisioning = Setup!NoLease
  <2>1. setups'[k] = [setups[k] EXCEPT !.provisioning = Setup!NoLease,
                                     !.cleaning = [owner |-> w, left |-> Lease]]
    BY <1>0, ClaimCleanupChange
  <2> QED BY <1>0, <2>1 DEF SetupTyped, SetupRows
<1>3. worker'[w].step = "clean" /\ worker'[w].of = k
  <2>1. worker'[w] = [step |-> "clean", of |-> k, seen |-> {}] BY <1>0, ClaimCleanupChange
  <2> QED BY <2>1
<1>4. setups'[k].provisioning.left = 0 BY <1>2 DEF Setup!NoLease
<1>5. RowCalm(k) BY <1>1, <1>2, <1>4 DEF RowCalm
<1>6. JobCalm(w) BY <1>3, <1>4 DEF JobCalm
<1>7. \A v \in Workers : v # w /\ worker[v].of = k => worker[v].step \notin {"create", "posted"}
  BY <1>1, NobodyPosts
<1> QED BY <1>1, <1>3, <1>5, <1>6, <1>7, RowWritten DEF Setup!At

LEMMA CleaningLease ==
  ASSUME Setup!SetupAssumption, StoredInv, StoredInv', LeaseInv, NEW w \in Workers,
         Setup!RenewCleanup(w) \/ Setup!ReleaseCleanup(w)
  PROVE  LeaseInv'
<1>0. SetupTyped BY DEF StoredInv
<1>1. /\ worker[w].of \in Keys /\ worker[w].step \in CleanSteps
         /\ UNCHANGED <<sessions, inflight>>
      /\ JobIs(w, "delete") \/ JobDone(w)
  BY <1>0, CleaningChange
<1>2. PICK k \in Keys : k = worker[w].of BY <1>1
<1>3. setups[k].provisioning.left = 0 BY <1>1, <1>2 DEF LeaseInv, LeaseOver, Setup!Row
<1>4. RowOnly(k) /\ RowCalm(k) /\ setups'[k].provisioning = setups[k].provisioning
  <2>1. CASE UNCHANGED setups BY <2>1, SameCalm DEF RowOnly
  <2>2. CASE ~UNCHANGED setups
    <3>1. PICK c \in Leases : RowOnly(k) /\ setups'[k] = [setups[k] EXCEPT !.cleaning = c]
      BY <1>0, <1>2, <2>2, CleaningChange
    <3>2. /\ setups'[k].state = setups[k].state /\ setups'[k].number = setups[k].number
          /\ setups'[k].released = setups[k].released /\ setups'[k].rows = setups[k].rows
          /\ setups'[k].provisioning = setups[k].provisioning
      BY <1>0, <3>1 DEF SetupTyped, SetupRows
    <3> QED BY <1>3, <3>1, <3>2 DEF RowCalm
  <2> QED BY <2>1, <2>2
<1>5. JobOnly(w) /\ JobCalm(w) /\ worker'[w].step \in {"idle", "delete"}
  <2>1. CASE JobDone(w) BY <2>1, DoneJob
  <2>2. CASE JobIs(w, "delete")
    <3>1. JobOnly(w) /\ worker'[w].step = "delete" /\ worker'[w].of = k BY <1>2, <2>2 DEF JobIs
    <3> QED BY <1>3, <1>4, <3>1 DEF JobCalm
  <2> QED BY <1>1, <2>1, <2>2
<1> QED BY <1>1, <1>4, <1>5, RowWritten DEF Setup!At, CleanSteps

LEMMA DeleteLease ==
  ASSUME StoredInv, StoredInv', LeaseInv, NEW w \in Workers,
         Setup!DeleteSession(w) PROVE LeaseInv'
<1>0. SetupTyped /\ SetupTyped' BY DEF StoredInv
<1>1. /\ worker[w].of \in Keys /\ Setup!At(w, "delete") /\ JobIs(w, "releaseCleanup")
      /\ UNCHANGED <<setups, inflight>>
         /\ sessions'[worker[w].of] \subseteq sessions[worker[w].of]
      /\ \A j \in Keys : j # worker[w].of => sessions'[j] = sessions[j]
  BY <1>0, DeleteChange
<1>2. PICK k \in Keys : k = worker[w].of BY <1>1
<1>3. setups[k].provisioning.left = 0 /\ setups[k].state \in Setup!Cleanable
  BY <1>1, <1>2
  DEF StoredInv, OverWhenCleaned, LeaseInv, LeaseOver, Setup!Row, Setup!At, CleanSteps
<1>4. ~Posting(k) BY <1>3, NobodyPosts
<1>5. /\ \A v \in Workers \ {w} : worker'[v] = worker[v]
      /\ worker'[w].step = "releaseCleanup" /\ worker'[w].of = k
  BY <1>1, <1>2 DEF JobIs, JobOnly
<1>6. \A j \in Keys : sessions'[j] \subseteq sessions[j] BY <1>1
<1>7. LeaseHeld' BY <1>1, <1>5 DEF LeaseInv, LeaseHeld, Setup!Row
<1>8. LeaseOver' BY <1>1, <1>3, <1>5 DEF LeaseInv, LeaseOver, Setup!Row
<1>9. OneCreate'
  <2>1. \A j \in Keys : Posting(j)' <=> Posting(j) BY <1>1, <1>5 DEF Posting, Setup!At
  <2>2. \A j \in Keys : Posting(j) => j # k BY <1>4
  <2> QED BY <1>1, <1>2, <2>1, <2>2 DEF LeaseInv, OneCreate
<1>10. OneSession' BY <1>6 DEF LeaseInv, OneSession
<1>11. SeenIsAll'
  <2> SUFFICES ASSUME NEW v \in Workers, Setup!At(v, "finish")', Setup!Holds(v)'
               PROVE  worker'[v].seen = sessions'[worker'[v].of]
    BY DEF SeenIsAll
  <2>1. v # w /\ worker'[v] = worker[v] BY <1>5 DEF Setup!At
  <2>2. Setup!At(v, "finish") /\ Setup!Holds(v) BY <1>1, <2>1 DEF Setup!At, Setup!Holds, Setup!Row
  <2>3. worker[v].of \in Keys BY <1>0, <2>2 DEF SetupTyped, Setup!At
  <2>4. worker[v].of # k BY <1>3, <2>2 DEF Setup!Holds, Setup!Row, Setup!Cleanable, Setup!Terminal
  <2> QED BY <1>1, <1>2, <2>1, <2>2, <2>3, <2>4 DEF LeaseInv, SeenIsAll
<1>12. Absent'
  <2>1. ASSUME NEW v \in Workers, worker'[v].step = "complete" PROVE sessions'[worker'[v].of] = {}
    <3>1. worker'[v] = worker[v] BY <1>5, <2>1
    <3>2. worker[v].of \in Keys BY <1>0, <2>1, <3>1 DEF SetupTyped
    <3> QED BY <1>6, <2>1, <3>1, <3>2 DEF LeaseInv, Absent, Setup!At
  <2>2. \A j \in Keys : setups[j].released => sessions'[j] = {} BY <1>6 DEF LeaseInv, Absent
  <2> QED BY <1>1, <2>1, <2>2 DEF LeaseInv, Absent, Setup!At, Setup!Cleanable, Setup!Terminal
<1>13. NumbersApart' BY <1>1 DEF LeaseInv, NumbersApart
<1>14. Usable' BY <1>1, <1>2, <1>3 DEF LeaseInv, Usable, Setup!Cleanable, Setup!Terminal
<1> QED BY <1>7, <1>8, <1>9, <1>10, <1>11, <1>12, <1>13, <1>14 DEF LeaseInv

\* The number is released when there is no session, and nobody posts.
LEMMA CompleteLease ==
  ASSUME Setup!SetupAssumption, StoredInv, StoredInv', LeaseInv, NEW w \in Workers,
         Setup!CompleteCleanup(w)
  PROVE  LeaseInv'
<1>0. SetupTyped BY DEF StoredInv
<1>1. worker[w].of \in Keys
      /\ Setup!At(w, "complete") /\ JobDone(w) /\ UNCHANGED <<sessions, inflight>>
  BY <1>0, CompleteChange
<1>2. JobOnly(w) /\ worker'[w].step = "idle" /\ JobCalm(w) BY <1>1, DoneJob
<1>3. CASE UNCHANGED setups BY <1>1, <1>2, <1>3, JobGoesOn DEF Setup!At
<1>4. CASE ~UNCHANGED setups
  <2>1. PICK k \in Keys : k = worker[w].of BY <1>1
  <2>2. /\ RowOnly(k)
        /\ setups'[k] = [setups[k] EXCEPT !.cleanup = "complete", !.released = TRUE, !.rows = {},
             !.key = FALSE, !.cleaning = Setup!NoLease, !.provisioning = Setup!NoLease]
    BY <1>0, <1>4, <2>1, CompleteChange
  <2>3. /\ setups'[k].state = setups[k].state /\ setups'[k].number = setups[k].number
        /\ setups'[k].released = TRUE /\ setups'[k].provisioning = Setup!NoLease
    BY <1>0, <2>2 DEF SetupTyped, SetupRows
  <2>4. setups'[k].provisioning.left = 0 BY <2>3 DEF Setup!NoLease
  <2>5. setups[k].provisioning.left = 0 /\ setups[k].state \in Setup!Cleanable /\ sessions[k] = {}
    BY <1>1, <2>1
    DEF StoredInv, OverWhenCleaned, LeaseInv, LeaseOver, Absent, Setup!Row, Setup!At, CleanSteps
  <2>6. RowCalm(k) BY <1>1, <2>3, <2>4, <2>5 DEF RowCalm, Setup!Cleanable, Setup!Terminal
  <2>7. \A v \in Workers : v # w /\ worker[v].of = k => worker[v].step \notin {"create", "posted"}
    BY <2>5, NobodyPosts
  <2> QED BY <1>1, <1>2, <2>2, <2>6, <2>7, RowWritten DEF Setup!At
<1> QED BY <1>3, <1>4

-----------------------------------------------------------------------------
LEMMA LeaseStep ==
  ASSUME Setup!SetupAssumption, Prudent, StoredInv, LeaseInv,
         [Setup!Next]_Setup!vars PROVE StoredInv' /\ LeaseInv'
<1>1. StoredInv' BY StoredStep
<1>2. CASE UNCHANGED Setup!vars BY <1>1, <1>2, LoadLease DEF Setup!vars
<1>3. ASSUME NEW w \in Workers, Setup!Provisioning(w) PROVE LeaseInv'
  BY <1>1, <1>3, ReadsLease, RenewLease, CreateLease, PostedLease, FinishLease, GivesUpLease
     DEF Setup!Provisioning
<1>4. ASSUME NEW w \in Workers, Setup!Cleanup(w) PROVE LeaseInv'
  BY <1>1, <1>4, ReadsLease, CleaningLease, DeleteLease, CompleteLease DEF Setup!Cleanup
<1>5. ASSUME NEW w \in Workers, Setup!Failure(w) PROVE LeaseInv'
  BY <1>1, <1>5, ReadsLease, PostedLease, StopLease DEF Setup!Failure
<1>6. ASSUME NEW w \in Workers, NEW k \in Keys, Setup!Claim(w, k) \/ Setup!ClaimCleanup(w, k)
      PROVE  LeaseInv'
  BY <1>1, <1>6, ClaimLease, ClaimCleanupLease
<1>7. ASSUME NEW k \in Keys, Setup!Request(k) PROVE LeaseInv'
  BY <1>1, <1>7, StartLease, EndLease DEF Setup!Request
<1>8. ASSUME NEW k \in Keys, Setup!Settle(k) PROVE LeaseInv' BY <1>8, SettleLease
<1>9. ASSUME NEW k \in Keys, NEW o \in Observers, Setup!Load(o, k) PROVE LeaseInv'
  BY <1>1, <1>9, LoadLease, LoadChange DEF StoredInv
<1>10. ASSUME NEW o \in Observers, Setup!Activate(o) \/ Setup!RejectActivation(o) PROVE LeaseInv'
  BY <1>1, <1>10, BrowserLease
<1>11. ASSUME Setup!Tick \/ Setup!Expire PROVE LeaseInv' BY <1>1, <1>11, TickLease, EndLease
<1>12. CASE Setup!Next
  <2>1. CASE Setup!Tick \/ Setup!Expire BY <1>1, <1>11, <2>1
  <2>2. ASSUME NEW k \in Keys,
               \/ Setup!Request(k) \/ Setup!Settle(k)
               \/ \E w \in Workers : Setup!Claim(w, k) \/ Setup!ClaimCleanup(w, k)
               \/ \E o \in Observers : Setup!Load(o, k)
        PROVE  LeaseInv'
    BY <1>6, <1>7, <1>8, <1>9, <2>2
  <2>3. ASSUME NEW w \in Workers,
               Setup!Provisioning(w) \/ Setup!Cleanup(w) \/ Setup!Failure(w) PROVE LeaseInv'
    BY <1>3, <1>4, <1>5, <2>3
  <2> QED BY <1>1, <1>10, <1>12, <2>1, <2>2, <2>3 DEF Setup!Next
<1> QED BY <1>1, <1>2, <1>12

LEMMA LeaseInvariant ==
  ASSUME Setup!SetupAssumption, Prudent PROVE Setup!Spec => [](StoredInv /\ LeaseInv)
<1>1. Setup!Init => StoredInv /\ LeaseInv BY InitStored, InitLease
<1>2. StoredInv /\ LeaseInv /\ [Setup!Next]_Setup!vars => (StoredInv /\ LeaseInv)' BY LeaseStep
<1> QED BY <1>1, <1>2, PTL DEF Setup!Spec

-----------------------------------------------------------------------------
\* Whatever arrives late and however long a step takes, the session a usable setup stores is
\* one of the provider's: no cleanup deletes it (finish_connection_setup_provisioning,
\* claim_connection_setup_cleanup).
THEOREM SessionStaysHolds ==
  ASSUME Setup!SetupAssumption PROVE Setup!Spec => []Setup!StoredSessionStays
<1>1. StoredInv => Setup!StoredSessionStays BY DEF StoredInv
<1> QED BY <1>1, StoredInvariant, PTL

\* However many invocations and browsers overlap, a usable setup has exactly one session at
\* the provider, the one whose credentials it stores (connection-setup.ts).
THEOREM UsableIsUniqueHolds ==
  ASSUME Setup!SetupAssumption, Prudent PROVE Setup!Spec => []Setup!UsableIsUnique
<1>1. LeaseInv => Setup!UsableIsUnique
  <2> SUFFICES ASSUME LeaseInv, NEW k \in Keys, setups[k].state \in {"provisioned", "activated"}
               PROVE  sessions[k] = setups[k].rows /\ Setup!Cardinality(sessions[k]) = 1
    BY DEF Setup!UsableIsUnique
  <2>1. sessions[k] = setups[k].rows /\ sessions[k] # {} BY DEF LeaseInv, Usable
  <2>2. PICK s \in sessions[k] : TRUE BY <2>1
  <2>3. sessions[k] = {s} BY <2>2 DEF LeaseInv, OneSession
  <2> QED BY <2>1, <2>3, FS_Singleton, SameSize
<1> QED BY <1>1, LeaseInvariant, PTL

\* The number of a setup is released when the provider has no session under its marker and
\* no create is under way that could still make one (finish_connection_setup_cleanup).
THEOREM ReleasedWithoutSessionHolds ==
  ASSUME Setup!SetupAssumption, Prudent PROVE Setup!Spec => []Setup!ReleasedWithoutSession
<1>1. StoredInv /\ LeaseInv => Setup!ReleasedWithoutSession
  BY NobodyPosts DEF LeaseInv, Absent, Setup!ReleasedWithoutSession
<1> QED BY <1>1, LeaseInvariant, PTL

\* Of two setups for one number at most one has a session, however the end of the first
\* overlaps with the start of the next (start_connection_setup).
THEOREM OneSetupPerNumberHolds ==
  ASSUME Setup!SetupAssumption, Prudent PROVE Setup!Spec => []Setup!OneSetupPerNumber
<1>1. LeaseInv => Setup!OneSetupPerNumber
  BY DEF LeaseInv, Absent, NumbersApart, Setup!OneSetupPerNumber
<1> QED BY <1>1, LeaseInvariant, PTL
====
