----------------------- MODULE RecipientExclusionProofs -----------------------
(***************************************************************************)
(* What RecipientExclusion promises, proved for any number of keys,        *)
(* requests, messages, transitions, failures and restores.                 *)
(*                                                                         *)
(* The invariant: transitions that somebody still holds (the rule, its     *)
(* recovery point, a request or the cron) and objects of the journal are   *)
(* one for each identity (OneEach); a request that has appended finds its  *)
(* object (Written); and the row, the recovery point, the bindings and the *)
(* answers say only what an object of the journal says (Evidenced).  The   *)
(* row also never falls behind the transition it names as its last         *)
(* (Follows), which is what makes an old message stay suppressed.          *)
(*                                                                         *)
(* Three more stand on it: what was answered is reached by the row or by   *)
(* what is left to replay (Kept); transitions lie in different             *)
(* milliseconds, so that a row says which of them is in force (Dated); and *)
(* in one database answers, bindings and the row agree (Retried).          *)
(*                                                                         *)
(* The parts are predicates of the values they speak of: h is the set of   *)
(* held transitions, j the journal, n the transitions prepared so far and  *)
(* t the time.                                                             *)
(***************************************************************************)
EXTENDS RecipientExclusion, WellFoundedInduction, TLAPS

\* The row and the bindings of the recovery point; none is the empty database.
SavedRow == IF backup = None THEN NoRule ELSE backup.rule
SavedBindings == IF backup = None THEN [k \in Keys |-> None] ELSE backup.bindings

\* The transitions that may still be appended or finalized.
Held ==
  {x \in Transitions :
     \/ rule.pending # None /\ x = rule.pending
     \/ SavedRow.pending # None /\ x = SavedRow.pending
     \/ cron.phase # "idle" /\ x = cron.of
     \/ \E s \in Slots : slot[s].phase # "idle" /\ x = slot[s].of}

Objects == [id : Ids, excluded : BOOLEAN, effective : Times, cutoff : Times]

\* An exclusion purges up to the moment it takes effect, a re-enabling not beyond it.
Sound(x, n, t) ==
  /\ x.id \in 1..n /\ x.effective <= t
  /\ x.cutoff <= x.effective /\ (x.excluded => x.cutoff = x.effective /\ x.effective # 0)

OneEach(h, j, n, t) ==
  /\ \A x \in h : x \in Transitions /\ Sound(x, n, t) /\ PerMs <= x.effective
  /\ \A x, y \in h : x.id = y.id => x = y
  /\ \A o \in j : o \in Objects /\ o = Object(o) /\ Sound(o, n, t)
  /\ \A o, p \in j : o.id = p.id => o = p
  /\ \A x \in h, o \in j : x.id = o.id => o = Object(x)

Evidenced(x, j) ==
  x.excluded => \E o \in j : /\ o.excluded /\ o.effective = Ms(x.effective)
                             /\ o.cutoff = Ms(x.cutoff)

\* The transition a row names as its last took effect no later than the row says.
Follows(r, h, j) ==
  /\ \A x \in h : x.id = r.last => Ms(x.effective) <= r.effective
  /\ \A o \in j : o.id = r.last => o.effective <= r.effective

RowHolds(r, b, h, j, n, t) ==
  /\ r \in Rules /\ (~r.present => r = NoRule)
  /\ r.last <= n /\ r.effective <= t /\ r.cutoff <= r.effective
  /\ r.excluded => r.cutoff = r.effective /\ r.effective # 0
  /\ Evidenced(r, j) /\ Follows(r, h, j)
  /\ r.pending # None => r.effective <= r.pending.effective /\ b[r.pending.key] = None

Bindings == [id : Ids, excluded : BOOLEAN, effective : Times, cutoff : Times, expires : Nat]

BindingsHold(b, j) ==
  /\ b \in [Keys -> Bindings \union {None}]
  /\ \A k \in Keys : b[k] # None => Evidenced(b[k], j)

Workers == [phase : {"idle", "prepared", "appended"}, of : Transitions \union {None}]

WorkerHolds(w, j) ==
  /\ w \in Workers /\ (w.phase # "idle" => w.of \in Transitions)
  /\ w.phase = "appended" => Object(w.of) \in j

Written == /\ slot \in [Slots -> Workers] /\ WorkerHolds(cron, journal)
           /\ \A s \in Slots : WorkerHolds(slot[s], journal)

MessageType ==
  [Messages -> [state : {"none", "received", "suppressed", "readable", "purged", "removed"},
                received : Times, created : Times]]

\* What the recovery point knows as readable was projected before it.
Onward(ms, saved) ==
  \A m \in Messages : saved[m].state = "readable" => ms[m].state \notin {"none", "received"}

World ==
  /\ now \in Times /\ PerMs <= now /\ ids \in Ids
  /\ directory \in BOOLEAN /\ messages \in MessageType
  /\ backup # None =>
       /\ backup.directory \in BOOLEAN /\ backup.messages \in MessageType
       /\ Onward(messages, backup.messages)
  /\ todo \subseteq journal

Rows ==
  /\ RowHolds(rule, bindings, Held, journal, ids, now)
  /\ RowHolds(SavedRow, SavedBindings, Held, journal, ids, now)
  /\ BindingsHold(bindings, journal) /\ BindingsHold(SavedBindings, journal)

Answered == \A a \in answers : Evidenced(a, journal)

IInv == World /\ OneEach(Held, journal, ids, now) /\ Written /\ Rows /\ Answered

-----------------------------------------------------------------------------
\* Whole milliseconds.
LEMMA MsFacts ==
  ASSUME NEW t \in Nat
  PROVE  /\ Ms(t) \in Nat /\ Ms(t) <= t /\ Ms(Ms(t)) = Ms(t)
         /\ PerMs <= t => Ms(t) # 0
<1>1. t % PerMs \in 0..(PerMs - 1) BY ExclusionAssumption, SMTT(30)
<1>2. Ms(t) \in Nat /\ Ms(t) <= t BY ExclusionAssumption, SMTT(30) DEF Ms
<1>3. Ms(Ms(t)) = Ms(t) BY ExclusionAssumption, SMTT(30) DEF Ms
<1>4. PerMs <= t => Ms(t) # 0 BY <1>1, ExclusionAssumption DEF Ms
<1> QED BY <1>2, <1>3, <1>4

LEMMA MsMonotone == ASSUME NEW t \in Nat, NEW u \in Nat, t <= u PROVE Ms(t) <= Ms(u)
<1>1. PerMs \in Nat \ {0} BY ExclusionAssumption
<1> QED BY <1>1, SMTT(60) DEF Ms

LEMMA Numbers ==
  /\ PerMs \in Nat /\ PerMs # 0 /\ Retention \in Nat /\ MaxTime \in Nat /\ PerMs <= MaxTime
  /\ MaxTransitions \in Nat
  /\ \A t \in Times : t \in Nat
BY ExclusionAssumption DEF Times

LEMMA NoRuleHolds ==
  ASSUME NEW b, NEW h, NEW j, NEW n, NEW t, OneEach(h, j, n, t), n \in Nat, t \in Nat
  PROVE  RowHolds(NoRule, b, h, j, n, t)
<1>1. NoRule \in Rules BY Numbers DEF NoRule, Rules, Times, Ids
<1>2. Follows(NoRule, h, j) BY DEF Follows, NoRule, OneEach, Sound
<1> QED BY <1>1, <1>2 DEF RowHolds, NoRule, Evidenced

\* The object of a held transition is as sound as the transition.
LEMMA ObjectSound ==
  ASSUME NEW x \in Transitions, NEW n, NEW t \in Nat, Sound(x, n, t), PerMs <= x.effective
  PROVE  /\ Object(x) \in Objects /\ Object(Object(x)) = Object(x) /\ Sound(Object(x), n, t)
         /\ Object(x).id = x.id /\ Object(x).effective = Ms(x.effective)
<1>1. x.effective \in Nat /\ x.cutoff \in Nat /\ x.effective <= MaxTime /\ x.cutoff <= MaxTime
      /\ x.id \in Ids /\ x.excluded \in BOOLEAN
  BY Numbers DEF Transitions, Times
<1>2. /\ Ms(x.effective) \in Nat /\ Ms(x.effective) <= x.effective
      /\ Ms(Ms(x.effective)) = Ms(x.effective) /\ Ms(x.effective) # 0
  BY <1>1, MsFacts
<1>3. Ms(x.cutoff) \in Nat /\ Ms(x.cutoff) <= x.cutoff /\ Ms(Ms(x.cutoff)) = Ms(x.cutoff)
  BY <1>1, MsFacts
<1>4. x.cutoff <= x.effective BY DEF Sound
<1>5. Ms(x.cutoff) <= Ms(x.effective) BY <1>1, <1>4, MsMonotone
<1>6. Object(x) \in Objects BY <1>1, <1>2, <1>3, Numbers DEF Object, Objects, Times
<1>7. Object(Object(x)) = Object(x) BY <1>2, <1>3 DEF Object
<1>8. Ms(x.effective) <= t BY <1>1, <1>2 DEF Sound
<1>9. Sound(Object(x), n, t) BY <1>1, <1>2, <1>5, <1>8 DEF Object, Sound
<1> QED BY <1>6, <1>7, <1>9 DEF Object

LEMMA OneEachKept ==
  ASSUME NEW h, NEW j, NEW n \in Nat, NEW t \in Nat, OneEach(h, j, n, t),
         NEW g, g \subseteq h, NEW m \in Nat, NEW u \in Nat, n <= m, t <= u
  PROVE  OneEach(g, j, m, u)
<1>1. ASSUME NEW x, Sound(x, n, t), x \in Transitions \/ x \in Objects PROVE Sound(x, m, u)
  BY <1>1, Numbers DEF Sound, Transitions, Objects
<1>2. \A x \in g : x \in Transitions /\ Sound(x, m, u) /\ PerMs <= x.effective BY <1>1 DEF OneEach
<1>3. \A o \in j : o \in Objects /\ o = Object(o) /\ Sound(o, m, u) BY <1>1 DEF OneEach
<1> QED BY <1>2, <1>3 DEF OneEach

LEMMA OneEachAppend ==
  ASSUME NEW h, NEW j, NEW n \in Nat, NEW t \in Nat, OneEach(h, j, n, t), NEW x \in h
  PROVE  OneEach(h, j \cup {Object(x)}, n, t)
<1> DEFINE o == Object(x)
<1>1. x \in Transitions /\ Sound(x, n, t) /\ PerMs <= x.effective BY DEF OneEach
<1>2. o \in Objects /\ Object(o) = o /\ Sound(o, n, t) /\ o.id = x.id BY <1>1, ObjectSound
<1>3. \A p \in j : o.id = p.id => o = p BY <1>2 DEF OneEach
<1>4. \A y \in h : y.id = o.id => o = Object(y) BY <1>2 DEF OneEach
<1> HIDE DEF o
<1> QED BY <1>2, <1>3, <1>4 DEF OneEach

LEMMA OneEachPrepare ==
  ASSUME NEW h, NEW j, NEW n \in Nat, NEW t \in Nat, OneEach(h, j, n, t),
         NEW x \in Transitions, Sound(x, n + 1, t), PerMs <= x.effective, x.id = n + 1
  PROVE  OneEach(h \cup {x}, j, n + 1, t)
<1>1. OneEach(h, j, n + 1, t) BY OneEachKept
<1>2. \A y \in h : y.id # x.id BY DEF OneEach, Sound
<1>3. \A o \in j : o.id # x.id BY DEF OneEach, Sound
<1> QED BY <1>1, <1>2, <1>3 DEF OneEach

LEMMA RowKept ==
  ASSUME NEW r, NEW b, NEW h, NEW j, NEW n \in Nat, NEW t \in Nat, RowHolds(r, b, h, j, n, t),
         NEW g, g \subseteq h, NEW m \in Nat, NEW u \in Nat, n <= m, t <= u,
         NEW c, \A k \in Keys : b[k] = None => c[k] = None
  PROVE  RowHolds(r, c, g, j, m, u)
<1>1. r.last \in Nat /\ r.effective \in Nat BY Numbers DEF RowHolds, Rules, Ids, Times
<1>2. r.pending # None => r.pending.key \in Keys BY DEF RowHolds, Rules, Transitions
<1>3. Follows(r, g, j) BY DEF RowHolds, Follows
<1> QED BY <1>1, <1>2, <1>3 DEF RowHolds

LEMMA RowAppend ==
  ASSUME NEW r, NEW b, NEW h, NEW j, NEW n, NEW t, RowHolds(r, b, h, j, n, t), NEW x \in h
  PROVE  RowHolds(r, b, h, j \cup {Object(x)}, n, t)
<1>1. Follows(r, h, j \cup {Object(x)}) BY DEF RowHolds, Follows, Object
<1>2. Evidenced(r, j \cup {Object(x)}) BY DEF RowHolds, Evidenced
<1> QED BY <1>1, <1>2 DEF RowHolds

LEMMA RowPrepare ==
  ASSUME NEW r, NEW b, NEW h, NEW j, NEW n \in Nat, NEW t \in Nat, RowHolds(r, b, h, j, n, t),
         NEW x, x.id = n + 1
  PROVE  RowHolds(r, b, h \cup {x}, j, n + 1, t)
<1>1. r.last \in Nat /\ r.last <= n BY Numbers DEF RowHolds, Rules, Ids
<1>2. Follows(r, h \cup {x}, j) BY <1>1 DEF RowHolds, Follows
<1> QED BY <1>1, <1>2 DEF RowHolds

LEMMA BindingsAppend ==
  ASSUME NEW b, NEW j, NEW o, BindingsHold(b, j) PROVE BindingsHold(b, j \cup {o})
BY DEF BindingsHold, Evidenced
-----------------------------------------------------------------------------
LEMMA InitIInv == Init => IInv
<1> SUFFICES ASSUME Init PROVE IInv OBVIOUS
<1> USE Numbers DEF Init
<1>1. SavedRow = NoRule /\ SavedBindings = [k \in Keys |-> None] BY DEF SavedRow, SavedBindings
<1>2. Held = {} BY <1>1 DEF Held, NoRule, Idle
<1>3. now \in Times /\ now \in Nat /\ ids \in Ids /\ ids \in Nat BY DEF Times, Ids
<1>4. World BY <1>3 DEF World, MessageType, Times
<1>5. OneEach(Held, journal, ids, now) BY <1>2 DEF OneEach
<1>6. Rows
  <2>1. RowHolds(NoRule, bindings, Held, journal, ids, now) BY <1>3, <1>5, NoRuleHolds
  <2> QED BY <1>1, <2>1 DEF Rows, BindingsHold
<1>7. Written BY DEF Written, WorkerHolds, Workers, Idle
<1> QED BY <1>4, <1>5, <1>6, <1>7 DEF IInv, Answered

LEMMA Facts ==
  ASSUME IInv
  PROVE  /\ now \in Nat /\ ids \in Nat /\ now <= MaxTime /\ PerMs <= now /\ ids <= MaxTransitions
         /\ rule \in Rules
         /\ rule.pending # None => rule.pending \in Held /\ rule.present /\ rule.pending.key \in Keys
         /\ \A s \in Slots : slot[s].phase # "idle" => slot[s].of \in Held
         /\ cron.phase # "idle" => cron.of \in Held
         /\ Held \subseteq Transitions
         /\ OneEach(Held, journal, ids, now)
<1>1. now \in Nat /\ ids \in Nat /\ now <= MaxTime /\ ids <= MaxTransitions /\ PerMs <= now
  BY Numbers DEF IInv, World, Times, Ids
<1>2. rule \in Rules /\ (rule.pending # None => rule.pending \in Transitions)
  BY DEF IInv, Rows, RowHolds, Rules
<1>3. rule.pending # None => rule.pending \in Held /\ rule.pending.key \in Keys
  BY <1>2 DEF Held, Transitions
<1>4. rule.pending # None => rule.present
  BY DEF IInv, Rows, RowHolds, NoRule
<1>5. \A s \in Slots : slot[s].phase # "idle" => slot[s].of \in Held
  BY DEF IInv, Written, WorkerHolds, Held
<1>6. cron.phase # "idle" => cron.of \in Held BY DEF IInv, Written, WorkerHolds, Held
<1> QED BY <1>1, <1>2, <1>3, <1>4, <1>5, <1>6 DEF Held, IInv

\* A step that adds nothing to what is held or journaled, and binds no key.
LEMMA Quiet ==
  ASSUME IInv, now' \in Nat, now <= now', UNCHANGED <<ids, journal>>, Held' \subseteq Held
  PROVE  /\ OneEach(Held, journal, ids, now)'
         /\ \A r, b, c : /\ RowHolds(r, b, Held, journal, ids, now)
                         /\ \A k \in Keys : b[k] = None => c[k] = None
                         => RowHolds(r, c, Held', journal', ids', now')
<1>1. OneEach(Held', journal, ids, now') BY Facts, OneEachKept
<1>2. ASSUME NEW r, NEW b, NEW c, RowHolds(r, b, Held, journal, ids, now),
             \A k \in Keys : b[k] = None => c[k] = None
      PROVE  RowHolds(r, c, Held', journal, ids, now')
  BY <1>2, Facts, RowKept
<1> QED BY <1>1, <1>2

LEMMA TickStep == IInv /\ Tick => IInv'
<1> SUFFICES ASSUME IInv, Tick PROVE IInv' OBVIOUS
<1> USE DEF Tick, database, gate
<1>1. Held' = Held BY DEF Held, SavedRow
<1>2. SavedRow' = SavedRow /\ SavedBindings' = SavedBindings BY DEF SavedRow, SavedBindings
<1>3. now' \in Nat /\ now <= now' /\ now' \in Times /\ PerMs <= now' BY Facts, Numbers DEF Times
<1>4. World' BY <1>3 DEF IInv, World
<1>5. OneEach(Held, journal, ids, now)' BY <1>1, <1>3, Quiet
<1>6. Rows' BY <1>1, <1>2, <1>3, Quiet DEF IInv, Rows
<1>7. Written' BY DEF IInv, Written
<1> QED BY <1>4, <1>5, <1>6, <1>7 DEF IInv, Answered

LEMMA ObservationStep == IInv /\ (Observation \/ RemoveHistory) => IInv'
<1> SUFFICES ASSUME IInv, Observation \/ RemoveHistory PROVE IInv' OBVIOUS
<1> USE DEF gate
<1>0. UNCHANGED <<now, rule, journal, slot, cron, ids, gate, answers, faults>>
  BY DEF Observation, Receive, Project, ProjectDirectory, RemoveHistory
<1>1. Held' = Held BY <1>0 DEF Held, SavedRow
<1>2. SavedRow' = SavedRow /\ SavedBindings' = SavedBindings BY <1>0 DEF SavedRow, SavedBindings
<1>3. /\ bindings' \in [Keys -> Bindings \union {None}]
      /\ \A k \in Keys : bindings'[k] = bindings[k] \/ bindings'[k] = None
  <2>1. CASE Observation BY <2>1 DEF Observation, Receive, Project, ProjectDirectory, IInv, Rows, BindingsHold
  <2>2. CASE RemoveHistory BY <2>2 DEF RemoveHistory, IInv, Rows, BindingsHold
  <2> QED BY <2>1, <2>2
<1>4. /\ messages' \in MessageType /\ directory' \in BOOLEAN
      /\ \A m \in Messages : messages'[m].state \in {"none", "received"}
                             => messages[m].state \in {"none", "received"}
  <2> USE DEF MessageType, IInv, World
  <2>1. ASSUME NEW m \in Messages, Receive(m)
        PROVE  messages' \in MessageType /\ directory' \in BOOLEAN /\ messages[m].state = "none"
               /\ \A k \in Messages : k # m => messages'[k] = messages[k]
    BY <2>1 DEF Receive
  <2>2. ASSUME NEW m \in Messages, NEW b \in 0..MaxTime, Project(m, b)
        PROVE  messages' \in MessageType /\ directory' \in BOOLEAN /\ messages[m].state = "received"
               /\ \A k \in Messages : k # m => messages'[k] = messages[k]
    <3> DEFINE x == IF Suppressed(messages[m].received)
                    THEN [messages[m] EXCEPT !.state = "suppressed"]
                    ELSE [messages[m] EXCEPT !.state = "readable", !.created = b]
    <3>1. /\ x.state \in {"suppressed", "readable"} /\ x.received \in Times /\ x.created \in Times
          /\ x = [state |-> x.state, received |-> x.received, created |-> x.created]
      BY DEF Times
    <3>2. messages' = [messages EXCEPT ![m] = x] /\ messages[m].state = "received" /\ UNCHANGED directory
      BY <2>2 DEF Project
    <3> HIDE DEF x
    <3> QED BY <3>1, <3>2
  <2>3. CASE ProjectDirectory BY <2>3 DEF ProjectDirectory
  <2>4. CASE RemoveHistory BY <2>4 DEF RemoveHistory
  <2> QED BY <2>1, <2>2, <2>3, <2>4 DEF Observation
<1>5. World' BY <1>0, <1>4 DEF IInv, World, Onward
<1>6. OneEach(Held, journal, ids, now)' BY <1>0, <1>1 DEF IInv
<1>7. Rows'
  <2>1. RowHolds(rule', bindings', Held', journal', ids', now')
    BY <1>0, <1>1, <1>3, Quiet, Facts DEF IInv, Rows
  <2>2. BindingsHold(bindings', journal')
    BY <1>0, <1>3 DEF IInv, Rows, BindingsHold
  <2> QED BY <1>0, <1>1, <1>2, <2>1, <2>2 DEF IInv, Rows
<1>8. Written' BY <1>0 DEF IInv, Written
<1> QED BY <1>0, <1>5, <1>6, <1>7, <1>8 DEF IInv, Answered

-----------------------------------------------------------------------------
\* Steps that only take up or let go a transition, move the gate or answer.
LEMMA LooseStep ==
  ASSUME IInv, UNCHANGED <<now, database, journal, ids>>, Held' \subseteq Held,
         SavedRow' = SavedRow, SavedBindings' = SavedBindings, World', Written', Answered'
  PROVE  IInv'
<1> USE DEF database
<1>1. OneEach(Held, journal, ids, now)' BY Facts, Quiet
<1>2. Rows' BY Facts, Quiet DEF IInv, Rows
<1> QED BY <1>1, <1>2 DEF IInv

LEMMA AnswerStep ==
  ASSUME NEW s \in Slots, NEW k \in Keys, NEW wanted \in BOOLEAN, NEW expected \in BOOLEAN,
         IInv, Replayed(s, k) \/ Unchanged(s, k, wanted, expected)
  PROVE  IInv'
<1> USE DEF database, gate
<1>0. UNCHANGED <<now, database, journal, slot, cron, ids, gate, faults>>
  BY DEF Replayed, Unchanged
<1>1. Held' = Held /\ SavedRow' = SavedRow /\ SavedBindings' = SavedBindings
  BY <1>0 DEF Held, SavedRow, SavedBindings
<1>2. World' /\ Written' BY <1>0 DEF IInv, World, Written
<1>3. Answered'
  <2>1. CASE Replayed(s, k)
    <3>1. Evidenced(bindings[k], journal) BY <2>1 DEF Replayed, IInv, Rows, BindingsHold
    <3> QED BY <1>0, <2>1, <3>1 DEF Replayed, Answer, IInv, Answered, Evidenced
  <2>2. CASE Unchanged(s, k, wanted, expected)
    <3>1. Evidenced(rule, journal) BY DEF IInv, Rows, RowHolds
    <3> QED BY <1>0, <2>2, <3>1 DEF Unchanged, Answer, IInv, Answered, Evidenced
  <2> QED BY <2>1, <2>2
<1> QED BY <1>0, <1>1, <1>2, <1>3, LooseStep

LEMMA ResumeStep ==
  ASSUME NEW s \in Slots, NEW k \in Keys, IInv, Resume(s, k) PROVE IInv'
<1> USE DEF Resume, database, gate
<1>1. rule.pending \in Held /\ rule.pending \in Transitions BY Facts
<1>2. \A q \in Slots : slot'[q].phase # "idle" => slot'[q].of = rule.pending \/ (slot'[q] = slot[q])
  BY DEF IInv, Written
<1>3. Held' \subseteq Held BY <1>1, <1>2 DEF Held, SavedRow
<1>4. SavedRow' = SavedRow /\ SavedBindings' = SavedBindings BY DEF SavedRow, SavedBindings
<1>5. World' /\ Answered' BY DEF IInv, World, Answered
<1>6. Written' BY <1>1 DEF IInv, Written, WorkerHolds, Workers
<1> QED BY <1>3, <1>4, <1>5, <1>6, LooseStep

LEMMA LetGoStep ==
  ASSUME IInv, (\E s \in Slots : Abandon(s)) \/ CronStops PROVE IInv'
<1> USE DEF Abandon, CronStops, Idle, database, gate
<1>0. UNCHANGED <<now, database, journal, ids, gate, answers>> OBVIOUS
<1>1. Held' \subseteq Held BY DEF Held, SavedRow, IInv, Written
<1>2. SavedRow' = SavedRow /\ SavedBindings' = SavedBindings BY <1>0 DEF SavedRow, SavedBindings
<1>3. World' /\ Answered' BY <1>0 DEF IInv, World, Answered
<1>4. Written'
  <2>1. WorkerHolds(Idle, journal) BY DEF WorkerHolds, Workers
  <2> QED BY <1>0, <2>1 DEF IInv, Written, Workers, WorkerHolds
<1> QED BY <1>0, <1>1, <1>2, <1>3, <1>4, LooseStep

LEMMA CronListStep == IInv /\ CronList => IInv'
<1> SUFFICES ASSUME IInv, CronList PROVE IInv' OBVIOUS
<1> USE DEF CronList, database, gate
<1>1. rule.pending \in Held /\ rule.pending \in Transitions BY Facts
<1>2. Held' \subseteq Held BY <1>1 DEF Held, SavedRow
<1>3. SavedRow' = SavedRow /\ SavedBindings' = SavedBindings BY DEF SavedRow, SavedBindings
<1>4. World' /\ Answered' BY DEF IInv, World, Answered
<1>5. Written' BY <1>1 DEF IInv, Written, WorkerHolds, Workers
<1> QED BY <1>2, <1>3, <1>4, <1>5, LooseStep

LEMMA PrepareStep ==
  ASSUME NEW s \in Slots, NEW k \in Keys, NEW wanted \in BOOLEAN, NEW expected \in BOOLEAN,
         IInv, Prepare(s, k, wanted, expected)
  PROVE  IInv'
<1> DEFINE t == Prepared(k, wanted)
<1>0. /\ rule' = [rule EXCEPT !.present = TRUE, !.pending = t] /\ ids' = ids + 1
      /\ slot' = [slot EXCEPT ![s] = [phase |-> "prepared", of |-> t]]
      /\ bindings[k] = None /\ rule.pending = None /\ ids < MaxTransitions
      /\ UNCHANGED <<now, bindings, directory, messages, journal, cron, gate, answers, faults>>
  BY DEF Prepare, Unbound
<1>1. now \in Nat /\ ids \in Nat /\ now <= MaxTime /\ PerMs <= now /\ PerMs \in Nat \ {0}
  BY Facts, Numbers
<1>2. /\ rule \in Rules /\ rule.cutoff \in Nat /\ rule.effective \in Nat
      /\ rule.cutoff <= rule.effective /\ rule.effective <= now
  BY Numbers DEF IInv, Rows, RowHolds, Rules
<1>3. /\ t.id = ids + 1 /\ t.key = k /\ t.excluded = wanted /\ t.effective = now
      /\ t.cutoff = IF wanted THEN now ELSE rule.cutoff
  BY <1>1, <1>2 DEF Prepared, Later
<1>4. t \in Transitions
  <2>1. ids + 1 \in Ids /\ now \in Times /\ rule.cutoff \in Times
    BY <1>0, <1>1, <1>2, Numbers DEF Ids, Times, Rules
  <2> QED BY <1>1, <1>2, <2>1 DEF Prepared, Later, Transitions
<1> HIDE DEF t
<1>5. Sound(t, ids + 1, now) /\ PerMs <= t.effective BY <1>1, <1>2, <1>3 DEF Sound
<1>6. Held' \subseteq Held \cup {t} /\ SavedRow' = SavedRow /\ SavedBindings' = SavedBindings
  BY <1>0, <1>2 DEF Held, SavedRow, SavedBindings, gate, IInv, Written, Rules
<1>7. OneEach(Held \cup {t}, journal, ids + 1, now)
  BY <1>1, <1>3, <1>4, <1>5, Facts, OneEachPrepare
<1>8. OneEach(Held', journal, ids + 1, now) BY <1>1, <1>6, <1>7, OneEachKept
<1>9. \A r, b : RowHolds(r, b, Held, journal, ids, now) => RowHolds(r, b, Held', journal, ids + 1, now)
  <2>1. ASSUME NEW r, NEW b, RowHolds(r, b, Held, journal, ids, now)
        PROVE  RowHolds(r, b, Held', journal, ids + 1, now)
    <3>1. RowHolds(r, b, Held \cup {t}, journal, ids + 1, now) BY <1>1, <1>3, <2>1, RowPrepare
    <3> QED BY <1>1, <1>6, <3>1, RowKept
  <2> QED BY <2>1
<1>10. RowHolds(rule', bindings, Held', journal, ids + 1, now)
  <2>1. RowHolds(rule, bindings, Held', journal, ids + 1, now) BY <1>9 DEF IInv, Rows
  <2>2. rule' \in Rules BY <1>0, <1>2, <1>4 DEF Rules
  <2>3. /\ rule'.present /\ rule'.excluded = rule.excluded /\ rule'.effective = rule.effective
        /\ rule'.cutoff = rule.cutoff /\ rule'.last = rule.last /\ rule'.pending = t
    BY <1>0, <1>2 DEF Rules
  <2>4. Evidenced(rule', journal) /\ Follows(rule', Held', journal)
    BY <2>1, <2>3 DEF RowHolds, Evidenced, Follows
  <2> QED BY <1>0, <1>2, <1>3, <2>1, <2>2, <2>3, <2>4 DEF RowHolds
<1>11. World'
  <2>1. ids + 1 \in Ids BY <1>0, <1>1, Numbers DEF Ids
  <2> QED BY <1>0, <2>1 DEF IInv, World, gate
<1>12. Written'
  <2>1. WorkerHolds([phase |-> "prepared", of |-> t], journal) BY <1>4 DEF WorkerHolds, Workers
  <2> QED BY <1>0, <2>1 DEF IInv, Written, WorkerHolds
<1> QED BY <1>0, <1>6, <1>8, <1>9, <1>10, <1>11, <1>12 DEF IInv, Rows, Answered

-----------------------------------------------------------------------------
\* A transition that is appended was held, so its object agrees with all others.
LEMMA AppendSteps ==
  ASSUME IInv, (\E s \in Slots : Append(s)) \/ CronAppend PROVE IInv'
<1> USE DEF database, gate
<1>0. PICK x \in Held : journal' = journal \cup {Object(x)} /\ Written'
  <2>1. ASSUME NEW s \in Slots, Append(s)
        PROVE  \E x \in Held : journal' = journal \cup {Object(x)} /\ Written'
    <3>1. slot[s].of \in Held /\ journal' = journal \cup {Object(slot[s].of)} BY <2>1, Facts DEF Append
    <3>2. Object(slot'[s].of) \in journal' BY <2>1 DEF Append, Appended, IInv, Written, Workers
    <3>3. Written' BY <2>1, <3>2 DEF Append, Appended, IInv, Written, WorkerHolds, Workers
    <3> QED BY <3>1, <3>3
  <2>2. CASE CronAppend
    <3>1. cron.of \in Held /\ journal' = journal \cup {Object(cron.of)} BY <2>2, Facts DEF CronAppend
    <3>2. Object(cron'.of) \in journal' BY <2>2 DEF CronAppend, Appended, IInv, Written, WorkerHolds, Workers
    <3>3. Written' BY <2>2, <3>2 DEF CronAppend, Appended, IInv, Written, WorkerHolds, Workers
    <3> QED BY <3>1, <3>3
  <2> QED BY <2>1, <2>2
<1>1. UNCHANGED <<now, database, ids, gate, answers, faults>> BY DEF Append, CronAppend
<1>2. SavedRow' = SavedRow /\ SavedBindings' = SavedBindings BY <1>1 DEF SavedRow, SavedBindings
<1>3. Held' \subseteq Held
  <2>1. ASSUME NEW s \in Slots, Append(s) PROVE Held' \subseteq Held
    BY <1>1, <2>1 DEF Append, Appended, Held, SavedRow, IInv, Written, Workers
  <2>2. CASE CronAppend
    BY <1>1, <2>2 DEF CronAppend, Appended, Held, SavedRow, IInv, Written, WorkerHolds, Workers
  <2> QED BY <2>1, <2>2
<1>4. OneEach(Held, journal, ids, now)'
  <2>1. OneEach(Held, journal', ids, now) BY <1>0, Facts, OneEachAppend
  <2> QED BY <1>1, <1>3, <2>1, Facts, OneEachKept
<1>5. \A r, b : RowHolds(r, b, Held, journal, ids, now) => RowHolds(r, b, Held', journal', ids, now)
  <2>1. ASSUME NEW r, NEW b, RowHolds(r, b, Held, journal, ids, now)
        PROVE  RowHolds(r, b, Held', journal', ids, now)
    <3>1. RowHolds(r, b, Held, journal', ids, now) BY <1>0, <2>1, RowAppend
    <3> QED BY <1>3, <3>1, Facts, RowKept
  <2> QED BY <2>1
<1>6. Rows' BY <1>0, <1>1, <1>2, <1>5, BindingsAppend DEF IInv, Rows
<1>7. World' /\ Answered' BY <1>0, <1>1 DEF IInv, World, Answered, Evidenced
<1> QED BY <1>0, <1>4, <1>6, <1>7 DEF IInv

LEMMA Purging ==
  ASSUME NEW ms \in MessageType, NEW cutoff
  PROVE  /\ Purged(ms, cutoff) \in MessageType
         /\ \A m \in Messages : Purged(ms, cutoff)[m].state \in {"none", "received"}
                                => ms[m].state \in {"none", "received"}
         /\ \A m \in Messages : Purged(ms, cutoff)[m].state = "readable" => ms[m].state = "readable"
BY DEF Purged, MessageType

\* The prepared change becomes the rule: its object is in the journal, and the cutoff it
\* leaves is its own if it excludes.
LEMMA FinalizeRowHolds ==
  ASSUME IInv, NEW x \in Held, Object(x) \in journal, FinalizeRow(x.id),
         UNCHANGED <<now, ids, journal>>, Held' \subseteq Held
  PROVE  /\ RowHolds(rule, bindings, Held, journal, ids, now)'
         /\ BindingsHold(bindings', journal)
         /\ messages' \in MessageType /\ directory' = directory
         /\ \A m \in Messages : messages'[m].state \in {"none", "received"}
                                => messages[m].state \in {"none", "received"}
         /\ Evidenced(rule', journal)
<1>1. CASE ~(rule.pending # None /\ rule.pending.id = x.id)
  <2>1. UNCHANGED database BY <1>1 DEF FinalizeRow
  <2>2. RowHolds(rule, bindings, Held, journal, ids, now) /\ BindingsHold(bindings, journal)
        /\ messages \in MessageType
    BY DEF IInv, Rows, World
  <2>3. Evidenced(rule, journal) BY <2>2 DEF RowHolds
  <2>4. rule' = rule /\ bindings' = bindings /\ messages' = messages /\ directory' = directory
    BY <2>1 DEF database
  <2>5. RowHolds(rule, bindings, Held', journal', ids', now') BY <2>2, Facts, Quiet
  <2> QED BY <2>2, <2>3, <2>4, <2>5
<1>2. CASE rule.pending # None /\ rule.pending.id = x.id
  <2> DEFINE t == rule.pending
  <2>1. t \in Held /\ t = x /\ t \in Transitions /\ t.key \in Keys
    BY <1>2, Facts DEF OneEach
  <2>2. /\ rule' = Applied(t)
        /\ bindings' = [bindings EXCEPT ![t.key] = IF @ = None THEN Binding(t) ELSE @]
        /\ messages' = IF t.excluded THEN Purged(messages, rule'.cutoff) ELSE messages
        /\ directory' = directory
    BY <1>2 DEF FinalizeRow
  <2>3. /\ rule \in Rules /\ rule.cutoff <= rule.effective /\ rule.effective <= t.effective
        /\ bindings[t.key] = None /\ t.effective <= now /\ t.id \in 1..ids /\ t.cutoff <= t.effective
        /\ (t.excluded => t.cutoff = t.effective /\ t.effective # 0)
    BY <1>2, <2>1, Facts DEF IInv, Rows, RowHolds, OneEach, Sound
  <2>4. /\ rule.cutoff \in Nat /\ rule.effective \in Nat /\ t.effective \in Nat /\ t.cutoff \in Nat
        /\ rule.cutoff \in Times /\ t.effective \in Times /\ t.cutoff \in Times /\ t.id \in Ids
        /\ t.excluded \in BOOLEAN
    BY <2>1, <2>3, Numbers DEF Rules, Transitions
  <2>5. Object(t) \in journal BY <2>1
  <2> HIDE DEF t
  <2>6. /\ Later(rule.cutoff, t.cutoff) \in Times /\ Later(rule.cutoff, t.cutoff) <= t.effective
        /\ (t.excluded => Later(rule.cutoff, t.cutoff) = t.effective)
    BY <2>3, <2>4 DEF Later
  <2>7. /\ rule' \in Rules /\ rule'.excluded = t.excluded /\ rule'.effective = t.effective
        /\ rule'.cutoff = Later(rule.cutoff, t.cutoff) /\ rule'.last = t.id /\ rule'.pending = None
        /\ rule'.present
    <3>1. rule.present BY <1>2, Facts
    <3> QED BY <2>2, <2>3, <2>4, <2>6, <3>1 DEF Applied, Rules
  <2>8. ASSUME NEW r, r.excluded = t.excluded, r.effective = t.effective,
               r.cutoff = Later(rule.cutoff, t.cutoff)
        PROVE  Evidenced(r, journal)
    BY <2>3, <2>5, <2>6, <2>8 DEF Evidenced, Object
  <2>9. Follows(rule', Held', journal)
    <3>1. \A y \in Held : y.id = t.id => y = t BY <2>1, Facts DEF OneEach
    <3>2. \A o \in journal : o.id = t.id => o = Object(t) BY <2>1, Facts DEF OneEach
    <3>3. Ms(t.effective) <= t.effective BY <2>4, MsFacts
    <3> QED BY <2>7, <3>1, <3>2, <3>3 DEF Follows, Object
  <2>10. Evidenced(rule', journal) BY <2>7, <2>8
  <2>11. RowHolds(rule, bindings, Held, journal, ids, now)'
    <3>1. rule'.last <= ids BY <2>3, <2>7, Facts
    <3> QED BY <2>3, <2>6, <2>7, <2>9, <2>10, <3>1 DEF RowHolds
  <2>12. BindingsHold(bindings', journal)
    <3>1. Binding(t) \in Bindings BY <2>4, <2>6, Facts, Numbers DEF Binding, Bindings
    <3>2. Evidenced(Binding(t), journal)
      <4>1. /\ Binding(t).excluded = t.excluded /\ Binding(t).effective = t.effective
            /\ Binding(t).cutoff = Later(rule.cutoff, t.cutoff)
        BY DEF Binding
      <4> QED BY <4>1, <2>8
    <3>3. /\ bindings \in [Keys -> Bindings \union {None}]
          /\ \A k \in Keys : bindings[k] # None => Evidenced(bindings[k], journal)
      BY DEF IInv, Rows, BindingsHold
    <3>4. /\ bindings' \in [Keys -> Bindings \union {None}]
          /\ \A k \in Keys : bindings'[k] = bindings[k] \/ bindings'[k] = Binding(t)
      BY <2>1, <2>2, <3>1, <3>3
    <3> QED BY <3>2, <3>3, <3>4 DEF BindingsHold
  <2>13. /\ messages' \in MessageType
         /\ \A m \in Messages : messages'[m].state \in {"none", "received"}
                                => messages[m].state \in {"none", "received"}
    BY <2>2, Purging DEF IInv, World
  <2> QED BY <2>2, <2>10, <2>11, <2>12, <2>13
<1> QED BY <1>1, <1>2

\* A worker that finalizes holds a transition whose object is in the journal.
LEMMA Finalizing ==
  ASSUME IInv, (\E s \in Slots : Finalize(s)) \/ CronFinalize
  PROVE  /\ UNCHANGED <<now, journal, ids, gate, faults>>
         /\ \E x \in Held : /\ Object(x) \in journal /\ FinalizeRow(x.id)
                            /\ \/ answers' = answers
                               \/ rule'.last = x.id /\ Answer(x.key, x.id, Until(bindings'[x.key]), rule')
         /\ Held' \subseteq Held /\ Written'
<1> USE DEF gate
<1>0. WorkerHolds(Idle, journal) BY DEF WorkerHolds, Workers, Idle
<1>2. \A i : FinalizeRow(i) => rule'.pending = rule.pending \/ rule'.pending = None
  BY Facts DEF FinalizeRow, database, Applied, Rules
<1>3. ASSUME NEW s \in Slots, Finalize(s)
      PROVE  /\ slot[s].of \in Held /\ Object(slot[s].of) \in journal
             /\ Held' \subseteq Held /\ Written'
  <2>1. slot' = [slot EXCEPT ![s] = Idle] /\ cron' = cron /\ journal' = journal /\ backup' = backup
    BY <1>3 DEF Finalize
  <2>2. slot[s].of \in Held /\ Object(slot[s].of) \in journal
    BY <1>3, Facts DEF Finalize, IInv, Written, WorkerHolds
  <2>3. Held' \subseteq Held
    BY <1>2, <1>3, <2>1 DEF Finalize, Held, SavedRow, Idle, IInv, Written
  <2>4. Written' BY <1>0, <2>1 DEF IInv, Written, WorkerHolds
  <2> QED BY <2>2, <2>3, <2>4
<1>4. CASE CronFinalize
  <2>1. slot' = slot /\ cron' = Idle /\ journal' = journal /\ backup' = backup
    BY <1>4 DEF CronFinalize
  <2>2. cron.of \in Held /\ Object(cron.of) \in journal
    BY <1>4, Facts DEF CronFinalize, IInv, Written, WorkerHolds
  <2>3. Held' \subseteq Held
    BY <1>2, <1>4, <2>1 DEF CronFinalize, Held, SavedRow, Idle
  <2>4. Written' BY <1>0, <2>1 DEF IInv, Written, WorkerHolds
  <2> QED BY <1>4, <2>2, <2>3, <2>4 DEF CronFinalize
<1> QED BY <1>3, <1>4 DEF Finalize

LEMMA FinalizeSteps ==
  ASSUME IInv, (\E s \in Slots : Finalize(s)) \/ CronFinalize PROVE IInv'
<1> USE DEF gate
<1>0. /\ UNCHANGED <<now, journal, ids, gate, faults>>
      /\ \E x \in Held : /\ Object(x) \in journal /\ FinalizeRow(x.id)
                         /\ \/ answers' = answers
                            \/ rule'.last = x.id /\ Answer(x.key, x.id, Until(bindings'[x.key]), rule')
      /\ Held' \subseteq Held /\ Written'
  BY Finalizing
<1>1. PICK x \in Held : /\ Object(x) \in journal /\ FinalizeRow(x.id)
                        /\ \/ answers' = answers
                           \/ rule'.last = x.id /\ Answer(x.key, x.id, Until(bindings'[x.key]), rule')
  BY <1>0
<1>2. /\ RowHolds(rule, bindings, Held, journal, ids, now)'
      /\ BindingsHold(bindings', journal)
      /\ messages' \in MessageType /\ directory' = directory
      /\ \A m \in Messages : messages'[m].state \in {"none", "received"}
                             => messages[m].state \in {"none", "received"}
      /\ Evidenced(rule', journal)
  BY <1>0, <1>1, FinalizeRowHolds
<1>3. SavedRow' = SavedRow /\ SavedBindings' = SavedBindings BY <1>0 DEF SavedRow, SavedBindings
<1>4. OneEach(Held, journal, ids, now)' BY <1>0, Facts, Quiet
<1>5. Rows'
  <2>1. RowHolds(SavedRow, SavedBindings, Held', journal', ids', now') BY <1>0, Facts, Quiet DEF IInv, Rows
  <2> QED BY <1>0, <1>2, <1>3, <2>1 DEF IInv, Rows
<1>6. World' BY <1>0, <1>2 DEF IInv, World, Onward
<1>7. Answered' BY <1>0, <1>1, <1>2 DEF IInv, Answered, Answer, Evidenced
<1> QED BY <1>0, <1>4, <1>5, <1>6, <1>7 DEF IInv

-----------------------------------------------------------------------------
LEMMA SnapshotStep == IInv /\ Snapshot => IInv'
<1> SUFFICES ASSUME IInv, Snapshot PROVE IInv' OBVIOUS
<1> USE DEF Snapshot, database
<1>1. UNCHANGED <<now, database, journal, slot, cron, ids, answers, todo>> OBVIOUS
<1>2. \/ SavedRow' = rule /\ SavedBindings' = bindings
      \/ SavedRow' = NoRule /\ SavedBindings' = [k \in Keys |-> None]
  BY DEF SavedRow, SavedBindings
<1>3. Held' \subseteq Held BY <1>1, <1>2 DEF Held, NoRule
<1>4. OneEach(Held, journal, ids, now)' BY <1>1, <1>3, Facts, Quiet
<1>5. Rows'
  <2>1. RowHolds(rule, bindings, Held', journal', ids', now') BY <1>1, <1>3, Facts, Quiet DEF IInv, Rows
  <2>2. CASE SavedRow' = rule /\ SavedBindings' = bindings BY <1>1, <2>1, <2>2 DEF IInv, Rows
  <2>3. CASE SavedRow' = NoRule /\ SavedBindings' = [k \in Keys |-> None]
    <3>1. RowHolds(NoRule, SavedBindings', Held', journal', ids', now') BY <1>1, <1>4, Facts, NoRuleHolds
    <3>2. BindingsHold(SavedBindings', journal) BY <2>3 DEF BindingsHold
    <3> QED BY <1>1, <2>1, <2>3, <3>1, <3>2 DEF IInv, Rows
  <2> QED BY <1>2, <2>2, <2>3
<1>6. World' BY <1>1 DEF IInv, World, Onward
<1>7. Written' /\ Answered' BY <1>1 DEF IInv, Written, Answered
<1> QED BY <1>4, <1>5, <1>6, <1>7 DEF IInv

\* A restore takes the row back to one for which everything was already true.
LEMMA RestoreStep == IInv /\ Restore => IInv'
<1> SUFFICES ASSUME IInv, Restore PROVE IInv' OBVIOUS
<1> USE DEF Restore
<1>1. UNCHANGED <<now, journal, slot, ids, backup, answers, faults>> /\ cron' = Idle /\ todo' = {}
  OBVIOUS
<1>2. rule' = SavedRow /\ bindings' = SavedBindings /\ SavedRow' = SavedRow
      /\ SavedBindings' = SavedBindings
  BY DEF SavedRow, SavedBindings
<1>3. Held' \subseteq Held BY <1>1, <1>2 DEF Held, Idle
<1>4. OneEach(Held, journal, ids, now)' BY <1>1, <1>3, Facts, Quiet
<1>5. Rows' BY <1>1, <1>2, <1>3, Facts, Quiet DEF IInv, Rows
<1>6. World' BY <1>1 DEF IInv, World, Onward
<1>7. Written'
  <2>1. WorkerHolds(Idle, journal) BY DEF WorkerHolds, Workers, Idle
  <2> QED BY <1>1, <2>1 DEF IInv, Written
<1>8. Answered' BY <1>1 DEF IInv, Answered
<1> QED BY <1>4, <1>5, <1>6, <1>7, <1>8 DEF IInv

LEMMA GateSteps ==
  ASSUME IInv, BeginReplay \/ CompleteReplay \/ SweepBegin \/ SweepEnd \/ ReplayStops PROVE IInv'
<1> USE DEF BeginReplay, CompleteReplay, SweepBegin, SweepEnd, ReplayStops, database
<1>1. UNCHANGED <<now, database, journal, slot, cron, ids, backup, answers>> OBVIOUS
<1>2. todo' \subseteq journal BY DEF IInv, World
<1>3. Held' = Held /\ SavedRow' = SavedRow /\ SavedBindings' = SavedBindings
  BY <1>1 DEF Held, SavedRow, SavedBindings
<1>4. World' /\ Written' /\ Answered' BY <1>1, <1>2 DEF IInv, World, Written, Answered
<1> QED BY <1>1, <1>3, <1>4, LooseStep

\* Every nonempty set of naturals has a least element.
LEMMA Least == ASSUME NEW T, T \subseteq Nat, T # {} PROVE \E x \in T : \A y \in T : x <= y
<1> DEFINE R == {ss \in Nat \X Nat : ss[1] < ss[2]}
<1>0. R = OpToRel(<, Nat) BY DEF OpToRel
<1>a. IsWellFoundedOn(OpToRel(<, Nat), Nat) BY NatLessThanWellFounded
<1>1. IsWellFoundedOn(R, Nat) BY <1>0, <1>a
<1>2. PICK x \in T : \A y \in T : ~(<<y, x>> \in R)
  <2>1. \E x \in T : \A y \in T : ~(<<y, x>> \in R) BY <1>1, WFMin
  <2> QED BY <2>1
<1>3. ASSUME NEW y \in T PROVE x <= y
  <2>1. <<y, x>> \in Nat \X Nat /\ <<y, x>>[1] = y /\ <<y, x>>[2] = x OBVIOUS
  <2>2. ~(y < x) BY <1>2, <2>1
  <2> QED BY <2>2
<1> QED BY <1>3

\* The oldest object left to replay is one of the journal.
LEMMA OldestIsLeft ==
  ASSUME NEW T, T \subseteq Objects, T # {}, \A o, p \in T : o.id = p.id => o = p
  PROVE  Oldest(T) \in T
<1>1. PICK first \in T : \A u \in T : first.effective <= u.effective
  <2>1. \A o \in T : o.effective \in Nat BY Numbers DEF Objects
  <2> DEFINE E == {o.effective : o \in T}
  <2>2. E \subseteq Nat /\ E # {} BY <2>1
  <2>3. PICK e \in E : \A d \in E : e <= d BY <2>2, Least
  <2> QED BY <2>3
<1> DEFINE S == {o \in T : o.effective = first.effective}
<1>2. PICK least \in S : \A u \in S : least.id <= u.id
  <2>1. \A o \in S : o.id \in Nat BY Numbers DEF Objects, Ids
  <2> DEFINE E == {o.id : o \in S}
  <2>2. E \subseteq Nat /\ E # {} BY <2>1
  <2>3. PICK e \in E : \A d \in E : e <= d BY <2>2, Least
  <2> QED BY <2>3
<1>3. least \in T /\ \A u \in T : least.effective < u.effective
                                  \/ (least.effective = u.effective /\ least.id <= u.id)
  BY <1>1, <1>2, Numbers DEF Objects
<1> QED BY <1>3 DEF Oldest

LEMMA ReplayTransitionStep == IInv /\ ReplayTransition => IInv'
<1> SUFFICES ASSUME IInv, ReplayTransition PROVE IInv' OBVIOUS
<1> DEFINE o == Oldest(todo)
<1>0. /\ rule' = Overlaid(o) /\ messages' = Purged(messages, rule'.cutoff) /\ todo' = todo \ {o}
      /\ UNCHANGED <<now, bindings, directory, journal, slot, cron, ids, backup, answers>>
  BY DEF ReplayTransition
<1>1. o \in journal /\ o \in Objects /\ o = Object(o) /\ Sound(o, ids, now)
      /\ \A p \in journal : p.id = o.id => p = o
  <2>1. todo \subseteq journal /\ todo # {} BY DEF IInv, World, ReplayTransition
  <2>2. OneEach(Held, journal, ids, now) BY Facts
  <2>3. o \in todo BY <2>1, <2>2, OldestIsLeft DEF OneEach
  <2> QED BY <2>1, <2>2, <2>3 DEF OneEach
<1> HIDE DEF o
<1>2. /\ o.effective \in Nat /\ o.effective \in Times /\ o.cutoff \in Nat /\ o.cutoff \in Times
      /\ o.id \in Ids /\ o.excluded \in BOOLEAN /\ o.id <= ids /\ o.effective <= now
      /\ o.cutoff <= o.effective /\ (o.excluded => o.cutoff = o.effective /\ o.effective # 0)
  BY <1>1, Facts, Numbers DEF Objects, Sound, Ids
<1>3. /\ rule \in Rules /\ rule.effective \in Nat /\ rule.effective \in Times
      /\ rule.cutoff \in Nat /\ rule.cutoff \in Times /\ rule.last \in Ids /\ rule.excluded \in BOOLEAN
      /\ rule.cutoff <= rule.effective /\ rule.effective <= now /\ rule.last <= ids
      /\ (rule.excluded => rule.cutoff = rule.effective /\ rule.effective # 0)
      /\ (~rule.present => rule.effective = 0)
      /\ Follows(rule, Held, journal) /\ Evidenced(rule, journal)
  BY Numbers DEF IInv, Rows, RowHolds, Rules, NoRule
<1>4. Held' \subseteq Held /\ SavedRow' = SavedRow /\ SavedBindings' = SavedBindings
  BY <1>0 DEF Held, SavedRow, SavedBindings, Overlaid
<1>5. OneEach(Held, journal, ids, now)' BY <1>0, <1>4, Facts, Quiet
<1> DEFINE newer == ~rule.present \/ rule.effective = 0 \/ rule.effective <= o.effective
<1>6. /\ rule'.effective = Later(rule.effective, o.effective)
      /\ rule'.cutoff = Later(rule.cutoff, o.cutoff)
      /\ rule'.excluded = IF newer THEN o.excluded ELSE rule.excluded
      /\ rule'.last = IF newer THEN o.id ELSE rule.last
      /\ rule'.pending = None /\ rule'.present
      /\ rule' = [present |-> TRUE, excluded |-> rule'.excluded, effective |-> rule'.effective,
                  cutoff |-> rule'.cutoff, last |-> rule'.last, pending |-> None]
  BY <1>0 DEF Overlaid
<1>7. rule' \in Rules
  <2>1. rule'.effective \in Times /\ rule'.cutoff \in Times BY <1>2, <1>3, <1>6 DEF Later
  <2>2. rule'.excluded \in BOOLEAN /\ rule'.last \in Ids BY <1>2, <1>3, <1>6
  <2> QED BY <1>6, <2>1, <2>2 DEF Rules
<1>8. RowHolds(rule', bindings', Held', journal', ids', now')
  <2>1. CASE newer
    <3>1. rule'.effective = o.effective /\ rule'.last = o.id /\ rule'.excluded = o.excluded
      BY <1>2, <1>3, <1>6, <2>1 DEF Later
    <3>2. /\ rule'.cutoff <= o.effective /\ (o.excluded => rule'.cutoff = o.cutoff)
      BY <1>2, <1>3, <1>6, <2>1 DEF Later
    <3>3. Ms(o.effective) = o.effective /\ Ms(o.cutoff) = o.cutoff BY <1>1 DEF Object, Objects
    <3>4. Evidenced(rule', journal) BY <1>1, <3>1, <3>2, <3>3 DEF Evidenced
    <3>5. Follows(rule', Held', journal)
      <4>1. \A x \in Held : x.id = o.id => Ms(x.effective) = o.effective
        BY <1>1, Facts DEF OneEach, Object
      <4> QED BY <1>1, <1>2, <1>4, <3>1, <4>1 DEF Follows
    <3> QED BY <1>0, <1>2, <1>6, <1>7, <3>1, <3>2, <3>4, <3>5 DEF RowHolds
  <2>2. CASE ~newer
    <3>1. rule'.effective = rule.effective /\ rule'.last = rule.last /\ rule'.excluded = rule.excluded
      BY <1>2, <1>3, <1>6, <2>2 DEF Later
    <3>2. /\ rule'.cutoff <= rule.effective /\ (rule.excluded => rule'.cutoff = rule.cutoff)
      BY <1>2, <1>3, <1>6, <2>2 DEF Later
    <3>3. Evidenced(rule', journal) BY <1>3, <3>1, <3>2 DEF Evidenced
    <3>4. Follows(rule', Held', journal) BY <1>3, <1>4, <3>1 DEF Follows
    <3> QED BY <1>0, <1>3, <1>6, <1>7, <3>1, <3>2, <3>3, <3>4 DEF RowHolds
  <2> QED BY <2>1, <2>2
<1> HIDE DEF newer
<1>9. Rows'
  <2>1. RowHolds(SavedRow, SavedBindings, Held', journal', ids', now')
    BY <1>0, <1>4, Facts, Quiet DEF IInv, Rows
  <2> QED BY <1>0, <1>4, <1>8, <2>1 DEF IInv, Rows
<1>10. World'
  <2>1. messages' \in MessageType
        /\ \A m \in Messages : messages'[m].state \in {"none", "received"}
                               => messages[m].state \in {"none", "received"}
    BY <1>0, Purging DEF IInv, World
  <2> QED BY <1>0, <2>1 DEF IInv, World, Onward
<1>11. Written' /\ Answered' BY <1>0 DEF IInv, Written, Answered
<1> QED BY <1>5, <1>9, <1>10, <1>11 DEF IInv

LEMMA StutterStep == IInv /\ UNCHANGED vars => IInv'
BY DEF vars, database, gate, IInv, World, Onward, Written, Rows, Answered, Held, SavedRow, SavedBindings

LEMMA NextIInv == IInv /\ [Next]_vars => IInv'
<1> SUFFICES ASSUME IInv, [Next]_vars PROVE IInv' OBVIOUS
<1>1. CASE Request
  BY <1>1, AnswerStep, ResumeStep, PrepareStep, AppendSteps, FinalizeSteps, LetGoStep DEF Request
<1>2. CASE Tick \/ Observation \/ RemoveHistory BY <1>2, TickStep, ObservationStep
<1>3. CASE Cron \/ CronStops
  BY <1>3, CronListStep, AppendSteps, FinalizeSteps, LetGoStep DEF Cron
<1>4. CASE Snapshot \/ Restore \/ Replay \/ SweepBegin \/ SweepEnd \/ ReplayStops
  BY <1>4, SnapshotStep, RestoreStep, GateSteps, ReplayTransitionStep DEF Replay
<1> QED BY <1>1, <1>2, <1>3, <1>4, StutterStep DEF Next

THEOREM Invariance == Spec => []IInv
BY InitIInv, NextIInv, PTL DEF Spec

-----------------------------------------------------------------------------
(* The variables have their types, and the row meets the CHECKs of its     *)
(* table: an exclusion has an effective time and a cutoff that is not      *)
(* later, and a prepared change is the row's own, under a free key.        *)
THEOREM TypeCorrectness == Spec => []TypeOK
<1>1. IInv => TypeOK
  <2> SUFFICES ASSUME IInv PROVE TypeOK OBVIOUS
  <2>1. now \in Times /\ rule \in Rules /\ directory \in BOOLEAN BY DEF IInv, World, Rows, RowHolds
  <2>2. \A k \in Keys : bindings[k] = None \/ bindings[k].effective \in Times
    BY DEF IInv, Rows, BindingsHold, Bindings
  <2>3. \A m \in Messages : messages[m].state \in
          {"none", "received", "suppressed", "readable", "purged", "removed"}
    BY DEF IInv, World, MessageType
  <2>4. /\ rule.excluded => rule.effective # 0 /\ rule.cutoff = rule.effective
        /\ rule.cutoff <= rule.effective
        /\ rule.pending # None =>
             rule.effective <= rule.pending.effective /\ bindings[rule.pending.key] = None
    BY DEF IInv, Rows, RowHolds
  <2>5. rule.pending # None => rule.present /\ rule.pending.effective \in Nat /\ rule.effective \in Nat
    BY Facts, Numbers DEF Rules, Transitions
  <2> QED BY <2>1, <2>2, <2>3, <2>4, <2>5 DEF TypeOK
<1> QED BY <1>1, Invariance, PTL

(* Whoever was answered that the recipient is excluded finds the exclusion *)
(* in the journal, whatever stops, fails or is restored: no path of the    *)
(* request or the cron finalizes what it has not appended.                 *)
THEOREM AnswerIsJournaledHolds == Spec => []AnswerIsJournaled
<1>1. IInv => AnswerIsJournaled BY DEF IInv, Answered, Evidenced, AnswerIsJournaled
<1> QED BY <1>1, Invariance, PTL

(* No message from before the change in force becomes readable: the row is *)
(* never behind the transition it names, in the original database, in a    *)
(* restored one and while the journal is replayed over either.             *)
THEOREM NothingFromBeforeHolds == Spec => NothingFromBefore
<1> DEFINE P == \A m \in Messages :
       messages[m].state = "received" /\ messages'[m].state = "readable" =>
         /\ ~rule.excluded
         /\ \A t \in journal : t.id = rule.last => messages[m].received > t.effective
<1>1. IInv /\ [Next]_vars => [P]_vars
  <2> SUFFICES ASSUME IInv, Next, NEW m \in Messages, messages[m].state = "received",
                      messages'[m].state = "readable"
               PROVE  ~rule.excluded /\ \A t \in journal : t.id = rule.last => messages[m].received > t.effective
    OBVIOUS
  <2>0. messages \in MessageType BY DEF IInv, World
  <2>1. PICK b \in 0..MaxTime : Project(m, b)
    <3>1. ASSUME NEW k \in Messages, Receive(k) PROVE FALSE BY <2>0, <3>1 DEF Receive, MessageType
    <3>2. ASSUME RemoveHistory PROVE FALSE BY <2>0, <3>2 DEF RemoveHistory, MessageType
    <3>3. ASSUME Restore PROVE FALSE BY <3>3 DEF Restore, IInv, World, Onward
    <3>4. ASSUME ReplayTransition PROVE FALSE BY <2>0, <3>4, Purging DEF ReplayTransition
    <3>5. ASSUME NEW i, FinalizeRow(i) PROVE FALSE
      BY <2>0, <3>5, Purging DEF FinalizeRow, database
    <3>6. ASSUME UNCHANGED messages PROVE FALSE BY <3>6
    <3>7. ASSUME NEW k \in Messages, NEW b \in 0..MaxTime, Project(k, b), k # m PROVE FALSE
      BY <2>0, <3>7 DEF Project
    <3>8. Observation \/ RemoveHistory \/ Restore \/ ReplayTransition \/ (\E i : FinalizeRow(i)) \/ UNCHANGED messages
      <4>1. Request => (\E i : FinalizeRow(i)) \/ UNCHANGED messages
        <5>1. ASSUME NEW s, NEW k, Replayed(s, k) \/ Resume(s, k) PROVE UNCHANGED messages
          BY <5>1 DEF Replayed, Resume, database
        <5>2. ASSUME NEW s, NEW k, NEW w, NEW v, Unchanged(s, k, w, v) \/ Prepare(s, k, w, v)
              PROVE  UNCHANGED messages
          BY <5>2 DEF Unchanged, Prepare, database
        <5>3. ASSUME NEW s, Append(s) \/ Abandon(s) PROVE UNCHANGED messages
          BY <5>3 DEF Append, Abandon, database
        <5>4. ASSUME NEW s, Finalize(s) PROVE \E i : FinalizeRow(i) BY <5>4 DEF Finalize
        <5> QED BY <5>1, <5>2, <5>3, <5>4 DEF Request
      <4>2. Cron \/ CronStops => (\E i : FinalizeRow(i)) \/ UNCHANGED messages
        BY DEF Cron, CronList, CronAppend, CronFinalize, CronStops, database
      <4>3. Replay => ReplayTransition \/ UNCHANGED messages
        BY DEF Replay, BeginReplay, CompleteReplay, database
      <4>4. Tick \/ Snapshot \/ SweepBegin \/ SweepEnd \/ ReplayStops => UNCHANGED messages
        BY DEF Tick, Snapshot, SweepBegin, SweepEnd, ReplayStops, database
      <4> QED BY <4>1, <4>2, <4>3, <4>4 DEF Next
    <3> QED BY <3>1, <3>2, <3>3, <3>4, <3>5, <3>6, <3>7, <3>8 DEF Observation, ProjectDirectory
  <2>2. ~Suppressed(messages[m].received) BY <2>0, <2>1 DEF Project, MessageType
  <2>3. /\ rule \in Rules /\ (~rule.present => rule = NoRule) /\ Follows(rule, Held, journal)
        /\ messages[m].received \in Nat /\ rule.effective \in Nat
    BY <2>0, Numbers DEF IInv, Rows, RowHolds, Rules, MessageType
  <2>4. \A t \in journal : t.effective \in Nat /\ t.id # 0
    BY Facts, Numbers DEF OneEach, Sound, Objects
  <2>5. CASE rule.present BY <2>2, <2>3, <2>4, <2>5 DEF Suppressed, Follows
  <2>6. CASE ~rule.present BY <2>3, <2>4, <2>6 DEF NoRule
  <2> QED BY <2>5, <2>6
<1>2. Spec => [][P]_vars BY <1>1, Invariance, PTL DEF Spec
<1> QED BY <1>2 DEF NothingFromBefore
-----------------------------------------------------------------------------
(***************************************************************************)
(* What was acknowledged stays in force.  A second invariant on top of the *)
(* first: to the millisecond, what a row says is in the journal (Backed);  *)
(* no binding is ahead of its row (Ledger); no readable message is as old  *)
(* as the cutoff of its database (Unread); and what an answer said is      *)
(* reached by the row in force or by an object that is still to be         *)
(* replayed (Reaches).                                                     *)
(***************************************************************************)
Backed(x, j) ==
  /\ x.effective = 0 \/ \E o \in j : Ms(x.effective) <= o.effective
  /\ x.cutoff = 0 \/ \E o \in j : Ms(x.cutoff) <= o.cutoff

Behind(x, r) == x.effective <= r.effective /\ x.cutoff <= r.cutoff

Ledger(r, b, j) ==
  /\ Backed(r, j)
  /\ r.pending # None /\ ~r.pending.excluded => r.pending.cutoff <= r.cutoff
  /\ \A k \in Keys : b[k] # None => Behind(b[k], r)

Unread(ms, r) ==
  \A m \in Messages :
    /\ ms[m].state = "received" => ms[m].received # 0
    /\ ms[m].state = "readable" => ms[m].created > r.cutoff

Reaches(a, r, left) ==
  /\ Ms(a.effective) <= r.effective \/ \E o \in left : Ms(a.effective) <= o.effective
  /\ Ms(a.cutoff) <= r.cutoff \/ \E o \in left : Ms(a.cutoff) <= o.cutoff

\* The replay has not begun, or could not: the snapshot did not know the recipient.
Waiting == replay = "begin" \/ (replay # "sweep" /\ unresolved)

AnswerKept(a) ==
  /\ a.effective \in Nat /\ a.cutoff \in Nat
  /\ Backed(a, journal) /\ (Waiting \/ Reaches(a, rule, todo))

Gated ==
  /\ serving <=> replay \in {"off", "sweep"}
  /\ replay = "off" => todo = {}
  /\ replay = "sweep" => unresolved

SavedKept ==
  /\ Ledger(SavedRow, SavedBindings, journal)
  /\ backup # None => Unread(backup.messages, backup.rule)

Kept ==
  /\ Ledger(rule, bindings, journal) /\ Unread(messages, rule) /\ SavedKept
  /\ Gated /\ \A a \in answers : AnswerKept(a)

LEMMA Types ==
  ASSUME IInv
  PROVE  /\ rule.effective \in Nat /\ rule.cutoff \in Nat /\ rule.cutoff <= rule.effective
         /\ \A o \in journal : o.effective \in Nat /\ o.cutoff \in Nat
                               /\ Ms(o.effective) = o.effective /\ Ms(o.cutoff) = o.cutoff
         /\ \A k \in Keys : bindings[k] # None =>
              bindings[k].effective \in Nat /\ bindings[k].cutoff \in Nat
         /\ messages \in MessageType /\ now \in Nat /\ now # 0
         /\ \A m \in Messages : messages[m].received \in Nat /\ messages[m].created \in Nat
<1>1. rule \in Rules /\ rule.cutoff <= rule.effective BY DEF IInv, Rows, RowHolds
<1>2. \A o \in journal : o \in Objects /\ o = Object(o) BY DEF IInv, OneEach
<1>3. \A o \in journal : o.effective = Ms(o.effective) /\ o.cutoff = Ms(o.cutoff)
  <2>1. ASSUME NEW o \in journal PROVE o.effective = Ms(o.effective) /\ o.cutoff = Ms(o.cutoff)
    <3>1. o = Object(o) BY <1>2
    <3>2. Object(o).effective = Ms(o.effective) /\ Object(o).cutoff = Ms(o.cutoff) BY DEF Object
    <3> QED BY <3>1, <3>2
  <2> QED BY <2>1
<1>4. \A k \in Keys : bindings[k] # None => bindings[k] \in Bindings
  BY DEF IInv, Rows, BindingsHold
<1>5. messages \in MessageType BY DEF IInv, World
<1>6. \A m \in Messages : messages[m].received \in Times /\ messages[m].created \in Times
  BY <1>5 DEF MessageType
<1>7. now \in Nat /\ now # 0 BY Facts, Numbers
<1> QED BY <1>1, <1>2, <1>3, <1>4, <1>5, <1>6, <1>7, Numbers DEF Rules, Objects, Bindings

LEMMA BackedMore == ASSUME NEW x, NEW j, NEW k, j \subseteq k, Backed(x, j) PROVE Backed(x, k)
BY DEF Backed

\* What is behind a backed row is backed.
LEMMA BehindBacked ==
  ASSUME NEW x, NEW r, NEW j, Behind(x, r), Backed(r, j),
         x.effective \in Nat, x.cutoff \in Nat, r.effective \in Nat, r.cutoff \in Nat,
         \A o \in j : o.effective \in Nat /\ o.cutoff \in Nat
  PROVE  Backed(x, j)
<1>1. Ms(x.effective) <= Ms(r.effective) /\ Ms(x.cutoff) <= Ms(r.cutoff) BY MsMonotone DEF Behind
<1>2. /\ Ms(x.effective) \in Nat /\ Ms(r.effective) \in Nat
      /\ Ms(x.cutoff) \in Nat /\ Ms(r.cutoff) \in Nat
  BY MsFacts
<1>3. x.effective = 0 \/ \E o \in j : Ms(x.effective) <= o.effective
  BY <1>1, <1>2 DEF Backed, Behind
<1>4. x.cutoff = 0 \/ \E o \in j : Ms(x.cutoff) <= o.cutoff BY <1>1, <1>2 DEF Backed, Behind
<1> QED BY <1>3, <1>4 DEF Backed

\* Nothing of the gate moves, and the row only advances.
LEMMA Advance ==
  ASSUME IInv, IInv', Kept, UNCHANGED <<serving, replay, todo, unresolved, backup>>,
         journal \subseteq journal', Behind(rule, rule'),
         Ledger(rule', bindings', journal'), Unread(messages', rule'),
         \A a \in answers' : \/ a \in answers
                             \/ a.effective \in Nat /\ a.cutoff \in Nat /\ Behind(a, rule')
  PROVE  Kept'
<1>1. Gated' /\ Waiting' = Waiting BY DEF Kept, Gated, Waiting
<1>2. SavedKept'
  <2>1. SavedRow' = SavedRow /\ SavedBindings' = SavedBindings BY DEF SavedRow, SavedBindings
  <2> QED BY <2>1, BackedMore DEF Kept, SavedKept, Ledger
<1>3. /\ rule.effective \in Nat /\ rule.cutoff \in Nat /\ rule'.effective \in Nat /\ rule'.cutoff \in Nat
      /\ \A o \in journal' : o.effective \in Nat /\ o.cutoff \in Nat
  <2>1. rule' \in Rules /\ journal' \subseteq Objects BY DEF IInv, Rows, RowHolds, OneEach
  <2> QED BY <2>1, Types, Numbers DEF Rules, Objects
<1>4. ASSUME NEW a \in answers', a \in answers PROVE AnswerKept(a)'
  <2>1. AnswerKept(a) BY <1>4 DEF Kept
  <2>2. Ms(a.effective) \in Nat /\ Ms(a.cutoff) \in Nat BY <2>1, MsFacts DEF AnswerKept
  <2>3. Reaches(a, rule, todo) => Reaches(a, rule', todo)
    BY <1>3, <2>2 DEF Reaches, Behind
  <2>4. Backed(a, journal') BY <2>1, BackedMore DEF AnswerKept
  <2> QED BY <1>1, <2>1, <2>3, <2>4 DEF AnswerKept
<1>5. ASSUME NEW a \in answers', a.effective \in Nat, a.cutoff \in Nat, Behind(a, rule')
      PROVE  AnswerKept(a)'
  <2>1. Backed(a, journal') BY <1>3, <1>5, BehindBacked DEF Ledger
  <2>2. /\ Ms(a.effective) \in Nat /\ Ms(a.effective) <= a.effective
        /\ Ms(a.cutoff) \in Nat /\ Ms(a.cutoff) <= a.cutoff
    BY <1>5, MsFacts
  <2>3. Reaches(a, rule', todo') BY <1>3, <1>5, <2>2 DEF Reaches, Behind
  <2> QED BY <1>5, <2>1, <2>3 DEF AnswerKept
<1>6. \A a \in answers' : AnswerKept(a)' BY <1>4, <1>5
<1> QED BY <1>1, <1>2, <1>6 DEF Kept


\* Time passes, a transition is taken up, appended or let go, or a key is answered again.
LEMMA QuietKept ==
  ASSUME IInv, IInv', Kept, UNCHANGED <<database, gate>>, journal \subseteq journal',
         \A a \in answers' : \/ a \in answers
                             \/ a.effective \in Nat /\ a.cutoff \in Nat /\ Behind(a, rule')
  PROVE  Kept'
<1> USE DEF database, gate
<1>1. Behind(rule, rule')
  <2>1. rule' = rule /\ rule.effective \in Nat /\ rule.cutoff \in Nat BY Types
  <2> QED BY <2>1 DEF Behind
<1>2. Ledger(rule', bindings', journal') BY BackedMore DEF Kept, Ledger
<1>3. Unread(messages', rule') BY DEF Kept
<1> QED BY <1>1, <1>2, <1>3, Advance

\* An answer says what the row or a binding says.
LEMMA AnswerStepKept ==
  ASSUME NEW s \in Slots, NEW k \in Keys, NEW wanted \in BOOLEAN, NEW expected \in BOOLEAN,
         IInv, IInv', Kept, Replayed(s, k) \/ Unchanged(s, k, wanted, expected)
  PROVE  Kept'
<1>0. UNCHANGED <<database, gate>> /\ journal' = journal BY DEF Replayed, Unchanged
<1>1. ASSUME NEW x, NEW i, NEW u, Answer(k, i, u, x), x.effective \in Nat, x.cutoff \in Nat, Behind(x, rule)
      PROVE  \A a \in answers' : \/ a \in answers
                                 \/ a.effective \in Nat /\ a.cutoff \in Nat /\ Behind(a, rule')
  <2>1. rule' = rule BY <1>0 DEF database
  <2> QED BY <1>1, <2>1 DEF Answer, Behind
<1>2. CASE Replayed(s, k)
  <2>1. bindings[k] # None /\ Answer(k, bindings[k].id, Until(bindings[k]), bindings[k])
    BY <1>2 DEF Replayed
  <2>2. bindings[k].effective \in Nat /\ bindings[k].cutoff \in Nat /\ Behind(bindings[k], rule)
    BY <2>1, Types DEF Kept, Ledger
  <2> QED BY <1>0, <1>1, <2>1, <2>2, QuietKept
<1>3. CASE Unchanged(s, k, wanted, expected)
  <2>1. Answer(k, 0, 0, rule) BY <1>3 DEF Unchanged
  <2>2. rule.effective \in Nat /\ rule.cutoff \in Nat /\ Behind(rule, rule) BY Types DEF Behind
  <2> QED BY <1>0, <1>1, <2>1, <2>2, QuietKept
<1> QED BY <1>2, <1>3

\* A change that is prepared lowers no cutoff.
LEMMA PrepareStepKept ==
  ASSUME NEW s \in Slots, NEW k \in Keys, NEW wanted \in BOOLEAN, NEW expected \in BOOLEAN,
         IInv, IInv', Kept, Prepare(s, k, wanted, expected)
  PROVE  Kept'
<1>0. /\ rule' = [rule EXCEPT !.present = TRUE, !.pending = Prepared(k, wanted)]
      /\ UNCHANGED <<bindings, messages, journal, gate, answers>>
  BY DEF Prepare
<1>1. /\ rule'.effective = rule.effective /\ rule'.cutoff = rule.cutoff
      /\ rule'.pending = Prepared(k, wanted)
      /\ rule.effective \in Nat /\ rule.cutoff \in Nat
  <2>1. rule \in Rules BY Facts
  <2> QED BY <1>0, <2>1, Types DEF Rules
<1>2. ~rule'.pending.excluded => rule'.pending.cutoff <= rule'.cutoff BY <1>1 DEF Prepared
<1>3. Behind(rule, rule') BY <1>1 DEF Behind
<1>4. Ledger(rule', bindings', journal') BY <1>0, <1>1, <1>2 DEF Kept, Ledger, Backed, Behind
<1>5. Unread(messages', rule') BY <1>0, <1>1 DEF Kept, Unread
<1> QED BY <1>0, <1>3, <1>4, <1>5, Advance DEF gate

\* A message becomes readable only when it came after the change in force.
LEMMA ObservationKept ==
  ASSUME IInv, IInv', Kept, Observation \/ RemoveHistory PROVE Kept'
<1>0. UNCHANGED <<rule, journal, gate, answers>>
      /\ \A k \in Keys : bindings'[k] # None => bindings'[k] = bindings[k]
  <2>1. UNCHANGED <<rule, journal, gate, answers>>
    BY DEF Observation, Receive, Project, ProjectDirectory, RemoveHistory
  <2>2. CASE Observation BY <2>2 DEF Observation, Receive, Project, ProjectDirectory
  <2>3. CASE RemoveHistory BY <2>3 DEF RemoveHistory
  <2> QED BY <2>1, <2>2, <2>3
<1>1. /\ rule.effective \in Nat /\ rule.cutoff \in Nat /\ rule.cutoff <= rule.effective
      /\ messages \in MessageType /\ now \in Nat /\ now # 0
      /\ \A m \in Messages : messages[m].received \in Nat /\ messages[m].created \in Nat
  BY Types
<1>2. Behind(rule, rule') BY <1>0, <1>1 DEF Behind
<1>3. Ledger(rule', bindings', journal') BY <1>0 DEF Kept, Ledger
<1>4. Unread(messages', rule')
  <2>0. Unread(messages, rule) BY DEF Kept
  <2>1. ASSUME NEW m \in Messages, Receive(m) PROVE Unread(messages', rule)
    BY <1>1, <2>0, <2>1 DEF Receive, Unread, MessageType
  <2>2. ASSUME NEW m \in Messages, NEW b \in 0..MaxTime, Project(m, b) PROVE Unread(messages', rule)
    <3>1. messages[m].state = "received" /\ b \in messages[m].received..now /\ messages[m].received # 0
      BY <2>0, <2>2 DEF Project, Unread
    <3>2. ~Suppressed(messages[m].received) => b > rule.cutoff
      <4>1. CASE rule.present BY <1>1, <3>1, <4>1 DEF Suppressed
      <4>2. CASE ~rule.present
        <5>1. rule.cutoff = 0 BY <4>2 DEF IInv, Rows, RowHolds, NoRule
        <5> QED BY <1>1, <3>1, <5>1
      <4> QED BY <4>1, <4>2
    <3>3. /\ \A k \in Messages : k # m => messages'[k] = messages[k]
          /\ messages'[m].state \in {"suppressed", "readable"}
          /\ messages'[m].state = "readable" => ~Suppressed(messages[m].received) /\ messages'[m].created = b
      BY <1>1, <2>2 DEF Project, MessageType
    <3> QED BY <2>0, <3>2, <3>3 DEF Unread
  <2>3. CASE ProjectDirectory BY <2>0, <2>3 DEF ProjectDirectory
  <2>4. CASE RemoveHistory BY <1>1, <2>0, <2>4 DEF RemoveHistory, Unread, MessageType
  <2> QED BY <1>0, <2>1, <2>2, <2>3, <2>4 DEF Observation
<1> QED BY <1>0, <1>2, <1>3, <1>4, Advance DEF gate

\* What a purge leaves readable is younger than its cutoff.
LEMMA PurgeUnread ==
  ASSUME NEW ms \in MessageType, NEW r, NEW q, r.cutoff \in Nat, Unread(ms, q)
  PROVE  Unread(Purged(ms, r.cutoff), r)
<1>1. ASSUME NEW m \in Messages
      PROVE  LET x == Purged(ms, r.cutoff)[m]
             IN /\ x.state = "received" => x.received # 0
                /\ x.state = "readable" => x.created > r.cutoff
  <2>1. Purged(ms, r.cutoff)[m] = IF ms[m].state = "readable" /\ ms[m].created <= r.cutoff
                                  THEN [ms[m] EXCEPT !.state = "purged"] ELSE ms[m]
    BY DEF Purged
  <2>2. ms[m].created \in Nat /\ [ms[m] EXCEPT !.state = "purged"].state = "purged"
    BY Numbers DEF MessageType
  <2>3. ms[m].state = "received" => ms[m].received # 0 BY DEF Unread
  <2> QED BY <2>1, <2>2, <2>3
<1> QED BY <1>1 DEF Unread

\* The prepared change advances the row, within what its object says; an exclusion purges
\* up to the cutoff it leaves, and a re-enabling leaves the cutoff where it was.
LEMMA FinalizeKept ==
  ASSUME IInv, IInv', Kept, (\E s \in Slots : Finalize(s)) \/ CronFinalize PROVE Kept'
<1>0. /\ UNCHANGED <<now, journal, gate>>
      /\ \E x \in Held : /\ Object(x) \in journal /\ FinalizeRow(x.id)
                         /\ answers' = answers \/ Answer(x.key, x.id, Until(bindings'[x.key]), rule')
  BY Finalizing
<1>1. PICK x \in Held : /\ Object(x) \in journal /\ FinalizeRow(x.id)
                        /\ answers' = answers \/ Answer(x.key, x.id, Until(bindings'[x.key]), rule')
  BY <1>0
<1>2. /\ rule \in Rules /\ rule.effective \in Nat /\ rule.cutoff \in Nat
      /\ rule' \in Rules /\ rule'.effective \in Nat /\ rule'.cutoff \in Nat
      /\ messages \in MessageType
      /\ Backed(rule, journal) /\ Unread(messages, rule)
      /\ \A k \in Keys : bindings[k] # None =>
           /\ bindings[k].effective \in Nat /\ bindings[k].cutoff \in Nat
           /\ Behind(bindings[k], rule)
  <2>1. rule \in Rules /\ rule' \in Rules BY DEF IInv, Rows, RowHolds
  <2> QED BY <2>1, Types, Numbers DEF Kept, Ledger, Rules
<1>3. /\ Behind(rule, rule') /\ Ledger(rule', bindings', journal) /\ Unread(messages', rule')
  <2>1. CASE ~(rule.pending # None /\ rule.pending.id = x.id)
    <3>1. UNCHANGED database BY <1>1, <2>1 DEF FinalizeRow
    <3>2. Behind(rule, rule) BY <1>2 DEF Behind
    <3> QED BY <3>1, <3>2 DEF database, Kept
  <2>2. CASE rule.pending # None /\ rule.pending.id = x.id
    <3> DEFINE t == rule.pending
    <3>1. t = x /\ t \in Transitions /\ t.key \in Keys BY <2>2, Facts DEF OneEach
    <3>2. /\ rule' = Applied(t)
          /\ bindings' = [bindings EXCEPT ![t.key] = IF @ = None THEN Binding(t) ELSE @]
          /\ messages' = IF t.excluded THEN Purged(messages, rule'.cutoff) ELSE messages
      BY <1>1, <2>2 DEF FinalizeRow
    <3>3. /\ t.effective \in Nat /\ t.cutoff \in Nat /\ rule.effective <= t.effective
          /\ ~t.excluded => t.cutoff <= rule.cutoff
      BY <2>2, <3>1, Numbers DEF IInv, Rows, RowHolds, Transitions, Kept, Ledger
    <3>4. Object(t) \in journal BY <1>1, <3>1
    <3> HIDE DEF t
    <3>5. /\ rule'.effective = t.effective /\ rule'.cutoff = Later(rule.cutoff, t.cutoff)
          /\ rule'.pending = None
      BY <1>2, <3>2 DEF Applied, Rules
    <3>6. Behind(rule, rule') BY <1>2, <3>3, <3>5 DEF Behind, Later
    <3>7. Backed(rule', journal)
      <4>1. /\ Ms(t.effective) \in Nat /\ Object(t).effective = Ms(t.effective)
            /\ Ms(t.cutoff) \in Nat /\ Object(t).cutoff = Ms(t.cutoff)
        BY <3>3, MsFacts DEF Object
      <4>2. \E o \in journal : Ms(rule'.effective) <= o.effective BY <3>4, <3>5, <4>1
      <4>3. rule'.cutoff = 0 \/ \E o \in journal : Ms(rule'.cutoff) <= o.cutoff
        BY <1>2, <3>4, <3>5, <4>1 DEF Later, Backed
      <4> QED BY <4>2, <4>3 DEF Backed
    <3>8. ASSUME NEW k \in Keys, bindings'[k] # None PROVE Behind(bindings'[k], rule')
      <4>1. bindings'[k] = bindings[k] \/ bindings'[k] = Binding(t)
        BY <3>1, <3>2 DEF IInv, Rows, BindingsHold
      <4>2. CASE bindings'[k] = bindings[k]
        BY <1>2, <3>6, <3>8, <4>2 DEF Behind
      <4>3. CASE bindings'[k] = Binding(t) BY <1>2, <3>5, <4>3 DEF Binding, Behind
      <4> QED BY <4>1, <4>2, <4>3
    <3>9. Unread(messages', rule')
      <4>1. CASE t.excluded BY <1>2, <3>2, <4>1, PurgeUnread
      <4>2. CASE ~t.excluded
        <5>1. rule'.cutoff = rule.cutoff BY <1>2, <3>3, <3>5, <4>2 DEF Later
        <5> QED BY <1>2, <3>2, <4>2, <5>1 DEF Unread
      <4> QED BY <4>1, <4>2
    <3> QED BY <3>5, <3>6, <3>7, <3>8, <3>9 DEF Ledger
  <2> QED BY <2>1, <2>2
<1>4. \A a \in answers' : \/ a \in answers
                          \/ a.effective \in Nat /\ a.cutoff \in Nat /\ Behind(a, rule')
  BY <1>1, <1>2 DEF Answer, Behind
<1> QED BY <1>0, <1>3, <1>4, Advance DEF gate

-----------------------------------------------------------------------------
LEMMA SnapshotKept == ASSUME IInv, Kept, Snapshot PROVE Kept'
<1> USE DEF Snapshot, database
<1>1. \/ SavedRow' = rule /\ SavedBindings' = bindings
      \/ SavedRow' = NoRule /\ SavedBindings' = [k \in Keys |-> None]
  BY DEF SavedRow, SavedBindings
<1>2. Ledger(NoRule, [k \in Keys |-> None], journal) BY DEF Ledger, Backed, NoRule
<1>3. SavedKept'
  <2>1. backup'.rule = rule /\ backup'.messages = messages OBVIOUS
  <2>2. Unread(backup'.messages, backup'.rule) BY <2>1 DEF Kept
  <2>3. Ledger(SavedRow', SavedBindings', journal') BY <1>1, <1>2 DEF Kept
  <2> QED BY <2>2, <2>3 DEF SavedKept
<1>4. Gated' /\ Waiting' = Waiting BY DEF Kept, Gated, Waiting
<1>5. \A a \in answers' : AnswerKept(a)' BY <1>4 DEF Kept, AnswerKept
<1> QED BY <1>3, <1>4, <1>5 DEF Kept

\* The restored row may be older than an answer: the replay is still to come.
LEMMA RestoreKept == ASSUME IInv, Kept, Restore PROVE Kept'
<1> USE DEF Restore
<1>1. /\ rule' = SavedRow /\ bindings' = SavedBindings /\ messages' = backup.messages
      /\ SavedRow' = SavedRow /\ SavedBindings' = SavedBindings /\ journal' = journal
  BY DEF SavedRow, SavedBindings
<1>2. Ledger(rule', bindings', journal') /\ Unread(messages', rule') /\ SavedKept'
  BY <1>1 DEF Kept, SavedKept
<1>3. Gated' /\ Waiting' BY DEF Gated, Waiting
<1>4. \A a \in answers' : AnswerKept(a)' BY <1>3 DEF Kept, AnswerKept
<1> QED BY <1>2, <1>3, <1>4 DEF Kept

\* Nothing but the gate moves: what is left to replay still reaches every answer.
LEMMA GateKept ==
  ASSUME IInv, Kept, BeginReplay \/ CompleteReplay \/ SweepBegin \/ SweepEnd \/ ReplayStops
  PROVE  Kept'
<1> USE DEF BeginReplay, CompleteReplay, SweepBegin, SweepEnd, ReplayStops, database
<1>1. UNCHANGED <<rule, bindings, messages, journal, backup, answers>> OBVIOUS
<1>2. SavedKept' BY <1>1 DEF Kept, SavedKept, SavedRow, SavedBindings
<1>3. Gated'
  <2>0. Gated BY DEF Kept
  <2>1. CASE BeginReplay BY <2>0, <2>1 DEF Gated
  <2>2. CASE CompleteReplay
    <3>1. CASE rule.pending = None BY <2>0, <2>2, <3>1 DEF Gated
    <3>2. CASE rule.pending # None BY <2>0, <2>2, <3>2 DEF Gated
    <3> QED BY <3>1, <3>2
  <2>3. CASE SweepBegin \/ SweepEnd BY <2>0, <2>3 DEF Gated
  <2>4. CASE ReplayStops
    <3>1. CASE replay = "restore" BY <2>0, <2>4, <3>1 DEF Gated
    <3>2. CASE replay = "sweep" BY <2>0, <2>4, <3>2 DEF Gated
    <3> QED BY <2>4, <3>1, <3>2
  <2> QED BY <2>1, <2>2, <2>3, <2>4
<1>4. ASSUME NEW a \in answers PROVE Waiting' \/ Reaches(a, rule, todo')
  <2>0. /\ a.effective \in Nat /\ a.cutoff \in Nat /\ Backed(a, journal)
        /\ Waiting \/ Reaches(a, rule, todo)
        /\ rule.effective \in Nat /\ rule.cutoff \in Nat
    BY Types DEF Kept, AnswerKept
  <2>1. Reaches(a, rule, journal)
    <3>1. Ms(0) = 0 BY MsFacts
    <3> QED BY <2>0, <3>1 DEF Backed, Reaches
  <2>2. CASE BeginReplay
    <3>1. CASE Identified BY <2>1, <2>2, <3>1
    <3>2. CASE ~Identified /\ journal # {} BY <2>2, <3>2 DEF Waiting
    <3>3. CASE journal = {} BY <2>1, <2>2, <3>3
    <3> QED BY <3>1, <3>2, <3>3
  <2>3. CASE CompleteReplay BY <2>0, <2>3 DEF Waiting
  <2>4. CASE SweepBegin BY <2>1, <2>4
  <2>5. CASE SweepEnd BY <2>0, <2>5 DEF Waiting
  <2>6. CASE ReplayStops BY <2>6 DEF Waiting, Kept, Gated
  <2> QED BY <2>2, <2>3, <2>4, <2>5, <2>6
<1>5. \A a \in answers' : AnswerKept(a)' BY <1>1, <1>4 DEF Kept, AnswerKept
<1> QED BY <1>1, <1>2, <1>3, <1>5 DEF Kept

\* Replaying an object only advances the row, and as far as the object says.
LEMMA ReplayTransitionKept == ASSUME IInv, Kept, ReplayTransition PROVE Kept'
<1> DEFINE o == Oldest(todo)
<1>0. /\ rule' = Overlaid(o) /\ messages' = Purged(messages, rule'.cutoff) /\ todo' = todo \ {o}
      /\ UNCHANGED <<bindings, journal, serving, replay, unresolved, backup, answers>>
      /\ replay \in {"restore", "sweep"}
  BY DEF ReplayTransition
<1>1. o \in journal
  <2>1. todo \subseteq journal /\ todo # {} BY DEF IInv, World, ReplayTransition
  <2>2. o \in todo BY <2>1, Facts, OldestIsLeft DEF OneEach
  <2> QED BY <2>1, <2>2
<1> HIDE DEF o
<1>2. /\ o.effective \in Nat /\ o.cutoff \in Nat
      /\ Ms(o.effective) = o.effective /\ Ms(o.cutoff) = o.cutoff
      /\ rule.effective \in Nat /\ rule.cutoff \in Nat /\ messages \in MessageType
      /\ \A p \in journal : p.effective \in Nat /\ p.cutoff \in Nat
  BY <1>1, Types
<1>3. /\ rule'.effective = Later(rule.effective, o.effective)
      /\ rule'.cutoff = Later(rule.cutoff, o.cutoff) /\ rule'.pending = None
  BY <1>0 DEF Overlaid
<1>4. /\ rule'.effective \in Nat /\ rule.effective <= rule'.effective /\ o.effective <= rule'.effective
      /\ rule'.cutoff \in Nat /\ rule.cutoff <= rule'.cutoff /\ o.cutoff <= rule'.cutoff
  BY <1>2, <1>3 DEF Later
<1>5. Ledger(rule', bindings', journal')
  <2>1. rule'.effective = 0 \/ \E p \in journal : Ms(rule'.effective) <= p.effective
    BY <1>1, <1>2, <1>3 DEF Kept, Ledger, Backed, Later
  <2>2. rule'.cutoff = 0 \/ \E p \in journal : Ms(rule'.cutoff) <= p.cutoff
    BY <1>1, <1>2, <1>3 DEF Kept, Ledger, Backed, Later
  <2>3. \A k \in Keys : bindings[k] # None => Behind(bindings[k], rule')
    BY <1>2, <1>4, Types DEF Kept, Ledger, Behind
  <2> QED BY <1>0, <1>3, <2>1, <2>2, <2>3 DEF Ledger, Backed
<1>6. Unread(messages', rule') BY <1>0, <1>2, <1>4, PurgeUnread DEF Kept
<1>7. SavedKept' BY <1>0 DEF Kept, SavedKept, SavedRow, SavedBindings
<1>8. Gated'
  <2>1. Gated BY DEF Kept
  <2> QED BY <1>0, <2>1 DEF Gated
<1>9. ASSUME NEW a \in answers PROVE AnswerKept(a)'
  <2>1. AnswerKept(a) BY DEF Kept
  <2>2. Waiting' = Waiting BY <1>0 DEF Waiting
  <2>3. Ms(a.effective) \in Nat /\ Ms(a.cutoff) \in Nat BY <2>1, MsFacts DEF AnswerKept
  <2>4. todo \subseteq journal BY DEF IInv, World
  <2>5. ASSUME Reaches(a, rule, todo) PROVE Reaches(a, rule', todo')
    <3>1. Ms(a.effective) <= rule'.effective \/ \E p \in todo' : Ms(a.effective) <= p.effective
      BY <1>0, <1>2, <1>4, <2>3, <2>4, <2>5 DEF Reaches
    <3>2. Ms(a.cutoff) <= rule'.cutoff \/ \E p \in todo' : Ms(a.cutoff) <= p.cutoff
      BY <1>0, <1>2, <1>4, <2>3, <2>4, <2>5 DEF Reaches
    <3> QED BY <3>1, <3>2 DEF Reaches
  <2> QED BY <1>0, <2>1, <2>2, <2>5 DEF AnswerKept
<1>10. \A a \in answers' : AnswerKept(a)' BY <1>0, <1>9
<1> QED BY <1>5, <1>6, <1>7, <1>8, <1>10 DEF Kept

LEMMA InitKept == Init => Kept
<1> SUFFICES ASSUME Init PROVE Kept OBVIOUS
<1> USE DEF Init, NoRule
<1>1. SavedRow = NoRule /\ SavedBindings = [k \in Keys |-> None] BY DEF SavedRow, SavedBindings
<1>2. Ledger(NoRule, [k \in Keys |-> None], journal) BY DEF Ledger, Backed
<1>3. Unread(messages, rule) BY DEF Unread
<1>4. SavedKept BY <1>1, <1>2 DEF SavedKept
<1> QED BY <1>2, <1>3, <1>4 DEF Kept, Gated

LEMMA NextKept == IInv /\ IInv' /\ Kept /\ [Next]_vars => Kept'
<1> SUFFICES ASSUME IInv, IInv', Kept, [Next]_vars PROVE Kept' OBVIOUS
<1>1. ASSUME UNCHANGED <<database, gate, answers>>, journal \subseteq journal' PROVE Kept'
  BY <1>1, QuietKept
<1>2. CASE Request
  <2>1. ASSUME NEW s \in Slots, NEW k \in Keys, Resume(s, k) PROVE Kept'
    BY <1>1, <2>1 DEF Resume
  <2>2. ASSUME NEW s \in Slots, Append(s) \/ Abandon(s) PROVE Kept'
    BY <1>1, <2>2 DEF Append, Abandon
  <2> QED BY <1>2, <2>1, <2>2, AnswerStepKept, PrepareStepKept, FinalizeKept DEF Request
<1>3. CASE Cron \/ CronStops
  <2>1. CASE CronList \/ CronAppend \/ CronStops
    BY <1>1, <2>1 DEF CronList, CronAppend, CronStops
  <2> QED BY <1>3, <2>1, FinalizeKept DEF Cron
<1>4. CASE Tick BY <1>1, <1>4 DEF Tick
<1>5. CASE Observation \/ RemoveHistory BY <1>5, ObservationKept
<1>6. CASE Snapshot \/ Restore \/ Replay \/ SweepBegin \/ SweepEnd \/ ReplayStops
  BY <1>6, SnapshotKept, RestoreKept, GateKept, ReplayTransitionKept DEF Replay
<1>7. CASE UNCHANGED vars BY <1>1, <1>7 DEF vars
<1> QED BY <1>2, <1>3, <1>4, <1>5, <1>6, <1>7 DEF Next

\* What was answered is in the journal, and in the row or still to be replayed.
THEOREM WhatWasAnsweredIsKept == Spec => []Kept
<1>1. Spec => []IInv BY Invariance
<1> QED BY <1>1, InitKept, NextKept, PTL DEF Spec

-----------------------------------------------------------------------------
(***************************************************************************)
(* Which rule is in force.  A third invariant: two transitions lie in      *)
(* different milliseconds (Distinct), and a row that has an effective time *)
(* says what the transition of that millisecond said (Named).              *)
(***************************************************************************)
Distinct(h, j) ==
  /\ \A x, y \in h : Ms(x.effective) = Ms(y.effective) => x = y
  /\ \A o, p \in j : o.effective = p.effective => o = p
  /\ \A x \in h, o \in j : Ms(x.effective) = o.effective => o = Object(x)

Named(r, j) ==
  r.effective # 0 => \E o \in j : o.excluded = r.excluded /\ o.effective = Ms(r.effective)

Dated == Distinct(Held, journal) /\ Named(rule, journal) /\ Named(SavedRow, journal)

\* What is pending, in a row or with a worker, was held before.
Known(p) == p = None \/ (rule.pending # None /\ p = rule.pending)
            \/ (SavedRow.pending # None /\ p = SavedRow.pending)

TakesUp(w, v) == w.phase = "idle" \/ (v.phase # "idle" /\ w.of = v.of)
                 \/ (rule.pending # None /\ w.of = rule.pending)

LEMMA HeldBefore ==
  ASSUME Known(rule'.pending), Known(SavedRow'.pending), TakesUp(cron', cron),
         \A s \in Slots : TakesUp(slot'[s], slot[s])
  PROVE  Held' \subseteq Held
BY DEF Held, Known, TakesUp

\* Nothing is prepared, and what is appended was held.
LEMMA DatedStep ==
  ASSUME Dated, Held' \subseteq Held, journal' \subseteq journal \cup {Object(x) : x \in Held},
         Named(rule', journal'), Named(SavedRow', journal')
  PROVE  Dated'
<1>1. \A x \in Held : Object(x).effective = Ms(x.effective) BY DEF Object
<1>2. \A o, p \in journal' : o.effective = p.effective => o = p BY <1>1 DEF Dated, Distinct
<1>3. \A x \in Held, o \in journal' : Ms(x.effective) = o.effective => o = Object(x)
  BY <1>1 DEF Dated, Distinct
<1>4. Distinct(Held', journal') BY <1>2, <1>3 DEF Dated, Distinct
<1> QED BY <1>4 DEF Dated

LEMMA NamedMore == ASSUME NEW r, NEW j, NEW k, j \subseteq k, Named(r, j) PROVE Named(r, k)
BY DEF Named

\* A request, an append, the cron or the gate moves, and no row says anything new.
LEMMA SameRowDated ==
  ASSUME IInv, Dated, journal \subseteq journal', journal' \subseteq journal \cup {Object(x) : x \in Held},
         UNCHANGED <<rule, backup>>, TakesUp(cron', cron), \A s \in Slots : TakesUp(slot'[s], slot[s])
  PROVE  Dated'
<1>1. SavedRow' = SavedRow BY DEF SavedRow
<1>2. Held' \subseteq Held BY <1>1, HeldBefore DEF Known
<1> QED BY <1>1, <1>2, DatedStep, NamedMore DEF Dated

LEMMA TakingUp ==
  ASSUME IInv,
         \/ UNCHANGED <<slot, cron>> \/ CronList \/ CronAppend \/ CronStops
         \/ \E s \in Slots : (\E k \in Keys : Resume(s, k)) \/ Append(s) \/ Abandon(s)
  PROVE  TakesUp(cron', cron) /\ \A q \in Slots : TakesUp(slot'[q], slot[q])
<1>0. slot \in [Slots -> Workers] /\ cron \in Workers BY DEF IInv, Written, WorkerHolds
<1>1. CASE UNCHANGED <<slot, cron>> BY <1>1 DEF TakesUp
<1>2. CASE CronList \/ CronAppend \/ CronStops
  BY <1>0, <1>2 DEF CronList, CronAppend, CronStops, Appended, Idle, TakesUp, Workers, database, gate
<1>3. ASSUME NEW s \in Slots, NEW k \in Keys, Resume(s, k)
      PROVE  TakesUp(cron', cron) /\ \A q \in Slots : TakesUp(slot'[q], slot[q])
  BY <1>0, <1>3 DEF Resume, TakesUp
<1>4. ASSUME NEW s \in Slots, Append(s)
      PROVE  TakesUp(cron', cron) /\ \A q \in Slots : TakesUp(slot'[q], slot[q])
  BY <1>0, <1>4 DEF Append, Appended, TakesUp, Workers
<1>5. ASSUME NEW s \in Slots, Abandon(s)
      PROVE  TakesUp(cron', cron) /\ \A q \in Slots : TakesUp(slot'[q], slot[q])
  BY <1>0, <1>5 DEF Abandon, Idle, TakesUp
<1> QED BY <1>1, <1>2, <1>3, <1>4, <1>5

LEMMA WorkerDated ==
  ASSUME IInv, Dated,
         \/ CronList \/ CronAppend \/ CronStops
         \/ \E s \in Slots : (\E k \in Keys : Resume(s, k)) \/ Append(s) \/ Abandon(s)
  PROVE  Dated'
<1>1. UNCHANGED <<rule, backup>>
  BY DEF CronList, CronAppend, CronStops, Resume, Append, Abandon, database, gate
<1>2. journal \subseteq journal' /\ journal' \subseteq journal \cup {Object(x) : x \in Held}
  <2>1. ASSUME NEW s \in Slots, Append(s) PROVE journal' = journal \cup {Object(slot[s].of)} /\ slot[s].of \in Held
    BY <2>1, Facts DEF Append
  <2>2. CASE CronAppend BY <2>2, Facts DEF CronAppend
  <2>3. CASE journal' = journal BY <2>3
  <2> QED BY <2>1, <2>2, <2>3 DEF CronList, CronStops, Resume, Abandon
<1> QED BY <1>1, <1>2, TakingUp, SameRowDated

\* A transition is prepared in a later millisecond than every other.
LEMMA PrepareDated ==
  ASSUME NEW s \in Slots, NEW k \in Keys, NEW wanted \in BOOLEAN, NEW expected \in BOOLEAN,
         IInv, Dated, Prepare(s, k, wanted, expected)
  PROVE  Dated'
<1> DEFINE t == Prepared(k, wanted)
<1>0. /\ rule' = [rule EXCEPT !.present = TRUE, !.pending = t] /\ rule.pending = None
      /\ slot' = [slot EXCEPT ![s] = [phase |-> "prepared", of |-> t]]
      /\ UNCHANGED <<journal, cron, backup, now>> /\ Apart /\ t.effective = now
  BY DEF Prepare, Unbound, gate, Prepared
<1> HIDE DEF t
<1>1. /\ SavedRow' = SavedRow
      /\ rule'.pending = t /\ rule'.effective = rule.effective /\ rule'.excluded = rule.excluded
      /\ \A q \in Slots : slot'[q] = slot[q] \/ slot'[q].of = t
  <2>1. rule \in Rules /\ slot \in [Slots -> Workers] BY Facts DEF IInv, Written
  <2> QED BY <1>0, <2>1 DEF SavedRow, Rules
<1>2. Held' \subseteq Held \cup {t} BY <1>0, <1>1 DEF Held
<1>3. \A o \in journal : Earlier(o) /\ o.effective = Ms(o.effective) BY <1>0, Types DEF Apart
<1>4. \A x \in Held : Earlier(x)
  <2>1. SavedRow.pending # None => Earlier(SavedRow.pending)
    BY <1>0 DEF Apart, SavedRow, NoRule
  <2>2. cron.phase # "idle" => Earlier(cron.of) BY <1>0 DEF Apart
  <2>3. \A q \in Slots : slot[q].phase # "idle" => Earlier(slot[q].of) BY <1>0 DEF Apart
  <2> QED BY <1>0, <2>1, <2>2, <2>3 DEF Held
<1>5. /\ \A x \in Held : Ms(x.effective) # Ms(t.effective)
      /\ \A o \in journal : o.effective # Ms(t.effective)
  <2>1. Ms(now) \in Nat BY Facts, MsFacts
  <2>2. \A u : u < Ms(now) => u # Ms(now) BY <2>1
  <2> QED BY <1>0, <1>3, <1>4, <2>2 DEF Earlier
<1>6. Distinct(Held', journal) BY <1>2, <1>5 DEF Dated, Distinct
<1> QED BY <1>0, <1>1, <1>6 DEF Dated, Named

LEMMA FinalizeDated ==
  ASSUME IInv, Dated, (\E s \in Slots : Finalize(s)) \/ CronFinalize PROVE Dated'
<1>0. /\ journal' = journal /\ backup' = backup /\ Held' \subseteq Held
      /\ \E x \in Held : Object(x) \in journal /\ FinalizeRow(x.id)
  BY Finalizing DEF gate
<1>1. PICK x \in Held : Object(x) \in journal /\ FinalizeRow(x.id) BY <1>0
<1>2. SavedRow' = SavedRow BY <1>0 DEF SavedRow
<1>3. Named(rule', journal)
  <2>1. CASE ~(rule.pending # None /\ rule.pending.id = x.id)
    BY <1>1, <2>1 DEF FinalizeRow, database, Dated
  <2>2. CASE rule.pending # None /\ rule.pending.id = x.id
    <3>1. rule.pending = x BY <2>2, Facts DEF OneEach
    <3>2. rule \in Rules /\ rule' = Applied(x) BY <1>1, <2>2, <3>1, Facts DEF FinalizeRow
    <3>3. rule'.excluded = x.excluded /\ rule'.effective = x.effective
      BY <3>2 DEF Applied, Rules
    <3>4. Object(x).excluded = x.excluded /\ Object(x).effective = Ms(x.effective) BY DEF Object
    <3> QED BY <1>1, <3>3, <3>4 DEF Named
  <2> QED BY <2>1, <2>2
<1> QED BY <1>0, <1>2, <1>3, DatedStep DEF Dated

LEMMA RestoreDated == ASSUME IInv, Dated, Snapshot \/ Restore PROVE Dated'
<1>0. journal' = journal /\ slot' = slot /\ (cron' = cron \/ cron' = Idle)
  BY DEF Snapshot, Restore
<1>1. TakesUp(cron', cron) /\ \A q \in Slots : TakesUp(slot'[q], slot[q])
  BY <1>0 DEF TakesUp, Idle
<1>2. rule' \in {rule, SavedRow} /\ SavedRow' \in {rule, SavedRow, NoRule}
  BY DEF Snapshot, Restore, database, SavedRow
<1>3. Named(rule', journal') /\ Named(SavedRow', journal')
  <2>1. Named(NoRule, journal) BY DEF Named, NoRule
  <2> QED BY <1>0, <1>2, <2>1 DEF Dated
<1>4. Known(rule'.pending) /\ Known(SavedRow'.pending) BY <1>2 DEF Known, NoRule
<1>5. Held' \subseteq Held BY <1>1, <1>4, HeldBefore
<1> QED BY <1>0, <1>3, <1>5, DatedStep

\* The oldest transition left either is the rule from now on or leaves it as it is.
LEMMA ReplayTransitionDated == ASSUME IInv, Dated, ReplayTransition PROVE Dated'
<1> DEFINE o == Oldest(todo)
<1>0. rule' = Overlaid(o) /\ UNCHANGED <<journal, slot, cron, backup>> BY DEF ReplayTransition
<1>1. o \in journal
  <2>1. todo \subseteq journal /\ todo # {} BY DEF IInv, World, ReplayTransition
  <2>2. o \in todo BY <2>1, Facts, OldestIsLeft DEF OneEach
  <2> QED BY <2>1, <2>2
<1> HIDE DEF o
<1>2. /\ o.effective \in Nat /\ o.effective = Ms(o.effective) /\ rule.effective \in Nat
      /\ (~rule.present => rule.effective = 0)
  BY <1>1, Types DEF IInv, Rows, RowHolds, NoRule
<1> DEFINE newer == ~rule.present \/ rule.effective = 0 \/ rule.effective <= o.effective
<1>3. /\ rule'.effective = Later(rule.effective, o.effective) /\ rule'.pending = None
      /\ rule'.excluded = IF newer THEN o.excluded ELSE rule.excluded
  BY <1>0 DEF Overlaid
<1>4. Named(rule', journal)
  <2>1. CASE newer
    <3>1. rule'.effective = o.effective /\ rule'.excluded = o.excluded
      BY <1>2, <1>3, <2>1 DEF Later
    <3> QED BY <1>1, <1>2, <3>1 DEF Named
  <2>2. CASE ~newer
    <3>1. rule'.effective = rule.effective /\ rule'.excluded = rule.excluded
      BY <1>2, <1>3, <2>2 DEF Later
    <3> QED BY <3>1 DEF Dated, Named
  <2> QED BY <2>1, <2>2
<1>5. SavedRow' = SavedRow BY <1>0 DEF SavedRow
<1>6. Held' \subseteq Held BY <1>0, <1>3, <1>5, HeldBefore DEF Known, TakesUp
<1> QED BY <1>0, <1>4, <1>5, <1>6, DatedStep DEF Dated

LEMMA InitDated == Init => Dated
<1> SUFFICES ASSUME Init PROVE Dated OBVIOUS
<1>1. SavedRow = NoRule /\ rule = NoRule /\ journal = {} BY DEF Init, SavedRow
<1>2. Held = {} BY <1>1 DEF Init, Held, NoRule, Idle
<1> QED BY <1>1, <1>2 DEF Dated, Distinct, Named, NoRule

LEMMA NextDated == IInv /\ Dated /\ [Next]_vars => Dated'
<1> SUFFICES ASSUME IInv, Dated, [Next]_vars PROVE Dated' OBVIOUS
<1>1. ASSUME UNCHANGED <<rule, backup, journal, cron, slot>> PROVE Dated'
  BY <1>1, SameRowDated DEF TakesUp
<1>2. CASE Request
  <2>1. ASSUME NEW s \in Slots, NEW k \in Keys, NEW wanted, NEW expected,
               Replayed(s, k) \/ Unchanged(s, k, wanted, expected)
        PROVE  Dated'
    BY <1>1, <2>1 DEF Replayed, Unchanged, database, gate
  <2> QED BY <1>2, <2>1, WorkerDated, PrepareDated, FinalizeDated DEF Request
<1>3. CASE Cron \/ CronStops BY <1>3, WorkerDated, FinalizeDated DEF Cron
<1>4. CASE Tick \/ Observation \/ RemoveHistory
  BY <1>1, <1>4 DEF Tick, Observation, Receive, Project, ProjectDirectory, RemoveHistory, database, gate
<1>5. CASE Snapshot \/ Restore BY <1>5, RestoreDated
<1>6. CASE Replay
  <2>1. CASE ReplayTransition BY <2>1, ReplayTransitionDated
  <2>2. CASE BeginReplay \/ CompleteReplay BY <1>1, <2>2 DEF BeginReplay, CompleteReplay, database
  <2> QED BY <1>6, <2>1, <2>2 DEF Replay
<1>7. CASE SweepBegin \/ SweepEnd \/ ReplayStops
  BY <1>1, <1>7 DEF SweepBegin, SweepEnd, ReplayStops, database
<1>8. CASE UNCHANGED vars BY <1>1, <1>8 DEF vars, database, gate
<1> QED BY <1>2, <1>3, <1>4, <1>5, <1>6, <1>7, <1>8 DEF Next

\* Rows say what the transition of their millisecond said.
THEOREM RowsAreDated == Spec => []Dated
<1>1. Spec => []IInv BY Invariance
<1> QED BY <1>1, InitDated, NextDated, PTL DEF Spec

-----------------------------------------------------------------------------
\* Where requests are served and no prefix is unresolved, there is nothing left to replay.
LEMMA Served ==
  ASSUME IInv, Kept, serving, ~unresolved, NEW a \in answers
  PROVE  /\ a.effective \in Nat /\ a.cutoff \in Nat
         /\ Ms(a.effective) <= rule.effective /\ Ms(a.cutoff) <= rule.cutoff
<1>1. todo = {} /\ ~Waiting BY DEF Kept, Gated, Waiting
<1>2. AnswerKept(a) BY DEF Kept
<1> QED BY <1>1, <1>2 DEF AnswerKept, Reaches

(* What was acknowledged is what is enforced, whatever stopped, failed or  *)
(* was restored since: the row is not older than any answer, its cutoff is *)
(* not lower, and a recipient that is not excluded any more was re-enabled *)
(* after the exclusion that was acknowledged.                              *)
THEOREM AcknowledgedInForceHolds == Spec => []AcknowledgedInForce
<1>1. IInv /\ Kept /\ Dated => AcknowledgedInForce
  <2> SUFFICES ASSUME IInv, Kept, Dated, serving, ~unresolved, NEW a \in answers
               PROVE  /\ rule.effective >= Ms(a.effective)
                      /\ rule.cutoff >= Ms(a.cutoff)
                      /\ (a.excluded /\ ~rule.excluded) => rule.effective > a.effective
    BY DEF AcknowledgedInForce
  <2>1. /\ a.effective \in Nat /\ Ms(a.effective) \in Nat /\ Ms(a.cutoff) \in Nat
        /\ Ms(a.effective) <= rule.effective /\ Ms(a.cutoff) <= rule.cutoff
    BY Served, MsFacts
  <2>2. rule.effective \in Nat /\ rule.cutoff \in Nat BY Types
  <2>3. ASSUME a.excluded, ~rule.excluded, rule.effective <= a.effective PROVE FALSE
    <3>1. PICK p \in journal : p.excluded /\ p.effective = Ms(a.effective)
      BY <2>3 DEF IInv, Answered, Evidenced
    <3>2. p.effective # 0 BY <3>1, Facts DEF OneEach, Sound
    <3>3. Ms(rule.effective) = Ms(a.effective)
      <4>1. Ms(Ms(a.effective)) = Ms(a.effective) /\ Ms(rule.effective) \in Nat
        BY <2>1, <2>2, MsFacts
      <4>2. Ms(a.effective) <= Ms(rule.effective) BY <2>1, <2>2, <4>1, MsMonotone
      <4>3. Ms(rule.effective) <= Ms(a.effective) BY <2>1, <2>2, <2>3, MsMonotone
      <4> QED BY <2>1, <4>1, <4>2, <4>3
    <3>4. PICK o \in journal : o.excluded = rule.excluded /\ o.effective = Ms(rule.effective)
      BY <2>1, <2>2, <3>1, <3>2 DEF Dated, Named
    <3>5. o = p BY <3>1, <3>3, <3>4 DEF Dated, Distinct
    <3> QED BY <2>3, <3>1, <3>4, <3>5
  <2> QED BY <2>1, <2>2, <2>3
<1> QED BY <1>1, Invariance, WhatWasAnsweredIsKept, RowsAreDated, PTL

(* A message that an acknowledged purge covered, to the millisecond, is    *)
(* not readable, in the original database or in a restored one.            *)
THEOREM PurgeCoversRestoreHolds == Spec => []PurgeCoversRestore
<1>1. IInv /\ Kept => PurgeCoversRestore
  <2> SUFFICES ASSUME IInv, Kept, serving, ~unresolved, NEW a \in answers, NEW m \in Messages,
                      messages[m].state = "readable"
               PROVE  messages[m].created > Ms(a.cutoff)
    BY DEF PurgeCoversRestore
  <2>1. a.cutoff \in Nat /\ Ms(a.cutoff) <= rule.cutoff BY Served
  <2>2. Ms(a.cutoff) \in Nat BY <2>1, MsFacts
  <2>3. messages[m].created > rule.cutoff BY DEF Kept, Unread
  <2>4. messages[m].created \in Nat /\ rule.cutoff \in Nat BY Types
  <2> QED BY <2>1, <2>2, <2>3, <2>4
<1> QED BY <1>1, Invariance, WhatWasAnsweredIsKept, PTL

-----------------------------------------------------------------------------
(***************************************************************************)
(* In one database, what a key was answered is what its binding says while *)
(* it lasts (Repeated), and a worker that comes after its change was       *)
(* finalized finds a binding that says what the row says (Late).           *)
(***************************************************************************)
Says(b, a) ==
  /\ b # None /\ b.id = a.id /\ b.expires = a.until
  /\ b.excluded = a.excluded /\ b.cutoff = a.cutoff

Stands(a, bs, t) ==
  a.key \in Keys /\ a.until \in Nat /\ (a.id # 0 /\ t < a.until => Says(bs[a.key], a))

Repeated == \A a \in answers : Stands(a, bindings, now)

Late ==
  \A x \in Held : x.id = rule.last /\ bindings[x.key] # None =>
    LET b == bindings[x.key]
    IN b.id = rule.last /\ b.excluded = rule.excluded /\ b.cutoff = rule.cutoff

OneDatabase == replay = "off" /\ backup = None /\ ~unresolved

Retried == OneDatabase /\ Repeated /\ Late

\* The row says what it said, and a binding goes only when it has expired.
LEMMA StandsKept ==
  ASSUME IInv, Retried, UNCHANGED gate, now' \in Nat, now <= now',
         rule'.last = rule.last, rule'.excluded = rule.excluded, rule'.cutoff = rule.cutoff,
         \A k \in Keys : \/ bindings'[k] = bindings[k]
                         \/ bindings'[k] = None /\ bindings[k] # None /\ bindings[k].expires <= now,
         \A x \in Held' : x.key \in Keys /\ (x \in Held \/ x.id # rule.last),
         \A a \in answers' : a \in answers \/ Stands(a, bindings', now')
  PROVE  Retried'
<1>1. OneDatabase' BY DEF Retried, OneDatabase, gate
<1>2. ASSUME NEW a \in answers PROVE Stands(a, bindings', now')
  <2>1. Stands(a, bindings, now) BY DEF Retried, Repeated
  <2>2. now \in Nat BY Facts
  <2>3. now' < a.until => now < a.until BY <2>1, <2>2 DEF Stands
  <2>4. now < a.until => ~(a.until <= now) BY <2>1, <2>2 DEF Stands
  <2> QED BY <2>1, <2>3, <2>4 DEF Stands, Says
<1>3. Repeated' BY <1>2 DEF Repeated
<1>4. Late' BY DEF Retried, Late
<1> QED BY <1>1, <1>3, <1>4 DEF Retried

\* Steps that prepare and finalize nothing; without a restore no gate moves.
LEMMA QuietRetried ==
  ASSUME IInv, Retried,
         \/ Tick \/ Observation \/ RemoveHistory \/ CronList \/ CronAppend \/ CronStops
         \/ \E s \in Slots : (\E k \in Keys : Resume(s, k)) \/ Append(s) \/ Abandon(s)
  PROVE  Retried'
<1>0. UNCHANGED <<rule, gate, answers>>
  BY DEF Tick, Observation, Receive, Project, ProjectDirectory, RemoveHistory, CronList, CronAppend,
         CronStops, Resume, Append, Abandon, database
<1>1. now' \in Nat /\ now <= now'
  <2>1. now \in Nat BY Facts
  <2>2. CASE Tick BY <2>1, <2>2 DEF Tick
  <2>3. CASE now' = now BY <2>1, <2>3
  <2> QED BY <2>2, <2>3 DEF Observation, Receive, Project, ProjectDirectory, RemoveHistory, CronList,
                           CronAppend, CronStops, Resume, Append, Abandon
<1>2. TakesUp(cron', cron) /\ \A q \in Slots : TakesUp(slot'[q], slot[q])
  BY TakingUp DEF Tick, Observation, Receive, Project, ProjectDirectory, RemoveHistory
<1>4. SavedRow' = SavedRow BY <1>0 DEF SavedRow, gate
<1>5. Held' \subseteq Held BY <1>0, <1>2, <1>4, HeldBefore DEF Known
<1>6. \A x \in Held' : x.key \in Keys BY <1>5, Facts DEF Transitions
<1>7. \A k \in Keys : \/ bindings'[k] = bindings[k]
                      \/ bindings'[k] = None /\ bindings[k] # None /\ bindings[k].expires <= now
  <2>1. CASE RemoveHistory BY <2>1 DEF RemoveHistory
  <2>2. CASE UNCHANGED bindings BY <2>2
  <2> QED BY <2>1, <2>2 DEF Tick, Observation, Receive, Project, ProjectDirectory, CronList, CronAppend,
                            CronStops, Resume, Append, Abandon, database
<1> QED BY <1>0, <1>1, <1>5, <1>6, <1>7, StandsKept

\* A binding repeats what it says; an unchanged rule is answered under no identity.
LEMMA AnswerRetried ==
  ASSUME NEW s \in Slots, NEW k \in Keys, NEW wanted \in BOOLEAN, NEW expected \in BOOLEAN,
         IInv, Retried, Replayed(s, k) \/ Unchanged(s, k, wanted, expected)
  PROVE  Retried'
<1>0. UNCHANGED <<now, database, slot, cron, gate>> BY DEF Replayed, Unchanged
<1>1. \A a \in answers' : a \in answers \/ Stands(a, bindings, now)
  <2>1. CASE Replayed(s, k)
    <3>1. /\ bindings[k] # None /\ bindings[k].expires \in Nat
          /\ Answer(k, bindings[k].id, bindings[k].expires, bindings[k])
      BY <2>1 DEF Replayed, Until, IInv, Rows, BindingsHold, Bindings
    <3> QED BY <3>1 DEF Answer, Stands, Says
  <2>2. CASE Unchanged(s, k, wanted, expected) BY <2>2 DEF Unchanged, Answer, Stands
  <2> QED BY <2>1, <2>2
<1>2. Held' = Held BY <1>0 DEF Held, SavedRow, database, gate
<1>3. now \in Nat /\ \A x \in Held : x.key \in Keys BY Facts DEF Transitions
<1> QED BY <1>0, <1>1, <1>2, <1>3, StandsKept DEF database

LEMMA PrepareRetried ==
  ASSUME NEW s \in Slots, NEW k \in Keys, NEW wanted \in BOOLEAN, NEW expected \in BOOLEAN,
         IInv, Retried, Prepare(s, k, wanted, expected)
  PROVE  Retried'
<1> DEFINE t == Prepared(k, wanted)
<1>0. /\ rule' = [rule EXCEPT !.present = TRUE, !.pending = t]
      /\ slot' = [slot EXCEPT ![s] = [phase |-> "prepared", of |-> t]]
      /\ UNCHANGED <<now, bindings, cron, gate, answers>> /\ t.id = ids + 1 /\ t.key = k
  BY DEF Prepare, Prepared
<1> HIDE DEF t
<1>1. /\ rule'.pending = t /\ rule'.last = rule.last /\ rule'.excluded = rule.excluded
      /\ rule'.cutoff = rule.cutoff /\ SavedRow' = SavedRow
      /\ \A q \in Slots : slot'[q] = slot[q] \/ slot'[q].of = t
  <2>1. rule \in Rules /\ slot \in [Slots -> Workers] BY Facts DEF IInv, Written
  <2> QED BY <1>0, <2>1 DEF SavedRow, Rules, gate
<1>2. Held' \subseteq Held \cup {t} BY <1>0, <1>1 DEF Held
<1>3. t.id # rule.last
  <2>1. rule.last \in Nat /\ rule.last <= ids /\ ids \in Nat
    BY Facts, Numbers DEF IInv, Rows, RowHolds, Rules, Ids
  <2> QED BY <1>0, <2>1
<1>4. now \in Nat /\ \A x \in Held : x.key \in Keys BY Facts DEF Transitions
<1> QED BY <1>0, <1>1, <1>2, <1>3, <1>4, StandsKept

\* A change that is finalized binds its key, which was free; a worker that comes later
\* answers what that binding says.
LEMMA FinalizeRetried ==
  ASSUME IInv, IInv', Retried, (\E s \in Slots : Finalize(s)) \/ CronFinalize PROVE Retried'
<1>0. /\ UNCHANGED <<now, gate>> /\ Held' \subseteq Held
      /\ \E x \in Held : /\ FinalizeRow(x.id)
                         /\ \/ answers' = answers
                            \/ rule'.last = x.id /\ Answer(x.key, x.id, Until(bindings'[x.key]), rule')
  BY Finalizing
<1>1. PICK x \in Held : /\ FinalizeRow(x.id)
                        /\ \/ answers' = answers
                           \/ rule'.last = x.id /\ Answer(x.key, x.id, Until(bindings'[x.key]), rule')
  BY <1>0
<1>2. now \in Nat /\ x.key \in Keys /\ \A y \in Held : y.key \in Keys BY Facts DEF Transitions
<1>3. OneDatabase' BY <1>0 DEF Retried, OneDatabase, gate
<1>4. \A a \in answers : Stands(a, bindings', now)
  <2>1. \A k \in Keys : bindings[k] # None => bindings'[k] = bindings[k]
    BY <1>1 DEF FinalizeRow, database, IInv, Rows, BindingsHold
  <2> QED BY <2>1 DEF Retried, Repeated, Stands, Says
<1>5. ASSUME NEW y \in Held, y.id = rule'.last, bindings'[y.key] # None
      PROVE  LET b == bindings'[y.key]
             IN b.id = rule'.last /\ b.excluded = rule'.excluded /\ b.cutoff = rule'.cutoff
  <2>1. CASE ~(rule.pending # None /\ rule.pending.id = x.id)
    BY <1>1, <1>5, <2>1 DEF FinalizeRow, database, Retried, Late
  <2>2. CASE rule.pending # None /\ rule.pending.id = x.id
    <3>1. rule.pending = x /\ \A z \in Held : z.id = x.id => z = x BY <2>2, Facts DEF OneEach
    <3>2. rule \in Rules /\ rule' = Applied(x) /\ bindings[x.key] = None
          /\ bindings' = [bindings EXCEPT ![x.key] = Binding(x)]
      BY <1>1, <2>2, <3>1, Facts DEF FinalizeRow, IInv, Rows, RowHolds
    <3>3. rule'.last = x.id /\ rule'.excluded = x.excluded /\ rule'.cutoff = Later(rule.cutoff, x.cutoff)
      BY <3>2 DEF Applied, Rules
    <3>4. bindings'[x.key] = Binding(x) BY <1>2, <3>2 DEF IInv, Rows, BindingsHold
    <3> QED BY <1>5, <3>1, <3>3, <3>4 DEF Binding
  <2> QED BY <2>1, <2>2
<1>6. Late' BY <1>0, <1>5 DEF Late
<1>7. \A a \in answers' : a \in answers \/ Stands(a, bindings', now)
  <2>1. CASE answers' = answers BY <2>1
  <2>2. CASE rule'.last = x.id /\ Answer(x.key, x.id, Until(bindings'[x.key]), rule')
    <3>1. bindings'[x.key] # None => bindings'[x.key].expires \in Nat
      BY <1>2 DEF IInv, Rows, BindingsHold, Bindings
    <3>2. bindings'[x.key] = None => ~(now < 0) BY <1>2
    <3>3. Until(bindings'[x.key]) \in Nat BY <3>1 DEF Until
    <3> QED BY <1>2, <1>5, <2>2, <3>1, <3>2, <3>3 DEF Answer, Until, Stands, Says
  <2> QED BY <1>1, <2>1, <2>2
<1>8. Repeated' BY <1>0, <1>4, <1>7 DEF Repeated
<1> QED BY <1>3, <1>6, <1>8 DEF Retried

LEMMA NextRetried ==
  ASSUME MaxRestores = 0, IInv, IInv', Retried, [Next]_vars PROVE Retried'
<1>1. CASE Request
  BY <1>1, QuietRetried, AnswerRetried, PrepareRetried, FinalizeRetried DEF Request
<1>2. CASE Tick \/ Observation \/ RemoveHistory BY <1>2, QuietRetried
<1>3. CASE Cron \/ CronStops BY <1>3, QuietRetried, FinalizeRetried DEF Cron
<1>4. CASE Snapshot BY <1>4 DEF Snapshot
<1>5. CASE Restore \/ Replay \/ SweepBegin \/ SweepEnd \/ ReplayStops
  BY <1>5 DEF Restore, Replay, BeginReplay, ReplayTransition, CompleteReplay, SweepBegin, SweepEnd,
              ReplayStops, Retried, OneDatabase
<1>6. CASE UNCHANGED vars
  <2>1. Held' = Held BY <1>6 DEF vars, database, gate, Held, SavedRow
  <2> QED BY <1>6, <2>1 DEF vars, database, gate, Retried, OneDatabase, Repeated, Late
<1> QED BY <1>1, <1>2, <1>3, <1>4, <1>5, <1>6 DEF Next

\* Without a restore, answers, bindings and the row agree.
THEOREM KeysAreRetried == ASSUME MaxRestores = 0 PROVE Spec => []Retried
<1>1. Init => Retried
  <2> SUFFICES ASSUME Init PROVE Retried OBVIOUS
  <2>1. SavedRow = NoRule BY DEF Init, SavedRow
  <2>2. Held = {} BY <2>1 DEF Init, Held, NoRule, Idle
  <2> QED BY <2>2 DEF Init, Retried, OneDatabase, Repeated, Late
<1>2. IInv /\ IInv' /\ Retried /\ [Next]_vars => Retried' BY NextRetried
<1> QED BY <1>1, <1>2, Invariance, PTL DEF Spec

(* Within the retention of its binding and one database, a key whose change *)
(* was acknowledged is answered as it was: a retry after a lost reply does  *)
(* not collide with its own effect, and changes nothing again.             *)
THEOREM SameAnswerHolds == ASSUME MaxRestores = 0 PROVE Spec => SameAnswer
<1> DEFINE P == \A a \in answers, b \in answers' \ answers :
       a.key = b.key /\ a.epoch = b.epoch /\ a.id # 0 /\ now < a.until
         => b.id = a.id /\ b.excluded = a.excluded /\ b.cutoff = a.cutoff
<1>1. IInv /\ Retried /\ Retried' /\ [Next]_vars => [P]_vars
  <2> SUFFICES ASSUME IInv, Retried, Retried', Next,
                      NEW a \in answers, NEW b \in answers', b \notin answers,
                      a.key = b.key, a.id # 0, now < a.until
               PROVE  b.id = a.id /\ b.excluded = a.excluded /\ b.cutoff = a.cutoff
    OBVIOUS
  <2>1. a.key \in Keys /\ Says(bindings[a.key], a) BY DEF Retried, Repeated, Stands
  <2>2. ASSUME UNCHANGED answers PROVE FALSE BY <2>2
  <2>3. ASSUME NEW s \in Slots, NEW k \in Keys, Replayed(s, k)
        PROVE  b.id = a.id /\ b.excluded = a.excluded /\ b.cutoff = a.cutoff
    BY <2>1, <2>3 DEF Replayed, Answer, Says
  <2>4. ASSUME NEW s \in Slots, NEW k \in Keys, NEW wanted, NEW expected,
               Unchanged(s, k, wanted, expected)
        PROVE  FALSE
    BY <2>1, <2>4 DEF Unchanged, Unbound, Answer, Says
  <2>5. ASSUME (\E s \in Slots : Finalize(s)) \/ CronFinalize
        PROVE  b.id = a.id /\ b.excluded = a.excluded /\ b.cutoff = a.cutoff
    <3>1. PICK x \in Held : /\ FinalizeRow(x.id)
                            /\ \/ answers' = answers
                               \/ rule'.last = x.id /\ Answer(x.key, x.id, Until(bindings'[x.key]), rule')
      BY <2>5, Finalizing
    <3>2. rule'.last = x.id /\ b.key = x.key /\ b.id = x.id /\ b.excluded = rule'.excluded
          /\ b.cutoff = rule'.cutoff
      BY <3>1 DEF Answer
    <3>3. CASE ~(rule.pending # None /\ rule.pending.id = x.id)
      <4>1. rule' = rule BY <3>1, <3>3 DEF FinalizeRow, database
      <4> QED BY <2>1, <3>2, <4>1 DEF Retried, Late, Says
    <3>4. CASE rule.pending # None /\ rule.pending.id = x.id
      <4>1. rule.pending = x BY <3>4, Facts DEF OneEach
      <4>2. bindings[x.key] = None BY <3>4, <4>1 DEF IInv, Rows, RowHolds
      <4> QED BY <2>1, <3>2, <4>2 DEF Says
    <3> QED BY <3>3, <3>4
  <2>6. CASE Request
    <3>1. ASSUME NEW s \in Slots, NEW k \in Keys, NEW wanted, NEW expected,
                 Resume(s, k) \/ Prepare(s, k, wanted, expected)
          PROVE  UNCHANGED answers
      BY <3>1 DEF Resume, Prepare
    <3>2. ASSUME NEW s \in Slots, Append(s) \/ Abandon(s) PROVE UNCHANGED answers
      BY <3>2 DEF Append, Abandon
    <3> QED BY <2>2, <2>3, <2>4, <2>5, <2>6, <3>1, <3>2 DEF Request
  <2>7. CASE Cron \/ CronStops
    BY <2>2, <2>5, <2>7 DEF Cron, CronList, CronAppend, CronStops
  <2>8. CASE Tick \/ Observation \/ RemoveHistory
    BY <2>2, <2>8 DEF Tick, Observation, Receive, Project, ProjectDirectory, RemoveHistory
  <2>9. CASE Snapshot \/ Restore \/ Replay \/ SweepBegin \/ SweepEnd \/ ReplayStops
    BY <2>2, <2>9 DEF Snapshot, Restore, Replay, BeginReplay, ReplayTransition, CompleteReplay,
                      SweepBegin, SweepEnd, ReplayStops
  <2> QED BY <2>6, <2>7, <2>8, <2>9 DEF Next
<1>2. Spec => [][P]_vars BY <1>1, Invariance, KeysAreRetried, PTL DEF Spec
<1> QED BY <1>2 DEF SameAnswer
=============================================================================
