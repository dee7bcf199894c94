------------------------- MODULE RecipientExclusion -------------------------
(***************************************************************************)
(* The WhatsApp Recipient Exclusion of one recipient of one Connection     *)
(* (apps/api/src/recipient-exclusion.ts, the functions of migration 0006). *)
(* A change of the rule is prepared in Neon, appended to a journal in R2   *)
(* and finalized in Neon, in three steps of an API request (a slot) or of  *)
(* the */4 cron that takes up what a request left.  A restore puts back an *)
(* earlier database; the restore coordinator replays the journal over it,  *)
(* or records that it could not because the snapshot does not know the     *)
(* recipient, and then the API's hourly sweep replays it once the          *)
(* Directory projects the recipient again.                                 *)
(*                                                                         *)
(* Time is counted in the database's resolution; PerMs of its units are    *)
(* one millisecond, the resolution of the journal.  0 is NULL.             *)
(***************************************************************************)
EXTENDS Integers, FiniteSets

CONSTANTS Keys, Slots, Messages,   \* idempotency keys, API requests, messages
          None,
          PerMs,                   \* database time units in a millisecond
          Retention,               \* the 90 days of a binding
          MaxTime, MaxTransitions, MaxFaults, MaxRestores  \* bounds

ASSUME ExclusionAssumption ==
  /\ PerMs \in Nat \ {0} /\ Retention \in Nat /\ MaxTime \in Nat
  /\ PerMs <= MaxTime
  /\ MaxTransitions \in Nat /\ MaxFaults \in Nat /\ MaxRestores \in Nat

VARIABLES now,        \* the database clock
          rule,       \* the row of whatsapp_recipient_exclusions
          bindings,   \* the rows of whatsapp_recipient_exclusion_bindings
          directory,  \* the Directory has projected the recipient
          messages,   \* its messages, with the transaction time of their rows
          journal,    \* the R2 objects of the recipient's prefix
          slot,       \* the API requests
          cron,       \* the transition the */4 invocation is completing
          ids,        \* transitions prepared so far
          serving,    \* the restore gate is open
          replay,     \* what is replaying the journal
          todo,       \* the transitions it has still to replay
          unresolved, \* the prefix is recorded as unresolved
          backup,     \* the database at the restore point
          answers,    \* history: every 200 answer
          faults, restores

database == <<rule, bindings, directory, messages>>
gate == <<serving, replay, todo, unresolved, backup, restores>>
vars == <<now, database, journal, slot, cron, ids, gate, answers, faults>>

Ms(t) == t - (t % PerMs)
Later(a, b) == IF a >= b THEN a ELSE b

NoRule == [present |-> FALSE, excluded |-> FALSE, effective |-> 0,
           cutoff |-> 0, last |-> 0, pending |-> None]
Idle == [phase |-> "idle", of |-> None]

Init ==
  /\ now = PerMs
  /\ rule = NoRule
  /\ bindings = [k \in Keys |-> None]
  /\ directory \in BOOLEAN
  /\ messages = [m \in Messages |-> [state |-> "none", received |-> 0, created |-> 0]]
  /\ journal = {}
  /\ slot = [s \in Slots |-> Idle]
  /\ cron = Idle
  /\ ids = 0
  /\ serving = TRUE /\ replay = "off" /\ todo = {} /\ unresolved = FALSE
  /\ backup = None
  /\ answers = {}
  /\ faults = 0 /\ restores = 0

Fault == faults < MaxFaults /\ faults' = faults + 1

Tick == /\ now < MaxTime
        /\ now' = now + 1
        /\ UNCHANGED <<database, journal, slot, cron, ids, gate, answers, faults>>

-----------------------------------------------------------------------------
(* Messages of the recipient and the Directory.                            *)

SuppressedWhileExcluded(at) == rule.present /\ rule.excluded

Suppressed(at) == rule.present /\ (rule.excluded \/ at <= rule.effective)

Receive(m) ==
  /\ messages[m].state = "none"
  /\ messages' = [messages EXCEPT ![m] = [@ EXCEPT !.state = "received", !.received = now]]
  /\ UNCHANGED <<now, rule, bindings, directory, journal, slot, cron, ids, gate, answers, faults>>

(* The projection's transaction began at b and holds the Connection lock.  *)
Project(m, b) ==
  /\ serving /\ messages[m].state = "received"
  /\ b \in messages[m].received..now
  /\ messages' = [messages EXCEPT ![m] =
       IF Suppressed(@.received) THEN [@ EXCEPT !.state = "suppressed"]
       ELSE [@ EXCEPT !.state = "readable", !.created = b]]
  /\ UNCHANGED <<now, rule, bindings, directory, journal, slot, cron, ids, gate, answers, faults>>

ProjectDirectory ==
  /\ serving /\ ~directory
  /\ directory' = TRUE
  /\ UNCHANGED <<now, rule, bindings, messages, journal, slot, cron, ids, gate, answers, faults>>

PurgedBefore(ms, cutoff) ==
  [m \in Messages |-> IF ms[m].state = "readable" /\ ms[m].created < cutoff
                      THEN [ms[m] EXCEPT !.state = "purged"] ELSE ms[m]]

(* apply_whatsapp_recipient_exclusion_purge *)
Purged(ms, cutoff) ==
  [m \in Messages |-> IF ms[m].state = "readable" /\ ms[m].created <= cutoff
                      THEN [ms[m] EXCEPT !.state = "purged"] ELSE ms[m]]

(* purge_excluded_recipient_history, every hour *)
RemoveHistory ==
  /\ serving
  /\ messages' = [m \in Messages |->
       IF messages[m].state = "purged" /\ rule.cutoff # 0
          /\ messages[m].created <= rule.cutoff
       THEN [messages[m] EXCEPT !.state = "removed"] ELSE messages[m]]
  /\ bindings' = [k \in Keys |-> IF bindings[k] # None /\ bindings[k].expires <= now
                                 THEN None ELSE bindings[k]]
  /\ UNCHANGED <<now, rule, directory, journal, slot, cron, ids, gate, answers, faults>>

-----------------------------------------------------------------------------
(* Prepare: the outcomes of prepare_whatsapp_recipient_exclusion.  A       *)
(* conflict changes nothing and answers 409.                               *)

(* id and until are 0 when the answer is not that of a bound transition.    *)
Answer(k, id, until, state) ==
  answers' = answers \union
    {[key |-> k, id |-> id, excluded |-> state.excluded, effective |-> state.effective,
      cutoff |-> state.cutoff, until |-> until, epoch |-> restores]}

Until(binding) == IF binding = None THEN 0 ELSE binding.expires

Ready(s) == serving /\ directory /\ slot[s].phase = "idle"

Replayed(s, k) ==
  /\ Ready(s) /\ bindings[k] # None
  /\ Answer(k, bindings[k].id, Until(bindings[k]), bindings[k])
  /\ UNCHANGED <<now, database, journal, slot, cron, ids, gate, faults>>

Resume(s, k) ==
  /\ Ready(s) /\ bindings[k] = None
  /\ rule.pending # None /\ rule.pending.key = k
  /\ slot' = [slot EXCEPT ![s] = [phase |-> "prepared", of |-> rule.pending]]
  /\ UNCHANGED <<now, database, journal, cron, ids, gate, answers, faults>>

UnboundAgain(s, k, expected) ==
  Ready(s) /\ rule.pending = None /\ rule.excluded = expected

Unbound(s, k, expected) ==
  /\ Ready(s) /\ bindings[k] = None /\ rule.pending = None
  /\ rule.excluded = expected

Unchanged(s, k, wanted, expected) ==
  /\ Unbound(s, k, expected) /\ rule.excluded = wanted
  /\ Answer(k, 0, 0, rule)
  /\ UNCHANGED <<now, database, journal, slot, cron, ids, gate, faults>>

Prepared(k, wanted) ==
  [id |-> ids + 1, key |-> k, excluded |-> wanted, effective |-> now,
   cutoff |-> IF wanted THEN Later(rule.cutoff, now) ELSE rule.cutoff]

(* Between two transitions lies the append of the first, or the restore    *)
(* that undid it; either takes longer than a millisecond.                  *)
Earlier(t) == Ms(t.effective) < Ms(now)

Apart ==
  /\ \A t \in journal : Earlier(t)
  /\ \A w \in {slot[s] : s \in Slots} \union {cron} : w.phase # "idle" => Earlier(w.of)
  /\ backup # None /\ backup.rule.pending # None => Earlier(backup.rule.pending)

Prepare(s, k, wanted, expected) ==
  /\ Unbound(s, k, expected) /\ rule.excluded # wanted /\ Apart
  /\ ids < MaxTransitions /\ ids' = ids + 1
  /\ LET t == Prepared(k, wanted)
     IN /\ rule' = [rule EXCEPT !.present = TRUE, !.pending = t]
        /\ slot' = [slot EXCEPT ![s] = [phase |-> "prepared", of |-> t]]
  /\ UNCHANGED <<now, bindings, directory, messages, journal, cron, gate, answers, faults>>

-----------------------------------------------------------------------------
(* Append and finalize, by a request or by the cron.                       *)

(* The object carries toISOString, so whole milliseconds.                  *)
Object(t) == [id |-> t.id, excluded |-> t.excluded, effective |-> Ms(t.effective),
              cutoff |-> Ms(t.cutoff)]

Appended(worker) == [worker EXCEPT !.phase = "appended"]

Append(s) ==
  /\ slot[s].phase = "prepared"
  /\ journal' = journal \union {Object(slot[s].of)}
  /\ slot' = [slot EXCEPT ![s] = Appended(@)]
  /\ UNCHANGED <<now, database, cron, ids, gate, answers, faults>>

Applied(t) ==
  [rule EXCEPT !.excluded = t.excluded, !.effective = t.effective,
     !.cutoff = Later(rule.cutoff, t.cutoff), !.last = t.id, !.pending = None]

Binding(t) == [id |-> t.id, excluded |-> t.excluded, effective |-> t.effective,
               cutoff |-> Later(rule.cutoff, t.cutoff), expires |-> now + Retention]

(* finalize_whatsapp_recipient_exclusion *)
FinalizeRow(id) ==
  IF rule.pending # None /\ rule.pending.id = id
  THEN LET t == rule.pending
       IN /\ rule' = Applied(t)
          /\ bindings' = [bindings EXCEPT ![t.key] = IF @ = None THEN Binding(t) ELSE @]
          /\ messages' = IF t.excluded THEN Purged(messages, rule'.cutoff) ELSE messages
          /\ UNCHANGED directory
  ELSE UNCHANGED database

FinalizeFirst(s) ==
  /\ serving /\ slot[s].phase # "idle"
  /\ FinalizeRow(slot[s].of.id)
  /\ LET t == slot[s].of
     IN IF rule'.last = t.id THEN Answer(t.key, t.id, Until(bindings'[t.key]), rule')
        ELSE UNCHANGED answers
  /\ slot' = [slot EXCEPT ![s] = Idle]
  /\ UNCHANGED <<now, journal, cron, ids, gate, faults>>

Finalize(s) ==
  /\ serving /\ slot[s].phase = "appended"
  /\ FinalizeRow(slot[s].of.id)
  /\ LET t == slot[s].of
     IN IF rule'.last = t.id THEN Answer(t.key, t.id, Until(bindings'[t.key]), rule')
        ELSE UNCHANGED answers
  /\ slot' = [slot EXCEPT ![s] = Idle]
  /\ UNCHANGED <<now, journal, cron, ids, gate, faults>>

(* The request stops: R2 or Neon fails, or the Worker is gone.             *)
Abandon(s) ==
  /\ slot[s].phase # "idle" /\ Fault
  /\ slot' = [slot EXCEPT ![s] = Idle]
  /\ UNCHANGED <<now, database, journal, cron, ids, gate, answers>>

CronListFirst ==
  /\ serving /\ cron.phase = "idle" /\ rule.pending # None /\ rule.last = 0
  /\ cron' = [phase |-> "prepared", of |-> rule.pending]
  /\ UNCHANGED <<now, database, journal, slot, ids, gate, answers, faults>>

(* recoverPreparedRecipientTransitions *)
CronList ==
  /\ serving /\ cron.phase = "idle" /\ rule.pending # None
  /\ cron' = [phase |-> "prepared", of |-> rule.pending]
  /\ UNCHANGED <<now, database, journal, slot, ids, gate, answers, faults>>

CronAppend ==
  /\ cron.phase = "prepared"
  /\ journal' = journal \union {Object(cron.of)}
  /\ cron' = Appended(cron)
  /\ UNCHANGED <<now, database, slot, ids, gate, answers, faults>>

CronFinalize ==
  /\ serving /\ cron.phase = "appended"
  /\ FinalizeRow(cron.of.id)
  /\ cron' = Idle
  /\ UNCHANGED <<now, journal, slot, ids, gate, answers, faults>>

CronStops ==
  /\ cron.phase # "idle" /\ Fault
  /\ cron' = Idle
  /\ UNCHANGED <<now, database, journal, slot, ids, gate, answers>>

-----------------------------------------------------------------------------
(* A restore and the replay of the journal.                                *)

Snapshot ==
  /\ backup = None /\ serving /\ MaxRestores > 0
  /\ backup' = [rule |-> rule, bindings |-> bindings, directory |-> directory,
                messages |-> messages]
  /\ UNCHANGED <<now, database, journal, slot, cron, ids, serving, replay, todo,
                 unresolved, answers, faults, restores>>

(* Requests under way survive in the Worker; the cron's invocation is over. *)
Restore ==
  /\ backup # None /\ serving /\ restores < MaxRestores
  /\ rule' = backup.rule /\ bindings' = backup.bindings
  /\ directory' = backup.directory /\ messages' = backup.messages
  /\ serving' = FALSE /\ replay' = "begin" /\ todo' = {}
  /\ unresolved' = FALSE
  /\ restores' = restores + 1
  /\ cron' = Idle
  /\ UNCHANGED <<now, journal, slot, ids, backup, answers, faults>>

(* list_restore_recipient_identities: the Directory, the rules and the     *)
(* conversations of the snapshot.                                          *)
Identified ==
  \/ directory \/ rule.present
  \/ \E m \in Messages : messages[m].state \in {"readable", "purged"}

BeginReplayForgets ==
  /\ replay = "begin"
  /\ replay' = "restore"
  /\ todo' = IF Identified THEN journal ELSE {}
  /\ unresolved' = FALSE
  /\ UNCHANGED <<now, database, journal, slot, cron, ids, serving, backup, answers, faults, restores>>

BeginReplay ==
  /\ replay = "begin"
  /\ replay' = "restore"
  /\ todo' = IF Identified THEN journal ELSE {}
  /\ unresolved' = (~Identified /\ journal # {})
  /\ UNCHANGED <<now, database, journal, slot, cron, ids, serving, backup, answers, faults, restores>>

Oldest(ts) == CHOOSE t \in ts : \A u \in ts :
                t.effective < u.effective \/ (t.effective = u.effective /\ t.id <= u.id)

(* replay_whatsapp_recipient_exclusion *)
Overlaid(t) ==
  LET newer == ~rule.present \/ rule.effective = 0 \/ rule.effective <= t.effective
  IN [present |-> TRUE,
      excluded |-> IF newer THEN t.excluded ELSE rule.excluded,
      effective |-> Later(rule.effective, t.effective),
      cutoff |-> Later(rule.cutoff, t.cutoff),
      last |-> IF newer THEN t.id ELSE rule.last,
      pending |-> None]

ReplayTransition ==
  /\ replay \in {"restore", "sweep"} /\ todo # {}
  /\ rule' = Overlaid(Oldest(todo))
  /\ messages' = Purged(messages, rule'.cutoff)
  /\ todo' = todo \ {Oldest(todo)}
  /\ UNCHANGED <<now, bindings, directory, journal, slot, cron, ids, serving, replay,
                 unresolved, backup, answers, faults, restores>>

(* complete_restore_replay raises while a transition is prepared, and the  *)
(* coordinator's next minute begins again.                                 *)
CompleteReplay ==
  /\ replay = "restore" /\ todo = {}
  /\ serving' = (rule.pending = None)
  /\ replay' = IF rule.pending = None THEN "off" ELSE "begin"
  /\ UNCHANGED <<now, database, journal, slot, cron, ids, todo, unresolved, backup,
                 answers, faults, restores>>

(* recoverJournaledRecipientExclusions: only a recipient without a row in  *)
(* the rules is a candidate.                                               *)
Candidate == directory /\ ~rule.present

SweepBegin ==
  /\ serving /\ replay = "off" /\ unresolved /\ Candidate
  /\ replay' = "sweep" /\ todo' = journal
  /\ UNCHANGED <<now, database, journal, slot, cron, ids, serving, unresolved, backup,
                 answers, faults, restores>>

SweepEnd ==
  /\ replay = "sweep" /\ todo = {}
  /\ replay' = "off" /\ unresolved' = FALSE
  /\ UNCHANGED <<now, database, journal, slot, cron, ids, serving, todo, backup,
                 answers, faults, restores>>

ReplayStops ==
  /\ replay \in {"restore", "sweep"} /\ Fault
  /\ replay' = IF replay = "restore" THEN "begin" ELSE "off"
  /\ todo' = {}
  /\ UNCHANGED <<now, database, journal, slot, cron, ids, serving, unresolved, backup,
                 answers, restores>>

-----------------------------------------------------------------------------
Request ==
  \E s \in Slots :
    \/ \E k \in Keys :
         \/ Replayed(s, k) \/ Resume(s, k)
         \/ \E wanted, expected \in BOOLEAN :
              Unchanged(s, k, wanted, expected) \/ Prepare(s, k, wanted, expected)
    \/ Append(s) \/ Finalize(s) \/ Abandon(s)

Observation ==
  \/ \E m \in Messages : Receive(m) \/ \E b \in 0..MaxTime : Project(m, b)
  \/ ProjectDirectory

Cron == CronList \/ CronAppend \/ CronFinalize
Replay == BeginReplay \/ ReplayTransition \/ CompleteReplay
Sweep == SweepBegin \/ (replay = "sweep" /\ ReplayTransition) \/ SweepEnd

Next ==
  \/ Tick \/ Request \/ Observation \/ RemoveHistory
  \/ Cron \/ CronStops
  \/ Snapshot \/ Restore \/ Replay \/ SweepBegin \/ SweepEnd \/ ReplayStops

Spec == Init /\ [][Next]_vars

(* The crons and the coordinator's schedule run again and again.           *)
Fairness == WF_vars(Cron) /\ WF_vars(Replay) /\ WF_vars(Sweep)

FairSpec == Spec /\ Fairness

-----------------------------------------------------------------------------
(* What a WhatsApp Recipient Exclusion promises.                           *)

Times == 0..MaxTime
Ids == 0..MaxTransitions
Transitions == [id : Ids, key : Keys, excluded : BOOLEAN, effective : Times, cutoff : Times]
Rules == [present : BOOLEAN, excluded : BOOLEAN, effective : Times, cutoff : Times,
          last : Ids, pending : Transitions \union {None}]

(* The CHECKs of the table on the row: an exclusion has an effective time   *)
(* and a purge cutoff that is not later, and a finalized rule has no more   *)
(* recent transition pending under a key that is already bound.            *)
TypeOK ==
  /\ now \in Times /\ rule \in Rules /\ directory \in BOOLEAN
  /\ \A k \in Keys : bindings[k] = None \/ bindings[k].effective \in Times
  /\ \A m \in Messages : messages[m].state \in
       {"none", "received", "suppressed", "readable", "purged", "removed"}
  /\ rule.excluded => rule.effective # 0 /\ rule.cutoff # 0
  /\ rule.cutoff <= rule.effective
  /\ rule.pending # None =>
       /\ rule.present /\ bindings[rule.pending.key] = None
       /\ rule.pending.effective >= rule.effective

(* An answer that says excluded has its evidence in the journal            *)
(* ("already have their durable journal evidence").                        *)
AnswerIsJournaled ==
  \A a \in answers : a.excluded =>
    \E t \in journal : t.excluded /\ t.effective = Ms(a.effective) /\ t.cutoff = Ms(a.cutoff)

(* What was acknowledged is what is enforced, whatever was restored since: *)
(* the rule in force is not older than any acknowledged one, and no cutoff *)
(* was lowered.                                                            *)
AcknowledgedInForce ==
  serving /\ ~unresolved =>
    \A a \in answers :
      /\ rule.effective >= Ms(a.effective)
      /\ rule.cutoff >= Ms(a.cutoff)
      /\ (a.excluded /\ ~rule.excluded) => rule.effective > a.effective

(* A message that an acknowledged purge covered, to the millisecond, is    *)
(* not readable, in the original database or in a restored one.            *)
PurgeCoversRestore ==
  serving /\ ~unresolved =>
    \A a \in answers, m \in Messages :
      messages[m].state = "readable" => messages[m].created > Ms(a.cutoff)

(* A message received while the rule in force excluded, or before the      *)
(* change that re-enabled the recipient, is never stored readable.         *)
NothingFromBefore ==
  [][\A m \in Messages :
       messages[m].state = "received" /\ messages'[m].state = "readable" =>
         /\ ~rule.excluded
         /\ \A t \in journal : t.id = rule.last => messages[m].received > t.effective]_vars

(* Within the retention of its binding and one database, a key whose change *)
(* was acknowledged is answered as it was: a retry after a lost reply does  *)
(* not collide with its own effect, and changes nothing again.             *)
SameAnswer ==
  [][\A a \in answers, b \in answers' \ answers :
       a.key = b.key /\ a.epoch = b.epoch /\ a.id # 0 /\ now < a.until
         => b.id = a.id /\ b.excluded = a.excluded /\ b.cutoff = a.cutoff]_vars

(* A prepared change is finalized although requests stop and R2 fails.     *)
PreparedSettles == rule.pending # None ~> rule.pending = None

(* A restore opens the gate again, unless it restored a prepared change    *)
(* that the journal never received.                                        *)
Orphan == rule.pending # None /\ ~\E t \in journal : t.id = rule.pending.id
RestoreCompletes == ~serving ~> (serving \/ Orphan)

(* CONTEXT.md: "Setting one purges the recipient's existing Message Store   *)
(* history".                                                               *)
ExclusionPurgesHistory ==
  [][\A m \in Messages : ~rule.excluded /\ rule'.excluded => messages'[m].state # "readable"]_vars

(* CONTEXT.md: "a permanent purge cutoff that survives a database restore  *)
(* ... and never restores purged history".                                 *)
PurgedStaysPurged ==
  serving /\ ~unresolved =>
    \A a \in answers, m \in Messages :
      messages[m].state = "readable" => messages[m].created > a.cutoff

(* ADR 0028: "the API reapplies those transitions when the WhatsApp         *)
(* Directory projects the recipient again".                                *)
InForce == \A a \in answers : rule.effective >= Ms(a.effective)
JournalReapplied == (serving /\ directory /\ unresolved) ~> InForce
=============================================================================
