------------------------------ MODULE Directory ------------------------------
(***************************************************************************)
(* The projection of one WhatsApp Connection's contacts, or of its groups, *)
(* from two sources: webhook items, which arrive late, out of order or     *)
(* never, and snapshots that a schedule reads from the provider under a    *)
(* leased claim.                                                           *)
(*                                                                         *)
(* Time is kept as ages: 0 is now, Old stands for anything older than what *)
(* is still in flight and for NULL.  "x is no later than y" is x >= y.     *)
(* At most one thing is stamped with a time per moment.                    *)
(*                                                                         *)
(* The provider's state of an entry is the number of changes it has seen;  *)
(* `seq` in a row, an event or a read tells which state it was taken from  *)
(* and is no column of the database.                                       *)
(***************************************************************************)
EXTENDS Naturals, FiniteSets

CONSTANTS
  Kind,      \* "contacts" or "groups"
  Keys,      \* the entries of the provider's Directory
  Runs,      \* reconciliations that may be in flight
  NoRun,     \* no claim
  Old,       \* the age at which times are no longer told apart
  Lease,     \* moments a claim is leased for
  Every,     \* contacts: attempts are more than this apart
  Due,       \* groups: the age of asof at which a reconciliation is due
  MaxSeq,    \* bound: changes of an entry
  Failures,  \* bound: failed, partial and abandoned reads, lost events
  Drops,     \* bound: disconnections
  Prompt,    \* whether a read, bounded to 25 seconds, always ends within its lease
  Torn,      \* whether a read takes several pages, changes in between
  Senders,   \* whether messages of senders arrive
  Chatter    \* groups: whether events of other groups keep arriving

DirectoryAssumption ==
  /\ Kind \in {"contacts", "groups"}
  /\ NoRun \notin Runs
  /\ Old \in Nat /\ Lease \in 1..Old /\ Every \in 0..(Old - 1) /\ Due \in 1..Old
  /\ MaxSeq \in Nat /\ Failures \in Nat /\ Drops \in Nat
  /\ {Prompt, Torn, Senders, Chatter} \subseteq BOOLEAN

VARIABLES
  truth,     \* the provider's state of each entry
  row,       \* the projected rows
  proj,      \* the projection's own row: freshness, claim, lease, and asof: as_of for groups,
             \* snapshot_observed_at for contacts
  run,       \* the reconciliations in flight
  mail,      \* webhook items under way, sent or received
  connected, \* state = 'connected'
  fails, drops,
  moment,    \* something was already stamped in this moment
  newest     \* history: the newest change in any evidence that was applied or superseded

vars == <<truth, row, proj, run, mail, connected, fails, drops, moment, newest>>

Ages == 0..Old
Present(s) == s % 2 = 1     \* absent at first, then present, absent, present ...
Contacts == Kind = "contacts"

NoRow == [known |-> FALSE, active |-> FALSE, seq |-> 0, got |-> Old, occ |-> Old, snap |-> Old]
Idle == [at |-> "idle", seen |-> [k \in Keys |-> 0], left |-> Keys, obs |-> 0, leased |-> FALSE]

Init ==
  /\ truth = [k \in Keys |-> 0]
  /\ row = [k \in Keys |-> NoRow]
  /\ proj = [partial |-> TRUE, stale |-> TRUE, claim |-> NoRun, lease |-> 0, tried |-> Old, asof |-> Old]
  /\ run = [r \in Runs |-> Idle]
  /\ mail = {}
  /\ connected = TRUE
  /\ fails = 0 /\ drops = 0
  /\ moment = FALSE
  /\ newest = [k \in Keys |-> 0]

Reading(r) == run[r].at = "claimed" /\ proj.claim = r /\ proj.lease = 1
Stamp == ~moment /\ moment' = TRUE
StampBesideReads == Stamp /\ (Prompt => \A r \in Runs : ~Reading(r))
Fault == fails < Failures /\ fails' = fails + 1
Top(a, b) == IF a > b THEN a ELSE b
Low(a, b) == IF a < b THEN a ELSE b

-----------------------------------------------------------------------------
(* The provider and the path of its events. *)

Change(k) ==
  /\ truth[k] < MaxSeq /\ StampBesideReads
  /\ truth' = [truth EXCEPT ![k] = @ + 1]
  /\ mail' = mail \union {[k |-> k, seq |-> truth[k] + 1, sender |-> FALSE, occ |-> 0, got |-> Old]}
  /\ UNCHANGED <<row, proj, run, connected, fails, drops, newest>>

(* A message names its sender, who need not be in the provider's Directory. *)
Message(k) ==
  /\ Senders /\ Contacts /\ StampBesideReads
  /\ \A e \in mail : ~e.sender
  /\ mail' = mail \union {[k |-> k, seq |-> truth[k], sender |-> TRUE, occ |-> 0, got |-> Old]}
  /\ UNCHANGED <<truth, row, proj, run, connected, fails, drops, newest>>

Receive(e) ==
  /\ e.got = Old /\ StampBesideReads
  /\ mail' = (mail \ {e}) \union {[e EXCEPT !.got = 0]}
  /\ UNCHANGED <<truth, row, proj, run, connected, fails, drops, newest>>

Lose(e) ==
  /\ e.got = Old /\ Fault
  /\ mail' = mail \ {e}
  /\ UNCHANGED <<truth, row, proj, run, connected, drops, moment, newest>>

(* An item that was sent and not received in the time the model tells apart *)
(* is lost.                                                                 *)
Tick ==
  /\ \A e \in mail : e.got # Old => e.occ + 1 < Old
  /\ \A r \in Runs : run[r].at = "read" => run[r].obs + 1 < Old
  /\ Prompt => \A r \in Runs : ~Reading(r)
  /\ LET Aged(a) == Low(a + 1, Old) IN
     /\ row' = [k \in Keys |->
          [row[k] EXCEPT !.got = Aged(@), !.occ = Aged(@), !.snap = Aged(@)]]
     /\ proj' = [proj EXCEPT !.tried = Aged(@), !.asof = Aged(@),
                             !.lease = IF @ = 0 THEN 0 ELSE @ - 1]
     /\ run' = [r \in Runs |-> IF run[r].at = "read" THEN [run[r] EXCEPT !.obs = @ + 1] ELSE run[r]]
     /\ mail' = {[e EXCEPT !.occ = @ + 1, !.got = Aged(@)] : e \in {i \in mail : i.occ + 1 < Old}}
  /\ moment' = FALSE
  /\ UNCHANGED <<truth, connected, fails, drops, newest>>

Disconnect ==
  /\ connected /\ drops < Drops
  /\ connected' = FALSE
  /\ drops' = drops + 1
  /\ UNCHANGED <<truth, row, proj, run, mail, fails, moment, newest>>

Reconnect ==
  /\ ~connected
  /\ connected' = TRUE
  /\ UNCHANGED <<truth, row, proj, run, mail, fails, drops, moment, newest>>

-----------------------------------------------------------------------------
(* The projection of a webhook item. *)

(* A contact's item must have occurred after the row's snapshot, and after  *)
(* the evidence the row shows; a row without evidence yields to any item    *)
(* that has it.  All items of this model carry their time of occurrence.    *)
ShouldApply(e, w) == e.occ < w.snap /\ (w.occ = Old \/ e.occ < w.occ)

(* Mutant: a group's items are compared by arrival. *)
ShouldApplyGroupByArrival(e, w) == e.got < w.got

(* A group's item is compared with the version the row shows, and without   *)
(* one with the time the row was last observed.                             *)
ShouldApplyGroup(e, w) == IF w.occ # Old THEN e.occ < w.occ ELSE e.occ < w.got

Applies(e) ==
  \/ ~row[e.k].known
  \/ IF Contacts THEN ShouldApply(e, row[e.k]) ELSE ShouldApplyGroup(e, row[e.k])

(* Mutant: a sender's item writes over the row. *)
WrittenBySenders(e) ==
  [known |-> TRUE, active |-> e.sender \/ Present(e.seq), seq |-> e.seq,
   got |-> IF Contacts THEN e.got ELSE e.occ, occ |-> e.occ, snap |-> row[e.k].snap]

(* The row an item leaves; a sender's item only ever inserts. *)
Written(e) ==
  IF e.sender
    THEN IF row[e.k].known THEN row[e.k]
         ELSE [known |-> TRUE, active |-> TRUE, seq |-> e.seq, got |-> e.got, occ |-> e.occ, snap |-> Old]
    ELSE [known |-> TRUE, active |-> Present(e.seq), seq |-> e.seq,
          got |-> IF Contacts THEN e.got ELSE e.occ, occ |-> e.occ, snap |-> row[e.k].snap]

(* Applied or superseded, the item is done; one that applies also brings    *)
(* the projection forward, without making it complete.                      *)
Project(e) ==
  /\ e.got # Old
  /\ mail' = mail \ {e}
  /\ newest' = [newest EXCEPT ![e.k] = IF e.sender THEN @ ELSE Top(@, e.seq)]
  /\ IF Applies(e)
       THEN /\ row' = [row EXCEPT ![e.k] = Written(e)]
            /\ proj' = [proj EXCEPT !.asof = IF Contacts THEN @ ELSE Low(@, e.got)]
       ELSE UNCHANGED <<row, proj>>
  /\ UNCHANGED <<truth, run, connected, fails, drops, moment>>

(* An item of a group outside Keys moves only as_of. *)
ProjectOther ==
  /\ Chatter /\ ~Contacts /\ StampBesideReads
  /\ proj' = [proj EXCEPT !.asof = 0]
  /\ UNCHANGED <<truth, row, run, mail, connected, fails, drops, newest>>

-----------------------------------------------------------------------------
(* The schedule. *)

Unclaimed == proj.claim = NoRun \/ proj.lease = 0

DueAgain ==
  IF Contacts THEN proj.tried > Every
              ELSE proj.tried > 0 /\ proj.asof >= Due

Claim(r) ==
  /\ run[r].at = "idle"
  /\ connected /\ Unclaimed /\ DueAgain
  /\ proj' = [proj EXCEPT !.claim = r, !.lease = Lease, !.tried = 0]
  /\ run' = [run EXCEPT ![r].at = "claimed"]
  /\ UNCHANGED <<truth, row, mail, connected, fails, drops, moment, newest>>

(* A validated page; observedAt is the time of the last one.  A complete    *)
(* observation has read every entry the provider declared; one page may be  *)
(* all a read gets, and list none of Keys.                                  *)
Page(r, part) ==
  /\ \/ run[r].at = "claimed"
     \/ run[r].at = "read" /\ Torn
  /\ part \subseteq run[r].left
  /\ IF Torn \/ part = run[r].left THEN UNCHANGED fails ELSE Fault
  /\ Stamp
  /\ run' = [run EXCEPT ![r] =
       [at |-> "read", obs |-> 0, left |-> @.left \ part,
        seen |-> [k \in Keys |-> IF k \in part THEN truth[k] ELSE @.seen[k]],
        leased |-> proj.claim = r /\ proj.lease > 0]]
  /\ UNCHANGED <<truth, row, proj, mail, connected, drops, newest>>

Complete(r) == run[r].left = {}
Listed(r) == {k \in Keys \ run[r].left : Present(run[r].seen[k])}
Free(r) == run' = [run EXCEPT ![r] = Idle]

Released == [proj EXCEPT !.claim = NoRun, !.lease = 0]
FailedProjection == [Released EXCEPT !.stale = TRUE, !.partial = TRUE]

Failed(r) ==
  /\ proj' = IF proj.claim = r THEN FailedProjection ELSE proj
  /\ Free(r)

(* The provider cannot be read, or not a single page of it. *)
ReadFails(r) ==
  /\ run[r].at = "claimed" /\ Fault
  /\ Failed(r)
  /\ UNCHANGED <<truth, row, mail, connected, drops, moment, newest>>

(* The worker is gone, or the database cannot be reached: the claim stays   *)
(* until its lease is over.                                                 *)
Abandon(r) ==
  /\ run[r].at # "idle" /\ Fault
  /\ Free(r)
  /\ UNCHANGED <<truth, row, proj, mail, connected, drops, moment, newest>>

Snapshot(r, k) ==
  [known |-> TRUE, active |-> TRUE, seq |-> run[r].seen[k], got |-> run[r].obs,
   occ |-> Old, snap |-> run[r].obs]

Omitted(r, k) == [Snapshot(r, k) EXCEPT !.active = FALSE]

(* What a snapshot says of the entries it read; an entry it does not list   *)
(* and that has no row leaves no trace of having been looked for.           *)
Heard(r) ==
  [k \in Keys |-> IF k \in Listed(r) \/ (k \notin run[r].left /\ row[k].known)
                    THEN Top(newest[k], run[r].seen[k]) ELSE newest[k]]

(* Mutant: a partial observation removes what it does not list. *)
ContactRowsPartialRemoves(r) ==
  [k \in Keys |->
    LET w == row[k] obs == run[r].obs IN
    IF k \in Listed(r) /\ w.got >= obs THEN Snapshot(r, k)
    ELSE IF k \notin Listed(r) /\ w.active /\ w.got >= obs THEN [w EXCEPT !.active = FALSE]
    ELSE w]

(* Listed contacts replace rows received no later than the observation; the *)
(* snapshot time is set on every row it covers; a complete observation also *)
(* deactivates active rows it does not list.                                *)
ContactRows(r) ==
  [k \in Keys |->
    LET w == row[k] obs == run[r].obs IN
    IF k \in Listed(r) /\ w.got >= obs THEN Snapshot(r, k)
    ELSE IF k \notin Listed(r) /\ Complete(r) /\ w.active /\ w.got >= obs THEN Omitted(r, k)
    ELSE IF w.known /\ (Complete(r) \/ k \in Listed(r)) THEN [w EXCEPT !.snap = Low(@, obs)]
    ELSE w]

(* A snapshot older than the last one is dropped as a whole; claims make    *)
(* sure that there is none.                                                 *)
ContactSnapshotLate(r) == proj.asof < run[r].obs

(* One transaction of the claim's holder, if the observation was made under *)
(* its lease and the connection is still connected; refused, the            *)
(* reconciliation is recorded as failed.                                    *)
FinishContacts(r) ==
  /\ Contacts /\ run[r].at = "read"
  /\ IF ~(proj.claim = r /\ run[r].leased /\ connected)
       THEN Failed(r) /\ UNCHANGED <<row, newest>>
     ELSE IF ContactSnapshotLate(r)
       THEN proj' = Released /\ Free(r) /\ UNCHANGED <<row, newest>>
     ELSE /\ row' = ContactRows(r)
          /\ proj' = [Released EXCEPT !.stale = ~Complete(r), !.partial = ~Complete(r), !.asof = run[r].obs]
          /\ newest' = Heard(r)
          /\ Free(r)
  /\ IF Complete(r) \/ ~Torn THEN UNCHANGED fails ELSE Fault
  /\ UNCHANGED <<truth, mail, connected, drops, moment>>

GroupRows(r) ==
  [k \in Keys |->
    LET w == row[k] obs == run[r].obs IN
    IF k \in Listed(r) /\ (~w.known \/ w.got > obs) THEN [Snapshot(r, k) EXCEPT !.snap = Old]
    ELSE IF k \notin Listed(r) /\ Complete(r) /\ w.active /\ w.got > obs
      THEN [Omitted(r, k) EXCEPT !.snap = Old]
    ELSE w]

(* A snapshot that is no newer than as_of is dropped as a whole. *)
GroupSnapshotLate(r) == proj.asof <= run[r].obs

FinishGroups(r) ==
  /\ ~Contacts /\ run[r].at = "read"
  /\ IF proj.claim # r THEN UNCHANGED <<row, proj, newest>>
     ELSE IF GroupSnapshotLate(r) THEN proj' = Released /\ UNCHANGED <<row, newest>>
     ELSE /\ row' = GroupRows(r)
          /\ proj' = [Released EXCEPT !.stale = ~Complete(r), !.partial = ~Complete(r), !.asof = run[r].obs]
          /\ newest' = Heard(r)
  /\ Free(r)
  /\ IF Complete(r) \/ ~Torn THEN UNCHANGED fails ELSE Fault
  /\ UNCHANGED <<truth, mail, connected, drops, moment>>

-----------------------------------------------------------------------------
Step(r) ==
  \/ \E part \in SUBSET Keys : Page(r, part)
  \/ ReadFails(r)
  \/ Abandon(r)
  \/ FinishContacts(r)
  \/ FinishGroups(r)

Next ==
  \/ Tick
  \/ Disconnect
  \/ Reconnect
  \/ ProjectOther
  \/ \E k \in Keys : Change(k) \/ Message(k)
  \/ \E e \in mail : Receive(e) \/ Lose(e) \/ Project(e)
  \/ \E r \in Runs : Claim(r) \/ Step(r)

Spec == Init /\ [][Next]_vars

(* Time passes, the schedule claims what is due, what is claimed comes to   *)
(* an end, the queue delivers, and the phone comes back.                    *)
Fairness ==
  /\ WF_vars(Tick)
  /\ WF_vars(Reconnect)
  /\ WF_vars(\E r \in Runs : Claim(r))
  /\ \A r \in Runs : WF_vars(Step(r))
  /\ WF_vars(\E e \in mail : Receive(e))
  /\ WF_vars(\E e \in mail : Project(e))

FairSpec == Spec /\ Fairness

-----------------------------------------------------------------------------
(* What the Directory of contacts and the Directory of groups promise. *)

Rows == [known : BOOLEAN, active : BOOLEAN, seq : 0..MaxSeq, got : Ages, occ : Ages, snap : Ages]

(* A lease expires only while there is a claim. *)
ProjectionRow ==
  /\ proj \in [partial : BOOLEAN, stale : BOOLEAN, claim : Runs \union {NoRun},
               lease : 0..Lease, tried : Ages, asof : Ages]
  /\ proj.lease > 0 => proj.claim # NoRun

(* The shape of the state: whitelists of columns, ages within bounds, and   *)
(* a lease only while there is a claim.                                     *)
TypeOK ==
  /\ truth \in [Keys -> 0..MaxSeq]
  /\ row \in [Keys -> Rows]
  /\ ProjectionRow
  /\ \A r \in Runs : run[r].at \in {"idle", "claimed", "read"} /\ run[r].obs \in Ages
  /\ mail \subseteq [k : Keys, seq : 0..MaxSeq, sender : BOOLEAN, occ : Ages, got : Ages]
  /\ connected \in BOOLEAN /\ moment \in BOOLEAN
  /\ fails \in 0..Failures /\ drops \in 0..Drops
  /\ newest \in [Keys -> 0..MaxSeq]

(* Every row shows an entry as the provider once had it: an entry is never  *)
(* taken out of the Directory by an observation that did not establish its  *)
(* absence (runbooks/deployment.md: "a partial or failed observation never  *)
(* does").  Rows inserted for senders are set aside by Senders = FALSE.     *)
Truthful == \A k \in Keys : row[k].known => (row[k].active <=> Present(row[k].seq))

(* A row never goes back to an earlier state of the provider, in whatever   *)
(* order items and snapshots of overlapping reconciliations arrive.         *)
NoRegress == [][\A k \in Keys : row'[k].seq >= row[k].seq]_vars

(* A row shows the newest change among all the evidence that was handled,   *)
(* by item or by snapshot (adr/0017: "compare provider occurrence time or   *)
(* version before verified receive order").                                 *)
NewestWins == \A k \in Keys : newest[k] <= row[k].seq

(* A known contact that a sender's message did not introduce is never       *)
(* overwritten by one: senders only fill gaps, and the next snapshot that   *)
(* is complete takes a sender out who is not in the provider's Directory.   *)
SendersOnlyInsert ==
  [][\A k \in Keys : row[k].known /\ ~row[k].active /\ row'[k].active
       => Present(row'[k].seq)]_vars

(* Once the provider is still, every row comes to show it, although items   *)
(* were lost, reads failed and reconciliations were abandoned.              *)
Converges == <>[](\A k \in Keys :
  /\ row[k].seq = truth[k] \/ ~row[k].known
  /\ row[k].active = Present(truth[k]))

(* Whatever failed, the Directory is complete and fresh again at some time. *)
FreshAgain == (proj.stale \/ proj.partial) ~> (~proj.stale /\ ~proj.partial)
=============================================================================
