--------------------------- MODULE StoredMessages ---------------------------
(***************************************************************************)
(* The Stored Messages of one WhatsApp Connection: the provider items that *)
(* write them, in whatever order their webhook events are processed, the   *)
(* Message Retention Policy that expires them, and the backfill that       *)
(* installs the search index of messages older than the index.             *)
(*                                                                         *)
(* packages/db/src/webhook-event.ts (the projections), message-search.ts,  *)
(* the retention functions of 0000_baseline.sql, the row triggers, and     *)
(* apps/api/src/message-retention.ts.                                      *)
(***************************************************************************)
EXTENDS Integers, FiniteSets

CONSTANTS
  N,          \* messages; message m was sent at time m
  Items,      \* the provider items, one record each (see ItemsAssumption)
  Old,        \* messages stored before the search index existed
  Policies,   \* retention periods a User may choose, besides Forever
  Workers,    \* cron invocations that backfill, which may overlap
  Tabs,       \* browser tabs that edit the retention policy
  BatchLimit, \* messages a backfill batch holds (100)
  MaxTime     \* horizon of the clock: a bound, not in the code

Messages == 1..N
None == "none"
Forever == 1000
NoPolicy == -1

\* occ is the provider's occurrence time, 0 when it gives none; recv is when
\* ingress received the item, event the identity of its Webhook Event. The item
\* identity the normalizer makes admits one upsert and one deletion a message.
ItemsAssumption ==
  /\ N \in Nat /\ Old \subseteq Messages /\ BatchLimit \in Nat \ {0} /\ MaxTime \in Nat
  /\ Policies \subseteq Nat \ {0}
  /\ \A i \in Items : /\ i.kind \in {"evidence", "upsert", "edit", "delete"}
                      /\ i.msg \in Messages /\ i.text # None
                      /\ i.occ \in Nat /\ i.recv \in Nat \ {0} /\ i.event \in Nat
  /\ \A i, j \in Items : (i.kind = j.kind /\ i.msg = j.msg /\ i.kind \in {"upsert", "delete"})
                           => i = j

VARIABLES
  now,       \* the clock
  row,       \* stored_messages
  pending,   \* messages whose Pending Send Content is retained
  claimed,   \* webhook_items: the items processed, with whatever outcome
  days,      \* whatsapp_connections.message_retention_days
  tab,       \* the policy a browser tab has read, or NoPolicy
  key,       \* the connection has its message-search key
  coverage,  \* message_search_backfill_coverage: [state, cursor]
  batch,     \* what a backfill worker loaded and has not committed
  applied    \* for the properties: the items whose outcome was "applied"

vars == <<now, row, pending, claimed, days, tab, key, coverage, batch, applied>>

Rows == [state : {"absent", "live", "deleted"}, expired : BOOLEAN,
         text : {i.text : i \in Items} \cup {None, "old"},
         tokens : {i.text : i \in Items} \cup {None, "old"},
         edited : Nat, occ : Nat, recv : Nat, event : Nat]

Absent == [state |-> "absent", expired |-> FALSE, text |-> None, tokens |-> None,
           edited |-> 0, occ |-> 0, recv |-> 0, event |-> 0]

NoBatch == [loaded |-> FALSE, items |-> {}]
FirstCursor == N + 1

Init ==
  /\ now = 0
  /\ row = [m \in Messages |-> IF m \in Old
              THEN [Absent EXCEPT !.state = "live", !.text = "old", !.occ = m, !.recv = m]
              ELSE Absent]
  /\ pending = {i.msg : i \in {j \in Items : j.kind = "evidence"}}
  /\ claimed = {} /\ applied = {}
  /\ days \in Policies \cup {Forever}
  /\ tab = [t \in Tabs |-> NoPolicy]
  /\ key = (Old = {})
  /\ coverage = [state |-> IF Old = {} THEN "complete" ELSE "pending", cursor |-> FirstCursor]
  /\ batch = [w \in Workers |-> NoBatch]

Live(r) == r.state = "live" /\ ~r.expired

(***************************************************************************)
(* The trigger preserve_expired_message_content_state on every update.     *)
(***************************************************************************)
PreserveNothing(r) == r

Preserve(r) ==
  [r EXCEPT !.text = IF r.expired THEN None ELSE r.text,
            !.tokens = IF r.expired \/ r.state = "deleted" THEN None ELSE r.tokens]

(***************************************************************************)
(* shouldApply: the item is later evidence than what the row records.      *)
(***************************************************************************)
ShouldApply(i, r) ==
  IF i.occ # 0 /\ r.occ # 0 /\ i.occ # r.occ THEN i.occ > r.occ
  ELSE IF (i.occ # 0) # (r.occ # 0) THEN i.occ # 0
  ELSE i.recv > r.recv \/ (i.recv = r.recv /\ i.event > r.event)

\* editedAt: the occurrence time, or the time of receipt when there is none.
EditedAt(i) == IF i.occ # 0 THEN i.occ ELSE i.recv

Evidence(r, i) == [r EXCEPT !.occ = i.occ, !.recv = i.recv, !.event = i.event]

UpsertSupersededByLaterOnly(i, r) ==
  r.state # "absent" /\ r.occ # 0 /\ i.occ # 0 /\ i.occ < r.occ

\* The guards that supersede an upsert of a message that already has a row.
UpsertSuperseded(i, r) ==
  /\ r.state # "absent"
  /\ \/ r.state = "deleted"
     \/ r.edited # 0 /\ (i.occ = 0 \/ i.occ <= r.edited)
     \/ r.occ # 0 /\ i.occ # 0 /\ i.occ < r.occ

(***************************************************************************)
(* The items. Each is one transaction under the lock of the connection row *)
(* that first claims the item; a claimed item is a duplicate.              *)
(***************************************************************************)
Claim(i) == i \notin claimed /\ key /\ claimed' = claimed \cup {i}

Apply(i, r) ==
  /\ row' = [row EXCEPT ![i.msg] = r]
  /\ applied' = applied \cup {i}

Supersede == UNCHANGED <<row, applied, pending>>

\* What the consumer prepares of each kind of item, ciphertext and search tokens
\* alike, before its transaction begins. The tokens of an upsert are written by the
\* insert only.
Upserted(i, r) ==
  [r EXCEPT !.state = "live", !.text = i.text,
            !.tokens = IF r.state = "absent" THEN i.text ELSE r.tokens]
Edited(i, r) == [r EXCEPT !.text = i.text, !.tokens = i.text, !.edited = EditedAt(i)]
Deleted(i, r) == [r EXCEPT !.state = "deleted", !.text = None, !.tokens = None]
Established(i) == [Absent EXCEPT !.state = "live", !.text = i.text, !.tokens = i.text,
                                 !.recv = i.recv]

\* An update of an existing message replaces content and evidence.
ProjectStoredMessage(i) ==
  LET r == row[i.msg]
  IN /\ i.kind = "upsert" /\ Claim(i)
     /\ IF UpsertSuperseded(i, r) THEN Supersede
        ELSE /\ Apply(i, Preserve(Evidence(Upserted(i, r), i)))
             /\ pending' = pending \ {i.msg}
     /\ UNCHANGED <<now, days, tab, key, coverage, batch>>

\* The edit of an unknown or deleted message is superseded, and claimed for good.
EditSuperseded(i, r) ==
  r.state # "live" \/ ~ShouldApply(i, r) \/ EditedAt(i) < r.edited

ProjectStoredMessageEdit(i) ==
  LET r == row[i.msg]
  IN /\ i.kind = "edit" /\ Claim(i)
     /\ IF EditSuperseded(i, r) THEN Supersede
        ELSE /\ Apply(i, Preserve(Evidence(Edited(i, r), i)))
             /\ UNCHANGED pending
     /\ UNCHANGED <<now, days, tab, key, coverage, batch>>

\* A deletion wins over whatever the row holds, and leaves a tombstone when there
\* is no row.
ProjectStoredMessageDeletion(i) ==
  LET r == row[i.msg]
  IN /\ i.kind = "delete" /\ Claim(i)
     /\ Apply(i, Preserve(Evidence(Deleted(i, r), i)))
     /\ UNCHANGED <<now, pending, days, tab, key, coverage, batch>>

\* Sent-or-stronger evidence of a text send, while its content is retained, stores
\* the message if nothing did before.
ProjectSendEvidence(i) ==
  LET r == row[i.msg]
  IN /\ i.kind = "evidence" /\ Claim(i)
     /\ IF i.msg \in pending
        THEN /\ IF r.state = "absent" THEN Apply(i, Established(i))
                ELSE UNCHANGED <<row, applied>>
             /\ pending' = pending \ {i.msg}
        ELSE Supersede
     /\ UNCHANGED <<now, days, tab, key, coverage, batch>>

(***************************************************************************)
(* Message retention.                                                      *)
(***************************************************************************)
Tick ==
  /\ now < MaxTime /\ now' = now + 1
  /\ UNCHANGED <<row, pending, claimed, days, tab, key, coverage, batch, applied>>

Due(m) == days # Forever /\ m + days <= now

\* purge_expired_message_content on the hourly cron; the clauses that delete Pending
\* Send Content take the message's own time for the operation's.
PurgeExpiredMessageContent ==
  /\ pending' = {m \in pending : ~Due(m)}
  /\ row' = [m \in Messages |->
       IF row[m].state = "live" /\ ~row[m].expired /\ Due(m)
       THEN Preserve([row[m] EXCEPT !.text = None, !.tokens = None, !.expired = TRUE])
       ELSE row[m]]
  /\ UNCHANGED <<now, claimed, days, tab, key, coverage, batch, applied>>

\* GET retention-policy: a tab shows the policy.
GetPolicy(t) ==
  /\ tab' = [tab EXCEPT ![t] = days]
  /\ UNCHANGED <<now, row, pending, claimed, days, key, coverage, batch, applied>>

\* A request that lengthens what the tab showed needs an acknowledgement.
Broadens(from, to) == to > from

ExpectedUnchecked(expected) == TRUE
Expected(expected) == days = expected

\* PUT retention-policy: update_message_retention_policy compares with the policy
\* the tab had read; a conflict or an unacknowledged extension changes nothing.
UpdatePolicy(t, to, acknowledged) ==
  /\ tab[t] # NoPolicy
  /\ Broadens(tab[t], to) => acknowledged
  /\ Expected(tab[t])
  /\ days' = to
  /\ tab' = [tab EXCEPT ![t] = to]
  /\ UNCHANGED <<now, row, pending, claimed, key, coverage, batch, applied>>

(***************************************************************************)
(* The search backfill: install the key, load a batch, index it outside    *)
(* the database, commit it.                                                *)
(***************************************************************************)
InstallKey ==
  /\ ~key /\ key' = TRUE
  /\ coverage' = [state |-> "pending", cursor |-> FirstCursor]
  /\ UNCHANGED <<now, row, pending, claimed, days, tab, batch, applied>>

Unindexed(r, below) == {m \in Messages : Live(r[m]) /\ r[m].tokens = None /\ m < below}

\* The newest BatchLimit of them.
Newest(S) == {m \in S : Cardinality({n \in S : n > m}) < BatchLimit}

LoadCandidates(w) ==
  /\ key /\ coverage.state = "pending" /\ batch[w] = NoBatch
  /\ batch' = [batch EXCEPT ![w] = [loaded |-> TRUE,
        items |-> {[msg |-> m, text |-> row[m].text] :
                     m \in Newest(Unindexed(row, coverage.cursor))}]]
  /\ UNCHANGED <<now, row, pending, claimed, days, tab, key, coverage, applied>>

\* The update of a candidate matches only while it is live and has no index.
Unchanged(c) == Live(row[c.msg]) /\ row[c.msg].tokens = None

Indexed(cs) ==
  [m \in Messages |->
     IF \E c \in cs : c.msg = m
     THEN [row[m] EXCEPT !.tokens = (CHOOSE c \in cs : c.msg = m).text]
     ELSE row[m]]

\* Where a batch leaves the cursor: at its oldest message, at the start if empty.
Last(cs) ==
  IF cs = {} THEN FirstCursor
  ELSE CHOOSE m \in {c.msg : c \in cs} : \A c \in cs : m <= c.msg

CompleteEarly(r, below) == TRUE
Complete(r, below) == Unindexed(r, below) = {}

Progress(complete, at) ==
  [state |-> IF complete THEN "complete" ELSE "pending",
   cursor |-> IF complete THEN FirstCursor ELSE at]

\* commitBatch: all of it, or nothing when a candidate changed or another worker
\* completed the backfill; the next cron loads again.
CommitBatch(w) ==
  LET cs == batch[w].items
  IN /\ batch[w].loaded
     /\ IF coverage.state = "pending" /\ \A c \in cs : Unchanged(c)
        THEN /\ row' = Indexed(cs)
             /\ coverage' = Progress(Complete(Indexed(cs), Last(cs)), Last(cs))
        ELSE UNCHANGED <<row, coverage>>
     /\ batch' = [batch EXCEPT ![w] = NoBatch]
     /\ UNCHANGED <<now, pending, claimed, days, tab, key, applied>>

Next ==
  \/ \E i \in Items : \/ ProjectStoredMessage(i)
                      \/ ProjectStoredMessageEdit(i)
                      \/ ProjectStoredMessageDeletion(i)
                      \/ ProjectSendEvidence(i)
  \/ Tick \/ PurgeExpiredMessageContent
  \/ \E t \in Tabs :
       \/ GetPolicy(t)
       \/ \E to \in Policies \cup {Forever}, a \in BOOLEAN : UpdatePolicy(t, to, a)
  \/ InstallKey
  \/ \E w \in Workers : LoadCandidates(w) \/ CommitBatch(w)

Spec == Init /\ [][Next]_vars

\* The five-minute cron runs again, and every worker's turn ends.
Fairness ==
  /\ WF_vars(InstallKey)
  /\ \A w \in Workers : WF_vars(LoadCandidates(w)) /\ WF_vars(CommitBatch(w))

FairSpec == Spec /\ Fairness

-----------------------------------------------------------------------------
(***************************************************************************)
(* What the Stored Messages of a connection promise.                       *)
(***************************************************************************)

\* A complete backfill has no cursor (the table's check constraint).
CoverageRow ==
  /\ coverage.state \in {"pending", "complete"} /\ coverage.cursor \in 1..FirstCursor
  /\ coverage.state = "complete" => coverage.cursor = FirstCursor

\* Every variable stays in its set.
TypeOK ==
  /\ now \in 0..MaxTime
  /\ row \in [Messages -> Rows]
  /\ pending \subseteq Messages /\ claimed \subseteq Items /\ applied \subseteq Items
  /\ days \in Policies \cup {Forever}
  /\ tab \in [Tabs -> Policies \cup {Forever, NoPolicy}]
  /\ key \in BOOLEAN
  /\ CoverageRow
  /\ \A w \in Workers : batch[w].items \subseteq
       [msg : Messages, text : {i.text : i \in Items} \cup {None, "old"}]

\* A deletion that was processed, before or after the message it deletes, leaves no
\* content and no search token, and no later item, retention or backfill brings any
\* back (projectStoredMessageDeletion and the guards of the other projections).
TombstoneIsTerminal ==
  \A i \in claimed : i.kind = "delete" =>
    /\ row[i.msg].state = "deleted"
    /\ row[i.msg].text = None /\ row[i.msg].tokens = None

\* Content that retention removed stays removed: edits and upserts that arrive later,
\* and a backfill batch loaded before, restore neither content nor tokens.
ExpiredContentStaysGone ==
  \A m \in Messages : row[m].expired => row[m].text = None /\ row[m].tokens = None

\* While a message shows an edit, the text is that of an applied item no older than
\* any edit that was applied: an original that arrives late never returns.
EditNeverUndone ==
  \A e \in applied : (e.kind = "edit" /\ Live(row[e.msg])) =>
    \E i \in applied : /\ i.msg = e.msg /\ i.text = row[e.msg].text
                       /\ i.occ >= e.occ

\* After an edit the search finds the message by the edited words only, also when a
\* backfill worker had read the earlier words.
EditReplacesTokens ==
  \A m \in Messages :
    (Live(row[m]) /\ row[m].edited # 0
       /\ \E i \in applied : i.kind = "edit" /\ i.msg = m /\ i.text = row[m].text)
      => row[m].tokens = row[m].text

\* Coverage that says complete covers every readable message.
CompleteMeansIndexed ==
  (key /\ coverage.state = "complete") => \A m \in Messages : Live(row[m]) => row[m].tokens # None

\* The retention policy is lengthened only from the policy that the requesting tab had
\* read, which is the one its User acknowledged to extend, whatever other tabs did.
ExtensionWasSeen == [][days' > days => \E t \in Tabs : tab[t] = days /\ tab'[t] = days']_vars

\* Every message stored before the index existed becomes searchable or unreadable.
BackfillEnds == <>[](key /\ coverage.state = "complete")

(***************************************************************************)
(* Statements of the documentation that the code does not keep.            *)
(***************************************************************************)

\* "Normal ingestion and edits maintain the current version": the tokens of a readable
\* message are those of its text.
TokensMatchText ==
  \A m \in Messages : (Live(row[m]) /\ row[m].tokens # None) => row[m].tokens = row[m].text

\* "Stored Messages retain only the latest verified content after an edit": once every
\* item was processed, a readable message that was edited shows an edit.
LatestContent ==
  claimed = Items => \A e \in Items :
    (e.kind = "edit" /\ Live(row[e.msg])) =>
       \E i \in Items : i.msg = e.msg /\ i.kind = "edit" /\ i.text = row[e.msg].text
=============================================================================
