---------------------------- MODULE ConnectionList ----------------------------
(***************************************************************************)
(* The browser's list of connections: a cache that is read over in two     *)
(* requests (the list, then each policy) and that the replies of four      *)
(* kinds of request edit as well: a rename, a change of the Message        *)
(* Retention Policy, a disconnect or reconnect that is repeated until it   *)
(* is done, and a deletion.  They overlap, and each carries a copy of the  *)
(* connection as it was listed when its button was pressed.  Other devices *)
(* change the same connection.                                             *)
(*                                                                         *)
(* One connection; the entries of others are never touched by its          *)
(* requests, and one disconnect, reconnect or deletion runs at a time.     *)
(* The form keeps drafts of the name and of the policy; a draft that is    *)
(* not set is set when the connection is listed, and is not brought up to  *)
(* date later.                                                             *)
(*                                                                         *)
(* apps/web/src/app/public-boundary-journey.tsx, lib/query/resources.ts,   *)
(* lib/query/client.ts and the policy of apps/api/src/message-retention.ts.*)
(***************************************************************************)
EXTENDS Naturals

CONSTANTS
  Names,       \* names of a connection
  Days,        \* the policies, in days; the greatest stands for "until Connection Deletion"
  Default,     \* the policy a decoded connection has before its own is read
  Refetches,   \* a bound on the refetches of the list
  Edits,       \* a bound on the edits of the form
  Lifecycles,  \* a bound on disconnects and reconnects
  Deletions,   \* a bound on deletions
  Others,      \* a bound on the changes of other devices
  Faults       \* a bound on replies that are lost, unreadable or say a lifecycle change is not done

ConnectionListAssumption ==
  /\ Days \subseteq Nat /\ Default \in Days /\ Names # {}
  /\ {Refetches, Edits, Lifecycles, Deletions, Others, Faults} \subseteq Nat

\* The policy null: until Connection Deletion.
Forever == CHOOSE d \in Days : \A e \in Days : e <= d

Entry == [name : Names, days : Days, state : {"connected", "disconnected"}]

VARIABLES
  server,   \* the connection, while it is there
  list,     \* the cached entry, while it is listed, and the read under way
  form,     \* the drafts and which are set, and the consent to a longer policy
  tasks,    \* the requests under way: "name", "policy", "lifecycle", "deletion"
  page,     \* what is being saved, which lifecycle action runs, the reconnect dialog, what the form says
  budget    \* what is left of the bounds

vars == <<server, list, form, tasks, page, budget>>

\* A request: the entry its button was pressed on, what it asks for, and the reply.
Task(stage, shown, asks) ==
  [stage |-> stage, shown |-> shown, asks |-> asks, ok |-> FALSE, reply |-> shown, outcome |-> "none"]

\* What is kept of a request or a read that is over.
Nothing == CHOOSE entry \in Entry : TRUE

Over == Task("idle", Nothing, Nothing)

Unset == [set |-> {}, name |-> Nothing.name, days |-> Nothing.days, agreed |-> FALSE]

\* The effect that follows every change of the list: a draft is set only when there is none.
Drafted(f, l) ==
  IF ~l.listed THEN f
  ELSE [f EXCEPT !.set = {"name", "days"},
                 !.name = IF "name" \in f.set THEN @ ELSE l.entry.name,
                 !.days = IF "days" \in f.set THEN @ ELSE l.entry.days]

NoRead == [listed |-> FALSE, entry |-> Nothing]

Init ==
  \E first \in Entry :
    /\ first.name = Nothing.name
    /\ server = [there |-> TRUE, entry |-> first]
    /\ list = [listed |-> TRUE, entry |-> first, fetch |-> "none", got |-> NoRead]
    /\ form = Drafted(Unset, list)
    /\ tasks = [t \in {"name", "policy", "lifecycle", "deletion"} |-> Over]
    /\ page = [saving |-> FALSE, action |-> "none", dialog |-> FALSE, name |-> "none", policy |-> "none"]
    /\ budget = [refetches |-> Refetches, edits |-> Edits, lifecycles |-> Lifecycles,
                 deletions |-> Deletions, others |-> Others, faults |-> Faults]

Spends(what) == budget[what] > 0 /\ budget' = [budget EXCEPT ![what] = @ - 1]

(***************************************************************************)
(* The helpers of the cache.                                               *)
(***************************************************************************)
\* Mutant: an entry that is not listed is put in.
ReplaceOrInsert(l, entry) == [l EXCEPT !.listed = TRUE, !.entry = entry]

\* replaceConnection: an entry that is not listed stays so.
Replace(l, entry) == IF l.listed THEN [l EXCEPT !.entry = entry] ELSE l

Remove(l) == [l EXCEPT !.listed = FALSE, !.entry = Nothing]

\* Mutant: a lifecycle reply replaces the entry as it was decoded.
MergedAsDecoded(l, reply) == [reply EXCEPT !.days = Default]

\* A lifecycle reply has no policy.  The listed one is kept where it is a number of days;
\* null is passed over (??) for the one the reply was decoded with.
Merged(l, reply) ==
  [reply EXCEPT !.days = IF l.listed /\ l.entry.days # Forever THEN l.entry.days ELSE Default]

(***************************************************************************)
(* Reading the list: on mount, on invalidation, when the window has focus. *)
(***************************************************************************)
Refetch ==
  /\ list.fetch = "none" /\ Spends("refetches")
  /\ list' = [list EXCEPT !.fetch = "asked"]
  /\ UNCHANGED <<server, form, tasks, page>>

\* The list is read; each connection's policy is read after it.
ListRead ==
  /\ list.fetch = "asked"
  /\ list' = [list EXCEPT !.fetch = IF server.there THEN "read" ELSE "whole",
                          !.got = [listed |-> server.there, entry |-> IF server.there THEN [server.entry EXCEPT !.days = Default] ELSE Nothing]]
  /\ UNCHANGED <<server, form, tasks, page, budget>>

\* A connection that is gone by now has no policy, and the read fails as a whole.
PolicyRead ==
  /\ list.fetch = "read"
  /\ list' = IF server.there
             THEN [list EXCEPT !.fetch = "whole", !.got.entry.days = server.entry.days]
             ELSE [list EXCEPT !.fetch = "none", !.got = NoRead]
  /\ UNCHANGED <<server, form, tasks, page, budget>>

\* What was read replaces what is cached.
FetchArrives ==
  /\ list.fetch = "whole"
  /\ list' = [listed |-> list.got.listed, entry |-> list.got.entry, fetch |-> "none", got |-> NoRead]
  /\ form' = Drafted(form, list')
  /\ UNCHANGED <<server, tasks, page, budget>>

FetchFails ==
  /\ list.fetch # "none" /\ Spends("faults") /\ list' = [list EXCEPT !.fetch = "none", !.got = NoRead]
  /\ UNCHANGED <<server, form, tasks, page>>

(***************************************************************************)
(* The form.                                                               *)
(***************************************************************************)
EditName(name) ==
  /\ list.listed /\ ~page.saving /\ name # form.name /\ Spends("edits")
  /\ form' = [form EXCEPT !.name = name] /\ UNCHANGED <<server, list, tasks, page>>

EditDays(days) ==
  /\ list.listed /\ ~page.saving /\ days # form.days /\ Spends("edits")
  /\ form' = [form EXCEPT !.days = days, !.agreed = FALSE]
  /\ UNCHANGED <<server, list, tasks, page>>

PolicyChanged == form.days # list.entry.days
Broadens(from, to) == to = Forever \/ to > from

\* The consent is shown for a longer policy only, also while a save is under way.
Agree ==
  /\ list.listed /\ PolicyChanged /\ Broadens(list.entry.days, form.days)
  /\ form' = [form EXCEPT !.agreed = ~@]
  /\ UNCHANGED <<server, list, tasks, page, budget>>

NameChanged == form.name # list.entry.name

\* The button: something differs from the list, and a longer policy has the consent.
Savable ==
  /\ list.listed /\ ~page.saving /\ (NameChanged \/ PolicyChanged)
  /\ (PolicyChanged /\ Broadens(list.entry.days, form.days)) => form.agreed

\* Save changes: what differs is sent, both at once if both do, with the drafts as they are.
Save ==
  LET named == [Nothing EXCEPT !.name = form.name]
      kept == [Nothing EXCEPT !.days = form.days] IN
  /\ Savable
  /\ tasks' = [tasks EXCEPT !["name"] = IF NameChanged THEN Task("sent", list.entry, named) ELSE @,
                            !["policy"] = IF PolicyChanged THEN Task("sent", list.entry, kept) ELSE @]
  /\ page' = [page EXCEPT !.saving = TRUE, !.name = IF NameChanged THEN "saving" ELSE "none",
                          !.policy = IF PolicyChanged THEN "saving" ELSE "none"]
  /\ UNCHANGED <<server, list, form, budget>>

(***************************************************************************)
(* The requests.                                                           *)
(***************************************************************************)
Answers(t, ok, outcome) ==
  tasks' = [tasks EXCEPT ![t].stage = "answered", ![t].ok = ok, ![t].reply = IF ok THEN server'.entry ELSE Nothing, ![t].outcome = outcome]

ServeName ==
  /\ tasks["name"].stage = "sent"
  /\ server' = IF server.there THEN [server EXCEPT !.entry.name = tasks["name"].asks.name] ELSE server
  /\ Answers("name", server.there, "none")
  /\ UNCHANGED <<list, form, page, budget>>

\* Mutant: the policy the user saw is not compared.
ExpectedAnyway(expected) == TRUE

\* update_message_retention_policy changes the policy the user saw, or none.
Expected(expected) == server.entry.days = expected

ServePolicy ==
  LET task == tasks["policy"]
      takes == server.there /\ Expected(task.shown.days) IN
  /\ task.stage = "sent"
  /\ server' = IF takes THEN [server EXCEPT !.entry.days = task.asks.days] ELSE server
  /\ Answers("policy", takes, "none")
  /\ UNCHANGED <<list, form, page, budget>>

Idle(t) == tasks' = [tasks EXCEPT ![t] = Over]

\* The reply to a rename: the entry as it was shown, and the draft, get the new name.
NameAnswered ==
  LET task == tasks["name"] IN
  /\ task.stage = "answered" /\ Idle("name")
  /\ list' = IF task.ok THEN Replace(list, [task.shown EXCEPT !.name = task.reply.name]) ELSE list
  /\ form' = IF task.ok THEN [form EXCEPT !.name = task.reply.name, !.set = @ \cup {"name"}] ELSE form
  /\ page' = [page EXCEPT !.name = IF task.ok THEN "saved" ELSE "failed"]
  /\ UNCHANGED <<server, budget>>

PolicyAnswered ==
  LET task == tasks["policy"] IN
  /\ task.stage = "answered" /\ Idle("policy")
  /\ list' = IF task.ok THEN Replace(list, [task.shown EXCEPT !.days = task.reply.days]) ELSE list
  /\ form' = IF task.ok THEN [form EXCEPT !.agreed = FALSE] ELSE form
  /\ page' = [page EXCEPT !.policy = IF task.ok THEN "saved" ELSE "failed"]
  /\ UNCHANGED <<server, budget>>

\* A request is not sent, or its reply is lost or unreadable.
SaveFails(t) ==
  /\ tasks[t].stage \in {"sent", "answered"} /\ Spends("faults") /\ Idle(t)
  /\ page' = [page EXCEPT ![t] = "failed"] /\ UNCHANGED <<server, list, form>>

Settled == \A t \in {"name", "policy"} : tasks[t].stage = "idle"

SaveEnds ==
  /\ page.saving /\ Settled /\ page' = [page EXCEPT !.saving = FALSE]
  /\ UNCHANGED <<server, list, form, tasks, budget>>

(***************************************************************************)
(* Disconnect and reconnect.                                               *)
(***************************************************************************)
Starts(action) ==
  /\ list.listed /\ page.action = "none" /\ Spends("lifecycles")
  /\ page' = [page EXCEPT !.action = action]
  /\ tasks' = [tasks EXCEPT !["lifecycle"] = Task("sent", Nothing, Nothing)]
  /\ UNCHANGED <<server, list, form>>

StartDisconnect == list.entry.state = "connected" /\ tasks["deletion"].stage = "idle" /\ Starts("disconnect")

\* The dialog is opened for a connection that is not connected, and stays open.
OpenReconnect ==
  /\ list.listed /\ list.entry.state # "connected" /\ tasks["deletion"].stage = "idle" /\ ~page.dialog
  /\ page' = [page EXCEPT !.dialog = TRUE] /\ UNCHANGED <<server, list, form, tasks, budget>>

StartReconnect == page.dialog /\ Starts("reconnect")

Target == IF page.action = "disconnect" THEN "disconnected" ELSE "connected"

ServeLifecycle ==
  /\ tasks["lifecycle"].stage = "sent"
  /\ \/ /\ server' = IF server.there THEN [server EXCEPT !.entry.state = Target] ELSE server
        /\ Answers("lifecycle", server.there, "complete") /\ UNCHANGED budget
     \/ /\ server.there /\ UNCHANGED <<server, budget>>
        /\ Answers("lifecycle", TRUE, "recovery_required")
     \/ /\ server.there /\ UNCHANGED server /\ Spends("faults")
        /\ \E outcome \in {"in_progress"} \cup (IF page.action = "reconnect" THEN {"qr"} ELSE {}) :
             Answers("lifecycle", TRUE, outcome)
  /\ UNCHANGED <<list, form, page>>

\* An image is shown and changes nothing else; a reply that names an outcome edits the
\* list.  What is not done yet is asked for again.
LifecycleAnswered ==
  LET task == tasks["lifecycle"]
      goesOn == task.ok /\ task.outcome \in {"in_progress", "qr"} IN
  /\ task.stage = "answered"
  /\ list' = IF task.ok /\ task.outcome # "qr" THEN Replace(list, Merged(list, task.reply)) ELSE list
  /\ tasks' = [tasks EXCEPT !["lifecycle"] = [Over EXCEPT !.stage = IF goesOn THEN "waits" ELSE "idle"]]
  /\ page' = IF goesOn THEN page ELSE [page EXCEPT !.action = "none"]
  /\ UNCHANGED <<server, form, budget>>

LifecycleAgain ==
  /\ tasks["lifecycle"].stage = "waits" /\ tasks' = [tasks EXCEPT !["lifecycle"].stage = "sent"]
  /\ UNCHANGED <<server, list, form, page, budget>>

Unmarked(p) == [p EXCEPT !.action = "none"]

LifecycleFails ==
  /\ tasks["lifecycle"].stage \in {"sent", "answered"} /\ Spends("faults") /\ Idle("lifecycle")
  /\ page' = Unmarked(page) /\ UNCHANGED <<server, list, form>>

(***************************************************************************)
(* Deletion, and other devices.                                            *)
(***************************************************************************)
\* The menu's item; a deletion that runs is not started again (deleteConnection).
Deletable == list.listed /\ page.action = "none" /\ tasks["deletion"].stage = "idle"

StartDeletion ==
  /\ Deletable /\ Spends("deletions")
  /\ tasks' = [tasks EXCEPT !["deletion"] = Task("sent", Nothing, Nothing)]
  /\ UNCHANGED <<server, list, form, page>>

ServeDeletion ==
  /\ tasks["deletion"].stage = "sent" /\ server' = [server EXCEPT !.there = FALSE]
  /\ \E ok \in IF server.there THEN {TRUE} ELSE BOOLEAN : Answers("deletion", ok, "none")
  /\ UNCHANGED <<list, form, page, budget>>

\* The connection, its drafts, what the form says of it and its dialog go.
DeletionAnswered ==
  LET ok == tasks["deletion"].ok IN
  /\ tasks["deletion"].stage = "answered" /\ Idle("deletion")
  /\ list' = IF ok THEN Remove(list) ELSE list
  /\ form' = IF ok THEN Unset ELSE form
  /\ page' = IF ok THEN [page EXCEPT !.dialog = FALSE, !.name = "none", !.policy = "none"] ELSE page
  /\ UNCHANGED <<server, budget>>

DeletionFails ==
  /\ tasks["deletion"].stage \in {"sent", "answered"} /\ Spends("faults") /\ Idle("deletion")
  /\ UNCHANGED <<server, list, form, page>>

OtherDevice ==
  /\ server.there /\ Spends("others")
  /\ \/ \E days \in Days \ {server.entry.days} : server' = [server EXCEPT !.entry.days = days]
     \/ \E name \in Names \ {server.entry.name} : server' = [server EXCEPT !.entry.name = name]
     \/ \E state \in {"connected", "disconnected"} \ {server.entry.state} : server' = [server EXCEPT !.entry.state = state]
     \/ server' = [server EXCEPT !.there = FALSE]
  /\ UNCHANGED <<list, form, tasks, page>>

Answered == NameAnswered \/ PolicyAnswered \/ LifecycleAnswered \/ DeletionAnswered
Served == ServeName \/ ServePolicy \/ ServeLifecycle \/ ServeDeletion

Next ==
  \/ Refetch \/ ListRead \/ PolicyRead \/ FetchArrives \/ FetchFails
  \/ \E name \in Names : EditName(name)
  \/ \E days \in Days : EditDays(days)
  \/ Agree \/ Save \/ SaveEnds \/ OpenReconnect \/ StartDisconnect \/ StartReconnect
  \/ LifecycleAgain \/ StartDeletion
  \/ Served \/ Answered \/ OtherDevice
  \/ (\E t \in {"name", "policy"} : SaveFails(t)) \/ LifecycleFails \/ DeletionFails

Spec == Init /\ [][Next]_vars

-----------------------------------------------------------------------------
(***************************************************************************)
(* What the list of connections guarantees, and one thing it does not.     *)
(***************************************************************************)

\* Entries, drafts and tasks have their types (resources.ts: SafeWhatsAppConnection).
TypeOK ==
  /\ server.entry \in Entry /\ list.entry \in Entry /\ list.got.entry \in Entry
  /\ list.fetch \in {"none", "asked", "read", "whole"}
  /\ form.name \in Names /\ form.days \in Days /\ form.set \subseteq {"name", "days"}
  /\ \A t \in DOMAIN tasks : tasks[t].stage \in {"idle", "sent", "answered", "waits"} /\ tasks[t].reply \in Entry
  /\ page.action \in {"none", "disconnect", "reconnect"}
  /\ \A t \in {"name", "policy"} : page[t] \in {"none", "saving", "saved", "failed"}
  /\ \A what \in DOMAIN budget : budget[what] \in Nat

\* Once a connection was taken off the list only a read of the list puts it back, never
\* the late reply of a rename, of a policy change or of a disconnect that was under way
\* when it was deleted (replaceConnection, removeConnection).
BackOnlyByReading == [][~list.listed /\ list'.listed => list.fetch = "whole"]_vars

\* The replies of a disconnect or a reconnect, which carry no policy, leave a listed
\* policy of so many days as it is, also when it was changed or read again while they were
\* under way (reconcileConnectionLifecycle: what it merges).  Of "until Connection
\* Deletion" this is not so: it is listed as the default until the next read.
LifecycleKeepsPolicy ==
  [][tasks["lifecycle"].stage = "answered" /\ tasks'["lifecycle"].stage # "answered" /\ list.entry.days # Forever
     => list'.entry.days = list.entry.days]_vars

\* A policy that another device set is never replaced by a save that was made without
\* having seen it, whatever was listed in between (updateRetention: expected_days,
\* update_message_retention_policy).
SeenPolicyIsReplaced ==
  [][tasks["policy"].stage = "sent" /\ tasks'["policy"].stage = "answered" /\ server'.entry.days # server.entry.days
     => tasks["policy"].shown.days = server.entry.days]_vars

Quiet == list.fetch = "none" /\ \A t \in DOMAIN tasks : tasks[t].stage = "idle"

\* What a browser test expects: after "Name saved." the list shows the saved name, here
\* while no other device changes anything and nothing else is under way
\* (test/browser/signed-in-boundary.spec.ts).
SavedNameIsListed ==
  page.name = "saved" /\ Quiet /\ server.there /\ list.listed => list.entry.name = server.entry.name
=============================================================================
