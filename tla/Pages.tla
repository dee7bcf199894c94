------------------------------- MODULE Pages -------------------------------
(* The pages a client walks through: the messages of a WhatsApp              *)
(* Conversation, the results of a search, the WhatsApp Conversations, the    *)
(* Directory and the recipients of the settings page, each a keyset walk     *)
(* from cursor to cursor over rows that change between two pages             *)
(* (packages/db/src/mcp-tool.ts, the list and read handlers of               *)
(* apps/api/src/mcp.ts, apps/api/src/rest.ts and                             *)
(* apps/api/src/recipient-exclusion.ts, packages/contracts/src/cursor.ts).   *)
(* Public handles are numbers, so that they have an order.                   *)
EXTENDS Integers, FiniteSets, FiniteSetsExt, Sequences, SequencesExt

CONSTANTS
    Messages,      \* handles of Stored Messages
    Chats,         \* handles of WhatsApp Conversations
    ChatOf,        \* the Conversation of each message
    Conversation,  \* the one whose messages are read
    Matching,      \* the messages that match the search
    People,        \* handles of Directory entries: contacts or groups
    Names,         \* sort keys of display names
    Kinds,         \* the walks taken
    Channels,      \* "mcp" under an MCP Authorization, "api" under an API Key, "web" signed in
    Limit,         \* entries of a page
    Retention,     \* length of the Message History Window
    Lifetime,      \* lifetime of a cursor
    MaxTime        \* bound on the clock

PagesAssumption ==
    /\ IsFiniteSet(Messages) /\ Messages \subseteq Nat
    /\ IsFiniteSet(Chats) /\ Chats \subseteq Nat
    /\ IsFiniteSet(People) /\ People \subseteq Nat
    /\ ChatOf \in [Messages -> Chats]
    /\ Conversation \in Chats
    /\ Matching \subseteq Messages
    /\ Names \subseteq Nat \ {0}
    /\ Kinds \subseteq {"messages", "search", "chats", "contacts", "groups",
                      "settings_contacts", "settings_groups"}
    /\ Channels \subseteq {"mcp", "api", "web"}
    /\ {Limit, Retention, Lifetime, MaxTime} \subseteq Nat \ {0}

VARIABLES
    clock,     \* the time
    message,   \* the Stored Messages: state and time of sending
    shell,     \* order of creation of the Conversations that exist
    excluded,  \* Conversations whose recipient is excluded
    name,      \* sort keys of the active Directory entries, 0 for the others
    gaps,      \* the Ingestion Gaps
    walk       \* the walk of the client

vars == <<clock, message, shell, excluded, name, gaps, walk>>

-----------------------------------------------------------------------------
(* What a walk goes over, in a state of the rows.                            *)

Open == 0

HistoryStart(t) == Max({1, t - Retention})

Kept(rows, t) ==
    {m \in Messages : rows[m].state \in {"kept", "deleted"} /\ rows[m].sent >= HistoryStart(t)}

Retained(rows, c) == {m \in Messages : ChatOf[m] = c /\ rows[m].state \in {"kept", "deleted"}}

(* The time of the newest message of a Conversation is its activity.         *)
LastActivityAt(rows, c) == Max({rows[m].sent : m \in Retained(rows, c)})

Row(key, handle) == [key |-> key, handle |-> handle]

StoredMessageRows(rows, t) ==
    {Row(rows[m].sent, m) : m \in {n \in Kept(rows, t) : ChatOf[n] = Conversation}}

SearchRows(rows, barred, t) ==
    {Row(rows[m].sent, m) :
        m \in {n \in Kept(rows, t) \cap Matching :
                  rows[n].state = "kept" /\ ChatOf[n] \notin barred}}

ChatRows(rows, barred) ==
    {Row(LastActivityAt(rows, c), c) :
        c \in {d \in Chats \ barred : Retained(rows, d) # {}}}

DirectoryRows(names) == {Row(names[p], p) : p \in {q \in People : names[q] # 0}}

(* The settings list excluded recipients as well, and groups in the order of *)
(* their handles.                                                            *)
RecipientGroupRows(names) == {Row(0, p) : p \in {q \in People : names[q] # 0}}

Rows(kind, rows, barred, names, t) ==
    CASE kind = "messages" -> StoredMessageRows(rows, t)
      [] kind = "search" -> SearchRows(rows, barred, t)
      [] kind = "chats" -> ChatRows(rows, barred)
      [] kind \in {"contacts", "groups", "settings_contacts"} -> DirectoryRows(names)
      [] kind = "settings_groups" -> RecipientGroupRows(names)
      [] OTHER -> {}

(* Messages are newest first with the larger handle first, Conversations     *)
(* newest first with the smaller handle first, the Directory is in order.    *)
Precedes(kind, x, y) ==
    CASE kind \in {"messages", "search"} ->
            x.key > y.key \/ (x.key = y.key /\ x.handle > y.handle)
      [] kind = "chats" ->
            x.key > y.key \/ (x.key = y.key /\ x.handle < y.handle)
      [] OTHER ->
            x.key < y.key \/ (x.key = y.key /\ x.handle < y.handle)

-----------------------------------------------------------------------------
NoWalk == [phase |-> "idle", kind |-> "none", channel |-> "mcp", boundary |-> {},
           entries |-> <<>>, expires |-> 0, steady |-> {}, told |-> {}, known |-> {}]

Init ==
    /\ clock = 1
    /\ message = [m \in Messages |-> [state |-> "none", sent |-> 0]]
    /\ shell = [c \in Chats |-> 0]
    /\ excluded = {}
    /\ name \in [People -> Names]
    /\ gaps = {}
    /\ walk = NoWalk

(* What of the walk's rows has stayed where it is since the walk began.      *)
Watched(rows, barred, names, t) ==
    walk' = [walk EXCEPT !.steady = @ \cap Rows(walk.kind, rows, barred, names, t)]

Tick ==
    /\ clock < MaxTime
    /\ clock' = clock + 1
    /\ Watched(message, excluded, name, clock + 1)
    /\ UNCHANGED <<message, shell, excluded, name, gaps>>

(* A message is stored, late or not, and its Conversation with it.           *)
Store(m, sent) ==
    LET c == ChatOf[m]
        rows == [message EXCEPT ![m] = [state |-> "kept", sent |-> sent]] IN
    /\ message[m].state = "none"
    /\ c \notin excluded
    /\ sent \in HistoryStart(clock)..clock
    /\ message' = rows
    /\ shell' = IF shell[c] = 0 THEN [shell EXCEPT ![c] = 1 + Max({shell[d] : d \in Chats})]
                ELSE shell
    /\ Watched(rows, excluded, name, clock)
    /\ UNCHANGED <<clock, excluded, name, gaps>>

Becomes(m, state) ==
    LET rows == [message EXCEPT ![m].state = state] IN
    /\ message' = rows
    /\ Watched(rows, excluded, name, clock)
    /\ UNCHANGED <<clock, shell, excluded, name, gaps>>

(* A message is deleted in WhatsApp and leaves a tombstone.                  *)
Delete(m) == message[m].state = "kept" /\ Becomes(m, "deleted")

(* The retention sweep clears what has left the Message History Window.      *)
Expire(m) ==
    /\ message[m].state \in {"kept", "deleted"}
    /\ message[m].sent < HistoryStart(clock)
    /\ Becomes(m, "expired")

(* The User excludes a recipient, or reopens it.                             *)
Exclude(c) ==
    /\ excluded' = IF c \in excluded THEN excluded \ {c} ELSE excluded \cup {c}
    /\ Watched(message, excluded', name, clock)
    /\ UNCHANGED <<clock, message, shell, name, gaps>>

(* The history of an excluded recipient is purged with its Conversation.     *)
PurgeExcluded(c) ==
    LET rows == [m \in Messages |->
                    IF ChatOf[m] = c /\ message[m].state # "none"
                    THEN [message[m] EXCEPT !.state = "expired"] ELSE message[m]] IN
    /\ c \in excluded
    /\ shell[c] # 0
    /\ message' = rows
    /\ shell' = [shell EXCEPT ![c] = 0]
    /\ Watched(rows, excluded, name, clock)
    /\ UNCHANGED <<clock, excluded, name, gaps>>

(* A reconciliation renames, adds or removes a Directory entry.              *)
Reconcile(p, n) ==
    /\ name[p] # n
    /\ name' = [name EXCEPT ![p] = n]
    /\ Watched(message, excluded, name', clock)
    /\ UNCHANGED <<clock, message, shell, excluded, gaps>>

OpenGap(starts) ==
    /\ gaps = {}
    /\ gaps' = {[starts |-> starts, ends |-> Open]}
    /\ UNCHANGED <<clock, message, shell, excluded, name, walk>>

CloseGap(g) ==
    /\ g.ends = Open
    /\ gaps' = {[g EXCEPT !.ends = clock]}
    /\ UNCHANGED <<clock, message, shell, excluded, name, walk>>

-----------------------------------------------------------------------------
(* Mutant: the handle is left out of the comparison with the boundary.       *)
AfterKey(kind, boundary, rows) ==
    {x \in rows : \A b \in boundary : Precedes(kind, b, x) /\ b.key # x.key}

(* Beyond the boundary of the cursor.                                        *)
After(kind, boundary, rows) ==
    {x \in rows : \A b \in boundary : Precedes(kind, b, x)}

(* The lengths a page may have: its limit, or less when the records are too  *)
(* large together. One record at least is returned.                          *)
PageLengths(kind, count) ==
    IF kind \in {"messages", "search"} THEN Min({1, count})..Min({Limit, count})
    ELSE {Min({Limit, count})}

Intersecting(from, until) ==
    {g \in gaps : g.starts <= until /\ (g.ends = Open \/ g.ends >= from)}

(* Mutant: a search discloses gaps as a page of messages does.               *)
LoadGapsOfPage(kind, page) ==
    IF kind \in {"messages", "search"}
    THEN Intersecting(HistoryStart(clock), IF page = <<>> THEN clock ELSE Head(page).key)
    ELSE {}

(* The gaps on a page: of messages, up to the newest of the page; of a       *)
(* search, up to the moment of the search.                                   *)
LoadIntersectingGaps(kind, page) ==
    CASE kind = "messages" ->
            Intersecting(HistoryStart(clock), IF page = <<>> THEN clock ELSE Head(page).key)
      [] kind = "search" -> Intersecting(HistoryStart(clock), clock)
      [] OTHER -> {}

(* A cursor is signed with the moment up to which it is valid. The settings  *)
(* pass the handle of the last recipient as it is.                           *)
Signed(kind) == kind \notin {"settings_contacts", "settings_groups"}
SignedUntil == clock + Lifetime

(* Where the cursor stands: for a contact of the settings, where it is now,  *)
(* and at the beginning once it has left the Directory.                      *)
Boundary(w) ==
    IF w.kind = "settings_contacts"
    THEN {Row(name[b.handle], b.handle) : b \in w.boundary}
    ELSE w.boundary

(* One page. Its cursor stands for the last entry returned, when there is    *)
(* more.                                                                     *)
Turn(w) ==
    LET rows == After(w.kind, Boundary(w), Rows(w.kind, message, excluded, name, clock))
        ordered == SetToSortSeq(rows, LAMBDA x, y : Precedes(w.kind, x, y)) IN
    \E n \in PageLengths(w.kind, Len(ordered)) :
        LET page == SubSeq(ordered, 1, n) IN
        walk' = [w EXCEPT !.phase = IF n = Len(ordered) THEN "done" ELSE "walking",
                          !.boundary = IF n = 0 THEN w.boundary ELSE {page[n]},
                          !.entries = @ \o page,
                          !.expires = SignedUntil,
                          !.told = @ \cup LoadIntersectingGaps(w.kind, page)]

Refuse(w, phase) == walk' = [w EXCEPT !.phase = phase]

Call(w, kind, channel) == w.kind = kind /\ w.channel = channel

(* A Conversation whose recipient is excluded is not found.                  *)
ReadConversation(w) == IF Conversation \in excluded THEN Refuse(w, "not_found") ELSE Turn(w)

McpReadMessages(w) == Call(w, "messages", "mcp") /\ ReadConversation(w)
ApiKeyReadMessages(w) == Call(w, "messages", "api") /\ ReadConversation(w)

McpSearchMessages(w) == Call(w, "search", "mcp") /\ Turn(w)
ApiKeySearchMessages(w) == Call(w, "search", "api") /\ Turn(w)

(* Under an MCP Authorization the keys are loaded through the Conversation   *)
(* created first, unless its recipient is excluded.                          *)
KeysLoaded ==
    LET existing == {c \in Chats : shell[c] # 0} IN
    \E c \in existing \ excluded : \A d \in existing : shell[c] <= shell[d]

McpListChats(w) ==
    /\ Call(w, "chats", "mcp")
    /\ IF After("chats", w.boundary, ChatRows(message, excluded)) = {} \/ KeysLoaded THEN Turn(w)
       ELSE Refuse(w, "unavailable")
ApiKeyListChats(w) == Call(w, "chats", "api") /\ Turn(w)

McpListContacts(w) == Call(w, "contacts", "mcp") /\ Turn(w)
ApiKeyListContacts(w) == Call(w, "contacts", "api") /\ Turn(w)
McpListGroups(w) == Call(w, "groups", "mcp") /\ Turn(w)
ApiKeyListGroups(w) == Call(w, "groups", "api") /\ Turn(w)

ListRecipients(w, kind) == Call(w, kind, "web") /\ Turn(w)

Page(w) ==
    \/ McpReadMessages(w) \/ ApiKeyReadMessages(w)
    \/ McpSearchMessages(w) \/ ApiKeySearchMessages(w)
    \/ McpListChats(w) \/ ApiKeyListChats(w)
    \/ McpListContacts(w) \/ ApiKeyListContacts(w)
    \/ McpListGroups(w) \/ ApiKeyListGroups(w)
    \/ ListRecipients(w, "settings_contacts") \/ ListRecipients(w, "settings_groups")

Start(kind, channel) ==
    /\ walk.phase = "idle"
    /\ Page([NoWalk EXCEPT !.kind = kind, !.channel = channel,
                           !.steady = Rows(kind, message, excluded, name, clock),
                           !.known = Intersecting(HistoryStart(clock), clock)])
    /\ UNCHANGED <<clock, message, shell, excluded, name, gaps>>

(* The client passes the cursor on, with the same filters and limit.         *)
Continue ==
    /\ walk.phase = "walking"
    /\ Signed(walk.kind) => clock < walk.expires
    /\ Page(walk)
    /\ UNCHANGED <<clock, message, shell, excluded, name, gaps>>

VerifyCursorExpired ==
    /\ walk.phase = "walking"
    /\ Signed(walk.kind) /\ clock >= walk.expires
    /\ walk' = [walk EXCEPT !.phase = "invalid_cursor"]
    /\ UNCHANGED <<clock, message, shell, excluded, name, gaps>>

Client == Continue \/ VerifyCursorExpired

Next ==
    \/ Tick
    \/ \E m \in Messages :
          \/ \E sent \in 1..MaxTime : Store(m, sent)
          \/ Delete(m)
          \/ Expire(m)
    \/ \E c \in Chats : Exclude(c) \/ PurgeExcluded(c)
    \/ \E p \in People, n \in Names \cup {0} : Reconcile(p, n)
    \/ \E starts \in 1..clock : OpenGap(starts)
    \/ \E g \in gaps : CloseGap(g)
    \/ \E kind \in Kinds, channel \in Channels : Start(kind, channel)
    \/ Client

Spec == Init /\ [][Next]_vars

(* The client asks for the next page as long as there is one.                *)
Fairness == WF_vars(Client)

FairSpec == Spec /\ Fairness

-----------------------------------------------------------------------------
(* What a client that walks through pages may rely on.                       *)

(* Types of the rows and of the walk.                                        *)
TypeOK ==
    /\ clock \in 1..MaxTime
    /\ \A m \in Messages : message[m].state \in {"none", "kept", "deleted", "expired"}
    /\ \A m \in Messages : message[m].sent \in 0..MaxTime
    /\ excluded \subseteq Chats
    /\ \A p \in People : name[p] \in Names \cup {0}
    /\ \A g \in gaps : g.ends = Open \/ g.ends >= g.starts
    /\ walk.phase \in {"idle", "walking", "done", "not_found", "unavailable", "invalid_cursor"}
    /\ Cardinality(walk.boundary) <= 1

Times(x) == Cardinality({i \in DOMAIN walk.entries : walk.entries[i] = x})

(* A walk that has reached its end has returned every row that stayed in its *)
(* place meanwhile exactly once, whatever came, left, moved or expired       *)
(* between its pages, and however short the pages were.                      *)
Complete ==
    walk.phase = "done" => \A x \in walk.steady : Times(x) = 1

(* The pages of one walk follow each other in one strict order: nothing that *)
(* kept its place is repeated, and what moved is seen at its new place only  *)
(* if that lies ahead.                                                       *)
Ordered ==
    \A i, j \in DOMAIN walk.entries :
        i < j => Precedes(walk.kind, walk.entries[i], walk.entries[j])

(* Every walk comes to its end, also while messages keep arriving.           *)
WalkEnds == walk.phase = "walking" ~> walk.phase # "walking"

(* A walk to the end has told every Ingestion Gap, known when it began, that *)
(* intersects the Message History Window.                                    *)
GapsDisclosed ==
    walk.phase = "done" /\ walk.kind \in {"messages", "search"} => walk.known \subseteq walk.told

(* The exclusion of one recipient does not take the list of the other        *)
(* Conversations away.                                                       *)
OthersListed == walk.phase # "unavailable"
=============================================================================
