----------------------------- MODULE ToolCalls -----------------------------
(* The tool calls of a Personal Account: the tools and the media resource of *)
(* the MCP server, the operations of the REST API, and the Activity Log they *)
(* share (apps/api/src/mcp.ts, apps/api/src/rest.ts,                         *)
(* packages/db/src/mcp-tool.ts). A call takes its time from the caller's     *)
(* clock, begins in one transaction that admits it and writes its log, reads *)
(* in a second one that checks the grant again, and answers only after a     *)
(* third one has completed the log. Each of the three can be lost, and the   *)
(* invocation can end between any two of them. Sends keep their own          *)
(* admission and are in SendOperations.                                      *)
EXTENDS Integers, FiniteSets, FiniteSetsExt

CONSTANTS
    Calls,             \* requests
    Handlers,          \* the names of the handlers that are called
    Authorization,     \* the MCP Authorization of an OAuth client
    Key,               \* an API Key
    Expiry,            \* the moment at which each grant expires
    Minute, Hour, Day, \* lengths of the windows
    MinuteLimit, HourLimit,       \* request starts of the account
    KeyMinuteLimit, KeyHourLimit, \* request starts of the API Key
    RecordLimit,       \* Stored Messages returned per day
    ByteLimit,         \* media bytes per day
    Overlap,           \* whether two charges of records may run at once
    Sizes,             \* numbers of records or bytes of an answer
    MaxTime            \* bound on the clock

(* What the handlers differ in. Once begun a call reads and answers: at the  *)
(* moment at which it rechecks the grant, and with the charge of its         *)
(* completion.                                                               *)

Answering(recheck, charges) == [recheck |-> recheck, charges |-> charges]

McpGroupsPage            == Answering("read", "nothing")
McpContactsPage          == Answering("read", "nothing")
McpChatsPage             == Answering("read", "nothing")
McpMessagesPage          == Answering("start", "records")
McpSearchPage            == Answering("start", "records")
RestContactsPage         == Answering("read", "nothing")
RestGroupsPage           == Answering("read", "nothing")
RestConversationsPage    == Answering("read", "nothing")
RestMessagesPage         == Answering("read", "records")
RestSearchPage           == Answering("start", "records")
RestStoredMedia          == Answering("start", "bytes")

(* Until then: who may call, and whether an invalid cursor is logged.        *)

Handler(channel, logsInvalid, answering) ==
    [channel |-> channel, logsInvalid |-> logsInvalid, lists |-> "other",
     recheck |-> answering.recheck, charges |-> answering.charges]

(* Names are sought by a keyed index. Contacts are listed with the key of    *)
(* that index in hand; groups need it only when there is something to seek.  *)
Lists(what, handler) == [handler EXCEPT !.lists = what]

McpListConnections    == Handler("mcp", FALSE, Answering("read", "nothing"))
McpGetSendStatus      == Handler("mcp", FALSE, Answering("start", "nothing"))
McpListGroups         == Lists("groups", Handler("mcp", FALSE, McpGroupsPage))
McpListContacts       == Lists("contacts", Handler("mcp", TRUE, McpContactsPage))
McpListChats          == Handler("mcp", FALSE, McpChatsPage)
McpReadMessages       == Handler("mcp", FALSE, McpMessagesPage)
McpSearchMessages     == Handler("mcp", TRUE, McpSearchPage)
McpReadMedia          == Handler("mcp", FALSE, Answering("read", "bytes"))
RestListConnections   == Handler("rest", FALSE, Answering("read", "nothing"))
RestListContacts      == Lists("contacts", Handler("rest", TRUE, RestContactsPage))
RestListGroups        == Lists("groups", Handler("rest", TRUE, RestGroupsPage))
RestListConversations == Handler("rest", TRUE, RestConversationsPage)
RestListMessages      == Handler("rest", TRUE, RestMessagesPage)
RestSearchMessages    == Handler("rest", TRUE, RestSearchPage)
RestGetStoredMedia    == Handler("rest", FALSE, RestStoredMedia)
RestGetSendStatus     == Handler("rest", FALSE, Answering("read", "nothing"))

AllHandlers ==
    [McpListConnections |-> McpListConnections, McpGetSendStatus |-> McpGetSendStatus,
     McpListGroups |-> McpListGroups, McpListContacts |-> McpListContacts,
     McpListChats |-> McpListChats, McpReadMessages |-> McpReadMessages,
     McpSearchMessages |-> McpSearchMessages, McpReadMedia |-> McpReadMedia,
     RestListConnections |-> RestListConnections, RestListContacts |-> RestListContacts,
     RestListGroups |-> RestListGroups, RestListConversations |-> RestListConversations,
     RestListMessages |-> RestListMessages, RestSearchMessages |-> RestSearchMessages,
     RestGetStoredMedia |-> RestGetStoredMedia, RestGetSendStatus |-> RestGetSendStatus]

Grants == {Authorization, Key}

ToolCallsAssumption ==
    /\ Authorization # Key
    /\ IsFiniteSet(Calls)
    /\ Expiry \in [Grants -> Nat]
    /\ {Minute, Hour, Day, MinuteLimit, HourLimit, KeyMinuteLimit, KeyHourLimit,
        RecordLimit, ByteLimit} \subseteq Nat \ {0}
    /\ Minute <= Hour
    /\ Overlap \in BOOLEAN
    /\ Sizes \subseteq Nat
    /\ Handlers \subseteq DOMAIN AllHandlers
    /\ MaxTime \in Nat

VARIABLES
    clock,     \* the time
    granted,   \* the grants in state active
    log,       \* the Activity Log of every call
    call       \* the invocations

vars == <<clock, granted, log, call>>

-----------------------------------------------------------------------------
(* The Activity Log.                                                         *)

NoLog == [outcome |-> "none", startedAt |-> 0, grant |-> Authorization,
          charges |-> "nothing", reserved |-> FALSE, count |-> 0, bytes |-> 0]

Grant(c) == call[c].grant
Charges(c) == call[c].handler.charges

ActiveAt(g, t) == g \in granted /\ t < Expiry[g]

ActivityLog(c, outcome, reserved) ==
    [NoLog EXCEPT !.outcome = outcome, !.startedAt = call[c].startedAt,
                  !.grant = Grant(c), !.charges = Charges(c),
                  !.reserved = reserved]

(* Mutant: starts later than t are not counted.                              *)
EarlierStarts(t) ==
    {c \in Calls : log[c].reserved /\ log[c].startedAt \in (t - Hour + 1)..t}

(* The reserved starts of the hour before t, later ones included.            *)
ReservedStarts(t) == {c \in Calls : log[c].reserved /\ log[c].startedAt > t - Hour}

KeyStarts(t) == {c \in ReservedStarts(t) : log[c].grant = Key}

Since(starts, t) == {c \in starts : log[c].startedAt > t}

(* The start whose leaving the window brings a full window below its limit.  *)
Releasing(starts, limit) ==
    CHOOSE t \in {log[c].startedAt : c \in starts} :
        /\ Cardinality(Since(starts, t)) < limit
        /\ Cardinality(Since(starts, t - 1)) >= limit

(* The moments at which the exhausted ones of the two windows have room.     *)
RequestQuotaExhausted(starts, t, minuteLimit, hourLimit) ==
    (IF Cardinality(Since(starts, t - Minute)) >= minuteLimit
     THEN {Releasing(Since(starts, t - Minute), minuteLimit) + Minute} ELSE {})
    \cup
    (IF Cardinality(starts) >= hourLimit
     THEN {Releasing(starts, hourLimit) + Hour} ELSE {})

Resets(g, t) ==
    RequestQuotaExhausted(ReservedStarts(t), t, MinuteLimit, HourLimit)
    \cup (IF g = Key
          THEN RequestQuotaExhausted(KeyStarts(t), t, KeyMinuteLimit, KeyHourLimit)
          ELSE {})

DayOf(t) == t \div Day
NextDay(t) == (DayOf(t) + 1) * Day

StartedOn(t) == {c \in Calls : DayOf(log[c].startedAt) = DayOf(t)}

ReturnedRecords(t) ==
    MapThenSumSet(LAMBDA c : log[c].count,
        {c \in StartedOn(t) : log[c].charges = "records" /\ log[c].outcome = "success"})

ReservedBytes(t) == MapThenSumSet(LAMBDA c : log[c].bytes, StartedOn(t))

-----------------------------------------------------------------------------
Idle == [phase |-> "idle", handler |-> McpListConnections, grant |-> Authorization,
         startedAt |-> 0, size |-> 0, used |-> 0, code |-> "none",
         answer |-> "none", resetsAt |-> 0, endedAt |-> 0]

Init ==
    /\ clock = 0
    /\ granted = Grants
    /\ log = [c \in Calls |-> NoLog]
    /\ call = [c \in Calls |-> Idle]

Tick ==
    /\ clock < MaxTime
    /\ clock' = clock + 1
    /\ UNCHANGED <<granted, log, call>>

(* The User revokes the MCP Authorization or the API Key.                    *)
Revoke(g) ==
    /\ granted' = granted \ {g}
    /\ g \in granted
    /\ UNCHANGED <<clock, log, call>>

(* A request passes its credential: OAuth access tokens and API Keys at the  *)
(* MCP endpoint, API Keys only at the REST API.                              *)
Ask(c, h, g) ==
    /\ call[c].phase = "idle"
    /\ h.channel = "rest" => g = Key
    /\ g \in granted
    /\ call' = [call EXCEPT ![c] = [Idle EXCEPT !.phase = "asked", !.handler = h,
                                              !.grant = g, !.startedAt = clock]]
    /\ UNCHANGED <<clock, granted, log>>

At(c, phase) == call[c].phase = phase

Answered(c, answer) ==
    [Idle EXCEPT !.phase = "over", !.answer = answer, !.grant = Grant(c),
                 !.startedAt = call[c].startedAt]

Goes(c, next) == call' = [call EXCEPT ![c] = next]

(* A call without an answer of its own. One that left no trace is forgotten. *)
Unanswered(c) == IF log[c] = NoLog THEN Idle ELSE Answered(c, "unavailable")

Failing(c, code) == [call[c] EXCEPT !.phase = "failing", !.code = code]

(* The reply of a transaction may be lost after it committed.                *)
Replies(c, next) == Goes(c, next) \/ Goes(c, Answered(c, "unavailable"))

(* An invalid cursor never begins; some handlers write a completed log.      *)
RejectProtectedOperation(c) ==
    /\ At(c, "asked")
    /\ Charges(c) # "bytes"
    /\ IF call[c].handler.logsInvalid /\ ActiveAt(Grant(c), call[c].startedAt)
       THEN /\ log' = [log EXCEPT ![c] = ActivityLog(c, "execution_error", FALSE)]
            /\ Goes(c, Answered(c, "invalid_cursor"))
       ELSE Goes(c, Idle) /\ UNCHANGED log
    /\ UNCHANGED <<clock, granted>>

Denied(c) ==
    /\ ~ ActiveAt(Grant(c), call[c].startedAt)
    /\ IF Grant(c) = Authorization
       THEN /\ log' = [log EXCEPT ![c] = ActivityLog(c, "authorization_denied", FALSE)]
            /\ Replies(c, Answered(c, "authorization_denied"))
       ELSE Goes(c, Idle) /\ UNCHANGED log

RateLimited(c) ==
    LET resets == Resets(Grant(c), call[c].startedAt) IN
    /\ ActiveAt(Grant(c), call[c].startedAt)
    /\ resets # {}
    /\ log' = [log EXCEPT ![c] = ActivityLog(c, "rate_limited", FALSE)]
    /\ Replies(c, [Answered(c, "rate_limited") EXCEPT !.resetsAt = Max(resets)])

Started(c) ==
    /\ ActiveAt(Grant(c), call[c].startedAt)
    /\ Resets(Grant(c), call[c].startedAt) = {}
    /\ log' = [log EXCEPT ![c] = ActivityLog(c, "started", TRUE)]
    /\ Replies(c, [call[c] EXCEPT !.phase = "begun"])

(* Under an MCP Authorization the media resource begins with its reservation. *)
BeginsByReserving(c) == call[c].handler = McpReadMedia /\ Grant(c) = Authorization

Begins(c) == At(c, "asked") /\ ~ BeginsByReserving(c)

BeginProtectedOperation(c) ==
    /\ Begins(c)
    /\ Denied(c) \/ RateLimited(c) \/ Started(c)
    /\ UNCHANGED <<clock, granted>>

(* The transaction that begins a call fails.                                 *)
BeginUnavailable(c) ==
    /\ Begins(c)
    /\ Goes(c, Unanswered(c))
    /\ UNCHANGED <<clock, granted, log>>

-----------------------------------------------------------------------------
CheckedAt(c) == IF call[c].handler.recheck = "start" THEN call[c].startedAt ELSE clock

(* The key of the index is loaded in a transaction of its own, which checks  *)
(* the grant at a moment of its own; the names are read in the next one.     *)
LoadMaterial(c) ==
    /\ At(c, "begun")
    /\ IF ActiveAt(Grant(c), clock)
       THEN Goes(c, [call[c] EXCEPT !.phase = "loaded"])
       ELSE Goes(c, Failing(c, "authorization_denied"))
    /\ UNCHANGED <<clock, granted, log>>

LoadContactReadMaterial(c) ==
    call[c].handler.lists = "contacts" /\ Grant(c) = Authorization /\ LoadMaterial(c)

LoadApiKeyContactReadMaterial(c) ==
    call[c].handler.lists = "contacts" /\ Grant(c) = Key /\ LoadMaterial(c)

LoadGroupSearchMaterial(c) ==
    call[c].handler.lists = "groups" /\ Grant(c) = Authorization /\ LoadMaterial(c)

LoadApiKeyGroupSearchMaterial(c) ==
    call[c].handler.lists = "groups" /\ Grant(c) = Key /\ LoadMaterial(c)

Ready(c) ==
    \/ At(c, "loaded")
    \/ At(c, "begun") /\ call[c].handler.lists # "contacts"

(* The read checks the grant again in its own transaction.                   *)
Read(c, size) ==
    /\ Ready(c)
    /\ Charges(c) # "bytes"
    /\ IF ActiveAt(Grant(c), CheckedAt(c))
       THEN Goes(c, [call[c] EXCEPT !.phase = "read", !.size = size])
       ELSE size = 0 /\ Goes(c, Failing(c, "authorization_denied"))
    /\ UNCHANGED <<clock, granted, log>>

(* The query, a decryption or the output fails.                              *)
ReadUnavailable(c) ==
    /\ At(c, "begun") \/ At(c, "loaded") \/ At(c, "read")
    /\ Charges(c) # "bytes"
    /\ Goes(c, Failing(c, "service_unavailable"))
    /\ UNCHANGED <<clock, granted, log>>

Completed(c, outcome, count) ==
    [log EXCEPT ![c].outcome = outcome, ![c].count = count]

Completing(c) == At(c, "completing")

EndsAt(c) == IF Completing(c) THEN call[c].endedAt ELSE clock

(* Mutant: a page is answered although its log could not be completed.       *)
CompleteSuccessUnaudited(c) ==
    /\ log[c].outcome = "started"
    /\ log' = Completed(c, "success", call[c].size) \/ log' = log
    /\ Replies(c, [Answered(c, "success") EXCEPT !.size = call[c].size,
                                                 !.endedAt = EndsAt(c)])

CompleteSuccess(c) ==
    /\ log[c].outcome = "started"
    /\ log' = Completed(c, "success", call[c].size)
    /\ Replies(c, [Answered(c, "success") EXCEPT !.size = call[c].size,
                                                 !.endedAt = EndsAt(c)])

(* A list, a status or a resource is answered once its log is completed.     *)
CompleteProtectedOperation(c) ==
    /\ At(c, "read")
    /\ Charges(c) # "records"
    /\ CompleteSuccess(c)
    /\ UNCHANGED <<clock, granted>>

(* Mutant: a page is admitted while there is any room.                       *)
FitsAny(c) == call[c].used < RecordLimit

FitsRecords(c) == call[c].used + call[c].size <= RecordLimit

(* Stored Messages are charged when the page is complete, on the day of the  *)
(* completion, by one statement. It sums what is charged already as of the   *)
(* moment it begins, before it holds the row of the Personal Account.        *)
BeginRecordCompletion(c) ==
    /\ At(c, "read")
    /\ Charges(c) = "records"
    /\ Overlap \/ \A other \in Calls : ~ Completing(other)
    /\ Goes(c, [call[c] EXCEPT !.phase = "completing", !.endedAt = clock,
                               !.used = ReturnedRecords(clock)])
    /\ UNCHANGED <<clock, granted, log>>

CompleteMessageRecordRead(c) ==
    /\ Completing(c)
    /\ \/ FitsRecords(c) /\ CompleteSuccess(c)
       \/ /\ ~ FitsRecords(c)
          /\ Goes(c, [Failing(c, "rate_limited") EXCEPT !.resetsAt = NextDay(call[c].endedAt)])
          /\ UNCHANGED log
    /\ UNCHANGED <<clock, granted>>

FailureOutcome(code) ==
    IF code = "authorization_denied" THEN "authorization_denied" ELSE "execution_error"

(* Every failure after the start completes the log before it is answered.    *)
FailAfterAudit(c) ==
    /\ At(c, "failing")
    /\ \/ /\ log[c].outcome = "started"
          /\ log' = Completed(c, FailureOutcome(call[c].code), 0)
          /\ Replies(c, Answered(c, call[c].code))
       \/ /\ Goes(c, Unanswered(c))
          /\ UNCHANGED log
    /\ UNCHANGED <<clock, granted>>

-----------------------------------------------------------------------------
(* Mutant: bytes are charged to the day of the reservation, not of the log.  *)
FitsBytesNow(t, bytes) == ReservedBytes(clock) + bytes <= ByteLimit

FitsBytes(t, bytes) == ReservedBytes(t) + bytes <= ByteLimit

(* The MCP server reserves the bytes of a media resource and writes its log  *)
(* in one transaction.                                                       *)
ReserveStoredMediaRead(c, bytes) ==
    /\ At(c, "asked")
    /\ BeginsByReserving(c)
    /\ IF ActiveAt(Grant(c), clock) /\ FitsBytes(clock, bytes)
       THEN /\ log' = [log EXCEPT ![c] =
                        [ActivityLog(c, "started", TRUE)
                            EXCEPT !.startedAt = clock, !.bytes = bytes]]
            /\ \/ Goes(c, [call[c] EXCEPT !.phase = "read", !.size = 1])
               \/ Goes(c, Answered(c, "not_found"))
       ELSE Goes(c, Idle) /\ UNCHANGED log
    /\ UNCHANGED <<clock, granted>>

(* Under an API Key they are reserved on the log of the call that began.     *)
ReserveApiKeyStoredMediaRead(c, bytes) ==
    /\ At(c, "begun")
    /\ Charges(c) = "bytes"
    /\ \/ /\ ActiveAt(Key, clock)
          /\ FitsBytes(call[c].startedAt, bytes)
          /\ log' = [log EXCEPT ![c].bytes = bytes]
          /\ \/ Goes(c, [call[c] EXCEPT !.phase = "read", !.size = 1])
             \/ Goes(c, Failing(c, "service_unavailable"))
       \/ /\ ActiveAt(Key, clock)
          /\ ~ FitsBytes(call[c].startedAt, bytes)
          /\ Goes(c, [Failing(c, "rate_limited")
                          EXCEPT !.resetsAt = NextDay(call[c].startedAt)])
          /\ UNCHANGED log
       \/ /\ ~ ActiveAt(Key, clock)
          /\ Goes(c, Failing(c, "authorization_denied"))
          /\ UNCHANGED log
    /\ UNCHANGED <<clock, granted>>

(* The object is missing, damaged or cannot be read: the bytes are released. *)
FailStoredMediaRead(c) ==
    /\ At(c, "read")
    /\ Charges(c) = "bytes"
    /\ IF log[c].outcome = "started"
       THEN log' = [log EXCEPT ![c].outcome = "execution_error", ![c].count = 0,
                               ![c].bytes = 0]
       ELSE UNCHANGED log
    /\ Goes(c, Answered(c, "not_found"))
    /\ UNCHANGED <<clock, granted>>

(* The invocation ends between two of its transactions.                      *)
Lost(c) ==
    /\ call[c].phase \notin {"idle", "over"}
    /\ Goes(c, Unanswered(c))
    /\ UNCHANGED <<clock, granted, log>>

Call(c) ==
    \/ RejectProtectedOperation(c)
    \/ BeginProtectedOperation(c)
    \/ BeginUnavailable(c)
    \/ LoadContactReadMaterial(c) \/ LoadApiKeyContactReadMaterial(c)
    \/ LoadGroupSearchMaterial(c) \/ LoadApiKeyGroupSearchMaterial(c)
    \/ \E size \in Sizes \cup {0} :
          Read(c, size) \/ ReserveStoredMediaRead(c, size) \/ ReserveApiKeyStoredMediaRead(c, size)
    \/ ReadUnavailable(c)
    \/ CompleteProtectedOperation(c)
    \/ BeginRecordCompletion(c)
    \/ CompleteMessageRecordRead(c)
    \/ FailAfterAudit(c)
    \/ FailStoredMediaRead(c)
    \/ Lost(c)

Next ==
    \/ Tick
    \/ \E g \in Grants : Revoke(g)
    \/ \E c \in Calls : Call(c) \/ \E h \in Handlers, g \in Grants : Ask(c, AllHandlers[h], g)

Spec == Init /\ [][Next]_vars

-----------------------------------------------------------------------------
(* What the admission of tool calls and the Activity Log promise.            *)

Outcomes == {"none", "started", "success", "authorization_denied",
             "rate_limited", "execution_error"}

ActivityLogs ==
    [outcome : Outcomes, startedAt : Nat, grant : Grants,
     charges : {"nothing", "records", "bytes"}, reserved : BOOLEAN, count : Nat, bytes : Nat]

(* Types of the state: calls move through their phases, logs hold outcomes.  *)
TypeOK ==
    /\ clock \in 0..MaxTime
    /\ granted \subseteq Grants
    /\ \A c \in Calls :
          /\ log[c] \in ActivityLogs
          /\ call[c].phase \in {"idle", "asked", "begun", "loaded", "read", "completing",
                                "failing", "over"}
          /\ call[c].startedAt \in Nat
          /\ call[c].grant \in Grants

Window(starts, t, width) == {c \in starts : log[c].startedAt \in (t - width + 1)..t}

Reserved == {c \in Calls : log[c].reserved}
ReservedByKey == {c \in Reserved : log[c].grant = Key}

(* Whatever order calls begin in, long after the moment they start at or at  *)
(* once, no window of a minute or an hour holds more request starts than the *)
(* Personal Account or the API Key is allowed.                               *)
RateWindow ==
    \A s \in Reserved :
        LET t == log[s].startedAt IN
        /\ Cardinality(Window(Reserved, t, Minute)) <= MinuteLimit
        /\ Cardinality(Window(Reserved, t, Hour)) <= HourLimit
        /\ Cardinality(Window(ReservedByKey, t, Minute))
               <= KeyMinuteLimit
        /\ Cardinality(Window(ReservedByKey, t, Hour)) <= KeyHourLimit

(* A caller told to come back at a moment would not have been admitted at    *)
(* any earlier one, and is admitted then if nobody else has called.          *)
RetryHonest ==
    [][\A c \in Calls :
          call[c].phase = "asked" /\ call'[c].answer = "rate_limited" =>
              LET r == call'[c].resetsAt IN
              /\ r > call[c].startedAt
              /\ Resets(Grant(c), r) = {}
              /\ \A t \in call[c].startedAt..(r - 1) : Resets(Grant(c), t) # {}]_vars

RecordsOf(calls) == MapThenSumSet(LAMBDA c : log[c].count, calls)

Answers(d) == {c \in Calls : /\ call[c].answer = "success"
                             /\ log[c].charges = "records"
                             /\ DayOf(call[c].endedAt) = d}

Days == 0..DayOf(MaxTime)

(* The Stored Messages answered on one day, to calls of that day, stay       *)
(* within the limit although each call reads before it is charged, whether   *)
(* answers are lost, calls fail or several charges are under way.            *)
RecordsWithinDay ==
    \A d \in Days :
        RecordsOf({c \in Answers(d) : DayOf(call[c].startedAt) = d}) <= RecordLimit

(* The Stored Messages answered on one day stay within the limit.            *)
RecordsPerDay == \A d \in Days : RecordsOf(Answers(d)) <= RecordLimit

(* The media bytes answered to the calls of one day stay within the limit,   *)
(* while reservations are made, released and lost.                           *)
BytesPerDay ==
    \A d \in Days :
        MapThenSumSet(LAMBDA c : log[c].bytes,
            {c \in Calls : /\ call[c].answer = "success"
                           /\ DayOf(log[c].startedAt) = d}) <= ByteLimit

(* Nothing is disclosed that the Activity Log does not tell: an answer with  *)
(* data has a log of success that counts it, and a log of success whose      *)
(* answer never arrived is still there for the User to see.                  *)
AnswerIsLogged ==
    \A c \in Calls :
        /\ call[c].answer = "success" =>
              log[c].outcome = "success" /\ log[c].count = call[c].size
        /\ call[c].phase \in {"begun", "loaded", "read", "completing", "failing"} =>
              log[c].outcome = "started"
        /\ call[c].answer \in {"rate_limited", "authorization_denied"}
              /\ Grant(c) = Authorization =>
              log[c].outcome \notin {"none", "started", "success"}
=============================================================================
