------------------------------- MODULE AccessMC -------------------------------
(***************************************************************************)
(* What a client may do with a Personal Account: its API Keys, its MCP     *)
(* Authorizations, the limits of its calls and the pages it reads.  One    *)
(* run explores several cases; `part` is the one that moves, and the       *)
(* others stand in an initial state:                                       *)
(*   restored, limit, deleted: two API Keys, with expiry and a restore,    *)
(*             created by two requests at once, and under deletions        *)
(*   family, session, consent, holder: an authorization whose credentials  *)
(*             are replayed, that ends, that two tabs consent to before    *)
(*             any token is asked for, and that only its holder uses       *)
(*   window, records, bytes: two calls under each of the limits            *)
(*   messages, chats, people, search, settings: one walk over pages        *)
(***************************************************************************)
EXTENDS ApiKeys, Sequences, TLC

CONSTANTS k1, k2, n1, n2, c1, c2, r1, r2, q1, d1, d2, u1, u2, key, authorization

VARIABLES
  part,
  time, handoff, tab, grant, auth, credential, request, minted, held,
  moment, granted, log, call,
  hour, message, shell, excluded, name, gaps, walk

authorizationVars == <<time, handoff, tab, grant, auth, credential, request, minted, held>>
callVars == <<moment, granted, log, call>>
pageVars == <<hour, message, shell, excluded, name, gaps, walk>>

-----------------------------------------------------------------------------
(* API Keys                                                                *)

\* Without a time, and at time 1.
Once == {Never, 1}

Created == INSTANCE ApiKeys WITH
  Names <- {n1, n2}, Requests <- {r1, r2}, Calls <- {}, Retention <- 1, Expiries <- {Never},
  MaxTime <- 1, Restores <- 1, Overlap <- FALSE

Deleted == INSTANCE ApiKeys WITH
  Connections <- {c1, c2}, Expiries <- {Never}, MaxTime <- 1

-----------------------------------------------------------------------------
(* MCP Authorizations                                                      *)

Family == INSTANCE Authorization WITH
  Tabs <- {d1}, Requests <- {u1, u2}, MaxTokens <- 4, HandoffTtl <- 1, Freshness <- 1,
  Session <- 3, Idle <- 2, Overlap <- FALSE, Replay <- TRUE, Lossy <- TRUE, MaxTime <- 2,
  clock <- time

Sessions == INSTANCE Authorization WITH
  Tabs <- {d1}, Requests <- {u1, u2}, MaxTokens <- 4, HandoffTtl <- 2, Freshness <- 2,
  Session <- 3, Idle <- 2, Overlap <- FALSE, Replay <- FALSE, Lossy <- FALSE, MaxTime <- 4,
  clock <- time

Consent == INSTANCE Authorization WITH
  Tabs <- {d1, d2}, Requests <- {u1, u2}, MaxTokens <- 4, HandoffTtl <- 3, Freshness <- 2,
  Session <- 3, Idle <- 1, Overlap <- FALSE, Replay <- TRUE, Lossy <- TRUE, MaxTime <- 4,
  clock <- time

Holder == INSTANCE Authorization WITH
  Tabs <- {d1}, Requests <- {u1, u2}, MaxTokens <- 4, HandoffTtl <- 2, Freshness <- 2,
  Session <- 3, Idle <- 2, Overlap <- FALSE, Replay <- FALSE, Lossy <- FALSE, MaxTime <- 3,
  clock <- time

-----------------------------------------------------------------------------
(* Calls.  The limits that a case is not about are out of its reach.       *)

Eternal == authorization :> 9 @@ key :> 9
KeyExpires == authorization :> 9 @@ key :> 1
AuthorizationExpires == authorization :> 1 @@ key :> 9

Window == INSTANCE ToolCalls WITH
  Calls <- {u1, u2}, Handlers <- {"McpListContacts", "McpListGroups"},
  Authorization <- authorization, Key <- key, Expiry <- Eternal, Minute <- 1, Hour <- 2, Day <- 9, MinuteLimit <- 1, HourLimit <- 1,
  KeyMinuteLimit <- 1, KeyHourLimit <- 1, RecordLimit <- 9, ByteLimit <- 9, Sizes <- {1},
  Overlap <- FALSE, MaxTime <- 2, clock <- moment

Records == INSTANCE ToolCalls WITH
  Calls <- {u1, u2}, Handlers <- {"McpReadMessages", "RestListMessages"},
  Authorization <- authorization, Key <- key, Expiry <- KeyExpires,
  Minute <- 9, Hour <- 9, Day <- 1, MinuteLimit <- 9, HourLimit <- 9, KeyMinuteLimit <- 9,
  KeyHourLimit <- 9, RecordLimit <- 3, ByteLimit <- 3, Sizes <- {2}, Overlap <- FALSE, MaxTime <- 1, clock <- moment

Bytes == INSTANCE ToolCalls WITH
  Calls <- {u1, u2}, Handlers <- {"McpReadMedia", "RestGetStoredMedia"},
  Authorization <- authorization, Key <- key, Expiry <- AuthorizationExpires,
  Minute <- 9, Hour <- 9, Day <- 1, MinuteLimit <- 9, HourLimit <- 9, KeyMinuteLimit <- 9,
  KeyHourLimit <- 9, RecordLimit <- 3, ByteLimit <- 3, Sizes <- {2}, Overlap <- FALSE, MaxTime <- 1, clock <- moment

-----------------------------------------------------------------------------
(* Pages                                                                   *)

OneChat == 1 :> 1 @@ 2 :> 1 @@ 3 :> 1
ChatEach == 1 :> 1 @@ 2 :> 2

History == INSTANCE Pages WITH
  Messages <- {1, 2, 3}, Chats <- {1}, ChatOf <- OneChat, Conversation <- 1, Matching <- {1, 2},
  People <- {}, Names <- {1}, Kinds <- {"messages"}, Channels <- {"mcp", "api"}, Limit <- 2,
  Retention <- 1, Lifetime <- 2, MaxTime <- 2, clock <- hour

Search == INSTANCE Pages WITH
  Messages <- {1, 2, 3}, Chats <- {1}, ChatOf <- OneChat, Conversation <- 1, Matching <- {1, 2},
  People <- {}, Names <- {1}, Kinds <- {"search"}, Channels <- {"mcp", "api"}, Limit <- 1,
  Retention <- 2, Lifetime <- 2, MaxTime <- 2, clock <- hour

Conversations == INSTANCE Pages WITH
  Messages <- {1, 2}, Chats <- {1, 2}, ChatOf <- ChatEach, Conversation <- 1, Matching <- {1, 2},
  People <- {}, Names <- {1}, Kinds <- {"chats"}, Channels <- {"mcp", "api"}, Limit <- 1,
  Retention <- 1, Lifetime <- 2, MaxTime <- 2, clock <- hour

Directory == INSTANCE Pages WITH
  Messages <- {}, Chats <- {1}, ChatOf <- <<>>, Conversation <- 1, Matching <- {},
  People <- {1, 2}, Names <- {1, 2}, Kinds <- {"contacts", "groups"}, Channels <- {"mcp", "api"},
  Limit <- 1, Retention <- 2, Lifetime <- 1, MaxTime <- 2, clock <- hour

\* A walk over contacts that leave the Directory may start again for ever; one over
\* groups has no more entries than there are groups.
MaxEntries == 3

Settings == INSTANCE Pages WITH
  Messages <- {}, Chats <- {1}, ChatOf <- <<>>, Conversation <- 1, Matching <- {},
  People <- {1, 2, 3}, Names <- {1, 2}, Kinds <- {"settings_contacts", "settings_groups"}, Channels <- {"web"},
  Limit <- 1, Retention <- 1, Lifetime <- 1, MaxTime <- 1, clock <- hour

ASSUME /\ Family!AuthorizationAssumption /\ Consent!AuthorizationAssumption
       /\ Window!ToolCallsAssumption /\ Records!ToolCallsAssumption /\ Bytes!ToolCallsAssumption
       /\ History!PagesAssumption /\ Conversations!PagesAssumption /\ Directory!PagesAssumption
       /\ Settings!PagesAssumption

-----------------------------------------------------------------------------
RunInit ==
  /\ part \in {"restored", "limit", "deleted", "family", "session", "consent", "holder",
               "window", "records", "bytes", "messages", "chats", "people", "search", "settings"}
  /\ CASE part = "limit" -> Created!Init
       [] part = "deleted" -> Deleted!Init
       [] OTHER -> Init
  /\ CASE part = "session" -> Sessions!Init
       [] part = "consent" -> Consent!Init
       [] OTHER -> Family!Init
  /\ Window!Init
  /\ CASE part = "chats" -> Conversations!Init
       [] part = "people" -> Directory!Init
       [] part = "settings" -> Settings!Init
       [] OTHER -> History!Init

RunNext ==
  \/ /\ \/ part = "restored" /\ Next
        \/ part = "limit" /\ Created!Next
        \/ part = "deleted" /\ Deleted!Next
     /\ UNCHANGED <<part, authorizationVars, callVars, pageVars>>
  \/ /\ \/ part = "family" /\ Family!Next
        \/ part = "session" /\ Sessions!Next
        \/ part = "consent" /\ Consent!Next /\ UNCHANGED request
        \/ part = "holder" /\ Holder!Next
     /\ UNCHANGED <<part, vars, callVars, pageVars>>
  \/ /\ \/ part = "window" /\ Window!Next
        \/ part = "records" /\ Records!Next
        \/ part = "bytes" /\ Bytes!Next
     /\ UNCHANGED <<part, vars, authorizationVars, pageVars>>
  \/ /\ \/ part = "messages" /\ History!Next
        \/ part = "search" /\ Search!Next
        \/ part = "chats" /\ Conversations!Next
        \/ part = "people" /\ Directory!Next
        \/ part = "settings" /\ Settings!Next /\ Len(walk'.entries) <= MaxEntries
     /\ UNCHANGED <<part, vars, authorizationVars, callVars>>

RunSpec == RunInit /\ [][RunNext]_<<part, vars, authorizationVars, callVars, pageVars>>

-----------------------------------------------------------------------------
\* A key that lost its last connection or its account is not active, a list shows what
\* would authenticate, metadata stay for their time and the end of a key is written once.
\* A family of refresh credentials has one descendant, ends for good, ends at a reuse and
\* with its session, and is over when it is shown so; one consent makes one
\* authorization; and a client that replays nothing keeps its access (api-key.ts,
\* mcp-authorization.ts, oauth-provider.ts).
GrantsEndOnce ==
  /\ [](CASE part = "deleted" -> Deleted!LastConnection /\ Deleted!AccountKeys
          [] part = "restored" -> MetadataKept /\ ShownAsIs
          [] part = "family" -> Family!OneDescendant
          [] part = "session" -> Sessions!SessionBound /\ Sessions!ShownEnded
          [] part = "consent" -> Consent!OneConsent
          [] part = "holder" -> Holder!HolderKeepsAccess
          [] OTHER -> TRUE)
  /\ EndIsFixed
  /\ Family!RevokedIsFinal
  /\ Family!ReuseRevokes

\* No window holds more request starts, no day more records or bytes than is allowed, a
\* caller told to wait is told how long, and every answer is in the Activity Log; a walk
\* returns what keeps its place once and in one order, and tells the gaps that intersect
\* what it was asked for (mcp-tool.ts, mcp.ts, rest.ts).
ReadsAreBounded ==
  /\ [](CASE part = "window" -> Window!RateWindow
          [] part = "records" -> Records!RecordsWithinDay /\ Records!AnswerIsLogged
          [] part = "bytes" -> Bytes!BytesPerDay
          [] part = "messages" -> History!Complete
          [] part = "search" -> Search!GapsDisclosed
          [] part = "chats" -> Conversations!Ordered
          [] part = "people" -> Directory!Complete
          [] part = "settings" -> walk.kind = "settings_groups" => Settings!Complete
          [] OTHER -> TRUE)
  /\ Window!RetryHonest
=============================================================================
