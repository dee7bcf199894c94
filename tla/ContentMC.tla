------------------------------ MODULE ContentMC ------------------------------
(***************************************************************************)
(* What is kept of a message: its row, its search tokens, its media, the   *)
(* container of that media.  One run explores several cases; `part` is the *)
(* one that moves, and the others stand in an initial state:               *)
(*   retrieval  one media object is fetched, whatever the provider serves  *)
(*   edits      edits of one message, two at one time, and its deletion    *)
(*   expired    a message of a send and an old one, under retention        *)
(*   policy     two tabs change the retention policy                       *)
(*   backfill   two workers index three old messages                       *)
(*   quota      two media that do not fit the quota together               *)
(*   objects    one medium, every failure and every purge                  *)
(*   damaged, tampered, stored, pieces, renewed: containers of two files   *)
(*              with damaged objects, under rows of another account, with  *)
(*              failing calls, in many parts, under renewed keys           *)
(***************************************************************************)
EXTENDS MediaRetrieval, Envelope, TLC

CONSTANTS m1, m2, a1, a2, c1, c2, w1, w2, t1, t2

VARIABLES
  part,
  now, messageRow, pending, claimed, days, tab, key, coverage, batch, applied,
  message, mediaRow, used, deletions, r2, excluded, deleting, cron, tries, leaked, lost,
  writer, object, etag, record, reader, faults, breaks, damages, rots

messageVars == <<now, messageRow, pending, claimed, days, tab, key, coverage, batch, applied>>
mediaVars == <<message, mediaRow, used, deletions, r2, excluded, deleting, cron, tries, leaked, lost>>
containerVars == <<writer, object, etag, record, reader, faults, breaks, damages, rots>>

Sizes == {1, 3, 4, 6}
Files == {0, 2, 3, 4, 6}

-----------------------------------------------------------------------------
(* Messages                                                                *)

Item(kind, msg, text, occ, recv, event) ==
  [kind |-> kind, msg |-> msg, text |-> text, occ |-> occ, recv |-> recv, event |-> event]

\* One message: its original, two edits that carry the same time, a third with none,
\* and its deletion, reported
\* without a time.
Edited == {Item("upsert", 1, "a", 1, 1, 1), Item("edit", 1, "b", 2, 2, 2),
           Item("edit", 1, "c", 2, 2, 3), Item("edit", 1, "d", 3, 3, 4),
           Item("edit", 1, "e", 0, 4, 5), Item("delete", 1, "x", 0, 4, 6)}

\* A message sent through Normal: the evidence of the send, the provider's own
\* observation of it, an edit and a deletion.
Sent == {Item("evidence", 1, "a", 0, 1, 1), Item("upsert", 1, "b", 1, 2, 2),
         Item("edit", 1, "c", 2, 3, 3), Item("delete", 1, "x", 3, 4, 4)}

\* The same without the deletion, and a message stored before the index existed.
SentAndOld == {Item("evidence", 2, "a", 0, 2, 1), Item("upsert", 2, "b", 2, 3, 2),
               Item("edit", 1, "c", 3, 3, 3), Item("delete", 2, "x", 4, 4, 4)}

OldEdited == {Item("edit", 1, "c", 3, 3, 3), Item("delete", 2, "x", 4, 4, 4),
              Item("upsert", 3, "b", 3, 3, 2)}

Edits == INSTANCE StoredMessages WITH
  N <- 1, Items <- Edited, Old <- {}, Policies <- {1, 2}, Workers <- {}, Tabs <- {},
  BatchLimit <- 1, MaxTime <- 3, row <- messageRow

Expires == INSTANCE StoredMessages WITH
  N <- 2, Items <- SentAndOld, Old <- {1}, Policies <- {1, 2}, Workers <- {w1}, Tabs <- {},
  BatchLimit <- 1, MaxTime <- 3, row <- messageRow

Policy == INSTANCE StoredMessages WITH
  N <- 1, Items <- Sent, Old <- {}, Policies <- {1, 2}, Workers <- {}, Tabs <- {t1, t2},
  BatchLimit <- 1, MaxTime <- 2, row <- messageRow

Backfill == INSTANCE StoredMessages WITH
  N <- 3, Items <- OldEdited, Old <- {1, 2, 3}, Policies <- {2}, Workers <- {w1, w2}, Tabs <- {},
  BatchLimit <- 2, MaxTime <- 3, row <- messageRow

-----------------------------------------------------------------------------
(* Media                                                                   *)

Quota == INSTANCE StoredMedia WITH
  Messages <- {m1, m2}, Size <- m1 :> 2 @@ m2 :> 1, Limit <- 2, Crons <- {c1, c2}, Attempts <- 1,
  Faults <- {"crash"}, Changes <- {"expire"}, row <- mediaRow

Objects == INSTANCE StoredMedia WITH
  Messages <- {m1}, Size <- m1 :> 1, Limit <- 1, Crons <- {c1, c2}, Attempts <- 2,
  Faults <- {"crash", "lost_reply", "r2", "database", "provider", "damage"},
  Changes <- {"delete", "expire", "exclude", "disconnect"}, row <- mediaRow

-----------------------------------------------------------------------------
(* Containers                                                              *)

TwoFiles == {m1, m2}
SameConnection == m1 :> [account |-> a1, connection |-> c1] @@ m2 :> [account |-> a1, connection |-> c1]
OtherAccount == m1 :> [account |-> a1, connection |-> c1] @@ m2 :> [account |-> a2, connection |-> c2]
Short == m1 :> 1 @@ m2 :> 2
Long == m1 :> 5 @@ m2 :> 4
Three == m1 :> 3 @@ m2 :> 3
Empty == m1 :> 0 @@ m2 :> 2

AccountKey(a, v) == <<"account key", a, v>>
Row(a, v) == AccountKeyRow(a, v, AccountKey(a, v))
KeyRow(a, av, c, v) == ConnectionKeyRow(AccountKey(a, av), Row(a, av), c, v, <<"connection key", a, c, v>>)

FirstRow == {Row(a1, 1)}
FirstKey == {KeyRow(a1, 1, c1, 1)}
BothRows == {Row(a1, 1), Row(a2, 1)}
BothKeys == {KeyRow(a1, 1, c1, 1), KeyRow(a2, 1, c2, 1)}
RenewedRows == {Row(a1, 1), Row(a1, 2)}
RenewedKeys == {KeyRow(a1, 1, c1, 1), KeyRow(a1, 1, c1, 2), KeyRow(a1, 2, c1, 2)}

InputsOf(keys, files, accountRows, connectionRows) ==
  [key: keys, media: files, accountRow: accountRows, connectionRow: connectionRows]
ReadOne == InputsOf({m1}, {m1}, FirstRow, FirstKey)
ReadTwo == InputsOf(TwoFiles, TwoFiles, FirstRow, FirstKey)
ReadOther == InputsOf({m2}, TwoFiles, BothRows, BothKeys)
ReadRenewed == InputsOf({m1}, {m1}, RenewedRows, RenewedKeys)

Damaged == INSTANCE StoredMediaContainer WITH
  Media <- TwoFiles, Context <- SameConnection, Bytes <- Three, ChunkSize <- 2, PartSize <- 4,
  AccountRows <- FirstRow, ConnectionRows <- FirstKey, Inputs <- ReadOne,
  Faults <- 0, Breaks <- 0, Damages <- 1, Rots <- 0

Tampered == INSTANCE StoredMediaContainer WITH
  Media <- TwoFiles, Context <- OtherAccount, Bytes <- Short, ChunkSize <- 2, PartSize <- 4,
  AccountRows <- BothRows, ConnectionRows <- BothKeys, Inputs <- ReadOther,
  Faults <- 0, Breaks <- 0, Damages <- 0, Rots <- 1

Failing == INSTANCE StoredMediaContainer WITH
  Media <- TwoFiles, Context <- SameConnection, Bytes <- Empty, ChunkSize <- 2, PartSize <- 3,
  AccountRows <- FirstRow, ConnectionRows <- FirstKey, Inputs <- ReadTwo,
  Faults <- 2, Breaks <- 0, Damages <- 0, Rots <- 0

Pieces == INSTANCE StoredMediaContainer WITH
  Media <- TwoFiles, Context <- SameConnection, Bytes <- Long, ChunkSize <- 2, PartSize <- 3,
  AccountRows <- FirstRow, ConnectionRows <- FirstKey, Inputs <- ReadOne,
  Faults <- 1, Breaks <- 1, Damages <- 0, Rots <- 0

Renewed == INSTANCE StoredMediaContainer WITH
  Media <- TwoFiles, Context <- SameConnection, Bytes <- Long, ChunkSize <- 2, PartSize <- 4,
  AccountRows <- RenewedRows, ConnectionRows <- RenewedKeys, Inputs <- ReadRenewed,
  Faults <- 1, Breaks <- 0, Damages <- 0, Rots <- 0

ASSUME Edits!ItemsAssumption /\ Expires!ItemsAssumption /\ Policy!ItemsAssumption /\ Backfill!ItemsAssumption
ASSUME Quota!MediaAssumption /\ Objects!MediaAssumption
ASSUME Damaged!ContainerAssumption /\ Pieces!ContainerAssumption

-----------------------------------------------------------------------------
InitMessages ==
  \/ part = "expired" /\ Expires!Init
  \/ part = "policy" /\ Policy!Init
  \/ part = "backfill" /\ Backfill!Init
  \/ part \notin {"expired", "policy", "backfill"} /\ Edits!Init /\ (part = "edits" \/ days = 1)

\* Where no container is read or written all of them begin alike.
RunInit ==
  /\ part \in {"retrieval", "edits", "expired", "policy", "backfill", "quota", "objects",
               "damaged", "tampered", "failing", "pieces", "renewed"}
  /\ Init /\ (part = "retrieval" \/ (media = [declared |-> Unknown, wellFormed |-> TRUE] /\ served = 0))
  /\ InitMessages
  /\ IF part = "quota" THEN Quota!Init ELSE Objects!Init
  /\ Damaged!Init

RunNext ==
  \/ part = "retrieval" /\ Next /\ UNCHANGED <<part, messageVars, mediaVars, containerVars>>
  \/ /\ \/ part = "edits" /\ Edits!Next
        \/ part = "expired" /\ Expires!Next
        \/ part = "policy" /\ Policy!Next
        \/ part = "backfill" /\ Backfill!Next
     /\ UNCHANGED <<part, vars, mediaVars, containerVars>>
  \/ /\ \/ part = "quota" /\ Quota!Next
        \/ part = "objects" /\ Objects!Next
     /\ UNCHANGED <<part, vars, messageVars, containerVars>>
  \/ /\ \/ part = "damaged" /\ Damaged!Next
        \/ part = "tampered" /\ Tampered!Next
        \/ part = "failing" /\ Failing!Next
        \/ part = "pieces" /\ Pieces!Next
        \/ part = "renewed" /\ Renewed!Next
     /\ UNCHANGED <<part, vars, messageVars, mediaVars>>

RunSpec == RunInit /\ [][RunNext]_<<part, vars, messageVars, mediaVars, containerVars>>

-----------------------------------------------------------------------------
\* A deleted message keeps no content and no token and an expired one neither; an edit is
\* never undone, not even by an original that arrives late; search knows an edited message
\* by its edited words, and coverage that says complete is complete, although backfill
\* workers and items overlap; and the retention policy is lengthened only from the policy
\* that the requesting tab had read, which is the one its User acknowledged to extend,
\* whatever other tabs did (webhook-event.ts, message-search.ts, message-store.ts).
ContentIsLatest ==
  /\ [](CASE part = "edits" -> Edits!TombstoneIsTerminal /\ Edits!EditNeverUndone
          [] part = "expired" -> Expires!ExpiredContentStaysGone
          [] part = "backfill" -> Backfill!EditReplacesTokens /\ Backfill!CompleteMeansIndexed
          [] OTHER -> TRUE)
  /\ Policy!ExtensionWasSeen

\* The bytes charged are those of the objects that rows hold, never more than the limit;
\* every object has a row, a queued deletion or an invocation that holds it, and readable
\* media has its object (stored-media.ts, stored-media-ingestion.ts).
MediaAccounted ==
  IF part = "quota" THEN Quota!QuotaExact /\ Quota!QuotaBound
  ELSE Objects!QuotaExact /\ Objects!QuotaBound /\ Objects!NoOrphan /\ Objects!ReadyHasObject

\* A reader is handed the file asked for and nothing else, and nothing at all of a damaged
\* one; an object nobody tampered with is a whole container that its own context can read,
\* and R2 never refuses its parts (stored-media-container.ts).
OnlyWholeFiles ==
  CASE part = "damaged" -> Damaged!OnlyTheFile /\ Damaged!NothingOfTheDamaged
    [] part = "tampered" -> Tampered!OnlyTheFile
    [] part = "failing" -> Failing!ObjectIsWhole /\ Failing!ReadableStaysReady
    [] part = "pieces" -> Pieces!PartsAreJoinable /\ Pieces!ObjectIsWhole
    [] part = "renewed" -> Renewed!StoredIsReadable
    [] OTHER -> TRUE
=============================================================================
