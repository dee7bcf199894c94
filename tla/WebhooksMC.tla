----------------------------- MODULE WebhooksMC -----------------------------
(***************************************************************************)
(* Webhook deliveries, from the provider's elements to projected items.    *)
(* One run explores several cases; `part` is the one that moves, and the   *)
(* others stand in an initial state:                                       *)
(*   replay    two copies of one delivery of two items, which an operator  *)
(*             replays, while its Connection may be deleted                *)
(*   letters   two deliveries that share an item; one is never valid       *)
(*   late      the sweep publishes again what the queue still holds        *)
(*   items     what two deliveries of two elements become                  *)
(*   apart     the same for two Connections and one envelope time          *)
(* A run of EndsSpec has the first case alone, with its fairness.          *)
(***************************************************************************)
EXTENDS WebhookIngestion

CONSTANTS
  m1, m2,    \* Webhook Item identities
  Elements   \* what the provider may put in a delivery

VARIABLES part, log

OneDelivery == <<<<m1, m2>>>>
Twice == <<<<m1>>, <<m1>>>>

Letters == INSTANCE WebhookIngestion WITH
  N <- 2, ItemsOf <- <<<<m1>>, <<m2, m1>>>>, Poison <- {2}, Events <- {},
  Copies <- {1}, MaxRetries <- 0, MaxTime <- 3

Late == INSTANCE WebhookIngestion WITH
  Replayable <- {}, Events <- {"sweep", "deletion"}, MaxRetries <- 0, MaxTime <- 3

-----------------------------------------------------------------------------
(***************************************************************************)
(* Elements.  Two ticks are a second; moments are 100 to 107, so that a    *)
(* time in seconds is from 50 to 53 and below the threshold of 60.         *)
(***************************************************************************)
Absent == "none"
Nowhere == [form |-> "none", who |-> Absent]
NoMoment == -1

Ann(form) == [form |-> form, who |-> "ann"]
Bob(form) == [form |-> form, who |-> "bob"]
Team == [form |-> "group", who |-> "team"]
Channel == [form |-> "newsletter", who |-> "news"]

Blank ==
  [family |-> Absent, shaped |-> TRUE, id |-> Absent, remote |-> Nowhere, fromMe |-> Absent,
   participant |-> Nowhere, content |-> "none", text |-> Absent, edits |-> FALSE, target |-> Absent,
   value |-> Absent, stamp |-> NoMoment, read |-> NoMoment, phone |-> Absent, flag |-> Absent,
   of |-> Absent, message |-> Absent, at |-> 0]

Seconds(t) == t \div 2

Message(id, remote, participant, fromMe, t) ==
  [Blank EXCEPT !.family = "messages.upsert", !.id = id, !.remote = remote, !.participant = participant,
     !.fromMe = fromMe, !.content = "text", !.text = "a", !.stamp = Seconds(t),
     !.of = <<"upsert", id>>, !.message = id, !.at = t]

Edit(id, text, t) ==
  [Blank EXCEPT !.family = "messages.upsert", !.id = "carrier", !.remote = Ann("jid"), !.edits = TRUE,
     !.target = id, !.content = "text", !.text = text, !.stamp = t,
     !.of = <<"edit", id, text, t>>, !.message = id, !.at = t]

Status(id, value, fromMe, t) ==
  [Blank EXCEPT !.family = "messages.update", !.id = id, !.remote = Ann("jid"), !.fromMe = fromMe,
     !.value = value, !.stamp = Seconds(t), !.of = <<"status", id, value>>, !.message = id, !.at = t]

Receipt(id, delivered, read) ==
  [Blank EXCEPT !.family = "message-receipt.update", !.id = id, !.remote = Ann("jid"), !.fromMe = "yes",
     !.stamp = IF delivered = NoMoment THEN NoMoment ELSE Seconds(delivered),
     !.read = IF read = NoMoment THEN NoMoment ELSE Seconds(read),
     !.of = <<"status", id, IF read = NoMoment THEN "delivered" ELSE "read">>, !.message = id,
     !.at = IF read = NoMoment THEN delivered ELSE read]

Delete(id, remote) ==
  [Blank EXCEPT !.family = "messages.delete", !.id = id, !.remote = remote,
     !.of = <<"delete", id>>, !.message = id]

Contact(jid, name) ==
  [Blank EXCEPT !.family = "contacts.upsert", !.remote = jid, !.text = name, !.of = <<"contact", jid, name>>]

Told ==
  {Message("m1", Ann("jid"), Nowhere, "no", 101),
   Message("m2", Ann("lid"), Ann("plus"), "no", 103),   \* the chat is a LID, the number is given
   Message("m3", Team, Ann("jid"), "no", 103),
   Message("m4", Ann("jid"), Nowhere, "yes", 105),
   [Message("m5", Channel, Nowhere, "no", 101) EXCEPT !.of = <<"channel">>],
   [Message("m6", Bob("jid"), Nowhere, "no", 101) EXCEPT !.content = "unreadable"],
   [Message("m9", Bob("jid"), Nowhere, "no", 103) EXCEPT !.content = "media", !.text = Absent],
   [Message("m1", Ann("jid"), Nowhere, "no", 101) EXCEPT !.shaped = FALSE],
   Edit("m1", "b", 104), Edit("m1", "a", 107), Edit(Absent, "c", 104)}

Fates ==
  {Status("m4", "2", "yes", 105), Status("m4", "read", "yes", 105), Status("m1", "3", "no", 103),
   Status("m4", "odd", "yes", 105), Receipt("m4", 103, NoMoment), Receipt("m7", 103, 107),
   [Status("m7", "failed", "yes", NoMoment) EXCEPT !.family = "message.sent"],
   [Message("m8", Bob("digits"), Nowhere, "yes", 105) EXCEPT !.family = "message.sent", !.value = "sent"]}

Others ==
  {Delete("m1", Ann("jid")), Delete("m3", Team), Delete(Absent, Nowhere),
   Contact(Ann("jid"), "Ann"), Contact(Ann("lid"), "Ann"), Contact(Bob("plus"), "Bob"),
   [Contact(Bob("plus"), Absent) EXCEPT !.family = "contacts.update"],
   [Contact(Bob("lid"), Absent) EXCEPT !.family = "contacts.update", !.phone = "bob",
                                       !.of = <<"contact", Bob("lid"), "bob">>],
   [Contact(Team, "Team") EXCEPT !.family = "groups.upsert", !.of = <<"group", "team">>],
   [Contact(Team, Absent) EXCEPT !.family = "groups.update", !.flag = "no", !.of = <<"group", "left">>],
   [Blank EXCEPT !.family = "session.status", !.value = "need_scan", !.of = <<"state", "need_scan">>],
   [Blank EXCEPT !.family = "session.status", !.value = "connected", !.of = <<"state", "connected">>],
   [Blank EXCEPT !.family = "calls"]}

AllElements == Told \cup Fates \cup Others

Together == INSTANCE WebhookNormalization WITH
  Keys <- {"k1"}, Envelopes <- {53, NoMoment}, Scale <- 2, Threshold <- 60, Deliveries <- 2

Apart == INSTANCE WebhookNormalization WITH
  Keys <- {"k1", "k2"}, Envelopes <- {53}, Scale <- 2, Threshold <- 60, Deliveries <- 2

ASSUME Letters!IngestionAssumption /\ Late!IngestionAssumption
ASSUME Together!WebhookNormalizationAssumption /\ Apart!WebhookNormalizationAssumption

-----------------------------------------------------------------------------
RunInit ==
  /\ part \in {"replay", "letters", "late", "items", "apart"}
  /\ IF part = "letters" THEN Letters!Init ELSE IF part = "late" THEN Late!Init ELSE Init
  /\ Together!Init

RunNext ==
  \/ part = "replay" /\ Next /\ UNCHANGED <<part, log>>
  \/ part = "letters" /\ Letters!Next /\ UNCHANGED <<part, log>>
  \/ part = "late" /\ Late!Next /\ UNCHANGED <<part, log>>
  \/ part = "items" /\ Together!Next /\ UNCHANGED <<part, vars>>
  \/ part = "apart" /\ Apart!Next /\ UNCHANGED <<part, vars>>

RunSpec == RunInit /\ [][RunNext]_<<part, vars, log>>

EndsInit == part = "replay" /\ Init /\ log = <<>>

EndsSpec ==
  /\ EndsInit
  /\ [][Next /\ UNCHANGED <<part, log>>]_<<part, vars, log>>
  /\ Fairness

\* A repeated element is recognised at any place, beside any siblings and at any time, and
\* two different events are never taken for one, nor those of two Connections.  Items of one
\* message, and of one person known by number, are about one message and one person whatever
\* told of them; the fate of a send is told only of the Connection's own messages; versions
\* order events as they happened; and a malformed sibling moves nothing
\* (wasender-webhook-normalization.ts, whatsapp-provider-seam.md:153-155).
ItemsAreTheEvents ==
  IF part = "apart" THEN Apart!EventsAreApart
  ELSE /\ Together!RepetitionIsRecognised
       /\ Together!MessagesJoin /\ Together!PeopleJoin /\ Together!EvidenceIsOwn
       /\ Together!OrderIsKept /\ Together!SiblingsKeepTheirPlace
=============================================================================
