------------------------ MODULE WebhookNormalization ------------------------
(***************************************************************************)
(* How a webhook delivery of the provider becomes items of the product:    *)
(* which item every element of the delivery is, and the identity, the time *)
(* and the names it gets.  Ingestion recognises a repetition by the item's *)
(* identity, orders changes by its version, and joins messages, sends,     *)
(* contacts and exclusions by the protected names.                         *)
(*                                                                         *)
(* Identities are keyed hashes; here a hash is the record it is made from. *)
(* The provider repeats elements, regroups them with others and delivers   *)
(* them when it likes; WebhookIngestion has what follows.                  *)
(*                                                                         *)
(* packages/whatsapp-provider/src/wasender-webhook-normalization.ts.       *)
(***************************************************************************)
EXTENDS Integers, Sequences

CONSTANTS
  Keys,        \* the identity keys of the WhatsApp Connections
  Elements,    \* what the provider may put in a delivery
  Envelopes,   \* the timestamps of its envelopes
  Scale,       \* ticks of a second
  Threshold,   \* a smaller timestamp is in seconds
  Deliveries   \* a bound on deliveries

WebhookNormalizationAssumption ==
  /\ Scale \in Nat \ {0} /\ Threshold \in Nat /\ Deliveries \in Nat

None == "none"
NoIndex == 0
NoJid == [form |-> "none", who |-> None]

VARIABLE log  \* the deliveries that have been normalized, each with its items

vars == <<log>>

Init == log = <<>>

(***************************************************************************)
(* Times and versions.                                                     *)
(***************************************************************************)
NoTime == -1

\* parseTimestamp: a number below the threshold counts seconds.
ParseTimestamp(stamp) ==
  IF stamp < 0 THEN NoTime ELSE IF stamp < Threshold THEN stamp * Scale ELSE stamp

\* Mutant: the time of the delivery is preferred.
FirstTimestampOfEnvelope(own, envelope) ==
  IF ParseTimestamp(envelope) # NoTime THEN ParseTimestamp(envelope) ELSE ParseTimestamp(own)

\* The first of two that can be read.
FirstStamp(own, next) == IF ParseTimestamp(own) # NoTime THEN own ELSE next

\* firstTimestamp of the element's own and the envelope's.
FirstTimestamp(own, envelope) ==
  IF ParseTimestamp(own) # NoTime THEN ParseTimestamp(own) ELSE ParseTimestamp(envelope)

\* makeEvidence; an item without an occurrence has no version.
Version(key, time) == [key |-> key, at |-> time]

CompareVersions(key, left, right) ==
  CASE left.key # key \/ right.key # key \/ NoTime \in {left.at, right.at} -> "incomparable"
    [] OTHER -> IF left.at = right.at THEN "equal" ELSE IF left.at < right.at THEN "before" ELSE "after"

(***************************************************************************)
(* Names.                                                                  *)
(***************************************************************************)
PhoneForms == {"digits", "plus", "jid"}
IsGroup(jid) == jid.form = "group"
IsSupportedConversation(jid) == jid.form \in PhoneForms \cup {"group", "lid"}

\* Mutant: a name is hashed as it is written.
CanonicalAsWritten(jid) == jid

\* canonicalContactIdentity: the forms of a phone number are one name; a LID is another,
\* never guessed to be a number.
Canonical(jid) == IF jid.form \in PhoneForms THEN [jid EXCEPT !.form = "pn"] ELSE jid

ContactName(key, jid) == [key |-> key, of |-> "contact", jid |-> Canonical(jid)]
GroupName(key, jid) == [key |-> key, of |-> "group", jid |-> jid]

\* makeRecipient: whom a message is exchanged with.
Name(key, jid) == IF IsGroup(jid) THEN GroupName(key, jid) ELSE ContactName(key, jid)

NoName == [key |-> None, of |-> None, jid |-> NoJid]

MessageIdentity(key, id) == [key |-> key, id |-> id]

Identity(key, namespace, id, jid, what, time) ==
  [key |-> key, namespace |-> namespace, id |-> id, jid |-> jid, what |-> what, time |-> time]

NoIdentity == Identity(None, None, None, NoJid, <<>>, NoTime)

(***************************************************************************)
(* Items.  An element has the fields that its family has in the provider's *)
(* payloads; a field that is absent is None, and an element that is not a  *)
(* record, or lacks its inner one, is not `shaped`.                        *)
(***************************************************************************)
Item(kind, i) ==
  [kind |-> kind, index |-> i, class |-> None, identity |-> NoIdentity,
   message |-> [key |-> None, id |-> None], version |-> Version(None, NoTime),
   recipient |-> NoName, sender |-> NoName, contact |-> NoIdentity,
   direction |-> None, what |-> <<>>]

Malformed(i, class) == [Item("malformed", i) EXCEPT !.class = class]
Unsupported(i) == [Item("unsupported", i) EXCEPT !.class = "unsupported_item_kind"]

InvalidShape(i) == Malformed(i, "invalid_item_shape")
MissingIdentity(i) == Malformed(i, "missing_required_identity")

Dated(item, key, time) == [item EXCEPT !.version = Version(key, time)]

Foreign(jid) == jid # NoJid /\ ~IsSupportedConversation(jid)

\* extractContent: its type and text, media before text; nothing when it cannot be read.
Content(e) ==
  CASE e.content = "unreadable" -> <<>>
    [] e.content = "media" -> <<"media", e.text>>
    [] OTHER -> <<IF e.text = None THEN "unknown" ELSE "text", e.text>>

Unreadable(e) == Content(e) = <<>>
Unknown(e) == Content(e) = <<"unknown", None>>

Direction(e) == IF e.fromMe = "yes" THEN "outbound" ELSE IF e.fromMe = "no" THEN "inbound" ELSE None

\* An edit of another message, told inside a message of its own; `target` is the message
\* that is edited and `remote` its chat.
NormalizeEdit(key, e, time, i) ==
  IF e.target = None THEN MissingIdentity(i)
  ELSE IF Foreign(e.remote) THEN Unsupported(i)
  ELSE IF Unreadable(e) \/ Unknown(e) THEN InvalidShape(i)
  ELSE Dated([Item("message_edit", i) EXCEPT
         !.identity = Identity(key, "message-edit", e.target, NoJid, Content(e), time),
         !.message = MessageIdentity(key, e.target), !.what = Content(e)], key, time)

\* The participant of a group; in a direct chat the number the provider gives, or the chat.
\* The element's `participant` is the first of the fields that the provider filled.
SenderOf(e) == IF IsGroup(e.remote) \/ e.participant # NoJid THEN e.participant ELSE e.remote

\* A message, with its sender, who is also told of as a contact, and the chat it belongs to.
NormalizeUpsert(key, e, time, i) ==
  LET inbound == e.fromMe = "no"
      sender == IF inbound THEN SenderOf(e) ELSE NoJid
  IN Dated([Item("message_upsert", i) EXCEPT
       !.identity = Identity(key, "message-upsert", e.id, NoJid, <<>>, NoTime),
       !.message = MessageIdentity(key, e.id),
       !.direction = Direction(e),
       !.sender = IF sender = NoJid THEN NoName ELSE ContactName(key, sender),
       !.contact = IF sender = NoJid THEN NoIdentity
                   ELSE Identity(key, "message-sender-contact", e.id, NoJid, <<>>, NoTime),
       !.recipient = Name(key, IF inbound /\ ~IsGroup(e.remote) THEN sender ELSE e.remote),
       !.what = Content(e)], key, time)

NormalizeMessage(key, e, time, i) ==
  IF ~e.shaped THEN InvalidShape(i)
  ELSE IF e.edits THEN NormalizeEdit(key, e, time, i)
  ELSE IF e.id = None \/ e.remote = NoJid THEN MissingIdentity(i)
  ELSE IF e.fromMe = None THEN InvalidShape(i)
  ELSE IF ~IsSupportedConversation(e.remote) THEN Unsupported(i)
  ELSE IF Unreadable(e) THEN InvalidShape(i)
  ELSE IF Unknown(e) THEN Unsupported(i)
  ELSE NormalizeUpsert(key, e, time, i)

NormalizeDeletion(key, e, time, i) ==
  IF ~e.shaped \/ e.id = None THEN MissingIdentity(i)
  ELSE IF Foreign(e.remote) THEN Unsupported(i)
  ELSE Dated([Item("message_delete", i) EXCEPT
         !.identity = Identity(key, "message-delete", e.id, NoJid, <<>>, NoTime),
         !.message = MessageIdentity(key, e.id), !.direction = Direction(e),
         !.recipient = IF e.remote = NoJid THEN NoName ELSE Name(key, e.remote)], key, time)

\* makeSendEvidence: the fate of a message that was sent from this connection.
SendEvidence(key, e, status, time, i) ==
  IF e.id = None THEN MissingIdentity(i)
  ELSE IF e.fromMe = "no" THEN Unsupported(i)
  ELSE IF e.fromMe = None \/ status = None THEN InvalidShape(i)
  ELSE IF Foreign(e.remote) THEN Unsupported(i)
  ELSE Dated([Item("send_evidence", i) EXCEPT
         !.identity = Identity(key, "send-evidence", e.id, NoJid, <<status>>, time),
         !.message = MessageIdentity(key, e.id), !.direction = "outbound", !.what = <<status>>], key, time)

\* normalizeStatus, for the numbers and the words of the provider.
Status(value) ==
  CASE value \in {"0", "error", "failed"} -> "failed"
    [] value \in {"1", "pending", "accepted"} -> "accepted"
    [] value \in {"2", "sent"} -> "sent"
    [] value \in {"3", "delivered"} -> "delivered"
    [] value \in {"4", "5", "played", "read"} -> "read"
    [] OTHER -> None

NormalizeStatus(key, e, time, i) ==
  IF e.shaped THEN SendEvidence(key, e, Status(e.value), time, i) ELSE InvalidShape(i)

NormalizeSentMessage(key, e, time, whole, i) ==
  CASE e.value = "sent" -> NormalizeMessage(key, e, time, i)
    [] e.value = "failed" -> SendEvidence(key, e, "failed", whole, i)
    [] OTHER -> InvalidShape(i)

\* A receipt without a status is told by the time it has.
ReceiptStatus(e) ==
  IF ~e.shaped THEN None
  ELSE IF Status(e.value) # None THEN Status(e.value)
  ELSE IF ParseTimestamp(e.read) # NoTime THEN "read"
  ELSE IF ParseTimestamp(e.stamp) # NoTime THEN "delivered" ELSE None

NormalizeReceipt(key, e, envelope, i) ==
  SendEvidence(key, e, ReceiptStatus(e), FirstTimestamp(e.read, FirstStamp(e.stamp, envelope)), i)

\* An update that has none of the fields the product knows tells nothing.
NothingKnown(e) == {e.text, e.phone, e.flag} = {None}

\* contactPhoneNumber: given, or the number that the identity is.
Phone(e) ==
  IF e.phone # None THEN e.phone ELSE IF e.remote.form \in PhoneForms THEN e.remote.who ELSE None

\* A contact is active unless the element says it is not.
NormalizeContact(key, e, time, i) ==
  LET told == <<e.text, IF e.flag = "no" THEN "inactive" ELSE "active", Phone(e)>>
  IN IF ~e.shaped \/ e.remote = NoJid THEN MissingIdentity(i)
     ELSE IF e.family = "contacts.update" /\ NothingKnown(e) THEN Unsupported(i)
     ELSE Dated([Item("directory_contact", i) EXCEPT
            !.identity = Identity(key, "directory-contact", None, e.remote, told, time),
            !.recipient = ContactName(key, e.remote), !.what = told], key, time)

\* A group is joined unless the element says it is not.
NormalizeGroup(key, e, time, i) ==
  LET told == <<e.text, IF e.flag = "no" THEN "left" ELSE "joined">>
  IN IF ~e.shaped \/ e.remote = NoJid THEN MissingIdentity(i)
     ELSE IF e.family = "groups.update" /\ {e.text, e.flag} = {None} THEN Unsupported(i)
     ELSE Dated([Item("directory_group", i) EXCEPT
            !.identity = Identity(key, "directory-group", None, e.remote, told, time),
            !.recipient = GroupName(key, e.remote), !.what = told], key, time)

ConnectionState(value) ==
  CASE value \in {"connected", "connecting", "disconnected"} -> value
    [] value \in {"expired", "logged_out", "need_passkey", "need_scan"} -> "reconnect_required"
    [] value \in {"degraded", "error", "failed"} -> "degraded"
    [] OTHER -> None

NormalizeConnection(key, e, time, i) ==
  IF ConnectionState(e.value) = None THEN InvalidShape(i)
  ELSE Dated([Item("connection_state", i) EXCEPT
         !.identity = Identity(key, "connection-state", None, NoJid, <<ConnectionState(e.value)>>, time),
         !.what = <<ConnectionState(e.value)>>], key, time)

Incoming == {"messages.upsert", "messages.received", "messages-personal.received",
             "messages-group.received"}

\* Families whose data is one element, not a list of them.
Single == {"message.sent", "session.status"}

Listed == Incoming \cup {"messages.delete", "messages.update", "message-receipt.update",
                         "contacts.upsert", "contacts.update", "groups.upsert", "groups.update"}

\* normalizeEnvelope, for one element of the delivery.
Normalize(key, e, envelope, i) ==
  LET time == FirstTimestamp(e.stamp, envelope)
      whole == ParseTimestamp(envelope)  \* families whose elements have no time of their own
  IN CASE e.family \in Incoming -> NormalizeMessage(key, e, time, i)
       [] e.family = "message.sent" -> NormalizeSentMessage(key, e, time, whole, i)
       [] e.family = "messages.delete" -> NormalizeDeletion(key, e, whole, i)
       [] e.family = "messages.update" -> NormalizeStatus(key, e, time, i)
       [] e.family = "message-receipt.update" -> NormalizeReceipt(key, e, envelope, i)
       [] e.family \in {"contacts.upsert", "contacts.update"} -> NormalizeContact(key, e, whole, i)
       [] e.family \in {"groups.upsert", "groups.update"} -> NormalizeGroup(key, e, whole, i)
       [] e.family = "session.status" -> NormalizeConnection(key, e, whole, i)
       [] OTHER -> Unsupported(i)

\* Every element has its item, at its place.
ItemsIn(key, elements, envelope) ==
  [i \in DOMAIN elements |-> Normalize(key, elements[i], envelope, i)]

(***************************************************************************)
(* A delivery: one element, or two of one family.                          *)
(***************************************************************************)
Batches ==
  {<<e>> : e \in Elements}
    \cup {<<e, f>> : e \in Elements, f \in {g \in Elements : g.family \in Listed}}

Logged(key, elements, envelope, items) ==
  log' = Append(log, [key |-> key, elements |-> elements, envelope |-> envelope, items |-> items])

Deliver(key, elements, envelope) ==
  /\ \A i \in DOMAIN elements : elements[i].family = elements[1].family
  /\ Logged(key, elements, envelope, ItemsIn(key, elements, envelope))

\* logicalItems: the data of the family is no list and no record.
DeliverUnlisted(key, family, envelope) ==
  Logged(key, <<>>, envelope, <<InvalidShape(IF family \in Listed THEN NoIndex ELSE 1)>>)

\* The payload is no JSON, or no event.
DeliverUnreadable(key) ==
  Logged(key, <<>>, NoTime, <<Malformed(NoIndex, "invalid_top_level_shape")>>)

Next ==
  /\ Len(log) < Deliveries
  /\ \E key \in Keys :
       \/ \E elements \in Batches, envelope \in Envelopes : Deliver(key, elements, envelope)
       \/ \E family \in Listed \cup Single, envelope \in Envelopes : DeliverUnlisted(key, family, envelope)
       \/ DeliverUnreadable(key)

Spec == Init /\ [][Next]_vars

-----------------------------------------------------------------------------
(***************************************************************************)
(* What normalization promises to those who receive its items.             *)
(*                                                                         *)
(* An element of the model carries, for the properties only, the event at  *)
(* WhatsApp that it tells of (`of`) and when that was (`at`).              *)
(***************************************************************************)

\* An element with its item.
Received ==
  UNION {{[key |-> d.key, element |-> d.elements[i], envelope |-> d.envelope, item |-> d.items[i]] :
            i \in DOMAIN d.elements \cap DOMAIN d.items} : d \in {log[n] : n \in DOMAIN log}}

Valid == {r \in Received : r.item.kind \notin {"malformed", "unsupported"}}

\* Dated by itself: the time of its item does not depend on the envelope it came in.
OwnTime(r) == r.element.stamp # NoTime \/ r.element.read # NoTime

Kinds == {"malformed", "unsupported", "message_upsert", "message_edit", "message_delete",
          "send_evidence", "directory_contact", "directory_group", "connection_state"}

\* Items have their kinds, and what is not an item of the product has no identity and no
\* names to join by; nor has a field that is absent.
TypeOK ==
  \A r \in Received :
    /\ r.item.kind \in Kinds
    /\ \A n \in {r.item.sender, r.item.recipient} : n # NoName => n.jid # NoJid
    /\ r.item.kind \in {"malformed", "unsupported"} =>
         r.item.identity.key = None /\ r.item.message.key = None /\ r.item.recipient.key = None

\* A repeated element gets the identity it had, at any place, beside any siblings and at any
\* time, as long as its envelope is dated alike or it is dated by itself (docs/
\* whatsapp-provider-seam.md:153-155).
RepetitionIsRecognised ==
  \A r, s \in Valid :
    r.key = s.key /\ r.element = s.element /\ (r.envelope = s.envelope \/ OwnTime(r)) =>
      r.item.identity = s.item.identity

\* What is told of different events has different identities, so that ingestion does not drop
\* one for a repetition of the other, nor a message for what it tells of its sender; and
\* connections share none.
EventsAreApart ==
  \A r, s \in Valid :
    /\ r.item.contact # s.item.identity
    /\ r.key # s.key \/ r.element.of # s.element.of =>
         /\ r.item.identity # s.item.identity
         /\ r.item.contact # s.item.contact \/ r.item.contact = NoIdentity

\* Items of one WhatsApp message are about one message, whatever told of them, and items of
\* different messages about different ones.
MessagesJoin ==
  \A r, s \in {v \in Valid : v.item.message.key # None} :
    r.key = s.key => (r.item.message = s.item.message <=> r.element.message = s.element.message)

\* A person who is known by number has one name, in messages and in the Directory, in every
\* form of the number; different people, and a LID, have different ones.
PeopleJoin ==
  \A r, s \in Valid :
    LET known == {r.item.sender, r.item.recipient} \ {NoName}
        others == {s.item.sender, s.item.recipient} \ {NoName}
    IN \A n \in known, m \in others :
         n.key = m.key /\ n # m =>
           n.jid.who # m.jid.who \/ "lid" \in {n.jid.form, m.jid.form}

\* The fate of a send is told only of messages that were sent from the connection.
EvidenceIsOwn ==
  \A r \in Received : r.item.kind = "send_evidence" => r.element.fromMe = "yes"

\* Two events a second or more apart that are dated by themselves compare as they happened,
\* whatever units their times are in.
OrderIsKept ==
  \A r, s \in {v \in Valid : OwnTime(v) /\ v.item.version.key # None} :
    r.key = s.key /\ r.element.at + Scale <= s.element.at =>
      CompareVersions(r.key, r.item.version, s.item.version) = "before"

\* Every element of a delivery has its item at its place, the same as if it had come alone,
\* though a sibling is malformed (docs/whatsapp-provider-seam.md:145-146).
SiblingsKeepTheirPlace ==
  \A n \in DOMAIN log :
    LET d == log[n] IN
    /\ d.elements # <<>> => Len(d.items) = Len(d.elements)
    /\ \A i \in DOMAIN d.elements :
         /\ d.items[i].index = i
         /\ ItemsIn(d.key, <<d.elements[i]>>, d.envelope) = <<[d.items[i] EXCEPT !.index = 1]>>
=============================================================================
