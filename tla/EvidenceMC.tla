----------------------------- MODULE EvidenceMC -----------------------------
(***************************************************************************)
(* What the provider and its webhooks say about a send, and what a         *)
(* Recipient Exclusion takes back of it.  One run explores several cases;  *)
(* `part` is the one that moves, and the others stand in an initial state: *)
(*   evidence   every report the webhooks can make, beside crashes         *)
(*   excluded   the recipient is excluded and enabled again meanwhile      *)
(*   direct     the same for a file sent to the recipient's phone number   *)
(*   call       one call of a send adapter, whatever the provider answers  *)
(*   crossed    two calls whose answers the provider may mix up            *)
(***************************************************************************)
EXTENDS SendOperations

CONSTANTS callA, k1, c1, c2, ann, bob, team

VARIABLES part, call, net, provider, spent

adapterVars == <<call, net, provider, spent>>

KeyOne == [r \in {callA} |-> k1]
PrintOne == [r \in {callA} |-> "text"]

Excluded == INSTANCE SendOperations WITH
  Reports <- {"sent", "upsert"}, Events <- {"exclude", "crash"}, Lease <- 1, MaxTime <- 4

DirectSend == INSTANCE SendOperations WITH
  Direct <- {callA}, Alias <- {callA}, WithFile <- {callA}, MediaLimit <- 1, Lease <- 1, MaxTime <- 3,
  Reports <- {"failed", "upsert"}, Events <- {"exclude", "conn", "crash"}

Stored(who, kind, version, key, form) ==
  [who |-> who, phone |-> FALSE,
   route |-> [version |-> version, key |-> key, kind |-> kind, identifier |-> [form |-> form, who |-> who]]]

\* A contact with a known number and stored routes of every kind, one of them sealed under
\* an authority that has been replaced.
MCRecipients ==
  {[Stored(ann, "contact", "v1", "former", "lid") EXCEPT !.phone = TRUE],
   Stored(ann, "contact", "v2", "identity", "device"),
   Stored(bob, "contact", "v2", "identity", "username"),
   Stored(bob, "contact", "v1", "authority", "lid"),
   Stored(bob, "contact", "v1", "former", "jid"),
   Stored(team, "group", "v1", "authority", "group")}

OneCall == INSTANCE ProviderSends WITH
  Calls <- {c1}, Kinds <- {"text", "pdf", "image"}, Recipients <- MCRecipients,
  UploadLimit <- 2, SendLimit <- 3, Crossed <- FALSE

Crossed == INSTANCE ProviderSends WITH
  Calls <- {c1, c2}, Kinds <- {"text"}, Recipients <- MCRecipients,
  UploadLimit <- 1, SendLimit <- 1, Crossed <- TRUE

ASSUME Excluded!BoundAssumption /\ DirectSend!IdentityAssumption
ASSUME OneCall!ProviderSendsAssumption /\ Crossed!ProviderSendsAssumption

RunInit ==
  /\ part \in {"evidence", "excluded", "direct", "call", "crossed"}
  /\ IF part = "direct" THEN DirectSend!Init ELSE IF part = "excluded" THEN Excluded!Init ELSE Init
  /\ IF part = "crossed" THEN Crossed!Init ELSE OneCall!Init

RunNext ==
  \/ part = "evidence" /\ Next /\ UNCHANGED <<part, adapterVars>>
  \/ part = "excluded" /\ Excluded!Next /\ UNCHANGED <<part, adapterVars>>
  \/ part = "direct" /\ DirectSend!Next /\ UNCHANGED <<part, adapterVars>>
  \/ part = "call" /\ OneCall!Next /\ UNCHANGED <<part, vars>>
  \/ part = "crossed" /\ Crossed!Next /\ UNCHANGED <<part, vars>>

RunSpec == RunInit /\ [][RunNext]_<<part, vars, adapterVars>>

\* While a recipient is excluded nothing of theirs from before the cutoff is held for a
\* send, and a text to an address used directly goes as soon as its attempt is decided or
\* its Connection is being deleted, although calls passed their checks before that
\* (send.ts, the triggers on the rule and on the Connection).
ContentIsNeeded ==
  IF part = "direct" THEN DirectSend!ExclusionDropsPending /\ DirectSend!PendingIsNeeded
  ELSE ExclusionDropsPending

\* What a send adapter answers is what SendOperations builds on: a failure is told only of
\* a message the provider has not taken, a success only of one it has, each call hands over
\* at most one message with its own file and ends within its timeouts; and evidence is of
\* the call's recipient even when the provider mixes answers up (send-wasender.ts).
AnswersCanBeTrusted ==
  IF part = "crossed" THEN Crossed!EvidenceIsOfRecipient
  ELSE /\ OneCall!AnswersAsAssumed /\ OneCall!OncePerCall
       /\ OneCall!FileOfItsOwn /\ OneCall!AnswersInTime
=============================================================================
