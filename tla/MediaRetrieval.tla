--------------------------- MODULE MediaRetrieval ---------------------------
(***************************************************************************)
(* One pending media object on its way from the provider: an invocation    *)
(* of the scheduled handler asks for the file's metadata, follows the      *)
(* answer to the file, passes the bytes on to the encrypted container as   *)
(* they come, and finalizes the row or fails it.  The provider redirects,  *)
(* breaks off, says nothing, or serves more or less than was declared; an  *)
(* invocation may die, and a later one starts over with the pending row.   *)
(*                                                                         *)
(* StoredMedia has the rows, the quota and the objects; here an attempt is *)
(* alone with its row.  The container is StoredMediaContainer's.           *)
(*                                                                         *)
(* packages/whatsapp-provider/src/media.ts and media-source.ts,            *)
(* apps/api/src/stored-media-ingestion.ts.                                 *)
(***************************************************************************)
EXTENDS Integers

CONSTANTS
  Limit,          \* STORED_MEDIA_LIMITS of the media type
  Declared,       \* the sizes a message may declare
  Served,         \* the sizes the provider may serve
  MetadataLimit,  \* the timeout of the metadata request
  DownloadLimit,  \* the timeout of the download
  MaxRedirects,
  Crashes         \* a bound on the invocations that die

ASSUME MediaRetrievalAssumption ==
  /\ Limit \in Nat /\ Declared \subseteq Nat /\ Served \subseteq Nat
  /\ {MetadataLimit, DownloadLimit} \subseteq Nat \ {0}
  /\ MaxRedirects \in Nat /\ Crashes \in Nat

Unknown == -1

VARIABLES
  media,    \* the size the message declares, if it does, and whether its source is usable
  served,   \* the size of the file at the provider
  row,      \* stored_media: its state and the size it records
  job,      \* the attempt: its phase, redirects, timer, the bytes passed on and why it fails
  spent,    \* how long the requests of the attempt have taken
  crashes

vars == <<media, served, row, job, spent, crashes>>

Idle == [phase |-> "idle", hops |-> 0, timer |-> 0, received |-> 0, why |-> "none"]

Init ==
  /\ media \in [declared : Declared \cup {Unknown}, wellFormed : BOOLEAN]
  /\ served \in Served
  /\ row = [state |-> "pending", size |-> 0]
  /\ job = Idle /\ spent = 0 /\ crashes = 0

Requesting == job.phase \in {"metadata", "metadata_body", "download", "bytes"}

Goes(phase) == job' = [job EXCEPT !.phase = phase]

Fails(why) == job' = [job EXCEPT !.phase = "failing", !.why = why, !.timer = 0]

\* An invocation takes the pending row; a source that cannot be read ends the attempt.
Begin ==
  /\ row.state = "pending" /\ job.phase = "idle"
  /\ job' = IF media.wellFormed
            THEN [Idle EXCEPT !.phase = "metadata", !.timer = MetadataLimit]
            ELSE [Idle EXCEPT !.phase = "failing", !.why = "source_rejected"]
  /\ spent' = 0
  /\ UNCHANGED <<media, served, row, crashes>>

\* The download runs while the container is written, which takes whatever fails in it, a
\* refused source included, for a failure of storage.
Reason(why) == IF job.phase \in {"download", "bytes"} THEN "storage_failed" ELSE why

\* A redirect is followed to the provider's media host only, and not for ever.
Follow(usable) ==
  IF usable /\ job.hops < MaxRedirects
  THEN job' = [job EXCEPT !.hops = @ + 1]
  ELSE Fails(Reason("source_rejected"))

Redirect ==
  /\ job.phase \in {"metadata", "download"}
  /\ \E usable \in BOOLEAN : Follow(usable)
  /\ UNCHANGED <<media, served, row, spent, crashes>>

\* Any status but 200, a name that resolves to no public address, or the connection.
RequestFails ==
  /\ Requesting
  /\ \E why \in {"authentication_failed", "throttled", "unavailable", "invalid_response"} \cup
                (IF job.phase = "metadata" THEN {"source_rejected"} ELSE {}) :
       Fails(Reason(why))
  /\ UNCHANGED <<media, served, row, spent, crashes>>

HeadersArrive ==
  /\ \/ job.phase = "metadata" /\ Goes("metadata_body")
     \/ job.phase = "download" /\ Goes("bytes")
  /\ UNCHANGED <<media, served, row, spent, crashes>>

\* The metadata are in.  A file that says it is too large is not downloaded.
MetadataArrive ==
  /\ job.phase = "metadata_body"
  /\ \/ media.declared > Limit /\ Fails("response_too_large")
     \/ Fails("source_rejected")    \* the address is not at the provider's media host
     \/ /\ media.declared <= Limit
        /\ job' = [job EXCEPT !.phase = "download", !.hops = 0, !.timer = DownloadLimit]
  /\ UNCHANGED <<media, served, row, spent, crashes>>

\* Mutant: the limit is compared with each chunk.
WithinLimitByChunk(n) == n <= Limit

\* The limit is compared with the bytes that have come, this chunk included.
WithinLimit(n) == job.received + n <= Limit

\* A chunk is passed on to the container.  The overflow is a failure of storage as well; it
\* keeps its name for PolicyIsRejected.
Chunk ==
  /\ job.phase = "bytes" /\ job.received < served
  /\ \E n \in 1..(served - job.received) :
       IF WithinLimit(n) THEN job' = [job EXCEPT !.received = @ + n]
                         ELSE Fails("overflow")
  /\ UNCHANGED <<media, served, row, spent, crashes>>

\* Mutant: the declared size is not looked at again.
SizeMatchesAlways == TRUE

SizeMatches == media.declared \in {Unknown, job.received}

\* The stream has ended and the container is complete: its size must be the declared one.
StreamEnds ==
  /\ job.phase = "bytes" /\ job.received = served
  /\ IF SizeMatches THEN job' = [job EXCEPT !.phase = "stored", !.timer = 0]
                    ELSE Fails("size_mismatch")
  /\ UNCHANGED <<media, served, row, spent, crashes>>

TimesOut ==
  /\ Requesting /\ job.timer = 0
  /\ Fails("timed_out")
  /\ UNCHANGED <<media, served, row, spent, crashes>>

\* Reading the container back or finalizing may fail too.
Finalize ==
  /\ job.phase = "stored"
  /\ \/ row' = [state |-> "ready", size |-> job.received] /\ Goes("over")
     \/ Fails("processing_failed") /\ UNCHANGED row
  /\ UNCHANGED <<media, served, spent, crashes>>

\* policyFailure: only what the adapter refused by policy is a rejection.
FailedState(why) ==
  IF why \in {"source_rejected", "response_too_large"} THEN "rejected" ELSE "failed"

Fail ==
  /\ job.phase = "failing"
  /\ row' = [row EXCEPT !.state = FailedState(job.why)]
  /\ Goes(IF row'.state = "pending" THEN "idle" ELSE "over")
  /\ UNCHANGED <<media, served, spent, crashes>>

\* The invocation dies; the row stays pending and what has been written is not used.
Crash ==
  /\ job.phase \notin {"idle", "over"} /\ crashes < Crashes
  /\ crashes' = crashes + 1 /\ job' = Idle
  /\ UNCHANGED <<media, served, row, spent>>

\* Time passes, but not past a timer that is due.
Tick ==
  /\ Requesting /\ job.timer > 0
  /\ job' = [job EXCEPT !.timer = @ - 1]
  /\ spent' = IF spent <= MetadataLimit + DownloadLimit THEN spent + 1 ELSE spent
  /\ UNCHANGED <<media, served, row, crashes>>

Next ==
  \/ Begin \/ Redirect \/ RequestFails \/ HeadersArrive \/ MetadataArrive \/ Chunk \/ StreamEnds
  \/ TimesOut \/ Finalize \/ Fail \/ Crash \/ Tick

Spec == Init /\ [][Next]_vars

\* The scheduled handler comes back, timers fire, and what needs nobody else is done.
Fairness ==
  /\ WF_vars(Begin) /\ WF_vars(Tick) /\ WF_vars(TimesOut) /\ WF_vars(Finalize) /\ WF_vars(Fail)

FairSpec == Spec /\ Fairness

-----------------------------------------------------------------------------
(***************************************************************************)
(* What the retrieval of a media object promises.                          *)
(***************************************************************************)

\* The variables have their types; only an attempt that waits for the provider has a timer.
TypeOK ==
  /\ row.state \in {"pending", "ready", "rejected", "failed"}
  /\ job.phase \in {"idle", "metadata", "metadata_body", "download", "bytes", "stored", "failing", "over"}
  /\ job.timer \in 0..(IF job.phase \in {"metadata", "metadata_body"} THEN MetadataLimit ELSE DownloadLimit)
  /\ job.timer > 0 => Requesting
  /\ job.hops \in 0..MaxRedirects /\ spent \in 0..(MetadataLimit + DownloadLimit + 1)
  /\ row.state # "pending" <=> job.phase = "over"

\* No more than the limit of the media type reaches the container, whatever size was
\* declared and in whatever pieces the file comes.
BytesWithinLimit == job.received <= Limit /\ row.size <= Limit

\* A ready object is the whole file of one attempt and has the size that was declared: a
\* stream that broke off or an attempt that died never counts.
ReadyIsWhole ==
  row.state = "ready" => row.size = served /\ media.declared \in {Unknown, row.size}

\* The requests of an attempt take no longer than their two timeouts, redirects included.
InTime == spent <= MetadataLimit + DownloadLimit

\* The row of every media object is settled, however the provider behaves.
Settles == <>[](row.state # "pending")

\* Claimed by docs/runbooks/stored-media-ingestion.md:15: what breaks the size policy
\* becomes `rejected`.  The container turns the overflow of the stream into a failure of its own.
PolicyIsRejected ==
  row.state = "failed" => job.why # "overflow"
=============================================================================
