------------------------ MODULE MediaRetrievalProofs ------------------------
(***************************************************************************)
(* Theorems about MediaRetrieval for every limit, every size a message may *)
(* declare or a provider may serve, every pair of timeouts and any number  *)
(* of redirects and crashes; then those about StoredMedia.                 *)
(***************************************************************************)
EXTENDS MediaRetrieval, FiniteSetTheorems, TLAPS

Phases == {"idle", "metadata", "metadata_body", "download", "bytes", "stored", "failing", "over"}

Reasons == {"none", "source_rejected", "authentication_failed", "throttled", "unavailable",
            "invalid_response", "response_too_large", "overflow",
            "storage_failed", "size_mismatch", "timed_out", "processing_failed"}

Jobs == [phase : Phases, hops : Nat, timer : Nat, received : Nat, why : Reasons]

Typed ==
  /\ media \in [declared : Declared \cup {Unknown}, wellFormed : BOOLEAN]
  /\ served \in Served /\ spent \in Nat /\ crashes \in Nat
  /\ row \in [state : {"pending", "ready", "rejected", "failed"}, size : Nat]
  /\ job \in Jobs

\* What is left of the timeouts: a request cannot last longer than its timer, and the
\* download only begins when the metadata request is over.
Budget ==
  /\ job.phase \in {"metadata", "metadata_body"} => spent + job.timer <= MetadataLimit
  /\ job.phase \in {"download", "bytes"} => spent + job.timer <= MetadataLimit + DownloadLimit
  /\ spent <= MetadataLimit + DownloadLimit

\* The bytes passed on are a prefix of the file, and a stored container is all of it.
Stored ==
  /\ job.received <= served
  /\ job.phase = "stored" => job.received = served /\ media.declared \in {Unknown, served}
  /\ row.state = "pending" => row.size = 0

IInv == Typed /\ TypeOK /\ Budget /\ Stored /\ BytesWithinLimit /\ ReadyIsWhole

LEMMA Numbers ==
  /\ Limit \in Nat /\ MetadataLimit \in Nat /\ DownloadLimit \in Nat /\ MaxRedirects \in Nat
  /\ \A n \in Served : n \in Nat
BY MediaRetrievalAssumption

LEMMA InitIInv == Init => IInv
BY Numbers, MediaRetrievalAssumption DEF Init, Idle, IInv, Typed, TypeOK, Budget, Stored, BytesWithinLimit,
   ReadyIsWhole, Jobs, Phases, Reasons, Requesting, Unknown

\* A step of an attempt that leaves the row and the time alone.
LEMMA JobKeeps ==
  ASSUME IInv, NEW new \in Jobs, job' = new, UNCHANGED <<media, served, row, spent, crashes>>,
         job.phase \notin {"idle", "over"}, new.phase \notin {"idle", "over"},
         new.hops <= MaxRedirects, new.received <= served, new.received <= Limit,
         new.phase = "stored" => new.received = served /\ media.declared \in {Unknown, served},
         new.phase \in {"failing", "stored"} => new.timer = 0,
         new.phase \in {"metadata", "metadata_body"} =>
           spent + new.timer <= MetadataLimit /\ new.timer <= MetadataLimit,
         new.phase \in {"download", "bytes"} =>
           spent + new.timer <= MetadataLimit + DownloadLimit /\ new.timer <= DownloadLimit
  PROVE  IInv'
<1> USE Numbers DEF IInv
<1>1. Typed' BY DEF Typed
<1>2. row.state = "pending" BY DEF TypeOK
<1>3. TypeOK'
  <2>1. new.phase \in Phases /\ new.timer \in Nat /\ new.hops \in Nat BY DEF Jobs
  <2>2. new.timer \in 0..(IF new.phase \in {"metadata", "metadata_body"} THEN MetadataLimit ELSE DownloadLimit)
    BY <2>1 DEF Phases
  <2>3. new.timer > 0 => new.phase \in {"metadata", "metadata_body", "download", "bytes"}
    BY <2>1 DEF Phases
  <2>4. new.hops \in 0..MaxRedirects BY <2>1
  <2>5. spent \in 0..(MetadataLimit + DownloadLimit + 1) BY DEF TypeOK
  <2> QED BY <1>2, <2>1, <2>2, <2>3, <2>4, <2>5 DEF TypeOK, Requesting, Phases
<1>4. Budget' BY DEF Budget
<1>5. Stored' BY DEF Stored
<1>6. BytesWithinLimit' BY DEF BytesWithinLimit
<1>7. ReadyIsWhole' BY <1>2 DEF ReadyIsWhole
<1> QED BY <1>1, <1>3, <1>4, <1>5, <1>6, <1>7

\* An attempt that gives up keeps everything but its phase, its timer and its reason.
LEMMA FailsKeeps ==
  ASSUME IInv, NEW why \in Reasons, Fails(why), job.phase \notin {"idle", "over"},
         UNCHANGED <<media, served, row, spent, crashes>>
  PROVE  IInv'
<1> DEFINE new == [job EXCEPT !.phase = "failing", !.why = why, !.timer = 0]
<1>1. /\ new \in Jobs /\ new.phase = "failing" /\ new.timer = 0
      /\ new.received = job.received /\ new.hops = job.hops
  BY DEF IInv, Typed, Jobs, Phases
<1>2. job.received <= served /\ job.received <= Limit /\ job.hops <= MaxRedirects
  BY Numbers DEF IInv, Typed, Jobs, TypeOK, Stored, BytesWithinLimit
<1>3. job' = new BY DEF Fails
<1> HIDE DEF new
<1> QED BY <1>1, <1>2, <1>3, JobKeeps

LEMMA RequestKeeps ==
  ASSUME IInv,
         Redirect \/ RequestFails \/ HeadersArrive \/ MetadataArrive \/ Chunk \/ StreamEnds \/ TimesOut
  PROVE  IInv'
<1> USE Numbers
<1>0. /\ job \in Jobs /\ media \in [declared : Declared \cup {Unknown}, wellFormed : BOOLEAN]
      /\ served \in Nat /\ spent \in Nat /\ job.hops \in Nat /\ job.hops <= MaxRedirects
      /\ job.received \in Nat /\ job.timer \in Nat
      /\ job.received <= Limit /\ job.received <= served
      /\ Budget /\ (job.timer > 0 => Requesting)
      /\ job.timer \in 0..(IF job.phase \in {"metadata", "metadata_body"} THEN MetadataLimit ELSE DownloadLimit)
  BY DEF IInv, Typed, TypeOK, Stored, BytesWithinLimit, Jobs
<1>1. CASE Redirect
  <2>1. PICK usable \in BOOLEAN : Follow(usable) BY <1>1 DEF Redirect
  <2>2. CASE usable /\ job.hops < MaxRedirects
    <3> DEFINE new == [job EXCEPT !.hops = @ + 1]
    <3>1. job' = new BY <2>1, <2>2 DEF Follow
    <3>2. /\ new \in Jobs /\ new.hops <= MaxRedirects
          /\ new.phase = job.phase /\ new.timer = job.timer /\ new.received = job.received
      BY <1>0, <2>2 DEF Jobs
    <3>3. /\ new.phase \in {"metadata", "download"}
          /\ UNCHANGED <<media, served, row, spent, crashes>>
      BY <1>1, <3>2 DEF Redirect
    <3> HIDE DEF new
    <3> QED BY <1>0, <3>1, <3>2, <3>3, JobKeeps DEF Budget
  <2>3. CASE ~(usable /\ job.hops < MaxRedirects)
    BY <1>1, <2>1, <2>3, FailsKeeps DEF Redirect, Follow, Reason, Reasons
  <2> QED BY <2>2, <2>3
<1>2. CASE RequestFails
  <2>1. PICK why \in Reasons : Fails(why) BY <1>2 DEF RequestFails, Reason, Reasons
  <2> QED BY <1>2, <2>1, FailsKeeps DEF RequestFails, Requesting
<1>3. CASE HeadersArrive
  <2>1. PICK phase \in {"metadata_body", "bytes"} :
          /\ job' = [job EXCEPT !.phase = phase]
          /\ job.phase = (IF phase = "bytes" THEN "download" ELSE "metadata")
    BY <1>3 DEF HeadersArrive, Goes
  <2> DEFINE new == [job EXCEPT !.phase = phase]
  <2>2. /\ new \in Jobs /\ new.phase = phase
        /\ new.hops = job.hops /\ new.timer = job.timer /\ new.received = job.received
    BY <1>0 DEF Jobs, Phases
  <2>3. job' = new /\ UNCHANGED <<media, served, row, spent, crashes>>
    BY <1>3, <2>1 DEF HeadersArrive
  <2> HIDE DEF new
  <2> QED BY <1>0, <2>1, <2>2, <2>3, JobKeeps DEF Budget
<1>4. CASE MetadataArrive
  <2>1. CASE Fails("response_too_large") \/ Fails("source_rejected")
    BY <1>4, <2>1, FailsKeeps DEF MetadataArrive, Reasons
  <2>2. CASE job' = [job EXCEPT !.phase = "download", !.hops = 0, !.timer = DownloadLimit]
    <3> DEFINE new == [job EXCEPT !.phase = "download", !.hops = 0, !.timer = DownloadLimit]
    <3>1. /\ new \in Jobs /\ new.phase = "download" /\ new.hops = 0
          /\ new.timer = DownloadLimit /\ new.received = job.received
      BY <1>0 DEF Jobs, Phases
    <3>3. job' = new /\ job.phase = "metadata_body" /\ UNCHANGED <<media, served, row, spent, crashes>>
      BY <1>4, <2>2 DEF MetadataArrive
    <3> HIDE DEF new
    <3>2. spent + DownloadLimit <= MetadataLimit + DownloadLimit
      BY <1>0, <1>4 DEF MetadataArrive, Budget
    <3> QED BY <1>0, <3>1, <3>2, <3>3, JobKeeps
  <2> QED BY <1>4, <2>1, <2>2 DEF MetadataArrive
<1>5. CASE Chunk
  <2>1. PICK n \in 1..(served - job.received) :
          IF WithinLimit(n) THEN job' = [job EXCEPT !.received = @ + n]
                            ELSE Fails("overflow")
    BY <1>5 DEF Chunk
  <2>2. CASE WithinLimit(n)
    <3> DEFINE new == [job EXCEPT !.received = @ + n]
    <3>1. /\ new \in Jobs /\ new.received = job.received + n /\ new.phase = job.phase
          /\ new.hops = job.hops /\ new.timer = job.timer
      BY <1>0, <2>1 DEF Jobs
    <3>2. job.received + n <= served /\ job.received + n <= Limit BY <1>0, <2>1, <2>2 DEF WithinLimit
    <3>3. job' = new /\ job.phase = "bytes" /\ UNCHANGED <<media, served, row, spent, crashes>>
      BY <1>5, <2>1, <2>2 DEF Chunk
    <3> HIDE DEF new
    <3> QED BY <1>0, <3>1, <3>2, <3>3, JobKeeps DEF Budget
  <2>3. CASE ~WithinLimit(n) BY <1>5, <2>1, <2>3, FailsKeeps DEF Chunk, Reasons
  <2> QED BY <2>2, <2>3
<1>6. CASE StreamEnds
  <2>1. CASE SizeMatches
    <3> DEFINE new == [job EXCEPT !.phase = "stored", !.timer = 0]
    <3>1. /\ job' = new /\ job.phase = "bytes" /\ job.received = served
          /\ media.declared \in {Unknown, served} /\ UNCHANGED <<media, served, row, spent, crashes>>
      BY <1>6, <2>1 DEF StreamEnds, SizeMatches
    <3>2. /\ new \in Jobs /\ new.phase = "stored" /\ new.timer = 0
          /\ new.hops = job.hops /\ new.received = job.received
      BY <1>0 DEF Jobs, Phases
    <3> HIDE DEF new
    <3> QED BY <1>0, <3>1, <3>2, JobKeeps
  <2>2. CASE ~SizeMatches BY <1>6, <2>2, FailsKeeps DEF StreamEnds, Reasons
  <2> QED BY <2>1, <2>2
<1>7. CASE TimesOut BY <1>7, FailsKeeps DEF TimesOut, Requesting, Reasons
<1> QED BY <1>1, <1>2, <1>3, <1>4, <1>5, <1>6, <1>7

LEMMA RowKeeps == ASSUME IInv, Begin \/ Finalize \/ Fail \/ Crash \/ Tick PROVE IInv'
<1> USE Numbers
    DEF IInv, Typed, TypeOK, Budget, Stored, BytesWithinLimit, ReadyIsWhole, Requesting, Jobs, Phases, Reasons
<1>1. CASE Begin
  <2>1. /\ job' \in Jobs /\ job'.hops = 0 /\ job'.received = 0
        /\ \/ job'.phase = "metadata" /\ job'.timer = MetadataLimit
           \/ job'.phase = "failing" /\ job'.timer = 0
    BY <1>1 DEF Begin, Idle
  <2>2. /\ spent' = 0 /\ UNCHANGED <<media, served, row, crashes>> /\ row.state = "pending"
    BY <1>1 DEF Begin
  <2> QED BY <2>1, <2>2
<1>2. CASE Finalize
  <2>1. CASE row' = [state |-> "ready", size |-> job.received] /\ Goes("over")
    <3>1. /\ job.received = served /\ media.declared \in {Unknown, served} /\ row'.size = served
          /\ row'.state = "ready" /\ row' \in [state : {"pending", "ready", "rejected", "failed"}, size : Nat]
      BY <1>2, <2>1 DEF Finalize
    <3>2. /\ job' \in Jobs /\ job'.phase = "over" /\ job'.timer = 0
          /\ job'.hops = job.hops /\ job'.received = job.received
      BY <1>2, <2>1 DEF Finalize, Goes
    <3> QED BY <1>2, <3>1, <3>2 DEF Finalize
  <2>2. CASE Fails("processing_failed") /\ UNCHANGED row BY <1>2, <2>2, FailsKeeps DEF Finalize, Reasons
  <2> QED BY <1>2, <2>1, <2>2 DEF Finalize
<1>3. CASE Fail
  <2>1. /\ row' = [row EXCEPT !.state = FailedState(job.why)]
        /\ FailedState(job.why) \in {"rejected", "failed"}
    BY <1>3 DEF Fail, FailedState
  <2>2. job' = [job EXCEPT !.phase = "over"] BY <1>3, <2>1 DEF Fail, Goes
  <2>3. /\ row'.state \in {"rejected", "failed"} /\ row' \in [state : {"pending", "ready", "rejected", "failed"}, size : Nat]
        /\ row'.size = row.size /\ row.state = "pending"
    BY <1>3, <2>1 DEF Fail
  <2>4. /\ job' \in Jobs /\ job'.phase = "over" /\ job'.timer = 0
        /\ job'.hops = job.hops /\ job'.received = job.received
    BY <1>3, <2>2 DEF Fail
  <2> QED BY <1>3, <2>3, <2>4 DEF Fail
<1>4. CASE Crash BY <1>4 DEF Crash, Idle
<1>5. CASE Tick BY <1>5 DEF Tick
<1> QED BY <1>1, <1>2, <1>3, <1>4, <1>5

LEMMA Invariant == Spec => []IInv
<1>1. IInv /\ UNCHANGED vars => IInv'
  BY DEF vars, IInv, Typed, TypeOK, Budget, Stored, BytesWithinLimit, ReadyIsWhole, Requesting
<1>2. IInv /\ [Next]_vars => IInv' BY <1>1, RequestKeeps, RowKeeps DEF Next
<1> QED BY InitIInv, <1>2, PTL DEF Spec

\* The variables have their types; an attempt that does not wait has no timer.
THEOREM TypeCorrectness == Spec => []TypeOK
BY Invariant, PTL DEF IInv

\* No more than the limit of the media type reaches the container (withByteLimit).
THEOREM BytesWithinLimitHolds == Spec => []BytesWithinLimit
BY Invariant, PTL DEF IInv

\* A ready object is the whole file of one attempt (the size comparison before finalize).
THEOREM ReadyIsWholeHolds == Spec => []ReadyIsWhole
BY Invariant, PTL DEF IInv

\* The requests of an attempt stay within the two timeouts, redirects included.
THEOREM InTimeHolds == Spec => []InTime
<1>1. IInv => InTime BY DEF IInv, Budget, InTime
<1> QED BY <1>1, Invariant, PTL
-----------------------------------------------------------------------------
(***************************************************************************)
(* Theorems about StoredMedia: the rows, the quota and the objects, for    *)
(* every set of messages with media of any size, any limit, any number of  *)
(* invocations at once and all faults and changes.                         *)
(***************************************************************************)
CONSTANTS Messages, Size, AccountLimit, Crons, Attempts, Faults, Changes

VARIABLES message, mediaRow, used, deletions, r2, excluded, deleting, cron, tries, leaked, lost

Store == INSTANCE StoredMedia WITH Limit <- AccountLimit, row <- mediaRow

CronJobs == [phase : Store!Phases, todo : SUBSET Store!Keys, removed : SUBSET Store!Keys,
         msg : Messages \cup {Store!NoKey}, key : Store!Keys \cup {Store!NoKey}]

MediaRows == [state : Store!States, key : Store!Keys \cup {Store!NoKey}]

MediaTyped ==
  /\ message \in [Messages -> {"none", "live", "deleted", "expired", "excluded"}]
  /\ mediaRow \in [Messages -> MediaRows]
  /\ cron \in [Crons -> CronJobs]
  /\ deletions \subseteq Store!Keys /\ r2 \subseteq Store!Keys /\ leaked \subseteq Store!Keys
     /\ lost \subseteq Store!Keys
  /\ excluded \subseteq Messages /\ deleting \in BOOLEAN
  /\ tries \in [Messages -> 0..Attempts]

\* A row has the key of its object exactly while it has one; there is none before its message.
RowsKeyed ==
  \A m \in Messages :
    /\ Store!MediaRow(m)
    /\ message[m] = "none" => mediaRow[m] = Store!NoRow

\* An invocation sweeps without a key, and handles one upload when it has swept.
Sweeping(c) == cron[c].phase \in {"idle", "sweeping"}
JobsKeyed ==
  \A c \in Crons :
    /\ cron[c].removed \subseteq cron[c].todo
    /\ cron[c].phase = "idle" => cron[c] = Store!Idle
    /\ cron[c].phase = "sweeping" => cron[c].key = Store!NoKey
    /\ ~Sweeping(c) => /\ cron[c].key \in Store!Keys /\ Store!Owner(cron[c].key) = cron[c].msg
                       /\ cron[c].todo = {}

\* The keys in use are those of attempts made, and no two invocations handle one.
Made(k) == k[2] <= tries[Store!Owner(k)]
KeysAreMade ==
  /\ \A k \in r2 \cup deletions : Made(k)
  /\ \A c \in Crons : \A k \in cron[c].todo : Made(k)
  /\ \A c \in Crons : cron[c].key # Store!NoKey => Made(cron[c].key)
  /\ \A m \in Messages : mediaRow[m].key # Store!NoKey => Made(mediaRow[m].key)
KeysApart ==
  \A c, d \in Crons : c # d /\ cron[c].key # Store!NoKey => cron[c].key # cron[d].key

\* Nobody else has the key of an upload before it is finalized.
Uploading(c) == cron[c].phase \in {"retrieving", "written"}
UploadsOwn ==
  \A c \in Crons : Uploading(c) =>
    /\ cron[c].key \notin deletions
    /\ \A d \in Crons : cron[c].key \notin cron[d].todo
    /\ mediaRow[cron[c].msg].key # cron[c].key
    /\ cron[c].phase = "retrieving" => cron[c].key \notin r2
    /\ cron[c].phase = "written" => cron[c].key \in r2

\* What an invocation has removed is not there again.
RemovedGone == \A c \in Crons : cron[c].removed \cap r2 = {}

\* The object of a ready row is given up only when the reply of its finalize was lost.
GivenUp(k) ==
  \/ k \in deletions
  \/ \E c \in Crons : k \in cron[c].todo
  \/ \E c \in Crons : cron[c].phase \in {"losing", "undoing"} /\ cron[c].key = k
ReadyKept ==
  \A m \in Messages :
    mediaRow[m].state = "ready" /\ GivenUp(mediaRow[m].key) => mediaRow[m].key \in lost

\* An invocation that has only to mark the row as failed is done with the object.
UploadsSettled ==
  \A c \in Crons : cron[c].phase \in {"failing", "rejecting"} /\ cron[c].key \in r2 \ leaked =>
    mediaRow[cron[c].msg].key = cron[c].key \/ cron[c].key \in deletions

Charged == {m \in Messages : mediaRow[m].state \in {"ready", "purging"}}

KeyInv ==
  /\ MediaTyped /\ RowsKeyed /\ JobsKeyed /\ KeysAreMade /\ KeysApart /\ UploadsOwn
  /\ RemovedGone /\ ReadyKept /\ UploadsSettled /\ Store!NoOrphan /\ Store!ReadyHasObject

LEMMA KeyFacts ==
  ASSUME Store!MediaAssumption
  PROVE  /\ Store!NoKey \notin Store!Keys
         /\ \A k \in Store!Keys : Store!Owner(k) \in Messages /\ k[2] \in Nat
         /\ \A m \in Messages, i \in 1..Attempts :
              <<m, i>> \in Store!Keys /\ Store!Owner(<<m, i>>) = m /\ <<m, i>>[2] = i
<1>1. Store!NoKey \notin Store!Keys BY SMT DEF Store!NoKey, Store!Keys
<1> QED BY <1>1 DEF Store!MediaAssumption, Store!Keys, Store!Owner

LEMMA InitKeyInv == ASSUME Store!MediaAssumption, Store!Init PROVE KeyInv
<1> USE KeyFacts DEF Store!Init
<1>1. Store!Idle \in CronJobs /\ Store!Idle.phase = "idle" /\ Store!Idle.key = Store!NoKey
      /\ Store!Idle.todo = {} /\ Store!Idle.removed = {}
  BY DEF CronJobs, Store!Idle, Store!Phases
<1>2. MediaTyped
  BY <1>1, 0 \in 0..Attempts
  DEF Store!MediaAssumption, MediaTyped, Store!NoRow, Store!States, MediaRows
<1>3. RowsKeyed BY DEF RowsKeyed, Store!NoRow, Store!MediaRow, Store!States
<1>4. JobsKeyed /\ KeysApart /\ UploadsOwn /\ RemovedGone /\ UploadsSettled
  BY <1>1 DEF JobsKeyed, KeysApart, UploadsOwn, Uploading, RemovedGone, UploadsSettled, Sweeping
<1>5. KeysAreMade BY <1>1 DEF KeysAreMade, Store!NoRow
<1>6. ReadyKept /\ Store!NoOrphan /\ Store!ReadyHasObject
  BY <1>1 DEF ReadyKept, Store!NoOrphan, Store!ReadyHasObject, Store!NoRow
<1> QED BY <1>2, <1>3, <1>4, <1>5, <1>6 DEF KeyInv

\* A step of an invocation changes its own record.
LEMMA JobStep ==
  ASSUME MediaTyped, NEW c \in Crons, NEW new \in CronJobs, cron' = [cron EXCEPT ![c] = new]
  PROVE  /\ cron' \in [Crons -> CronJobs] /\ cron'[c] = new
         /\ \A d \in Crons : d # c => cron'[d] = cron[d]
BY DEF MediaTyped

LEMMA RemoveObjectKeeps ==
  ASSUME Store!MediaAssumption, KeyInv, NEW c \in Crons, NEW k \in Store!Keys,
         Store!RemoveObject(c, k)
  PROVE  KeyInv'
<1> USE KeyFacts
<1>0. MediaTyped /\ RowsKeyed /\ JobsKeyed /\ KeysAreMade /\ KeysApart /\ UploadsOwn
      /\ RemovedGone /\ ReadyKept /\ UploadsSettled /\ Store!NoOrphan /\ Store!ReadyHasObject
      /\ cron[c] \in CronJobs
  BY DEF KeyInv, MediaTyped
<1> DEFINE new == [cron[c] EXCEPT !.removed = @ \cup {k}]
<1>1. /\ new \in CronJobs
      /\ new.phase = cron[c].phase /\ new.msg = cron[c].msg /\ new.key = cron[c].key
      /\ new.todo = cron[c].todo /\ new.removed = cron[c].removed \cup {k}
  BY <1>0 DEF Store!RemoveObject, CronJobs
<1>2. cron' = [cron EXCEPT ![c] = new] BY DEF Store!RemoveObject, Store!worldVars, Store!Step
<1> HIDE DEF new
<1>3. /\ cron' \in [Crons -> CronJobs] /\ cron'[c] = new
      /\ \A d \in Crons : d # c => cron'[d] = cron[d]
  BY <1>0, <1>1, <1>2, JobStep
<1>s. /\ k \in cron[c].todo /\ cron[c].phase = "sweeping" /\ r2' = r2 \ {k}
      /\ UNCHANGED <<message, excluded, deleting, mediaRow, used, deletions, tries, leaked, lost>>
        BY <1>0 DEF Store!RemoveObject, Store!worldVars
<1>4. MediaTyped'
  BY <1>0, <1>1, <1>3, <1>s DEF MediaTyped
<1>5. RowsKeyed'
  BY <1>0, <1>1, <1>3, <1>s DEF RowsKeyed, Store!MediaRow, Store!NoRow
<1>6. JobsKeyed'
  BY <1>0, <1>1, <1>3, <1>s DEF JobsKeyed, Sweeping
<1>7. KeysAreMade'
  BY <1>0, <1>1, <1>3, <1>s DEF KeysAreMade, Made
<1>8. KeysApart'
  BY <1>0, <1>1, <1>3, <1>s DEF KeysApart
<1>9. UploadsOwn'
  BY <1>0, <1>1, <1>3, <1>s DEF UploadsOwn, Uploading, JobsKeyed, Sweeping
<1>10. RemovedGone'
  BY <1>0, <1>1, <1>3, <1>s DEF RemovedGone, JobsKeyed, Sweeping
<1>11. ReadyKept'
  BY <1>0, <1>1, <1>3, <1>s DEF ReadyKept, GivenUp
<1>12. UploadsSettled'
  BY <1>0, <1>1, <1>3, <1>s DEF UploadsSettled
<1>13. Store!NoOrphan'
  BY <1>0, <1>1, <1>3, <1>s DEF Store!NoOrphan
<1>14. Store!ReadyHasObject'
  BY <1>0, <1>1, <1>3, <1>s
  DEF Store!ReadyHasObject, ReadyKept, GivenUp, RowsKeyed, Store!MediaRow
<1> QED BY <1>4, <1>5, <1>6, <1>7, <1>8, <1>9, <1>10, <1>11, <1>12, <1>13, <1>14 DEF KeyInv

LEMMA FinishObjectDeletionKeeps ==
  ASSUME Store!MediaAssumption, KeyInv, NEW c \in Crons, NEW k \in Store!Keys,
         Store!FinishObjectDeletion(c, k)
  PROVE  KeyInv'
<1> USE KeyFacts
<1>0. MediaTyped /\ RowsKeyed /\ JobsKeyed /\ KeysAreMade /\ KeysApart /\ UploadsOwn
      /\ RemovedGone /\ ReadyKept /\ UploadsSettled /\ Store!NoOrphan /\ Store!ReadyHasObject
      /\ cron[c] \in CronJobs
  BY DEF KeyInv, MediaTyped
<1> DEFINE new == [cron[c] EXCEPT !.todo = @ \ {k}, !.removed = @ \ {k}]
<1>1. /\ new \in CronJobs
      /\ new.phase = cron[c].phase /\ new.msg = cron[c].msg /\ new.key = cron[c].key
      /\ new.todo = cron[c].todo \ {k} /\ new.removed = cron[c].removed \ {k}
  BY <1>0 DEF Store!FinishObjectDeletion, CronJobs
<1>2. cron' = [cron EXCEPT ![c] = new]
  BY DEF Store!FinishObjectDeletion, Store!Released, Store!worldVars, Store!Step
<1> HIDE DEF new
<1>3. /\ cron' \in [Crons -> CronJobs] /\ cron'[c] = new
      /\ \A d \in Crons : d # c => cron'[d] = cron[d]
  BY <1>0, <1>1, <1>2, JobStep
<1>s. /\ k \in cron[c].removed /\ cron[c].phase = "sweeping" /\ deletions' = deletions \ {k}
      /\ mediaRow' = [m \in Messages |->
                   IF mediaRow[m] = [state |-> "purging",
                   key |-> k] THEN Store!NoRow ELSE mediaRow[m]]
      /\ UNCHANGED <<message, excluded, deleting, r2, tries, leaked, lost>>
        BY <1>0 DEF Store!FinishObjectDeletion, Store!Released, Store!worldVars
<1>t. /\ k \in cron[c].removed /\ cron[c].phase = "sweeping" /\ deletions' = deletions \ {k}
      /\ UNCHANGED <<message, excluded, deleting, r2, tries, leaked, lost>>
  BY <1>s
<1>r. /\ mediaRow' \in [Messages -> MediaRows] /\ k \notin r2 /\ r2 \subseteq Store!Keys
      /\ \A m \in Messages : \/ mediaRow'[m] = mediaRow[m]
                             \/ /\ mediaRow[m].state = "purging" /\ mediaRow[m].key = k
                                /\ mediaRow'[m] = Store!NoRow /\ mediaRow'[m].state = "none"
                                   /\ mediaRow'[m].key = Store!NoKey
  BY <1>0, <1>s DEF MediaTyped, Store!NoRow, Store!States, RemovedGone, MediaRows
<1>4. MediaTyped'
  BY <1>0, <1>1, <1>3, <1>t, <1>r DEF MediaTyped
<1>5. RowsKeyed'
  BY <1>0, <1>1, <1>3, <1>t, <1>r DEF RowsKeyed, Store!MediaRow, Store!NoRow, MediaRows
<1>6. JobsKeyed'
  BY <1>0, <1>1, <1>3, <1>t, <1>r DEF JobsKeyed, Sweeping
<1>7. KeysAreMade'
  BY <1>0, <1>1, <1>3, <1>t, <1>r DEF KeysAreMade, Made
<1>8. KeysApart'
  BY <1>0, <1>1, <1>3, <1>t, <1>r DEF KeysApart
<1>9. UploadsOwn'
  BY <1>0, <1>1, <1>3, <1>t, <1>r DEF UploadsOwn, Uploading, JobsKeyed, Sweeping
<1>10. RemovedGone'
  BY <1>0, <1>1, <1>3, <1>t, <1>r DEF RemovedGone, JobsKeyed, Sweeping
<1>11. ReadyKept'
  BY <1>0, <1>1, <1>3, <1>t, <1>r DEF ReadyKept, GivenUp
<1>12. UploadsSettled'
  BY <1>0, <1>1, <1>3, <1>t, <1>r DEF UploadsSettled, JobsKeyed, Sweeping
<1>13. Store!NoOrphan'
  BY <1>0, <1>1, <1>3, <1>t, <1>r DEF Store!NoOrphan
<1>14. Store!ReadyHasObject'
  BY <1>0, <1>1, <1>3, <1>t, <1>r
  DEF Store!ReadyHasObject, ReadyKept, GivenUp, RowsKeyed, Store!MediaRow
<1> QED BY <1>4, <1>5, <1>6, <1>7, <1>8, <1>9, <1>10, <1>11, <1>12, <1>13, <1>14 DEF KeyInv

LEMMA WriteObjectKeeps ==
  ASSUME Store!MediaAssumption, KeyInv, NEW c \in Crons, Store!WriteObject(c)
  PROVE  KeyInv'
<1> USE KeyFacts
<1>0. MediaTyped /\ RowsKeyed /\ JobsKeyed /\ KeysAreMade /\ KeysApart /\ UploadsOwn
      /\ RemovedGone /\ ReadyKept /\ UploadsSettled /\ Store!NoOrphan /\ Store!ReadyHasObject
      /\ cron[c] \in CronJobs
  BY DEF KeyInv, MediaTyped
<1> DEFINE new == [cron[c] EXCEPT !.phase = "written"]
<1>1. /\ new \in CronJobs
      /\ new.phase = "written" /\ new.msg = cron[c].msg /\ new.key = cron[c].key
      /\ new.todo = cron[c].todo /\ new.removed = cron[c].removed
  BY <1>0 DEF Store!WriteObject, CronJobs, Store!Phases
<1>2. cron' = [cron EXCEPT ![c] = new] BY DEF Store!WriteObject, Store!worldVars, Store!Step
<1> HIDE DEF new
<1>3. /\ cron' \in [Crons -> CronJobs] /\ cron'[c] = new
      /\ \A d \in Crons : d # c => cron'[d] = cron[d]
  BY <1>0, <1>1, <1>2, JobStep
<1>s. /\ cron[c].phase = "retrieving" /\ r2' = r2 \cup {cron[c].key}
      /\ UNCHANGED <<message, excluded, deleting, mediaRow, used, deletions, tries, leaked, lost>>
        BY <1>0 DEF Store!WriteObject, Store!worldVars
<1>k. /\ cron[c].key \in Store!Keys /\ cron[c].key # Store!NoKey /\ Made(cron[c].key)
         /\ cron[c].todo = {}
      /\ \A d \in Crons : cron[c].key \notin cron[d].todo /\ (d # c => cron[d].key # cron[c].key)
  BY <1>0, <1>s DEF JobsKeyed, Sweeping, KeysAreMade, KeysApart, UploadsOwn, Uploading
<1>4. MediaTyped'
  BY <1>0, <1>1, <1>3, <1>s, <1>k DEF MediaTyped
<1>5. RowsKeyed'
  BY <1>0, <1>1, <1>3, <1>s, <1>k DEF RowsKeyed, Store!MediaRow, Store!NoRow
<1>6. JobsKeyed'
  BY <1>0, <1>1, <1>3, <1>s, <1>k DEF JobsKeyed, Sweeping
<1>7. KeysAreMade'
  BY <1>0, <1>1, <1>3, <1>s, <1>k DEF KeysAreMade, Made
<1>8. KeysApart'
  BY <1>0, <1>1, <1>3, <1>s, <1>k DEF KeysApart
<1>9. UploadsOwn'
  BY <1>0, <1>1, <1>3, <1>s, <1>k DEF UploadsOwn, Uploading, JobsKeyed, Sweeping
<1>10. RemovedGone'
  BY <1>0, <1>1, <1>3, <1>s, <1>k DEF RemovedGone, JobsKeyed, Sweeping
<1>11. ReadyKept'
  BY <1>0, <1>1, <1>3, <1>s, <1>k DEF ReadyKept, GivenUp
<1>12. UploadsSettled'
  BY <1>0, <1>1, <1>3, <1>s, <1>k DEF UploadsSettled
<1>13. Store!NoOrphan'
  BY <1>0, <1>1, <1>3, <1>s, <1>k DEF Store!NoOrphan
<1>14. Store!ReadyHasObject'
  BY <1>0, <1>1, <1>3, <1>s, <1>k
  DEF Store!ReadyHasObject, ReadyKept, GivenUp, RowsKeyed, Store!MediaRow
<1> QED BY <1>4, <1>5, <1>6, <1>7, <1>8, <1>9, <1>10, <1>11, <1>12, <1>13, <1>14 DEF KeyInv

LEMMA PhaseKeeps ==
  ASSUME Store!MediaAssumption, KeyInv, NEW c \in Crons,
         Store!RetrievalFails(c) \/ Store!VerificationFails(c) \/ Store!FinalizeFails(c)
  PROVE  KeyInv'
<1> USE KeyFacts
<1>0. MediaTyped /\ RowsKeyed /\ JobsKeyed /\ KeysAreMade /\ KeysApart /\ UploadsOwn
      /\ RemovedGone /\ ReadyKept /\ UploadsSettled /\ Store!NoOrphan /\ Store!ReadyHasObject
      /\ cron[c] \in CronJobs
  BY DEF KeyInv, MediaTyped
<1>2. PICK phase \in {"failing", "rejecting", "undoing"} :
        /\ cron' = [cron EXCEPT ![c] = [cron[c] EXCEPT !.phase = phase]]
        /\ phase = "undoing" => cron[c].phase = "written"
        /\ phase # "undoing" => cron[c].phase = "retrieving"
  BY DEF Store!RetrievalFails, Store!VerificationFails, Store!FinalizeFails, Store!Step
<1> DEFINE new == [cron[c] EXCEPT !.phase = phase]
<1>1. /\ new \in CronJobs
      /\ new.phase = phase /\ new.msg = cron[c].msg /\ new.key = cron[c].key
      /\ new.todo = cron[c].todo /\ new.removed = cron[c].removed
  BY <1>0 DEF CronJobs, Store!Phases
<1>5. cron' = [cron EXCEPT ![c] = new] BY <1>2
<1> HIDE DEF new
<1>3. /\ cron' \in [Crons -> CronJobs] /\ cron'[c] = new
      /\ \A d \in Crons : d # c => cron'[d] = cron[d]
  BY <1>0, <1>1, <1>5, JobStep
<1>s. /\ UNCHANGED <<message, excluded, deleting, mediaRow, used>>
      /\ UNCHANGED <<deletions, r2, tries, leaked, lost>>
      /\ phase = "undoing" => cron[c].phase = "written"
      /\ phase # "undoing" => cron[c].phase = "retrieving"
  BY <1>2 DEF Store!RetrievalFails, Store!VerificationFails, Store!FinalizeFails, Store!worldVars
<1>k. /\ cron[c].key \in Store!Keys /\ cron[c].todo = {} /\ Store!Owner(cron[c].key) = cron[c].msg
      /\ mediaRow[cron[c].msg].key # cron[c].key /\ (phase # "undoing" => cron[c].key \notin r2)
  BY <1>0, <1>s DEF JobsKeyed, Sweeping, UploadsOwn, Uploading
<1>4. MediaTyped'
  BY <1>0, <1>1, <1>3, <1>s, <1>k DEF MediaTyped
<1>15. RowsKeyed'
  BY <1>0, <1>1, <1>3, <1>s, <1>k DEF RowsKeyed, Store!MediaRow, Store!NoRow
<1>6. JobsKeyed'
  BY <1>0, <1>1, <1>3, <1>s, <1>k DEF JobsKeyed, Sweeping
<1>7. KeysAreMade'
  BY <1>0, <1>1, <1>3, <1>s, <1>k DEF KeysAreMade, Made
<1>8. KeysApart'
  BY <1>0, <1>1, <1>3, <1>s, <1>k DEF KeysApart
<1>9. UploadsOwn'
  BY <1>0, <1>1, <1>3, <1>s, <1>k DEF UploadsOwn, Uploading, JobsKeyed, Sweeping
<1>10. RemovedGone'
  BY <1>0, <1>1, <1>3, <1>s, <1>k DEF RemovedGone, JobsKeyed, Sweeping
<1>11. ReadyKept'
  BY <1>0, <1>1, <1>3, <1>s, <1>k DEF ReadyKept, GivenUp, RowsKeyed, Store!MediaRow
<1>12. UploadsSettled'
  BY <1>0, <1>1, <1>3, <1>s, <1>k DEF UploadsSettled
<1>13. Store!NoOrphan'
  BY <1>0, <1>1, <1>3, <1>s, <1>k DEF Store!NoOrphan
<1>14. Store!ReadyHasObject'
  BY <1>0, <1>1, <1>3, <1>s, <1>k
  DEF Store!ReadyHasObject, ReadyKept, GivenUp, RowsKeyed, Store!MediaRow
<1> QED BY <1>4, <1>15, <1>6, <1>7, <1>8, <1>9, <1>10, <1>11, <1>12, <1>13, <1>14 DEF KeyInv

LEMMA CrashKeeps ==
  ASSUME Store!MediaAssumption, KeyInv, NEW c \in Crons, Store!Crash(c)
  PROVE  KeyInv'
<1> USE KeyFacts
<1>0. MediaTyped /\ RowsKeyed /\ JobsKeyed /\ KeysAreMade /\ KeysApart /\ UploadsOwn
      /\ RemovedGone /\ ReadyKept /\ UploadsSettled /\ Store!NoOrphan /\ Store!ReadyHasObject
      /\ cron[c] \in CronJobs
  BY DEF KeyInv, MediaTyped
<1> DEFINE new == Store!Idle
<1>1. /\ new \in CronJobs
      /\ new.phase = "idle" /\ new.msg = Store!NoKey /\ new.key = Store!NoKey
      /\ new.todo = {} /\ new.removed = {}
      /\ new = Store!Idle
  BY <1>0 DEF Store!Idle, CronJobs, Store!Phases
<1>2. cron' = [cron EXCEPT ![c] = new] BY DEF Store!Crash, Store!worldVars, Store!Step
<1> HIDE DEF new
<1>3. /\ cron' \in [Crons -> CronJobs] /\ cron'[c] = new
      /\ \A d \in Crons : d # c => cron'[d] = cron[d]
  BY <1>0, <1>1, <1>2, JobStep
<1>s. /\ leaked' = leaked \cup ({cron[c].key} \ {Store!NoKey})
      /\ UNCHANGED <<message, excluded, deleting, mediaRow, used, deletions, r2, tries, lost>>
        BY <1>0 DEF Store!Crash, Store!worldVars
<1>4. MediaTyped'
  BY <1>0, <1>1, <1>3, <1>s DEF MediaTyped, CronJobs
<1>5. RowsKeyed'
  BY <1>0, <1>1, <1>3, <1>s DEF RowsKeyed, Store!MediaRow, Store!NoRow
<1>6. JobsKeyed'
  BY <1>0, <1>1, <1>3, <1>s DEF JobsKeyed, Sweeping
<1>7. KeysAreMade'
  BY <1>0, <1>1, <1>3, <1>s DEF KeysAreMade, Made
<1>8. KeysApart'
  BY <1>0, <1>1, <1>3, <1>s DEF KeysApart
<1>9. UploadsOwn'
  BY <1>0, <1>1, <1>3, <1>s DEF UploadsOwn, Uploading, JobsKeyed, Sweeping
<1>10. RemovedGone'
  BY <1>0, <1>1, <1>3, <1>s DEF RemovedGone, JobsKeyed, Sweeping
<1>11. ReadyKept'
  BY <1>0, <1>1, <1>3, <1>s DEF ReadyKept, GivenUp
<1>12. UploadsSettled'
  BY <1>0, <1>1, <1>3, <1>s DEF UploadsSettled
<1>13. Store!NoOrphan'
  BY <1>0, <1>1, <1>3, <1>s DEF Store!NoOrphan
<1>14. Store!ReadyHasObject'
  BY <1>0, <1>1, <1>3, <1>s
  DEF Store!ReadyHasObject, ReadyKept, GivenUp, RowsKeyed, Store!MediaRow
<1> QED BY <1>4, <1>5, <1>6, <1>7, <1>8, <1>9, <1>10, <1>11, <1>12, <1>13, <1>14 DEF KeyInv

LEMMA RemoveObjectFailsKeeps ==
  ASSUME Store!MediaAssumption, KeyInv, NEW c \in Crons, NEW k \in Store!Keys,
         Store!RemoveObjectFails(c, k)
  PROVE  KeyInv'
<1> USE KeyFacts
<1>0. MediaTyped /\ RowsKeyed /\ JobsKeyed /\ KeysAreMade /\ KeysApart /\ UploadsOwn
      /\ RemovedGone /\ ReadyKept /\ UploadsSettled /\ Store!NoOrphan /\ Store!ReadyHasObject
      /\ cron[c] \in CronJobs
  BY DEF KeyInv, MediaTyped
<1> DEFINE new == Store!Idle
<1>1. /\ new \in CronJobs
      /\ new.phase = "idle" /\ new.msg = Store!NoKey /\ new.key = Store!NoKey
      /\ new.todo = {} /\ new.removed = {}
      /\ new = Store!Idle
  BY <1>0 DEF Store!Idle, CronJobs, Store!Phases
<1>2. cron' = [cron EXCEPT ![c] = new] BY DEF Store!RemoveObjectFails, Store!worldVars, Store!Step
<1> HIDE DEF new
<1>3. /\ cron' \in [Crons -> CronJobs] /\ cron'[c] = new
      /\ \A d \in Crons : d # c => cron'[d] = cron[d]
  BY <1>0, <1>1, <1>2, JobStep
<1>s. /\ cron[c].phase = "sweeping"
      /\ UNCHANGED <<message, excluded, deleting, mediaRow, used>>
      /\ UNCHANGED <<deletions, r2, tries, leaked, lost>>
        BY <1>0 DEF Store!RemoveObjectFails, Store!worldVars
<1>4. MediaTyped'
  BY <1>0, <1>1, <1>3, <1>s DEF MediaTyped
<1>5. RowsKeyed'
  BY <1>0, <1>1, <1>3, <1>s DEF RowsKeyed, Store!MediaRow, Store!NoRow
<1>6. JobsKeyed'
  BY <1>0, <1>1, <1>3, <1>s DEF JobsKeyed, Sweeping
<1>7. KeysAreMade'
  BY <1>0, <1>1, <1>3, <1>s DEF KeysAreMade, Made
<1>8. KeysApart'
  BY <1>0, <1>1, <1>3, <1>s DEF KeysApart
<1>9. UploadsOwn'
  BY <1>0, <1>1, <1>3, <1>s DEF UploadsOwn, Uploading, JobsKeyed, Sweeping
<1>10. RemovedGone'
  BY <1>0, <1>1, <1>3, <1>s DEF RemovedGone, JobsKeyed, Sweeping
<1>11. ReadyKept'
  BY <1>0, <1>1, <1>3, <1>s DEF ReadyKept, GivenUp
<1>12. UploadsSettled'
  BY <1>0, <1>1, <1>3, <1>s DEF UploadsSettled
<1>13. Store!NoOrphan'
  BY <1>0, <1>1, <1>3, <1>s DEF Store!NoOrphan, JobsKeyed
<1>14. Store!ReadyHasObject'
  BY <1>0, <1>1, <1>3, <1>s
  DEF Store!ReadyHasObject, ReadyKept, GivenUp, RowsKeyed, Store!MediaRow
<1> QED BY <1>4, <1>5, <1>6, <1>7, <1>8, <1>9, <1>10, <1>11, <1>12, <1>13, <1>14 DEF KeyInv

LEMMA BeginKeeps ==
  ASSUME Store!MediaAssumption, KeyInv, NEW c \in Crons, Store!Begin(c)
  PROVE  KeyInv'
<1> USE KeyFacts
<1>0. MediaTyped /\ RowsKeyed /\ JobsKeyed /\ KeysAreMade /\ KeysApart /\ UploadsOwn
      /\ RemovedGone /\ ReadyKept /\ UploadsSettled /\ Store!NoOrphan /\ Store!ReadyHasObject
         /\ cron[c] \in CronJobs
  BY DEF KeyInv, MediaTyped
<1>4. PICK m \in Messages \cup {Store!NoKey} :
        cron' = [cron EXCEPT ![c] = [Store!Idle EXCEPT !.phase = "sweeping", !.todo = deletions,
        !.msg = m]]
  BY DEF Store!Begin, Store!Step
<1> DEFINE new == [Store!Idle EXCEPT !.phase = "sweeping", !.todo = deletions, !.msg = m]
<1>1. /\ new \in CronJobs
      /\ new.phase = "sweeping" /\ new.msg = m /\ new.key = Store!NoKey
      /\ new.todo = deletions /\ new.removed = {}
  BY <1>0 DEF Store!Idle, CronJobs, Store!Phases, MediaTyped
<1>2. cron' = [cron EXCEPT ![c] = new] BY <1>4
<1> HIDE DEF new
<1>3. /\ cron' \in [Crons -> CronJobs] /\ cron'[c] = new
      /\ \A d \in Crons : d # c => cron'[d] = cron[d]
  BY <1>0, <1>1, <1>2, JobStep
<1>5. /\ cron[c].phase = "idle" /\ cron[c].key = Store!NoKey
      /\ UNCHANGED <<message, excluded, deleting, mediaRow, used>>
      /\ UNCHANGED <<deletions, r2, tries, leaked, lost>>
  BY DEF Store!Begin, Store!Idle, Store!worldVars
<1>14. MediaTyped'
  BY <1>0, <1>1, <1>3, <1>5 DEF MediaTyped
<1>15. RowsKeyed'
  BY <1>0, <1>1, <1>3, <1>5 DEF RowsKeyed, Store!MediaRow, Store!NoRow
<1>16. JobsKeyed'
  BY <1>0, <1>1, <1>3, <1>5 DEF JobsKeyed, Sweeping
<1>17. KeysAreMade'
  BY <1>0, <1>1, <1>3, <1>5 DEF KeysAreMade, Made
<1>18. KeysApart'
  BY <1>0, <1>1, <1>3, <1>5 DEF KeysApart
<1>19. UploadsOwn'
  BY <1>0, <1>1, <1>3, <1>5 DEF UploadsOwn, Uploading, JobsKeyed, Sweeping
<1>20. RemovedGone'
  BY <1>0, <1>1, <1>3, <1>5 DEF RemovedGone, JobsKeyed, Sweeping
<1>21. ReadyKept'
  BY <1>0, <1>1, <1>3, <1>5 DEF ReadyKept, GivenUp
<1>22. UploadsSettled'
  BY <1>0, <1>1, <1>3, <1>5 DEF UploadsSettled
<1>23. Store!NoOrphan'
  BY <1>0, <1>1, <1>3, <1>5 DEF Store!NoOrphan
<1>24. Store!ReadyHasObject'
  BY <1>0, <1>1, <1>3, <1>5
  DEF Store!ReadyHasObject, ReadyKept, GivenUp, RowsKeyed, Store!MediaRow
<1> QED BY <1>14, <1>15, <1>16, <1>17, <1>18, <1>19, <1>20, <1>21, <1>22, <1>23, <1>24 DEF KeyInv

LEMMA RetrieveKeeps ==
  ASSUME Store!MediaAssumption, KeyInv, NEW c \in Crons, Store!Retrieve(c)
  PROVE  KeyInv'
<1> USE KeyFacts
<1>0. MediaTyped /\ RowsKeyed /\ JobsKeyed /\ KeysAreMade /\ KeysApart /\ UploadsOwn
      /\ RemovedGone /\ ReadyKept /\ UploadsSettled /\ Store!NoOrphan /\ Store!ReadyHasObject
         /\ cron[c] \in CronJobs
  BY DEF KeyInv, MediaTyped
<1>4. /\ cron[c].phase = "sweeping" /\ cron[c].key = Store!NoKey /\ cron[c].todo = {}
         /\ cron[c].removed = {}
      /\ UNCHANGED <<message, excluded, deleting, mediaRow, used, deletions, r2, leaked, lost>>
  BY <1>0 DEF Store!Retrieve, Store!worldVars, JobsKeyed
<1>5. CASE cron[c].msg = Store!NoKey \/ tries[cron[c].msg] = Attempts
  <2> DEFINE new == Store!Idle
  <2>1. /\ new \in CronJobs /\ new = Store!Idle
        /\ new.phase = "idle" /\ new.msg = Store!NoKey /\ new.key = Store!NoKey
        /\ new.todo = {} /\ new.removed = {}
    BY DEF Store!Idle, CronJobs, Store!Phases
  <2>2. cron' = [cron EXCEPT ![c] = new] /\ tries' = tries BY <1>5 DEF Store!Retrieve, Store!Step
  <2> HIDE DEF new
  <2>3. /\ cron' \in [Crons -> CronJobs] /\ cron'[c] = new
        /\ \A d \in Crons : d # c => cron'[d] = cron[d]
    BY <1>0, <2>1, <2>2, JobStep
  <2>14. MediaTyped'
    BY <1>0, <1>4, <2>1, <2>2, <2>3 DEF MediaTyped
  <2>15. RowsKeyed'
    BY <1>0, <1>4, <2>1, <2>2, <2>3 DEF RowsKeyed, Store!MediaRow, Store!NoRow
  <2>16. JobsKeyed'
    BY <1>0, <1>4, <2>1, <2>2, <2>3 DEF JobsKeyed, Sweeping
  <2>17. KeysAreMade'
    BY <1>0, <1>4, <2>1, <2>2, <2>3 DEF KeysAreMade, Made
  <2>18. KeysApart'
    BY <1>0, <1>4, <2>1, <2>2, <2>3 DEF KeysApart
  <2>19. UploadsOwn'
    BY <1>0, <1>4, <2>1, <2>2, <2>3 DEF UploadsOwn, Uploading, JobsKeyed, Sweeping
  <2>20. RemovedGone'
    BY <1>0, <1>4, <2>1, <2>2, <2>3 DEF RemovedGone, JobsKeyed, Sweeping
  <2>21. ReadyKept'
    BY <1>0, <1>4, <2>1, <2>2, <2>3 DEF ReadyKept, GivenUp
  <2>22. UploadsSettled'
    BY <1>0, <1>4, <2>1, <2>2, <2>3 DEF UploadsSettled
  <2>23. Store!NoOrphan'
    BY <1>0, <1>4, <2>1, <2>2, <2>3 DEF Store!NoOrphan, JobsKeyed
  <2>24. Store!ReadyHasObject'
    BY <1>0, <1>4, <2>1, <2>2, <2>3
    DEF Store!ReadyHasObject, ReadyKept, GivenUp, RowsKeyed, Store!MediaRow
  <2> QED
    BY <2>14, <2>15, <2>16, <2>17, <2>18, <2>19, <2>20, <2>21, <2>22, <2>23, <2>24 DEF KeyInv
<1>6. CASE cron[c].msg # Store!NoKey /\ tries[cron[c].msg] # Attempts
  <2>0. PICK m \in Messages : m = cron[c].msg BY <1>0, <1>6 DEF CronJobs
  <2>4. tries[m] \in 0..Attempts /\ tries[m] + 1 \in 1..Attempts
    <3>1. tries[m] \in 0..Attempts /\ tries[m] # Attempts /\ Attempts \in Nat
      BY <1>0, <1>6, <2>0 DEF MediaTyped, Store!MediaAssumption
    <3> QED BY <3>1
  <2>5. PICK k \in Store!Keys : k = <<m, tries[m] + 1>> /\ Store!Owner(k) = m
             /\ k[2] = tries[m] + 1 /\ k # Store!NoKey
    BY <2>4
  <2> DEFINE new == [cron[c] EXCEPT !.phase = "retrieving", !.key = k]
  <2>1. /\ new \in CronJobs
        /\ new.phase = "retrieving" /\ new.msg = m /\ new.key = k
        /\ new.todo = cron[c].todo /\ new.removed = cron[c].removed
    BY <1>0, <2>0, <2>5 DEF CronJobs, Store!Phases
  <2>2. cron' = [cron EXCEPT ![c] = new] /\ tries' = [tries EXCEPT ![m] = @ + 1]
    BY <1>6, <2>0, <2>5 DEF Store!Retrieve, Store!Step
  <2> HIDE DEF new
  <2>3. /\ cron' \in [Crons -> CronJobs] /\ cron'[c] = new
        /\ \A d \in Crons : d # c => cron'[d] = cron[d]
    BY <1>0, <2>1, <2>2, JobStep
  <2>6. /\ tries' \in [Messages -> 0..Attempts]
        /\ \A j \in Store!Keys : Made(j) => Made(j)' /\ j # k
    BY <1>0, <2>2, <2>4, <2>5 DEF Made, MediaTyped
  <2>7. Made(k)'
    <3>1. tries'[m] = tries[m] + 1 BY <1>0, <2>2, <2>4 DEF MediaTyped
    <3> QED BY <2>4, <2>5, <3>1 DEF Made
  <2>14. MediaTyped'
    BY <1>0, <1>4, <2>1, <2>2, <2>3, <2>5, <2>6, <2>7 DEF MediaTyped
  <2>15. RowsKeyed'
    BY <1>0, <1>4, <2>1, <2>2, <2>3, <2>5, <2>6, <2>7 DEF RowsKeyed, Store!MediaRow, Store!NoRow
  <2>16. JobsKeyed'
    BY <1>0, <1>4, <2>1, <2>2, <2>3, <2>5, <2>6, <2>7 DEF JobsKeyed, Sweeping
  <2>17. KeysAreMade'
    <3>1. \A j \in r2' \cup deletions' : Made(j)'
      BY <1>0, <1>4, <2>6 DEF KeysAreMade, MediaTyped
    <3>2. \A d \in Crons : \A j \in cron'[d].todo : Made(j)'
      BY <1>0, <2>1, <2>3, <2>6 DEF KeysAreMade, MediaTyped, CronJobs
    <3>3. \A d \in Crons : cron'[d].key # Store!NoKey => Made(cron[d].key)'
      BY <1>0, <2>1, <2>3, <2>6, <2>7 DEF KeysAreMade, MediaTyped, CronJobs
    <3>4. \A n \in Messages : mediaRow'[n].key # Store!NoKey => Made(mediaRow[n].key)'
      BY <1>0, <1>4, <2>6 DEF KeysAreMade, MediaTyped, MediaRows
    <3> QED BY <3>1, <3>2, <3>3, <3>4 DEF KeysAreMade
  <2>18. KeysApart'
    BY <1>0, <1>4, <2>1, <2>2, <2>3, <2>5, <2>6, <2>7
    DEF KeysApart, KeysAreMade, MediaTyped, CronJobs
  <2>19. UploadsOwn'
    BY <1>0, <1>4, <2>1, <2>2, <2>3, <2>5, <2>6, <2>7
    DEF UploadsOwn, Uploading, JobsKeyed, Sweeping, KeysAreMade, MediaTyped, CronJobs
  <2>20. RemovedGone'
    BY <1>0, <1>4, <2>1, <2>2, <2>3, <2>5, <2>6, <2>7 DEF RemovedGone, JobsKeyed, Sweeping
  <2>21. ReadyKept'
    BY <1>0, <1>4, <2>1, <2>2, <2>3, <2>5, <2>6, <2>7 DEF ReadyKept, GivenUp
  <2>22. UploadsSettled'
    BY <1>0, <1>4, <2>1, <2>2, <2>3, <2>5, <2>6, <2>7 DEF UploadsSettled
  <2>23. Store!NoOrphan'
    BY <1>0, <1>4, <2>1, <2>2, <2>3, <2>5, <2>6, <2>7 DEF Store!NoOrphan, MediaTyped
  <2>24. Store!ReadyHasObject'
    BY <1>0, <1>4, <2>1, <2>2, <2>3, <2>5, <2>6, <2>7
    DEF Store!ReadyHasObject, ReadyKept, GivenUp, RowsKeyed, Store!MediaRow
  <2> QED
    BY <2>14, <2>15, <2>16, <2>17, <2>18, <2>19, <2>20, <2>21, <2>22, <2>23, <2>24 DEF KeyInv
<1> QED BY <1>5, <1>6

LEMMA FinalizeKeeps ==
  ASSUME Store!MediaAssumption, KeyInv, NEW c \in Crons,
         Store!Finalize(c) \/ Store!FinalizeReplyLost(c)
  PROVE  KeyInv'
<1> USE KeyFacts
<1>0. MediaTyped /\ RowsKeyed /\ JobsKeyed /\ KeysAreMade /\ KeysApart /\ UploadsOwn
      /\ RemovedGone /\ ReadyKept /\ UploadsSettled /\ Store!NoOrphan /\ Store!ReadyHasObject
         /\ cron[c] \in CronJobs
  BY DEF KeyInv, MediaTyped
<1>4. /\ cron[c].phase = "written" /\ cron[c].key \in Store!Keys
         /\ Store!Owner(cron[c].key) = cron[c].msg
      /\ cron[c].todo = {} /\ cron[c].removed = {} /\ cron[c].key \in r2
         /\ cron[c].key \notin deletions
      /\ Made(cron[c].key) /\ mediaRow[cron[c].msg].key # cron[c].key
      /\ \A d \in Crons : cron[c].key \notin cron[d].todo /\ (d # c => cron[d].key # cron[c].key)
  BY <1>0
  DEF Store!Finalize, Store!FinalizeReplyLost, JobsKeyed, Sweeping, KeysAreMade, KeysApart,
      UploadsOwn, Uploading
<1>5. PICK m \in Messages, k \in Store!Keys : m = cron[c].msg /\ k = cron[c].key BY <1>4
<1>6. /\ mediaRow' \in [Messages -> MediaRows]
      /\ \A n \in Messages : n # m => mediaRow'[n] = mediaRow[n]
      /\ \/ mediaRow'[m] = mediaRow[m]
         \/ mediaRow[m].state = "pending" /\ mediaRow'[m].state \in {"failed",
            "none"} /\ mediaRow'[m].key = Store!NoKey
         \/ mediaRow[m].state = "pending" /\ mediaRow'[m].state = "ready" /\ mediaRow'[m].key = k
      /\ Store!Outcome(m) # "ready" => mediaRow'[m].key # k
      /\ message[m] = "none" => mediaRow'[m] = Store!NoRow
  <2>1. mediaRow' = [mediaRow EXCEPT ![m] =
          CASE Store!Outcome(m) = "ready" -> [state |-> "ready", key |-> k]
            [] Store!Outcome(m) = "quota_exceeded" -> [state |-> "failed", key |-> Store!NoKey]
            [] Store!Outcome(m) = "recipient_excluded" -> Store!NoRow
            [] OTHER -> mediaRow[m]]
    BY <1>5 DEF Store!Finalize, Store!FinalizeReplyLost, Store!Finalized
  <2>2. /\ Store!Outcome(m) \in {"already_terminal", "recipient_excluded", "quota_exceeded",
           "ready"}
        /\ mediaRow[m].state # "pending" => Store!Outcome(m) = "already_terminal"
        /\ mediaRow[m].state = "pending" => Store!Outcome(m) # "already_terminal"
    BY DEF Store!Outcome, Store!StillPending
  <2>3. mediaRow[m].key # k /\ (message[m] = "none" => mediaRow[m] = Store!NoRow)
        /\ Store!NoRow.state # "pending"
    BY <1>0, <1>4, <1>5 DEF RowsKeyed, Store!NoRow
  <2>4. mediaRow'[m] = CASE Store!Outcome(m) = "ready" -> [state |-> "ready", key |-> k]
            [] Store!Outcome(m) = "quota_exceeded" -> [state |-> "failed", key |-> Store!NoKey]
            [] Store!Outcome(m) = "recipient_excluded" -> Store!NoRow
            [] OTHER -> mediaRow[m]
    BY <1>0, <2>1 DEF MediaTyped
  <2>5. mediaRow' \in [Messages -> MediaRows]
    BY <1>0, <2>1, <2>2 DEF MediaTyped, Store!NoRow, Store!States, MediaRows
  <2> HIDE DEF Store!Outcome
  <2> QED BY <1>0, <2>1, <2>2, <2>3, <2>4, <2>5 DEF MediaTyped, Store!NoRow
<1>7. PICK new \in CronJobs :
        /\ cron' = [cron EXCEPT ![c] = new] /\ new.todo = {} /\ new.removed = {}
        /\ \/ new = Store!Idle /\ new.phase = "idle" /\ new.key = Store!NoKey
              /\ mediaRow'[m].key = k
           \/ new.phase = "losing" /\ new.key = k /\ new.msg = m /\ mediaRow'[m].key # k
           \/ new.phase = "undoing" /\ new.key = k /\ new.msg = m /\ k \in lost'
  <2>1. CASE Store!Finalize(c) /\ Store!Outcome(m) = "ready"
    <3>1. cron' = [cron EXCEPT ![c] = Store!Idle]
      BY <1>5, <2>1 DEF Store!Finalize, Store!Loses, Store!Step
    <3>2. Store!Idle \in CronJobs /\ Store!Idle.todo = {} /\ Store!Idle.removed = {}
          /\ Store!Idle.phase = "idle" /\ Store!Idle.key = Store!NoKey
      BY DEF Store!Idle, CronJobs, Store!Phases
    <3>3. mediaRow'[m].key = k
      BY <1>0, <1>5, <2>1 DEF Store!Finalize, Store!Finalized, MediaTyped
    <3> QED BY <3>1, <3>2, <3>3
  <2>2. CASE Store!Finalize(c) /\ Store!Outcome(m) # "ready"
    <3> DEFINE new == [cron[c] EXCEPT !.phase = "losing"]
    <3>1. cron' = [cron EXCEPT ![c] = new]
      BY <1>5, <2>2 DEF Store!Finalize, Store!Loses, Store!Step
    <3>2. /\ new \in CronJobs /\ new.todo = {} /\ new.removed = {}
          /\ new.phase = "losing" /\ new.key = k /\ new.msg = m
      BY <1>0, <1>4, <1>5 DEF CronJobs, Store!Phases
    <3> HIDE DEF new
    <3> QED BY <1>6, <2>2, <3>1, <3>2
  <2>3. CASE Store!FinalizeReplyLost(c)
    <3> DEFINE new == [cron[c] EXCEPT !.phase = "undoing"]
    <3>1. cron' = [cron EXCEPT ![c] = new] /\ k \in lost'
      BY <1>5, <2>3 DEF Store!FinalizeReplyLost, Store!Step
    <3>2. /\ new \in CronJobs /\ new.todo = {} /\ new.removed = {}
          /\ new.phase = "undoing" /\ new.key = k /\ new.msg = m
      BY <1>0, <1>4, <1>5 DEF CronJobs, Store!Phases
    <3> HIDE DEF new
    <3> QED BY <3>1, <3>2
  <2> QED BY <2>1, <2>2, <2>3
<1>3. /\ cron' \in [Crons -> CronJobs] /\ cron'[c] = new
      /\ \A d \in Crons : d # c => cron'[d] = cron[d]
  BY <1>0, <1>7, JobStep
<1>8. /\ UNCHANGED <<message, excluded, deleting, deletions, r2, tries, leaked>>
         /\ lost \subseteq lost' /\ lost' \subseteq Store!Keys
  BY <1>0, <1>4 DEF Store!Finalize, Store!FinalizeReplyLost, Store!worldVars, MediaTyped
<1>14. MediaTyped'
  BY <1>0, <1>3, <1>4, <1>5, <1>6, <1>7, <1>8 DEF MediaTyped
<1>15. RowsKeyed'
  BY <1>0, <1>3, <1>4, <1>5, <1>6, <1>7, <1>8
  DEF RowsKeyed, Store!MediaRow, Store!NoRow, MediaRows
<1>16. JobsKeyed'
  BY <1>0, <1>3, <1>4, <1>5, <1>6, <1>7, <1>8 DEF JobsKeyed, Sweeping
<1>17. KeysAreMade'
  BY <1>0, <1>3, <1>4, <1>5, <1>6, <1>7, <1>8 DEF KeysAreMade, Made
<1>18. KeysApart'
  BY <1>0, <1>3, <1>4, <1>5, <1>6, <1>7, <1>8 DEF KeysApart
<1>19. UploadsOwn'
  BY <1>0, <1>3, <1>4, <1>5, <1>6, <1>7, <1>8 DEF UploadsOwn, Uploading, JobsKeyed, Sweeping
<1>20. RemovedGone'
  BY <1>0, <1>3, <1>4, <1>5, <1>6, <1>7, <1>8 DEF RemovedGone, JobsKeyed, Sweeping
<1>21. ReadyKept'
  BY <1>0, <1>3, <1>4, <1>5, <1>6, <1>7, <1>8 DEF ReadyKept, GivenUp, RowsKeyed, Store!MediaRow
<1>22. UploadsSettled'
  BY <1>0, <1>3, <1>4, <1>5, <1>6, <1>7, <1>8
  DEF UploadsSettled, JobsKeyed, Sweeping, RowsKeyed, Store!MediaRow
<1>23. Store!NoOrphan'
  BY <1>0, <1>3, <1>4, <1>5, <1>6, <1>7, <1>8
  DEF Store!NoOrphan, MediaTyped, RowsKeyed, Store!MediaRow
<1>24. Store!ReadyHasObject'
  BY <1>0, <1>3, <1>4, <1>5, <1>6, <1>7, <1>8
  DEF Store!ReadyHasObject, ReadyKept, GivenUp, RowsKeyed, Store!MediaRow
<1> QED BY <1>14, <1>15, <1>16, <1>17, <1>18, <1>19, <1>20, <1>21, <1>22, <1>23, <1>24 DEF KeyInv

LEMMA DeleteKeeps ==
  ASSUME Store!MediaAssumption, KeyInv, NEW c \in Crons,
         Store!DiscardLosingUpload(c) \/ Store!UndoUpload(c)
  PROVE  KeyInv'
<1> USE KeyFacts
<1>0. MediaTyped /\ RowsKeyed /\ JobsKeyed /\ KeysAreMade /\ KeysApart /\ UploadsOwn
      /\ RemovedGone /\ ReadyKept /\ UploadsSettled /\ Store!NoOrphan /\ Store!ReadyHasObject
         /\ cron[c] \in CronJobs
  BY DEF KeyInv, MediaTyped
<1>4. PICK k \in Store!Keys :
        /\ cron[c].phase \in {"losing",
           "undoing"} /\ cron[c].key = k /\ Store!Owner(k) = cron[c].msg
        /\ cron[c].todo = {} /\ cron[c].removed = {} /\ Made(k)
        /\ \A d \in Crons : d # c => cron[d].key # k
  BY <1>0
  DEF Store!DiscardLosingUpload, Store!UndoUpload, JobsKeyed, Sweeping, KeysAreMade, KeysApart
<1>5. PICK new \in CronJobs :
        /\ cron' = [cron EXCEPT ![c] = new] /\ new.todo = {} /\ new.removed = {}
        /\ \/ new = Store!Idle /\ new.phase = "idle" /\ new.key = Store!NoKey
           \/ new.phase \in {"failing", "undoing"} /\ new.key = k /\ new.msg = cron[c].msg
        /\ \/ r2' = r2 \ {k} /\ UNCHANGED <<deletions, leaked>>
           \/ deletions' = deletions \cup {k} /\ UNCHANGED <<r2, leaked>>
           \/ new.phase = "undoing" /\ UNCHANGED <<r2, deletions, leaked>>
           \/ new.phase = "failing" /\ leaked' = leaked \cup {k} /\ UNCHANGED <<r2, deletions>>
  <2>1. Store!Idle \in CronJobs /\ Store!Idle.todo = {} /\ Store!Idle.removed = {}
        /\ Store!Idle.phase = "idle" /\ Store!Idle.key = Store!NoKey
    BY DEF Store!Idle, CronJobs, Store!Phases
  <2>2. ASSUME NEW phase \in {"failing", "undoing"}
        PROVE  LET new == [cron[c] EXCEPT !.phase = phase]
               IN  /\ new \in CronJobs /\ new.todo = {} /\ new.removed = {}
                   /\ new.phase = phase /\ new.key = k /\ new.msg = cron[c].msg
    BY <1>0, <1>4 DEF CronJobs, Store!Phases
  <2>3. CASE Store!DiscardLosingUpload(c)
    <3>1. CASE Store!DeleteObject(c, Store!Idle)
      BY <1>4, <2>1, <3>1 DEF Store!DeleteObject, Store!Step
    <3>2. CASE Store!Step(c,
          [cron[c] EXCEPT !.phase = "undoing"]) /\ UNCHANGED <<r2, deletions, leaked>>
      BY <2>2, <3>2 DEF Store!Step
    <3> QED BY <2>3, <3>1, <3>2 DEF Store!DiscardLosingUpload
  <2>4. CASE Store!UndoUpload(c)
    <3>1. CASE Store!DeleteObject(c, [cron[c] EXCEPT !.phase = "failing"])
      BY <1>4, <2>2, <3>1 DEF Store!DeleteObject, Store!Step
    <3>2. CASE /\ Store!Step(c, [cron[c] EXCEPT !.phase = "failing"])
               /\ leaked' = leaked \cup {cron[c].key} /\ UNCHANGED <<r2, deletions>>
      BY <1>4, <2>2, <3>2 DEF Store!Step
    <3> QED BY <2>4, <3>1, <3>2 DEF Store!UndoUpload
  <2> QED BY <2>3, <2>4
<1>3. /\ cron' \in [Crons -> CronJobs] /\ cron'[c] = new
      /\ \A d \in Crons : d # c => cron'[d] = cron[d]
  BY <1>0, <1>5, JobStep
<1>6. UNCHANGED <<message, excluded, deleting, mediaRow, tries, lost>>
  BY DEF Store!DiscardLosingUpload, Store!UndoUpload, Store!worldVars
<1>14. MediaTyped'
  BY <1>0, <1>3, <1>4, <1>5, <1>6 DEF MediaTyped
<1>15. RowsKeyed'
  BY <1>0, <1>3, <1>4, <1>5, <1>6 DEF RowsKeyed, Store!MediaRow, Store!NoRow
<1>16. JobsKeyed'
  BY <1>0, <1>3, <1>4, <1>5, <1>6 DEF JobsKeyed, Sweeping
<1>17. KeysAreMade'
  BY <1>0, <1>3, <1>4, <1>5, <1>6 DEF KeysAreMade, Made
<1>18. KeysApart'
  BY <1>0, <1>3, <1>4, <1>5, <1>6 DEF KeysApart
<1>19. UploadsOwn'
  BY <1>0, <1>3, <1>4, <1>5, <1>6 DEF UploadsOwn, Uploading, JobsKeyed, Sweeping
<1>20. RemovedGone'
  BY <1>0, <1>3, <1>4, <1>5, <1>6 DEF RemovedGone, JobsKeyed, Sweeping
<1>21. ReadyKept'
  BY <1>0, <1>3, <1>4, <1>5, <1>6 DEF ReadyKept, GivenUp
<1>22. UploadsSettled'
  BY <1>0, <1>3, <1>4, <1>5, <1>6 DEF UploadsSettled
<1>23. Store!NoOrphan'
  BY <1>0, <1>3, <1>4, <1>5, <1>6 DEF Store!NoOrphan
<1>24. Store!ReadyHasObject'
  BY <1>0, <1>3, <1>4, <1>5, <1>6
  DEF Store!ReadyHasObject, ReadyKept, GivenUp, RowsKeyed, Store!MediaRow
<1> QED BY <1>14, <1>15, <1>16, <1>17, <1>18, <1>19, <1>20, <1>21, <1>22, <1>23, <1>24 DEF KeyInv

LEMMA FailMediaKeeps ==
  ASSUME Store!MediaAssumption, KeyInv, NEW c \in Crons, Store!FailMedia(c)
  PROVE  KeyInv'
<1> USE KeyFacts
<1>0. MediaTyped /\ RowsKeyed /\ JobsKeyed /\ KeysAreMade /\ KeysApart /\ UploadsOwn
      /\ RemovedGone /\ ReadyKept /\ UploadsSettled /\ Store!NoOrphan /\ Store!ReadyHasObject
         /\ cron[c] \in CronJobs
  BY DEF KeyInv, MediaTyped
<1>4. PICK m \in Messages, k \in Store!Keys :
        /\ cron[c].phase \in {"failing",
           "rejecting"} /\ m = cron[c].msg /\ k = cron[c].key /\ Store!Owner(k) = m
  BY <1>0 DEF Store!FailMedia, JobsKeyed, Sweeping
<1> DEFINE new == Store!Idle
<1>1. /\ new \in CronJobs /\ new = Store!Idle
      /\ new.phase = "idle" /\ new.msg = Store!NoKey /\ new.key = Store!NoKey
      /\ new.todo = {} /\ new.removed = {}
  BY DEF Store!Idle, CronJobs, Store!Phases
<1>2. cron' = [cron EXCEPT ![c] = new] BY DEF Store!FailMedia, Store!Step
<1> HIDE DEF new
<1>3. /\ cron' \in [Crons -> CronJobs] /\ cron'[c] = new
      /\ \A d \in Crons : d # c => cron'[d] = cron[d]
  BY <1>0, <1>1, <1>2, JobStep
<1>5. /\ mediaRow' \in [Messages -> MediaRows]
      /\ \A n \in Messages : n # m => mediaRow'[n] = mediaRow[n]
      /\ \/ mediaRow'[m] = mediaRow[m]
         \/ mediaRow[m].state = "pending" /\ mediaRow'[m].state \in {"failed",
            "rejected"} /\ mediaRow'[m].key = Store!NoKey
  BY <1>0, <1>4 DEF Store!FailMedia, MediaTyped, Store!States, MediaRows
<1>6. UNCHANGED <<message, excluded, deleting, deletions, r2, tries, leaked, lost>>
  BY DEF Store!FailMedia, Store!worldVars
<1>14. MediaTyped'
  BY <1>0, <1>1, <1>3, <1>4, <1>5, <1>6 DEF MediaTyped
<1>15. RowsKeyed'
  BY <1>0, <1>1, <1>3, <1>4, <1>5, <1>6 DEF RowsKeyed, Store!MediaRow, Store!NoRow, MediaRows
<1>16. JobsKeyed'
  BY <1>0, <1>1, <1>3, <1>4, <1>5, <1>6 DEF JobsKeyed, Sweeping
<1>17. KeysAreMade'
  BY <1>0, <1>1, <1>3, <1>4, <1>5, <1>6 DEF KeysAreMade, Made
<1>18. KeysApart'
  BY <1>0, <1>1, <1>3, <1>4, <1>5, <1>6 DEF KeysApart
<1>19. UploadsOwn'
  BY <1>0, <1>1, <1>3, <1>4, <1>5, <1>6 DEF UploadsOwn, Uploading, JobsKeyed, Sweeping
<1>20. RemovedGone'
  BY <1>0, <1>1, <1>3, <1>4, <1>5, <1>6 DEF RemovedGone, JobsKeyed, Sweeping
<1>21. ReadyKept'
  BY <1>0, <1>1, <1>3, <1>4, <1>5, <1>6 DEF ReadyKept, GivenUp, RowsKeyed, Store!MediaRow
<1>22. UploadsSettled'
  BY <1>0, <1>1, <1>3, <1>4, <1>5, <1>6
  DEF UploadsSettled, JobsKeyed, Sweeping, RowsKeyed, Store!MediaRow
<1>23. Store!NoOrphan'
  <2>1. \A j \in Store!Keys : mediaRow[Store!Owner(j)].key = j
        => mediaRow'[Store!Owner(j)].key = j
    BY <1>0, <1>5 DEF RowsKeyed, Store!MediaRow
  <2>2. k \in r2 \ leaked => mediaRow[m].key = k \/ k \in deletions
    BY <1>0, <1>4 DEF UploadsSettled
  <2>3. r2 \subseteq Store!Keys BY <1>0 DEF MediaTyped
  <2> QED BY <1>0, <1>3, <1>4, <1>6, <2>1, <2>2, <2>3 DEF Store!NoOrphan
<1>24. Store!ReadyHasObject'
  BY <1>0, <1>1, <1>3, <1>4, <1>5, <1>6
  DEF Store!ReadyHasObject, ReadyKept, GivenUp, RowsKeyed, Store!MediaRow
<1> QED BY <1>14, <1>15, <1>16, <1>17, <1>18, <1>19, <1>20, <1>21, <1>22, <1>23, <1>24 DEF KeyInv

\* A purge takes the rows that have no object and queues the objects of the others.
LEMMA PurgeRows ==
  ASSUME Store!MediaAssumption, MediaTyped, NEW T \in SUBSET Messages, Store!PurgeMedia(T)
  PROVE  /\ mediaRow' \in [Messages -> MediaRows]
         /\ \A m \in Messages :
              \/ mediaRow'[m] = mediaRow[m] /\ (m \in T => mediaRow[m].state # "ready")
              \/ mediaRow[m].state \in {"pending", "rejected",
                 "failed"} /\ mediaRow'[m] = Store!NoRow
              \/ /\ mediaRow[m].state = "ready" /\ m \in T
                 /\ mediaRow'[m].state = "purging" /\ mediaRow'[m].key = mediaRow[m].key
         /\ deletions \subseteq deletions'
         /\ \A k \in deletions' \ deletions :
              \E m \in T : mediaRow[m].state = "ready" /\ mediaRow[m].key = k
<1>1. \A m \in Messages : mediaRow'[m] =
        CASE m \in T /\ mediaRow[m].state \in {"pending", "rejected", "failed"} -> Store!NoRow
          [] m \in T /\ mediaRow[m].state = "ready" -> Store!PurgedRow(mediaRow[m])
          [] OTHER -> mediaRow[m]
  BY DEF Store!PurgeMedia
<1>2. \A m \in Messages : mediaRow[m].state = "ready" =>
        /\ Store!PurgedRow(mediaRow[m]) \in MediaRows
        /\ Store!PurgedRow(mediaRow[m]).state = "purging"
           /\ Store!PurgedRow(mediaRow[m]).key = mediaRow[m].key
  BY DEF Store!PurgedRow, MediaTyped, Store!States, MediaRows
<1>3. Store!NoRow \in MediaRows BY DEF Store!NoRow, Store!States, MediaRows
<1>4. \A m \in Messages : mediaRow'[m] \in MediaRows
  BY <1>1, <1>2, <1>3 DEF MediaTyped
<1>5. mediaRow' = [m \in Messages |-> mediaRow'[m]] BY DEF Store!PurgeMedia
<1>6. mediaRow' \in [Messages -> MediaRows] BY <1>4, <1>5
<1>7. \A m \in Messages :
        \/ mediaRow'[m] = mediaRow[m] /\ (m \in T => mediaRow[m].state # "ready")
        \/ mediaRow[m].state \in {"pending", "rejected", "failed"} /\ mediaRow'[m] = Store!NoRow
        \/ /\ mediaRow[m].state = "ready" /\ m \in T
           /\ mediaRow'[m].state = "purging" /\ mediaRow'[m].key = mediaRow[m].key
  BY <1>1, <1>2
<1>8. deletions' = deletions \cup Store!Queued(T) BY DEF Store!PurgeMedia
<1> QED BY <1>6, <1>7, <1>8 DEF Store!Queued

LEMMA PurgeKeeps ==
  ASSUME Store!MediaAssumption, KeyInv, NEW T \in SUBSET Messages, Store!PurgeMedia(T),
         UNCHANGED <<r2, cron, tries, leaked, lost>>,
         message' \in [Messages -> {"none", "live", "deleted", "expired", "excluded"}],
         \A m \in Messages : message'[m] = "none" => message[m] = "none",
         excluded' \subseteq Messages, deleting' \in BOOLEAN
  PROVE  KeyInv'
<1> USE KeyFacts
<1>0. MediaTyped /\ RowsKeyed /\ JobsKeyed /\ KeysAreMade /\ KeysApart /\ UploadsOwn
      /\ RemovedGone /\ ReadyKept /\ UploadsSettled /\ Store!NoOrphan /\ Store!ReadyHasObject
  BY DEF KeyInv, MediaTyped
<1>1. /\ mediaRow' \in [Messages -> MediaRows]
      /\ \A m \in Messages :
           \/ mediaRow'[m] = mediaRow[m] /\ (m \in T => mediaRow[m].state # "ready")
           \/ mediaRow[m].state \in {"pending", "rejected",
              "failed"} /\ mediaRow'[m] = Store!NoRow
           \/ /\ mediaRow[m].state = "ready" /\ m \in T
              /\ mediaRow'[m].state = "purging" /\ mediaRow'[m].key = mediaRow[m].key
      /\ deletions \subseteq deletions'
      /\ \A k \in deletions' \ deletions :
           \E m \in T : mediaRow[m].state = "ready" /\ mediaRow[m].key = k
  BY <1>0, PurgeRows
<1>2. Store!NoRow.state = "none" /\ Store!NoRow.key = Store!NoKey BY DEF Store!NoRow
<1>14. MediaTyped'
  BY <1>0, <1>1, <1>2 DEF MediaTyped, RowsKeyed, Store!MediaRow
<1>15. RowsKeyed'
  BY <1>0, <1>1, <1>2 DEF RowsKeyed, Store!MediaRow, Store!NoRow, MediaRows
<1>16. JobsKeyed'
  BY <1>0, <1>1, <1>2 DEF JobsKeyed, Sweeping
<1>17. KeysAreMade'
  BY <1>0, <1>1, <1>2 DEF KeysAreMade, Made, RowsKeyed, Store!MediaRow
<1>18. KeysApart'
  BY <1>0, <1>1, <1>2 DEF KeysApart
<1>19. UploadsOwn'
  BY <1>0, <1>1, <1>2 DEF UploadsOwn, Uploading, JobsKeyed, Sweeping, RowsKeyed, Store!MediaRow
<1>20. RemovedGone'
  BY <1>0, <1>1, <1>2 DEF RemovedGone, JobsKeyed, Sweeping
<1>21. ReadyKept'
  BY <1>0, <1>1, <1>2 DEF ReadyKept, GivenUp, RowsKeyed, Store!MediaRow
<1>22. UploadsSettled'
  BY <1>0, <1>1, <1>2 DEF UploadsSettled, JobsKeyed, Sweeping, RowsKeyed, Store!MediaRow
<1>23. Store!NoOrphan'
  BY <1>0, <1>1, <1>2 DEF Store!NoOrphan, MediaTyped, RowsKeyed, Store!MediaRow
<1>24. Store!ReadyHasObject'
  BY <1>0, <1>1, <1>2 DEF Store!ReadyHasObject, ReadyKept, GivenUp, RowsKeyed, Store!MediaRow
<1> QED BY <1>14, <1>15, <1>16, <1>17, <1>18, <1>19, <1>20, <1>21, <1>22, <1>23, <1>24 DEF KeyInv

LEMMA WorldKeeps ==
  ASSUME Store!MediaAssumption, KeyInv, (\E m \in Messages : Store!Upsert(m)
         \/ Store!DeleteMessage(m) \/ Store!Exclude(m)) \/ Store!Disconnect
         \/ UNCHANGED Store!vars
  PROVE  KeyInv'
<1> USE KeyFacts
<1>0. MediaTyped /\ RowsKeyed /\ JobsKeyed /\ KeysAreMade /\ KeysApart /\ UploadsOwn
      /\ RemovedGone /\ ReadyKept /\ UploadsSettled /\ Store!NoOrphan /\ Store!ReadyHasObject
  BY DEF KeyInv, MediaTyped
<1> DEFINE Goal ==
      /\ UNCHANGED <<deletions, r2, cron, tries, leaked, lost>>
      /\ mediaRow' \in [Messages -> MediaRows]
      /\ \A m \in Messages :
           \/ mediaRow'[m] = mediaRow[m]
           \/ mediaRow[m] = Store!NoRow /\ mediaRow'[m].state = "pending"
              /\ mediaRow'[m].key = Store!NoKey
      /\ message' \in [Messages -> {"none", "live", "deleted", "expired", "excluded"}]
      /\ \A m \in Messages : message'[m] = "none" => message[m] = "none"
         /\ mediaRow'[m] = mediaRow[m]
      /\ excluded' \subseteq Messages /\ deleting' \in BOOLEAN
<1>1. Goal
  <2>1. ASSUME NEW m \in Messages, Store!Upsert(m) PROVE Goal
    BY <1>0, <2>1 DEF Store!Upsert, MediaTyped, RowsKeyed, Store!States, MediaRows
  <2>2. ASSUME NEW m \in Messages, Store!DeleteMessage(m) PROVE Goal
    BY <1>0, <2>2 DEF Store!DeleteMessage, MediaTyped
  <2>3. ASSUME NEW m \in Messages, Store!Exclude(m) PROVE Goal
    BY <1>0, <2>3 DEF Store!Exclude, MediaTyped
  <2>4. CASE Store!Disconnect BY <1>0, <2>4 DEF Store!Disconnect, MediaTyped
  <2>5. CASE UNCHANGED Store!vars BY <1>0, <2>5 DEF Store!vars, MediaTyped
  <2> QED BY <2>1, <2>2, <2>3, <2>4, <2>5
<1>2. Store!NoRow.state = "none" /\ Store!NoRow.key = Store!NoKey BY DEF Store!NoRow
<1>14. MediaTyped'
  BY <1>0, <1>1, <1>2 DEF MediaTyped
<1>15. RowsKeyed'
  BY <1>0, <1>1, <1>2 DEF RowsKeyed, Store!MediaRow, Store!NoRow, Store!States
<1>16. JobsKeyed'
  BY <1>0, <1>1, <1>2 DEF JobsKeyed, Sweeping
<1>17. KeysAreMade'
  BY <1>0, <1>1, <1>2 DEF KeysAreMade, Made, RowsKeyed, Store!MediaRow
<1>18. KeysApart'
  BY <1>0, <1>1, <1>2 DEF KeysApart
<1>19. UploadsOwn'
  BY <1>0, <1>1, <1>2 DEF UploadsOwn, Uploading, JobsKeyed, Sweeping, RowsKeyed, Store!MediaRow
<1>20. RemovedGone'
  BY <1>0, <1>1, <1>2 DEF RemovedGone, JobsKeyed, Sweeping
<1>21. ReadyKept'
  BY <1>0, <1>1, <1>2 DEF ReadyKept, GivenUp, RowsKeyed, Store!MediaRow
<1>22. UploadsSettled'
  BY <1>0, <1>1, <1>2 DEF UploadsSettled, JobsKeyed, Sweeping, RowsKeyed, Store!MediaRow
<1>23. Store!NoOrphan'
  BY <1>0, <1>1, <1>2 DEF Store!NoOrphan, MediaTyped, RowsKeyed, Store!MediaRow
<1>24. Store!ReadyHasObject'
  BY <1>0, <1>1, <1>2 DEF Store!ReadyHasObject, ReadyKept, GivenUp, RowsKeyed, Store!MediaRow
<1> QED BY <1>14, <1>15, <1>16, <1>17, <1>18, <1>19, <1>20, <1>21, <1>22, <1>23, <1>24 DEF KeyInv

\* A reader gives up a ready row; its object, if there is one, is queued.
LEMMA FailReadKeeps ==
  ASSUME Store!MediaAssumption, KeyInv, NEW m \in Messages, Store!FailRead(m) PROVE KeyInv'
<1> USE KeyFacts
<1>0. MediaTyped /\ RowsKeyed /\ JobsKeyed /\ KeysAreMade /\ KeysApart /\ UploadsOwn
      /\ RemovedGone /\ ReadyKept /\ UploadsSettled /\ Store!NoOrphan /\ Store!ReadyHasObject
  BY DEF KeyInv
<1> DEFINE k == mediaRow[m].key
           r == [state |-> "failed", key |-> Store!NoKey]
<1>1. mediaRow[m].state = "ready" /\ k \in Store!Keys /\ Store!Owner(k) = m
  BY <1>0 DEF Store!FailRead, RowsKeyed, Store!MediaRow
<1>2. /\ deletions \subseteq deletions' /\ deletions' \subseteq deletions \cup {k}
      /\ k \in r2 => k \in deletions'
      /\ UNCHANGED <<message, excluded, deleting, r2, cron, tries, leaked, lost>>
  BY DEF Store!FailRead, Store!worldVars
<1>3. r \in MediaRows /\ r.state = "failed" /\ r.key = Store!NoKey
  BY DEF MediaRows, Store!States
<1>4. mediaRow' = [mediaRow EXCEPT ![m] = r] BY DEF Store!FailRead
<1>5. mediaRow'[m] = r /\ \A n \in Messages : n # m => mediaRow'[n] = mediaRow[n]
  BY <1>0, <1>4 DEF MediaTyped
<1>6. MediaTyped' BY <1>0, <1>1, <1>2, <1>3, <1>4 DEF MediaTyped
<1> HIDE DEF k, r
<1>7. RowsKeyed'
  BY <1>0, <1>1, <1>2, <1>3, <1>5 DEF RowsKeyed, Store!MediaRow, Store!NoRow, Store!States, k
<1>8. JobsKeyed' /\ KeysApart' /\ RemovedGone'
  BY <1>0, <1>2 DEF JobsKeyed, KeysApart, RemovedGone, Sweeping
<1>9. KeysAreMade' BY <1>0, <1>1, <1>2, <1>3, <1>5 DEF KeysAreMade, Made, k
<1>10. UploadsOwn'
  BY <1>0, <1>1, <1>2, <1>3, <1>5 DEF UploadsOwn, Uploading, JobsKeyed, Sweeping, k
<1>11. ReadyKept'
  BY <1>0, <1>1, <1>2, <1>3, <1>5 DEF ReadyKept, GivenUp, RowsKeyed, Store!MediaRow
<1>12. UploadsSettled'
  BY <1>0, <1>1, <1>2, <1>3, <1>5 DEF UploadsSettled, JobsKeyed, Sweeping, k
<1>13. Store!NoOrphan'
  BY <1>0, <1>1, <1>2, <1>3, <1>5 DEF Store!NoOrphan, MediaTyped, k
<1>14. Store!ReadyHasObject' BY <1>0, <1>2, <1>3, <1>5 DEF Store!ReadyHasObject
<1> QED BY <1>6, <1>7, <1>8, <1>9, <1>10, <1>11, <1>12, <1>13, <1>14 DEF KeyInv

\* Every action keeps the invariant of the keys.
LEMMA KeyInvStep == ASSUME Store!MediaAssumption, KeyInv, [Store!Next]_Store!vars PROVE KeyInv'
<1>1. CASE UNCHANGED Store!vars BY <1>1, WorldKeeps
<1>2. ASSUME NEW m \in Messages,
             Store!Upsert(m) \/ Store!DeleteMessage(m) \/ Store!Exclude(m) PROVE KeyInv'
  BY <1>2, WorldKeeps
<1>3. ASSUME NEW m \in Messages, Store!Expire(m) \/ Store!PurgeExcluded(m) PROVE KeyInv'
  <2>1. MediaTyped BY DEF KeyInv
  <2>2. /\ message' \in [Messages -> {"none", "live", "deleted", "expired", "excluded"}]
        /\ \A n \in Messages : message'[n] = "none" => message[n] = "none"
    BY <1>3, <2>1 DEF Store!Expire, Store!PurgeExcluded, MediaTyped
  <2>3. /\ Store!PurgeMedia({m}) /\ UNCHANGED <<r2, cron, tries, leaked, lost>>
        /\ excluded' \subseteq Messages /\ deleting' \in BOOLEAN
    BY <1>3, <2>1 DEF Store!Expire, Store!PurgeExcluded, MediaTyped
  <2> QED BY <2>2, <2>3, PurgeKeeps
<1>4. CASE Store!Disconnect BY <1>4, WorldKeeps
<1>5. CASE Store!PurgeConnection
  <2>1. MediaTyped BY DEF KeyInv
  <2>2. /\ message' \in [Messages -> {"none", "live", "deleted", "expired", "excluded"}]
        /\ \A n \in Messages : message'[n] = "none" => message[n] = "none"
        /\ Store!PurgeMedia(Messages) /\ UNCHANGED <<r2, cron, tries, leaked, lost>>
        /\ excluded' \subseteq Messages /\ deleting' \in BOOLEAN
    BY <1>5, <2>1 DEF Store!PurgeConnection, MediaTyped, Store!worldVars
  <2> QED BY <2>2, PurgeKeeps
<1>6. ASSUME NEW c \in Crons, Store!Process(c) PROVE KeyInv'
  BY <1>6, BeginKeeps, RetrieveKeeps, WriteObjectKeeps, FinalizeKeeps, DeleteKeeps,
  FailMediaKeeps,
     RemoveObjectKeeps, FinishObjectDeletionKeeps DEF Store!Process
<1>7. ASSUME NEW c \in Crons, Store!Fault(c) PROVE KeyInv'
  BY <1>7, PhaseKeeps, FinalizeKeeps, CrashKeeps, RemoveObjectFailsKeeps DEF Store!Fault
<1>8. ASSUME NEW m \in Messages, Store!FailRead(m) PROVE KeyInv' BY <1>8, FailReadKeeps
<1> QED BY <1>1, <1>2, <1>3, <1>4, <1>5, <1>6, <1>7, <1>8 DEF Store!Next

LEMMA KeyInvariant == ASSUME Store!MediaAssumption PROVE Store!Spec => []KeyInv
<1>1. Store!Init => KeyInv BY InitKeyInv
<1>2. KeyInv /\ [Store!Next]_Store!vars => KeyInv' BY KeyInvStep
<1> QED BY <1>1, <1>2, PTL DEF Store!Spec

\* The instance's operators of finite sets are those the library's theorems speak of.
LEMMA SameSize ==
  ASSUME NEW S
  PROVE  /\ Store!Cardinality(S) = Cardinality(S)
         /\ Store!IsFiniteSet(S) <=> IsFiniteSet(S)
BY DEF Store!Cardinality, Cardinality, Store!IsFiniteSet, IsFiniteSet

\* The bytes of sets of messages that have none in common add up.
LEMMA BytesOne ==
  ASSUME Store!MediaAssumption, NEW m \in Messages PROVE Store!Bytes({m}) = Size[m]
<1>1. IsFiniteSet({m}) /\ Cardinality({m}) = 1 BY FS_Singleton
<1>2. Size[m] \in Nat /\ Size[m] >= 1 BY DEF Store!MediaAssumption
<1>3. IsFiniteSet(1..Size[m]) /\ Cardinality(1..Size[m]) = Size[m] BY <1>2, FS_Interval
<1>4. Cardinality({m} \X (1..Size[m])) = 1 * Size[m]
  <2> DEFINE S == {m}
             T == 1..Size[m]
  <2> HIDE DEF S, T
  <2>1. Cardinality(S \X T) = Cardinality(S) * Cardinality(T) BY <1>1, <1>3, FS_Product DEF S, T
  <2> QED BY <1>1, <1>3, <2>1 DEF S, T
<1>5. UNION {{n} \X (1..Size[n]) : n \in {m}} = {m} \X (1..Size[m]) OBVIOUS
<1>6. Store!Bytes({m}) = Cardinality({m} \X (1..Size[m])) BY <1>5, SameSize DEF Store!Bytes
<1> QED BY <1>2, <1>4, <1>6

LEMMA UnitsFinite ==
  ASSUME Store!MediaAssumption, NEW A \in SUBSET Messages
  PROVE  IsFiniteSet(UNION {{m} \X (1..Size[m]) : m \in A})
<1> DEFINE T == {{m} \X (1..Size[m]) : m \in A}
           f == [m \in A |-> {m} \X (1..Size[m])]
<1>1. IsFiniteSet(A) BY FS_Subset, SameSize DEF Store!MediaAssumption
<1>2. f \in Surjection(A, T) BY DEF Surjection
<1>3. IsFiniteSet(T)
  <2> HIDE DEF f, T
  <2> QED BY <1>1, <1>2, FS_Surjection
<1>4. ASSUME NEW m \in A PROVE IsFiniteSet({m} \X (1..Size[m]))
  <2>1. Size[m] \in Nat BY DEF Store!MediaAssumption
  <2>2. IsFiniteSet({m}) BY FS_Singleton
  <2>3. IsFiniteSet(1..Size[m]) BY <2>1, FS_Interval
  <2> QED BY <2>2, <2>3, FS_Product
<1>5. \A t \in T : IsFiniteSet(t) BY <1>4
<1> HIDE DEF T
<1>6. IsFiniteSet(UNION T) BY <1>3, <1>5, FS_UNION
<1> QED BY <1>6 DEF T

LEMMA BytesAdd ==
  ASSUME Store!MediaAssumption, NEW A \in SUBSET Messages, NEW B \in SUBSET Messages,
         A \cap B = {}
  PROVE  Store!Bytes(A) \in Nat /\ Store!Bytes(B) \in Nat
  /\ Store!Bytes(A \cup B) = Store!Bytes(A) + Store!Bytes(B)
<1> DEFINE U(S) == UNION {{m} \X (1..Size[m]) : m \in S}
<1>1. IsFiniteSet(U(A)) /\ IsFiniteSet(U(B)) BY UnitsFinite
<1>2. U(A \cup B) = U(A) \cup U(B) OBVIOUS
<1>3. U(A) \cap U(B) = {} OBVIOUS
<1> HIDE DEF U
<1>4. Cardinality(U(A) \cup U(B)) =
        Cardinality(U(A)) + Cardinality(U(B)) - Cardinality(U(A) \cap U(B))
  BY <1>1, FS_Union
<1>5. Cardinality(U(A)) \in Nat /\ Cardinality(U(B)) \in Nat BY <1>1, FS_CardinalityType
<1>6. Cardinality(U(A) \cap U(B)) = 0 BY <1>3, FS_EmptySet
<1>7. /\ Store!Bytes(A) = Cardinality(U(A)) /\ Store!Bytes(B) = Cardinality(U(B))
      /\ Store!Bytes(A \cup B) = Cardinality(U(A \cup B))
  BY SameSize DEF Store!Bytes, U
<1>8. Store!Bytes(A \cup B) = Cardinality(U(A)) + Cardinality(U(B)) - 0
  BY <1>2, <1>4, <1>6, <1>7, Zenon
<1>9. Store!Bytes(A \cup B) = Store!Bytes(A) + Store!Bytes(B) - 0 BY <1>7, <1>8, Zenon
<1>10. Store!Bytes(A) \in Nat /\ Store!Bytes(B) \in Nat BY <1>5, <1>7, Zenon
<1> QED BY <1>9, <1>10

LEMMA BytesNat ==
  ASSUME Store!MediaAssumption, NEW A \in SUBSET Messages PROVE Store!Bytes(A) \in Nat
BY UnitsFinite, FS_CardinalityType, SameSize DEF Store!Bytes

LEMMA BytesNone == Store!Bytes({}) = 0
<1>1. UNION {{n} \X (1..Size[n]) : n \in {}} = {} OBVIOUS
<1> QED BY <1>1, FS_EmptySet, SameSize DEF Store!Bytes

QuotaInv == Store!QuotaExact /\ Store!QuotaBound

\* The charge follows the rows that hold an object: it changes with them alone.
LEMMA QuotaStep ==
  ASSUME Store!MediaAssumption, KeyInv, QuotaInv, [Store!Next]_Store!vars PROVE QuotaInv'
<1>0. MediaTyped /\ RowsKeyed /\ used = Store!Bytes(Charged) /\ Charged \subseteq Messages
      /\ used <= AccountLimit
      /\ AccountLimit \in Nat
  BY DEF KeyInv, QuotaInv, Store!QuotaExact, Store!QuotaBound, Charged, Store!MediaAssumption
<1>1. ASSUME Charged' = Charged, used' = used PROVE QuotaInv'
  BY <1>0, <1>1 DEF QuotaInv, Store!QuotaExact, Store!QuotaBound, Charged
<1>2. ASSUME NEW T \in SUBSET Messages, Store!PurgeMedia(T) PROVE Charged' = Charged
  BY <1>0, <1>2, PurgeRows DEF Charged, Store!NoRow
<1>3. ASSUME NEW m \in Messages,
             Store!Upsert(m) \/ Store!DeleteMessage(m) \/ Store!Exclude(m) \/ Store!Expire(m)
             \/ Store!PurgeExcluded(m)
      PROVE  QuotaInv'
  <2>1. CASE Store!Upsert(m)
    <3>1. mediaRow[m].state = "none" BY <1>0, <2>1 DEF Store!Upsert, RowsKeyed, Store!NoRow
    <3> QED BY <1>0, <1>1, <2>1, <3>1 DEF Store!Upsert, Charged, MediaTyped
  <2>2. CASE Store!DeleteMessage(m) \/ Store!Exclude(m)
    BY <1>1, <2>2 DEF Store!DeleteMessage, Store!Exclude, Charged
  <2>3. CASE Store!Expire(m) \/ Store!PurgeExcluded(m)
    BY <1>1, <1>2, <2>3 DEF Store!Expire, Store!PurgeExcluded
  <2> QED BY <1>3, <2>1, <2>2, <2>3
<1>4. CASE Store!Disconnect \/ UNCHANGED Store!vars
  BY <1>1, <1>4 DEF Store!Disconnect, Store!vars, Charged
<1>5. CASE Store!PurgeConnection BY <1>1, <1>2, <1>5 DEF Store!PurgeConnection
<1>6. ASSUME NEW c \in Crons, Store!Finalize(c) \/ Store!FinalizeReplyLost(c) PROVE QuotaInv'
  <2>1. PICK m \in Messages,
             k \in Store!Keys : m = cron[c].msg /\ k = cron[c].key /\ Store!Finalized(m, k)
    BY <1>6, KeyFacts DEF Store!Finalize, Store!FinalizeReplyLost, KeyInv, JobsKeyed, Sweeping
  <2>2. CASE Store!Outcome(m) = "ready"
    <3>1. mediaRow[m].state = "pending" /\ Store!Fits(m)
      BY <2>2 DEF Store!Outcome, Store!StillPending
    <3>2. mediaRow' = [mediaRow EXCEPT ![m] = [state |-> "ready", key |-> k]]
      BY <2>1, <2>2 DEF Store!Finalized
    <3>3. Charged' = Charged \cup {m} /\ Charged \cap {m} = {}
      BY <1>0, <3>1, <3>2 DEF Charged, MediaTyped
    <3>4. {n \in {m} : Store!Outcome(m) = "ready"} = {m} BY <2>2
    <3>5. used' = used + Store!Bytes({m}) BY <2>1, <3>4 DEF Store!Finalized
    <3>6. Store!Bytes({m}) = Size[m] BY BytesOne
    <3>7. Store!Bytes(Charged \cup {m}) = Store!Bytes(Charged) + Store!Bytes({m})
          /\ Store!Bytes(Charged) \in Nat
      BY <1>0, <3>3, BytesAdd
    <3>8. Size[m] \in Nat BY DEF Store!MediaAssumption
    <3>9. used' = Store!Bytes(Charged') BY <1>0, <3>3, <3>5, <3>7
    <3>10. used' <= AccountLimit BY <1>0, <3>1, <3>5, <3>6, <3>7, <3>8 DEF Store!Fits
    <3> QED BY <3>9, <3>10 DEF QuotaInv, Store!QuotaExact, Store!QuotaBound, Charged
  <2>3. CASE Store!Outcome(m) # "ready"
    <3>1. {n \in {m} : Store!Outcome(m) = "ready"} = {} BY <2>3
    <3>2. used' = used + Store!Bytes({}) BY <2>1, <3>1 DEF Store!Finalized
    <3>3. Store!Bytes({}) = 0 /\ used \in Nat BY <1>0, BytesNone, BytesNat
    <3>4. Store!Outcome(m) = "already_terminal" \/ mediaRow[m].state = "pending"
      BY DEF Store!Outcome, Store!StillPending
    <3>5. /\ mediaRow' = [mediaRow EXCEPT ![m] = mediaRow'[m]]
          /\ mediaRow'[m] \in {mediaRow[m], Store!NoRow, [state |-> "failed",
             key |-> Store!NoKey]}
          /\ Store!Outcome(m) = "already_terminal" => mediaRow'[m] = mediaRow[m]
      BY <1>0, <2>1, <2>3 DEF Store!Finalized, MediaTyped
    <3>6. Charged' = Charged BY <1>0, <3>4, <3>5 DEF Charged, MediaTyped, Store!NoRow
    <3> QED BY <1>1, <3>2, <3>3, <3>6
  <2> QED BY <2>2, <2>3
<1>7. ASSUME NEW c \in Crons, NEW k \in Store!Keys, Store!FinishObjectDeletion(c,
             k) PROVE QuotaInv'
  <2>1. /\ mediaRow' = [m \in Messages |->
                    IF m \in Store!Released(k) THEN Store!NoRow ELSE mediaRow[m]]
        /\ used' = used - Store!Bytes(Store!Released(k))
    BY <1>7 DEF Store!FinishObjectDeletion
  <2>2. Store!Released(k) \subseteq Charged BY DEF Store!Released, Charged
  <2>3. Charged' = Charged \ Store!Released(k) BY <2>1 DEF Charged, Store!NoRow
  <2>4. Charged = Charged' \cup Store!Released(k) /\ Charged' \cap Store!Released(k) = {}
    BY <2>2, <2>3
  <2>5. Charged' \subseteq Messages /\ Store!Released(k) \subseteq Messages BY <1>0, <2>2, <2>3
  <2>6. Store!Bytes(Charged) = Store!Bytes(Charged') + Store!Bytes(Store!Released(k))
        /\ Store!Bytes(Charged') \in Nat /\ Store!Bytes(Store!Released(k)) \in Nat
    <3> DEFINE A == Charged'
               B == Store!Released(k)
    <3> HIDE DEF A, B
    <3>1. A \in SUBSET Messages /\ B \in SUBSET Messages /\ A \cap B = {} BY <2>4, <2>5 DEF A, B
    <3>2. Store!Bytes(A) \in Nat /\ Store!Bytes(B) \in Nat
          /\ Store!Bytes(A \cup B) = Store!Bytes(A) + Store!Bytes(B)
      BY <3>1, BytesAdd
    <3> QED BY <2>4, <3>2 DEF A, B
  <2>7. used' = Store!Bytes(Charged') /\ used' <= AccountLimit BY <1>0, <2>1, <2>6
  <2> QED BY <2>7 DEF QuotaInv, Store!QuotaExact, Store!QuotaBound, Charged
<1>8. ASSUME NEW c \in Crons, Store!FailMedia(c) PROVE QuotaInv'
  <2>1. /\ used' = used
        /\ \/ mediaRow' = mediaRow
           \/ \E state \in {"rejected", "failed"}, m \in Messages :
                mediaRow[m].state = "pending"
                /\ mediaRow' = [mediaRow EXCEPT ![m] = [state |-> state, key |-> Store!NoKey]]
    <3>1. cron[c].msg \in Messages
      BY <1>8, KeyFacts DEF Store!FailMedia, KeyInv, JobsKeyed, Sweeping
    <3> QED BY <1>8, <3>1 DEF Store!FailMedia
  <2>2. Charged' = Charged BY <1>0, <2>1 DEF Charged, MediaTyped
  <2> QED BY <1>1, <2>1, <2>2
<1>9. ASSUME NEW c \in Crons, mediaRow' = mediaRow, used' = used PROVE QuotaInv'
  BY <1>1, <1>9 DEF Charged
<1>10. ASSUME NEW c \in Crons, Store!Process(c) \/ Store!Fault(c) PROVE QuotaInv'
  BY <1>6, <1>7, <1>8, <1>9, <1>10
  DEF Store!Process, Store!Fault, Store!Begin, Store!Retrieve, Store!WriteObject,
  Store!DiscardLosingUpload, Store!UndoUpload, Store!RemoveObject,
      Store!RetrievalFails, Store!VerificationFails, Store!FinalizeFails, Store!Crash,
      Store!RemoveObjectFails
<1>11. ASSUME NEW m \in Messages, Store!FailRead(m) PROVE QuotaInv'
  <2>1. /\ mediaRow[m].state = "ready" /\ used' = used - Size[m]
        /\ mediaRow' = [mediaRow EXCEPT ![m] = [state |-> "failed", key |-> Store!NoKey]]
    BY <1>11 DEF Store!FailRead
  <2>2. Charged' = Charged \ {m} /\ m \in Charged BY <1>0, <2>1 DEF Charged, MediaTyped
  <2> DEFINE A == Charged \ {m}
  <2>3. Charged = A \cup {m} /\ A \cap {m} = {} /\ A \in SUBSET Messages BY <1>0, <2>2
  <2> HIDE DEF A
  <2>4. Store!Bytes(A) \in Nat /\ Store!Bytes(A \cup {m}) = Store!Bytes(A) + Store!Bytes({m})
    BY <2>3, BytesAdd
  <2>5. Store!Bytes({m}) = Size[m] /\ Size[m] \in Nat BY BytesOne DEF Store!MediaAssumption
  <2>6. Charged' = A BY <2>2 DEF A
  <2>7. used = Store!Bytes(A) + Size[m] BY <1>0, <2>3, <2>4, <2>5
  <2>8. used' = Store!Bytes(Charged') /\ used' <= AccountLimit BY <1>0, <2>1, <2>4, <2>5, <2>6, <2>7
  <2> QED BY <2>8 DEF QuotaInv, Store!QuotaExact, Store!QuotaBound, Charged
<1> QED BY <1>3, <1>4, <1>5, <1>10, <1>11 DEF Store!Next

LEMMA QuotaInit == ASSUME Store!MediaAssumption, Store!Init PROVE QuotaInv
<1>1. Charged = {} BY DEF Store!Init, Charged, Store!NoRow
<1> QED
  BY <1>1, BytesNone
  DEF Store!Init, QuotaInv, Store!QuotaExact, Store!QuotaBound, Charged, Store!MediaAssumption

LEMMA MediaInvariant == ASSUME Store!MediaAssumption PROVE Store!Spec => [](KeyInv /\ QuotaInv)
<1>1. Store!Init => QuotaInv BY QuotaInit
<1>2. QuotaInv /\ KeyInv /\ [Store!Next]_Store!vars => QuotaInv' BY QuotaStep
<1> QED BY <1>1, <1>2, KeyInvariant, PTL DEF Store!Spec

\* Every variable of the stored media stays in its set, and a row has a key exactly while it
\* has an object (stored-media.ts).
THEOREM StoredMediaTypes == ASSUME Store!MediaAssumption PROVE Store!Spec => []Store!TypeOK
<1>1. KeyInv /\ QuotaInv => Store!TypeOK
  <2> SUFFICES ASSUME KeyInv, QuotaInv PROVE Store!TypeOK OBVIOUS
  <2>1. used \in Nat
    <3>1. Charged \subseteq Messages BY DEF Charged
    <3>2. Store!Bytes(Charged) \in Nat BY <3>1, BytesNat
    <3> QED BY <3>2 DEF QuotaInv, Store!QuotaExact, Charged
  <2> QED BY <2>1 DEF KeyInv, MediaTyped, RowsKeyed, JobsKeyed, Store!TypeOK, CronJobs
<1> QED BY <1>1, MediaInvariant, PTL

\* The bytes charged are those of the rows that hold an object and within the limit, whatever
\* uploads finish together and whatever replies are lost (finalize, the release of a charge).
THEOREM StoredMediaQuota ==
  ASSUME Store!MediaAssumption PROVE Store!Spec => [](Store!QuotaExact /\ Store!QuotaBound)
<1>1. QuotaInv => Store!QuotaExact /\ Store!QuotaBound BY DEF QuotaInv
<1> QED BY <1>1, MediaInvariant, PTL

\* No object is out of reach: it is that of a row, queued or handled, unless its invocation
\* was evicted or reached neither R2 nor the database (processStoredMedia).
THEOREM NoOrphanHolds == ASSUME Store!MediaAssumption PROVE Store!Spec => []Store!NoOrphan
<1>1. KeyInv => Store!NoOrphan BY DEF KeyInv
<1> QED BY <1>1, KeyInvariant, PTL

\* Ready media has its object unless the reply that made it ready was lost (the catch block
\* of processStoredMedia, finish_stored_media_object_deletion).
THEOREM ReadyHasObjectHolds ==
  ASSUME Store!MediaAssumption PROVE Store!Spec => []Store!ReadyHasObject
<1>1. KeyInv => Store!ReadyHasObject BY DEF KeyInv
<1> QED BY <1>1, KeyInvariant, PTL
=============================================================================
