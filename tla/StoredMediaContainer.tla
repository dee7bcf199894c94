------------------------ MODULE StoredMediaContainer ------------------------
(***************************************************************************)
(* The encrypted container a stored file lies in: write (one invocation    *)
(* per object key) and read of apps/api/src/encryption/                    *)
(* stored-media-container.ts, over R2 and the key service.                 *)
(*                                                                         *)
(* An object is a sequence of pieces, each what one readExact of the       *)
(* reader takes: the fixed header and the wrapped media key, then for each *)
(* frame its header and its ciphertext. A byte of a file is the pair of    *)
(* the file and its position.                                              *)
(***************************************************************************)
EXTENDS Envelope, FiniteSets, SequencesExt

CONSTANTS
  Media,         \* the stored files: each has one object key and one writer
  Context,       \* Context[m]: the account and connection of m
  Bytes,         \* Bytes[m]: the length of its plaintext
  ChunkSize,     \* plaintext bytes of a full frame
  PartSize,      \* pieces of a full part of a multipart upload
  AccountRows, ConnectionRows, \* the key rows a caller may have loaded
  Inputs,        \* the inputs of a read that are tried
  Faults,        \* at most this many failing calls, losses and crashes
  Breaks,        \* at most this many bodies that break off while they are read
  Damages,       \* at most this many objects replaced, damaged or removed
  Rots           \* at most this many objects changed under their ETag

ContainerAssumption ==
  /\ ChunkSize \in Nat \ {0} /\ PartSize \in Nat \ {0}
  /\ \A m \in Media: Bytes[m] \in Nat
  /\ {Faults, Breaks, Damages, Rots} \subseteq Nat

VARIABLES
  writer,   \* per file: phase, bytes taken, frames sent, part buffer, parts, account and connection row
  object,   \* per file: the pieces stored under its key, <<>> while there is none
  etag,     \* per file: the ETag of that object
  record,   \* per file: the state of its Stored Media row
  reader,   \* the read: phase, input, body, pinned ETag, position, frames, output, result
  faults, breaks, damages, rots

storage == <<object, etag>>
counters == <<faults, breaks, damages, rots>>
vars == <<writer, storage, record, reader, counters>>

-----------------------------------------------------------------------------
CONTAINER_VERSION == 1
DATA_FRAME == 0
TERMINAL_FRAME == 1

NoBox == Seal(<<>>, <<>>, <<>>)
Piece(kind, numbers, box) == [kind |-> kind, numbers |-> numbers, box |-> box]
BoxPiece(box) == Piece("box", <<>>, box)

File(m) == [i \in 1..Bytes[m] |-> <<m, i>>]
MediaKey(m) == <<"media key", m>>

mediaKeyContext(m) ==
  [account |-> Context[m].account, connection |-> Context[m].connection,
   entity |-> "stored-media", purpose |-> "media-data-key", record |-> m]

frameAdditionalData(m, chunk, version, index, length, type) ==
  <<"frame", Environment, Context[m].account, Context[m].connection, m,
    chunk, version, index, length, type>>

\* serializeHeader: the wrapped key travels with the version it was made under.
serializeHeader(version, wrapped) ==
  <<Piece("head", <<CONTAINER_VERSION, ChunkSize, version>>, NoBox), BoxPiece(wrapped.box)>>

Frame(m, version, type, index, text) ==
  <<Piece("frame", <<type, index, Len(text)>>, NoBox),
    BoxPiece(Seal(MediaKey(m),
      frameAdditionalData(m, ChunkSize, version, index, Len(text), type), text))>>

validateInput(m, accountRow, connectionRow) ==
  /\ accountRow.account = Context[m].account
  /\ connectionRow.account = Context[m].account
  /\ connectionRow.connection = Context[m].connection
  /\ connectionRow.accountVersion = accountRow.version

-----------------------------------------------------------------------------
(* The writer.                                                             *)

NoWrite == [phase |-> "idle", taken |-> 0, frames |-> 0, buffer |-> <<>>, parts |-> <<>>,
            version |-> 0]

Ended(m, phase) == writer' = [writer EXCEPT ![m].phase = phase]

\* An invocation checks its input and wraps a fresh media key.
StartWrite(m) ==
  /\ writer[m].phase = "idle"
  /\ \E accountRow \in AccountRows, connectionRow \in ConnectionRows:
       IF /\ validateInput(m, accountRow, connectionRow)
          /\ Encryptable(accountRow, connectionRow, mediaKeyContext(m))
       THEN writer' = [writer EXCEPT
              ![m].phase = "streaming",
              ![m].version = connectionRow.version,
              ![m].buffer = serializeHeader(connectionRow.version,
                Encrypted(accountRow, connectionRow, mediaKeyContext(m), <<MediaKey(m)>>))]
       ELSE Ended(m, "invalid")
  /\ UNCHANGED <<storage, record, reader, counters>>

\* nextPlaintextChunk: a full chunk, or what is left of the source.
Chunk(m) ==
  LET end == writer[m].taken + ChunkSize
  IN  SubSeq(File(m), writer[m].taken + 1, IF end > Bytes[m] THEN Bytes[m] ELSE end)

Sent(m) == writer[m].phase = "sent"
Room(m) == Len(writer[m].buffer) < PartSize

\* pull: the next frame, the terminal one when the source has ended.
SendFrame(m) ==
  /\ writer[m].phase = "streaming" /\ Room(m)
  /\ LET text == Chunk(m)
         type == IF text = <<>> THEN TERMINAL_FRAME ELSE DATA_FRAME
     IN  writer' = [writer EXCEPT
           ![m].phase = IF type = TERMINAL_FRAME THEN "sent" ELSE @,
           ![m].taken = @ + Len(text),
           ![m].frames = @ + 1,
           ![m].buffer = @ \o Frame(m, writer[m].version, type, writer[m].frames, text)]
  /\ UNCHANGED <<storage, record, reader, counters>>

\* uploadEncryptedStream: a part goes out full, the last one as it is.
PartReady(m) ==
  \/ Len(writer[m].buffer) >= PartSize
  \/ Sent(m) /\ writer[m].buffer # <<>>

UploadPart(m) ==
  /\ writer[m].phase \in {"streaming", "sent"} /\ PartReady(m)
  /\ LET size == IF Room(m) THEN Len(writer[m].buffer) ELSE PartSize
     IN  writer' = [writer EXCEPT
           ![m].parts = Append(@, SubSeq(writer[m].buffer, 1, size)),
           ![m].buffer = SubSeq(@, size + 1, Len(@))]
  /\ UNCHANGED <<storage, record, reader, counters>>

\* R2 joins parts that all have one size, the last one at most that.
Joinable(parts) ==
  \A i \in 1..(Len(parts) - 1):
    Len(parts[i]) = Len(parts[1]) /\ Len(parts[Len(parts)]) <= Len(parts[1])

Store(m, pieces) ==
  /\ object' = [object EXCEPT ![m] = pieces]
  /\ etag' = [etag EXCEPT ![m] = @ + 1]

CompleteReady(m) == Sent(m) /\ writer[m].buffer = <<>>

\* The reply of a complete that took effect may be lost: the abort that
\* follows finds no upload and is ignored.
Complete(m) ==
  /\ CompleteReady(m)
  /\ IF Joinable(writer[m].parts)
     THEN /\ Store(m, FlattenSeq(writer[m].parts))
          /\ \/ Ended(m, "stored") /\ UNCHANGED faults
             \/ Ended(m, "failed") /\ faults < Faults /\ faults' = faults + 1
     ELSE Ended(m, "refused") /\ UNCHANGED <<storage, faults>>
  /\ UNCHANGED <<record, reader, breaks, damages, rots>>

\* abort: nothing becomes visible under the key.
Abort(m) == UNCHANGED storage

\* The key service, the source or R2 fails, and the upload is aborted; a
\* crash of the invocation leaves it incomplete, which R2 shows to nobody.
WriteFails(m) ==
  /\ writer[m].phase \in {"idle", "streaming", "sent"}
  /\ faults < Faults /\ faults' = faults + 1
  /\ Ended(m, "failed")
  /\ Abort(m)
  /\ UNCHANGED <<record, reader, breaks, damages, rots>>

-----------------------------------------------------------------------------
(* What may happen to an object: an overwrite or a removal gives it a new  *)
(* ETag, a rotten copy keeps the one it had.                               *)

\* Some change: a cut, a lost, repeated or exchanged piece, a piece of any
\* object in its place or at its end, a changed number.
Changed(pieces) ==
  LET n == Len(pieces)
      known == UNION {ToSet(object[m]): m \in Media}
  IN  {SubSeq(pieces, 1, i): i \in 0..(n - 1)}
      \cup {RemoveAt(pieces, i): i \in 1..n}
      \cup {InsertAt(pieces, i, pieces[i]): i \in 1..n}
      \cup {SubSeq(pieces, 1, i - 1) \o SubSeq(pieces, i + 2, i + 3)
              \o SubSeq(pieces, i, i + 1) \o SubSeq(pieces, i + 4, n): i \in 1..(n - 3)}
      \cup {ReplaceAt(pieces, i, p): i \in 1..n, p \in known}
      \cup {Append(pieces, p): p \in known}
      \cup {ReplaceAt(pieces, i, [pieces[i] EXCEPT !.numbers[j] = @ + 1]):
              i \in {k \in 1..n: pieces[k].kind # "box"}, j \in 1..3}

Overwritten(m) ==
  /\ object[m] # <<>> /\ damages < Damages /\ damages' = damages + 1
  /\ \E pieces \in Changed(object[m]): Store(m, pieces)
  /\ UNCHANGED <<writer, record, reader, faults, breaks, rots>>

Rotten(m) ==
  /\ object[m] # <<>> /\ rots < Rots /\ rots' = rots + 1
  /\ \E pieces \in Changed(object[m]): object' = [object EXCEPT ![m] = pieces]
  /\ UNCHANGED <<writer, etag, record, reader, faults, breaks, damages>>

-----------------------------------------------------------------------------
(* The reader. An input names the object key, the file it is read as and   *)
(* the key rows.                                                           *)

NoRead == [phase |-> "idle", input |-> CHOOSE i \in Inputs: TRUE, body |-> <<>>,
           etag |-> 0, at |-> 0, chunk |-> 0, index |-> 0, short |-> FALSE, out |-> <<>>,
           result |-> "none"]

Finish(result) ==
  reader' = [reader EXCEPT !.phase = IF @ = "second" THEN "streamed" ELSE "ended",
                           !.result = result]

\* A surface reads the object of a ready row; other inputs are what a row
\* that names the wrong object, file or keys would make of it.
StartRead ==
  /\ reader.phase = "idle"
  /\ \E input \in Inputs:
       /\ record[input.key] = "ready"
       /\ reader' = IF validateInput(input.media, input.accountRow, input.connectionRow)
                 THEN [reader EXCEPT !.phase = "get", !.input = input]
                 ELSE [reader EXCEPT !.phase = "ended", !.input = input,
                                     !.result = "authentication-failed"]
  /\ UNCHANGED <<writer, storage, record, counters>>

\* The first pass takes whatever lies under the key, and its ETag.
Get ==
  /\ reader.phase = "get"
  /\ LET key == reader.input.key
     IN  IF object[key] = <<>> THEN Finish("not-found")
         ELSE reader' = [reader EXCEPT !.phase = "first", !.body = object[key],
                                       !.etag = etag[key], !.at = 0]
  /\ UNCHANGED <<writer, storage, record, counters>>

\* Mutant: the second pass takes what lies under the key by then.
PinnedAny(key) == object[key] # <<>>

\* The second pass: only the object the first one read.
Pinned(key) == object[key] # <<>> /\ etag[key] = reader.etag

GetPinned ==
  /\ reader.phase = "verified"
  /\ LET key == reader.input.key
     IN  IF Pinned(key)
         THEN reader' = [reader EXCEPT !.phase = "second", !.body = object[key], !.at = 0,
                                       !.index = 0, !.short = FALSE]
         ELSE Finish("authentication-failed")
  /\ UNCHANGED <<writer, storage, record, counters>>

Passing == reader.phase \in {"first", "second"}

\* readExact: a piece of the kind that is due, or the read fails.
Due(offset, kind) ==
  /\ reader.at + offset <= Len(reader.body)
  /\ reader.body[reader.at + offset].kind = kind
Next2 == reader.body[reader.at + 2].box
Numbers == reader.body[reader.at + 1].numbers

\* parseHeader and initialize: the media key under the connection's key.
Unwrapped ==
  LET input == reader.input
  IN  Decrypted(input.accountRow, input.connectionRow, mediaKeyContext(input.media),
                [version |-> Numbers[3], box |-> Next2])

Initialize ==
  /\ Passing /\ reader.at = 0
  /\ IF ~(Due(1, "head") /\ Due(2, "box")) THEN Finish("authentication-failed")
     ELSE IF Numbers[1] # CONTAINER_VERSION THEN Finish("unsupported-version")
     ELSE IF Opened(Unwrapped)
     THEN reader' = [reader EXCEPT !.at = 2, !.chunk = Numbers[2]]
     ELSE Finish("authentication-failed")
  /\ UNCHANGED <<writer, storage, record, counters>>

\* The media key of the header, the only key a frame may open under.
HeaderKey ==
  LET input == reader.input
  IN  Decrypted(input.accountRow, input.connectionRow, mediaKeyContext(input.media),
                [version |-> reader.body[1].numbers[3], box |-> reader.body[2].box])[1]

FrameFits(type, index, length) ==
  /\ index = reader.index
  /\ \/ type = DATA_FRAME /\ length \in 1..reader.chunk /\ ~reader.short
     \/ type = TERMINAL_FRAME /\ length = 0

\* Mutant: the second pass trusts what the first one authenticated.
FrameTextTrusted(type, length) ==
  IF reader.phase = "second" THEN Next2.text
  ELSE Open(HeaderKey,
            frameAdditionalData(reader.input.media, reader.chunk, reader.body[1].numbers[3],
                                reader.index, length, type), Next2)

FrameText(type, length) ==
  Open(HeaderKey,
       frameAdditionalData(reader.input.media, reader.chunk, reader.body[1].numbers[3],
                           reader.index, length, type), Next2)

FrameOpens ==
  /\ Due(1, "frame") /\ Due(2, "box")
  /\ FrameFits(Numbers[1], Numbers[2], Numbers[3])
  /\ Opened(FrameText(Numbers[1], Numbers[3]))

\* A body that holds no further frame ends as one that is not authentic.
WithoutFrame == "authentication-failed"

IsEnd == reader.at + 2 = Len(reader.body)

\* drain discards the bytes of the first pass.
HandedOut(text) == IF reader.phase = "second" THEN reader.out \o text ELSE reader.out

\* pull: one frame is authenticated; the terminal one has to be the last
\* piece, and ends the pass.
ReadFrame ==
  /\ Passing /\ reader.at >= 2
  /\ IF ~FrameOpens THEN Finish(WithoutFrame)
     ELSE IF Numbers[1] = DATA_FRAME
     THEN reader' = [reader EXCEPT
            !.at = @ + 2, !.index = @ + 1, !.short = Numbers[3] < reader.chunk,
            !.out = HandedOut(FrameText(Numbers[1], Numbers[3]))]
     ELSE IF ~IsEnd THEN Finish("authentication-failed")
     ELSE IF reader.phase = "first" THEN reader' = [reader EXCEPT !.phase = "verified"]
     ELSE Finish("success")
  /\ UNCHANGED <<writer, storage, record, counters>>

\* normalizeError: what a failing call is reported as; a body that breaks
\* off is one more thing the frame did not authenticate.
Reason(cause) ==
  [get |-> "storage-failed", unwrap |-> "dependency-failed",
   body |-> "authentication-failed"][cause]

\* R2 fails a get, or the key service fails to unwrap.
ReadFails ==
  /\ faults < Faults /\ faults' = faults + 1
  /\ \/ reader.phase \in {"get", "verified"} /\ Finish(Reason("get"))
     \/ Passing /\ reader.at = 0 /\ Finish(Reason("unwrap"))
  /\ UNCHANGED <<writer, storage, record, breaks, damages, rots>>

\* The body R2 sends breaks off.
BodyBreaks ==
  /\ breaks < Breaks /\ breaks' = breaks + 1
  /\ Passing /\ Finish(Reason("body"))
  /\ UNCHANGED <<writer, storage, record, faults, damages, rots>>

\* The consumer of the second pass goes away.
Cancel ==
  /\ reader.phase = "second" /\ Finish("cancelled")
  /\ UNCHANGED <<writer, storage, record, counters>>

\* The row of a file becomes ready once its write was reported.
Finalize(m) ==
  /\ writer[m].phase = "stored" /\ record[m] = "none"
  /\ record' = [record EXCEPT ![m] = "ready"]
  /\ UNCHANGED <<writer, storage, reader, counters>>

\* failStoredMediaRead: a first pass that ended in anything but a failing
\* call fails the row, and queues the deletion of the object.
Settle ==
  LET m == reader.input.media
  IN  /\ reader.phase = "ended" /\ reader.input.key = m /\ record[m] = "ready"
      /\ reader.result \notin {"dependency-failed", "storage-failed"}
      /\ record' = [record EXCEPT ![m] = "failed"]
      /\ UNCHANGED <<writer, storage, reader, counters>>

-----------------------------------------------------------------------------
Init ==
  /\ writer = [m \in Media |-> NoWrite]
  /\ object = [m \in Media |-> <<>>] /\ etag = [m \in Media |-> 0]
  /\ record = [m \in Media |-> "none"]
  /\ reader = NoRead
  /\ faults = 0 /\ breaks = 0 /\ damages = 0 /\ rots = 0

Write(m) == StartWrite(m) \/ SendFrame(m) \/ UploadPart(m) \/ Complete(m) \/ Finalize(m)
Read == StartRead \/ Get \/ GetPinned \/ Initialize \/ ReadFrame \/ Settle

Next ==
  \/ \E m \in Media: Write(m) \/ WriteFails(m) \/ Overwritten(m) \/ Rotten(m)
  \/ Read \/ ReadFails \/ BodyBreaks \/ Cancel

Spec == Init /\ [][Next]_vars
Fairness == \A m \in Media: WF_vars(Write(m)) /\ WF_vars(Read)

FairSpec == Spec /\ Fairness

-----------------------------------------------------------------------------
(* What the container of a stored file promises its writers and readers. *)

\* The state of a read and of the writers is well formed: what is handed out
\* fits the files, and nobody sends more parts than the pieces there are.
TypeOK ==
  /\ \A m \in Media:
       /\ writer[m].taken \in 0..Bytes[m] /\ writer[m].frames \in 0..(Bytes[m] + 1)
       /\ writer[m].phase \in {"idle", "streaming", "sent", "stored", "invalid", "failed", "refused"}
       /\ record[m] \in {"none", "ready", "failed"} /\ etag[m] \in Nat
  /\ reader.at \in 0..Len(reader.body)
  /\ faults \in 0..Faults /\ breaks \in 0..Breaks /\ damages \in 0..Damages /\ rots \in 0..Rots

\* The container of a file under the rows it may be wrapped with.
Container(m, pieces) ==
  /\ Len(pieces) >= 4
  /\ \E accountRow \in AccountRows, connectionRow \in ConnectionRows:
       /\ validateInput(m, accountRow, connectionRow)
       /\ LET chunks == (Bytes[m] + ChunkSize - 1) \div ChunkSize
              text(i) == SubSeq(File(m), i * ChunkSize + 1,
                                IF (i + 1) * ChunkSize > Bytes[m] THEN Bytes[m] ELSE (i + 1) * ChunkSize)
              frame(i) == Frame(m, connectionRow.version,
                                IF i = chunks THEN TERMINAL_FRAME ELSE DATA_FRAME, i, text(i))
          IN  pieces = serializeHeader(connectionRow.version,
                         Encrypted(accountRow, connectionRow, mediaKeyContext(m), <<MediaKey(m)>>))
                       \o FlattenSeq([i \in 1..(chunks + 1) |-> frame(i - 1)])

\* Whatever lies under the key, a reader is handed the bytes of the file it
\* asked for, from the first on and in order, and is told the file is
\* complete only when it is: damage, another file's pieces, a wrong context
\* or a copy that rots between the passes never yields anything else
\* (makeDecryptionStream, the authenticated data of every frame).
OnlyTheFile ==
  /\ IsPrefix(reader.out, File(reader.input.media)) \/ reader.out = <<>>
  /\ reader.result = "success" => reader.out = File(reader.input.media)

\* Nothing of a damaged object is handed out, not even the bytes before the
\* damage: by the time the first byte is, the object has been read to its
\* authenticated end, and is still the one that was read (read, drain and
\* the ETag of the second get).
NothingOfTheDamaged ==
  reader.out # <<>> => Container(reader.input.media, reader.body)

\* What R2 shows under a key nobody tampered with is a whole container of
\* its file: not after a failure of the source, of the key service or of R2,
\* not after a crash, and not while the upload is under way
\* (uploadEncryptedStream).
ObjectIsWhole ==
  \A m \in Media: object[m] # <<>> /\ damages + rots = 0 => Container(m, object[m])

\* R2 never refuses the parts of an upload: a write fails for its input or
\* for a failing call only, whatever the length of the file
\* (uploadEncryptedStream).
PartsAreJoinable == \A m \in Media: writer[m].phase # "refused"

\* A file that has been stored and not tampered with can be read: the only
\* results of a read with its own context are the file, a failing call, an
\* object that is not there yet and a reader who left.
StoredIsReadable ==
  LET input == reader.input
  IN  /\ reader.result = "authentication-failed" \/ reader.result = "unsupported-version"
      /\ damages + rots = 0 /\ breaks = 0
      => \/ input.key # input.media
         \/ ~validateInput(input.media, input.accountRow, input.connectionRow)
         \/ input.connectionRow.version # writer[input.key].version

\* The row of a file whose container is whole stays ready: what the service
\* has stored is not given up, and its object not deleted, because of a call
\* that failed while it was read (read of rest.ts and mcp.ts, and
\* failStoredMediaRead).
ReadableStaysReady ==
  \A m \in Media:
    record[m] = "failed" /\ damages + rots = 0 =>
      reader.input.connectionRow.version # writer[m].version
      \/ ~validateInput(m, reader.input.accountRow, reader.input.connectionRow)

\* A write that has begun ends (fairness of the invocation's own steps).
WriteEnds == \A m \in Media: writer[m].phase = "streaming" ~> writer[m].phase \notin {"streaming", "sent"}
=============================================================================
