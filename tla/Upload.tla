-------------------------------- MODULE Upload --------------------------------
(***************************************************************************)
(* The life of a chunked upload: the handlers initialize, write, close and *)
(* delete of FilesController, the interval writeBlobs of FilesService that *)
(* drains the queued blobs to the disk, and the disk they share.           *)
(*                                                                         *)
(* The server is one JavaScript thread.  An action whose guard is Ready is *)
(* a run of that thread from one await to the next; the others are what    *)
(* the thread pool does to the disk meanwhile.  A step of the disk commutes*)
(* with every run that does not look at the same file.                     *)
(***************************************************************************)
EXTENDS TempStorage

CONSTANTS
    Drains,         \* slots for the drains at work at a time (a bound)
    Requests,       \* slots for the initialize and delete requests (a bound)
    HighWaterMark,  \* a shorter blob is taken by the stream at once
    TruncateFile,   \* the setting TRUNCATE_FILE
    MaxStreams,     \* bound on the open streams of a kind (see Stream)
    MaxBlobs,       \* bound on the blobs queued for an upload
    MaxReceived     \* bound on the bytes counted as received by an upload

ASSUME UploadAssumption ==
    /\ HighWaterMark \in Nat \ {0}
    /\ TruncateFile \in BOOLEAN
    /\ MaxStreams \in Nat
    /\ MaxBlobs \in Nat
    /\ MaxReceived \in Nat

VARIABLES
    drain,    \* the async callbacks of writeBlobs that stand at an await
    request,  \* the initialize and delete handlers that stand at an await
    streams,  \* how many write streams the drains did not wait for are open
    disk,     \* the bytes of each file that hold uploaded data, or None
    up,       \* is the process up?
    history   \* of each upload, what the record does not tell (see below)

vars == <<storage, filesDirectories, drain, request, streams, disk, up, history>>

(* A drain awaits the 'drain' event of a stream that was full ("writing",  *)
(* then "flushed" once the data is on disk), the next tick when the stream *)
(* took the whole blob ("nextTick"), or the lookup of the file it has just *)
(* finished ("completing").  One whose queue holds no blob that a stream   *)
(* takes awaits nothing: it goes round for ever ("spinning").  mode is how *)
(* the stream opens the file.                                              *)
Drain == [pc : {"writing", "flushed", "nextTick", "completing", "spinning"},
          key : Keys, blob : Blobs, mode : {"r+", "w"}]

Stream == [key : Keys, blob : Blobs, mode : {"r+", "w"}]

(* A delete is a request that does not overwrite: the handlers share       *)
(* deleteFile, and initialize goes on after it.                            *)
Request == [pc : {"access", "exists", "missing", "delAccess", "rm", "removed", "reserve"},
            key : Keys, size : Sizes \cup {0}, overwrite : BOOLEAN]

ASSUME NobodyAssumption ==
    /\ None \notin Drain
    /\ None \notin Request
    /\ \A content \in SUBSET (UNION {Bytes(b) : b \in Blobs}) : content # None

(* accepted: the bytes of the blobs answered 'Blob Recived'.               *)
(* tidy: these blobs were pairwise disjoint, inside the announced size and *)
(* at no negative position.                                                *)
(* undisturbed: no drain of an earlier upload of the key was left when the *)
(* record was created, no blob was queued again, and nobody removed,       *)
(* renamed or truncated the file.                                          *)
History == [accepted : SUBSET Int, tidy : BOOLEAN, undisturbed : BOOLEAN]

NewHistory == [accepted |-> {}, tidy |-> TRUE, undisturbed |-> TRUE]

TypeOK ==
    /\ StorageTypeOK
    /\ drain \in [Drains -> Drain \cup {None}]
    /\ request \in [Requests -> Request \cup {None}]
    /\ streams \in [Stream -> Nat]
    /\ disk \in [Keys -> (SUBSET Int) \cup {None}]
    /\ up \in BOOLEAN
    /\ history \in [Keys -> History]

Init ==
    /\ StorageInit
    /\ drain = [d \in Drains |-> None]
    /\ request = [r \in Requests |-> None]
    /\ streams = [s \in Stream |-> 0]
    /\ disk \in [Keys -> {None, {}}]  \* a file of old holds no uploaded byte
    /\ up = TRUE
    /\ history = [k \in Keys |-> NewHistory]

-----------------------------------------------------------------------------
(* The process.                                                            *)

(* The thread is not caught in a drain that goes round for ever.           *)
Running ==
    /\ up
    /\ \A d \in Drains : drain[d] # None => drain[d].pc # "spinning"

(* The thread is free.  What process.nextTick queued runs before any other *)
(* event.                                                                  *)
Ready ==
    /\ Running
    /\ \A d \in Drains : drain[d] # None => drain[d].pc # "nextTick"

(* An 'error' event without a listener, or a rejection nobody handles,     *)
(* ends the process.  Everything in memory is gone.                        *)
Die ==
    /\ up' = FALSE
    /\ storage' = [k \in Keys |-> None]
    /\ filesDirectories' = [k \in Keys |-> 0]
    /\ drain' = [d \in Drains |-> None]
    /\ request' = [r \in Requests |-> None]
    /\ streams' = [s \in Stream |-> 0]
    /\ history' = [k \in Keys |-> NewHistory]
    /\ UNCHANGED disk

(* Somebody kills the process.                                             *)
Kill == up /\ Die

Restart ==
    /\ ~up
    /\ up' = TRUE
    /\ UNCHANGED <<storageVars, drain, request, streams, disk, history>>

Content(k) == IF disk[k] = None THEN {} ELSE disk[k]

Disturb(ks) ==
    history' = [k \in Keys |-> IF k \in ks THEN [history[k] EXCEPT !.undisturbed = FALSE]
                                           ELSE history[k]]

-----------------------------------------------------------------------------
(* The drain.                                                              *)

(* What a drain waits for that has called writeBlob: the disk only if the  *)
(* blob fills the stream's buffer.                                         *)
Awaits(b) ==
    CASE ~Writable(b) -> "spinning"
      [] Writable(b) /\ b.len >= HighWaterMark -> "writing"
      [] Writable(b) /\ b.len < HighWaterMark -> "nextTick"

(* Mutant: the file is opened with 'w' for every blob.                     *)
WriteBlobAnew(k, b) == [pc |-> Awaits(b), key |-> k, blob |-> b, mode |-> "w"]

(* writeBlob decides from existsSync how the stream opens the file.        *)
WriteBlob(k, b) ==
    [pc   |-> Awaits(b),
     key  |-> k,
     blob |-> b,
     mode |-> IF disk[k] = None THEN "w" ELSE "r+"]

(* The writers ws open the streams they will not wait for.                 *)
OpenStreams(ws) ==
    /\ streams' = [s \in Stream |->
          streams[s] + IF \E w \in ws : /\ w.pc = "nextTick"
                                        /\ s = [key |-> w.key, blob |-> w.blob, mode |-> w.mode]
                       THEN 1 ELSE 0]
    /\ \A s \in Stream : streams'[s] <= MaxStreams

(* Mutant: the flag is not looked at.                                      *)
StartableThoughWritting ==
    {k \in Keys : filesDirectories[k] > 0 /\ ExistsFile(k) /\ storage[k].blobs # << >>}

(* The listed files a scan may find work in.                               *)
Startable ==
    {k \in Keys : /\ filesDirectories[k] > 0
                  /\ ExistsFile(k)
                  /\ ~storage[k].writting
                  /\ storage[k].blobs # << >>}

(* The blob a drain of k writes first, or goes round with.                 *)
First(k) == Head(Turned(storage[k]).blobs)

(* A scan that starts the keys of S: the last one was let start when the   *)
(* others were counted, and if one was left the limit was passed, or the   *)
(* scan never got to it because the last one goes round for ever.          *)
ScanStarts(S) ==
    LET Entries(T) == MapThenSumSet(LAMBDA k : filesDirectories[k], T)
        Stuck == {k \in S : ~Writable(First(k))}
    IN  /\ S # {} => \E last \in S :
                        /\ Stuck \subseteq {last}
                        /\ AllowWriteMoreFiles(WrittingCount + Entries(S \ {last}))
        /\ S # Startable /\ Stuck = {} => ~AllowWriteMoreFiles(WrittingCount + Entries(S))

(* One run of the interval.  Each callback it calls runs to its first      *)
(* await before the next one starts.                                       *)
WriteBlobs ==
    /\ Ready
    /\ \E D \in SUBSET {d \in Drains : drain[d] = None} :
       \E job \in Injection(D, Startable) :
          LET S == {job[d] : d \in D}
              Writer(k) == WriteBlob(k, First(k))
          IN  /\ ScanStarts(S)
              /\ storage' = [k \in Keys |-> IF k \in S THEN DeallocateBlob(Turned(storage[k]))
                                                       ELSE storage[k]]
              /\ drain' = [d \in Drains |-> IF d \in D THEN Writer(job[d]) ELSE drain[d]]
              /\ OpenStreams({Writer(k) : k \in S})
    /\ UNCHANGED <<filesDirectories, request, disk, up, history>>

(* A stream writes its blob.  One that opens with 'w' empties the file     *)
(* when it opens it: what other streams wrote after that is kept.  One     *)
(* that opens with 'r+' fails on a file that is gone, and nobody listens.  *)
Lands(s) ==
    /\ s.mode = "r+" => disk[s.key] # None
    /\ \E kept \in SUBSET Content(s.key) :
          /\ s.mode = "r+" => kept = Content(s.key)
          /\ disk' = [disk EXCEPT ![s.key] = kept \cup Bytes(s.blob)]

Fails(s) == s.mode = "r+" /\ disk[s.key] = None

(* Of a blob the drain waits for ...                                       *)
BlobLands(d) ==
    /\ up
    /\ drain[d] # None
    /\ drain[d].pc = "writing"
    /\ \/ /\ Lands(drain[d])
          /\ drain' = [drain EXCEPT ![d].pc = "flushed"]
          /\ UNCHANGED <<storageVars, request, streams, up, history>>
       \/ Running /\ Fails(drain[d]) /\ Die

(* ... and of one it did not wait for.                                     *)
StreamLands(s) ==
    /\ up
    /\ streams[s] > 0
    /\ \/ /\ Lands(s)
          /\ streams' = [streams EXCEPT ![s] = @ - 1]
          /\ UNCHANGED <<storageVars, drain, request, up, history>>
       \/ Running /\ Fails(s) /\ Die

(* The test of the while loop, with file the record as the drain left it:  *)
(* the loop asks neither whether another drain writes this file nor how    *)
(* many files are being written, nor whether it has met the blob before.   *)
Loop(d, k, file) ==
    IF file.blobs = << >>
    THEN /\ storage' = [storage EXCEPT ![k] = file]
         /\ drain' = [drain EXCEPT ![d] = None]
         /\ UNCHANGED streams
    ELSE LET w == WriteBlob(k, Head(Turned(file).blobs))
         IN  /\ storage' = [storage EXCEPT ![k] = DeallocateBlob(Turned(file))]
             /\ drain' = [drain EXCEPT ![d] = w]
             /\ OpenStreams({w})

(* writeBlob has resolved.  Without the record updateBytesWriten throws,   *)
(* and the catch block, which calls allocateBlob, throws again.            *)
BlobWritten(d) ==
    LET k == drain[d].key
        file == UpdateBytesWriten(storage[k], drain[d].blob)
    IN  /\ drain[d] # None
        /\ \/ drain[d].pc = "flushed" /\ Ready
           \/ drain[d].pc = "nextTick" /\ Running
        /\ \/ ~ExistsFile(k) /\ Die
           \/ /\ ExistsFile(k)
              /\ IF file.completed
                 THEN /\ storage' = [storage EXCEPT ![k] = file]
                      /\ drain' = [drain EXCEPT ![d].pc = "completing"]
                      /\ UNCHANGED streams
                 ELSE Loop(d, k, file)
              /\ UNCHANGED <<filesDirectories, request, disk, up, history>>

(* getFileP has answered: the upload is over, and so is the loop, as the   *)
(* record whose queue it looks at is gone.                                 *)
UploadFinished(d) ==
    /\ Ready
    /\ drain[d] # None
    /\ drain[d].pc = "completing"
    /\ DelFile(drain[d].key)
    /\ drain' = [drain EXCEPT ![d] = None]
    /\ history' = [history EXCEPT ![drain[d].key] = NewHistory]
    /\ UNCHANGED <<request, streams, disk, up>>

(* getFileP has thrown: the catch block queues the blob, whose bytes are   *)
(* counted already, once more.                                             *)
LookupFails(d) ==
    LET k == drain[d].key
        b == drain[d].blob
    IN  /\ Ready
        /\ drain[d] # None
        /\ drain[d].pc = "completing"
        /\ \/ ~ExistsFile(k) /\ Die
           \/ /\ ExistsFile(k)
              /\ storage[k].received + b.len <= MaxReceived
              /\ Len(storage[k].blobs) < MaxBlobs
              /\ Loop(d, k, AllocateBlob(storage[k], b))
              /\ Disturb({k})
              /\ UNCHANGED <<filesDirectories, request, disk, up>>

-----------------------------------------------------------------------------
(* The handlers.                                                           *)

(* initialize answers 403 at once if the upload is there, and otherwise    *)
(* asks the disk.                                                          *)
InitializeFile(r, k, size, overwrite) ==
    /\ Ready
    /\ request[r] = None
    /\ ~ExistsFile(k)
    /\ request' = [request EXCEPT ![r] =
                     [pc |-> "access", key |-> k, size |-> size, overwrite |-> overwrite]]
    /\ UNCHANGED <<storageVars, drain, streams, disk, up, history>>

(* The disk answers access().                                              *)
Access(r) ==
    /\ up
    /\ request[r] # None
    /\ request[r].pc = "access"
    /\ request' = [request EXCEPT ![r].pc = IF disk[request[r].key] = None THEN "missing"
                                                                           ELSE "exists"]
    /\ UNCHANGED <<storageVars, drain, streams, disk, up, history>>

(* createFileTemp, then reservateFileSpace.  With TRUNCATE_FILE a size of  *)
(* zero makes createWriteStream throw: the record stays.                   *)
Create(r) ==
    LET k == request[r].key
    IN  /\ CreateFileTemp(k, request[r].size)
        /\ history' = [history EXCEPT ![k] =
              [NewHistory EXCEPT !.undisturbed =
                  /\ \A d \in Drains : drain[d] # None => drain[d].key # k
                  /\ \A s \in Stream : streams[s] > 0 => s.key # k]]
        /\ request' = [request EXCEPT ![r] = IF TruncateFile /\ request[r].size > 0
                                             THEN [@ EXCEPT !.pc = "reserve"]
                                             ELSE None]

(* deleteFile up to its first await.                                       *)
BeginDelete(k) ==
    IF ExistsFile(k)
    THEN /\ DelFile(k)
         /\ history' = [history EXCEPT ![k] = NewHistory]
    ELSE UNCHANGED <<storageVars, history>>

(* initialize after its first await: it does not look at the table again.  *)
InitializeGoesOn(r) ==
    /\ Ready
    /\ request[r] # None
    /\ request[r].pc \in {"exists", "missing"}
    /\ \/ /\ ~request[r].overwrite
          /\ request[r].pc = "exists"
          /\ request' = [request EXCEPT ![r] = None]
          /\ UNCHANGED <<storageVars, history>>
       \/ /\ ~request[r].overwrite
          /\ request[r].pc = "missing"
          /\ Create(r)
       \/ /\ request[r].overwrite
          /\ BeginDelete(request[r].key)
          /\ request' = [request EXCEPT ![r].pc = "delAccess"]
    /\ UNCHANGED <<drain, streams, disk, up>>

DeleteFile(r, k) ==
    /\ Ready
    /\ request[r] = None
    /\ BeginDelete(k)
    /\ request' = [request EXCEPT ![r] =
                     [pc |-> "delAccess", key |-> k, size |-> 0, overwrite |-> FALSE]]
    /\ UNCHANGED <<drain, streams, disk, up>>

(* The disk answers access() and lstat(): 404 if the file is not there,    *)
(* also to an initialize that asked to overwrite.                          *)
DeleteAccess(r) ==
    /\ up
    /\ request[r] # None
    /\ request[r].pc = "delAccess"
    /\ request' = [request EXCEPT ![r] = IF disk[request[r].key] = None THEN None
                                         ELSE [@ EXCEPT !.pc = "rm"]]
    /\ UNCHANGED <<storageVars, drain, streams, disk, up, history>>

(* The disk removes the file, or fails if somebody else did.               *)
Rm(r) ==
    LET k == request[r].key
    IN  /\ up
        /\ request[r] # None
        /\ request[r].pc = "rm"
        /\ disk' = [disk EXCEPT ![k] = None]
        /\ request' = [request EXCEPT ![r] = IF disk[k] # None /\ @.overwrite
                                             THEN [@ EXCEPT !.pc = "removed"]
                                             ELSE None]
        /\ Disturb({k})
        /\ UNCHANGED <<storageVars, drain, streams, up>>

(* initialize after deleteFile: it does not look at the table either.      *)
DeleteGoesOn(r) ==
    /\ Ready
    /\ request[r] # None
    /\ request[r].pc = "removed"
    /\ Create(r)
    /\ UNCHANGED <<drain, streams, disk, up>>

(* The stream of reservateFileSpace empties the file and writes a zero at  *)
(* its end: the file is there and holds no uploaded byte.                  *)
Reserve(r) ==
    LET k == request[r].key
    IN  /\ up
        /\ request[r] # None
        /\ request[r].pc = "reserve"
        /\ disk' = [disk EXCEPT ![k] = {}]
        /\ request' = [request EXCEPT ![r] = None]
        /\ Disturb(IF Content(k) = {} THEN {} ELSE {k})
        /\ UNCHANGED <<storageVars, drain, streams, up>>

ReciveBlob(k, b) ==
    /\ Ready
    /\ ExistsFile(k)
    /\ storage[k].received + b.len <= MaxReceived
    /\ Len(storage[k].blobs) < MaxBlobs
    /\ storage' = [storage EXCEPT ![k] = AllocateBlob(@, b)]
    /\ history' = [history EXCEPT
          ![k].accepted = @ \cup Bytes(b),
          ![k].tidy = @ /\ Bytes(b) \cap history[k].accepted = {}
                        /\ Bytes(b) \subseteq 0 .. storage[k].size - 1
                        /\ b.pos >= 0]
    /\ UNCHANGED <<filesDirectories, drain, request, streams, disk, up>>

(* closeFile asks whether the upload of join(userId, path) is completed,   *)
(* and no upload is, and then removes the record of the path as it came:   *)
(* 'files/close/<userId>/<file>' names a real key, of anybody's upload.    *)
(* None stands for the paths that are no key.                              *)
CloseFile(tested, path) ==
    LET asked == {k \in {tested} \ {None} : ExistsFile(k)}
        closed == {k \in {path} \ {None} : \A t \in asked : IsCompleted(storage[t])}
    IN  /\ Ready
        /\ tested # path
        /\ storage' = [k \in Keys |->
              CASE k \in closed -> None
                [] k \in asked -> [storage[k] EXCEPT !.completed = IsCompleted(storage[k])]
                [] OTHER -> storage[k]]
        /\ filesDirectories' = [k \in Keys |-> IF k \in closed THEN 0
                                                               ELSE filesDirectories[k]]
        /\ history' = [k \in Keys |-> IF k \in closed THEN NewHistory ELSE history[k]]
        /\ UNCHANGED <<drain, request, streams, disk, up>>

(* renameFile: the disk renames one file over another, and the table is    *)
(* left as it is.                                                          *)
RenameFile(k1, k2) ==
    /\ up
    /\ k1 # k2
    /\ disk[k1] # None
    /\ disk' = [disk EXCEPT ![k1] = None, ![k2] = disk[k1]]
    /\ Disturb({k1, k2})
    /\ UNCHANGED <<storageVars, drain, request, streams, up>>

-----------------------------------------------------------------------------
DrainStep(d) ==
    BlobLands(d) \/ BlobWritten(d) \/ UploadFinished(d) \/ LookupFails(d)

RequestStep(r) ==
    \/ \E k \in Keys, size \in Sizes, overwrite \in BOOLEAN :
          InitializeFile(r, k, size, overwrite)
    \/ \E k \in Keys : DeleteFile(r, k)
    \/ Access(r) \/ InitializeGoesOn(r)
    \/ DeleteAccess(r) \/ Rm(r) \/ DeleteGoesOn(r) \/ Reserve(r)

Next ==
    \/ Kill
    \/ Restart
    \/ WriteBlobs
    \/ \E d \in Drains : DrainStep(d)
    \/ \E s \in Stream : StreamLands(s)
    \/ \E r \in Requests : RequestStep(r)
    \/ \E k \in Keys, b \in Blobs : ReciveBlob(k, b)
    \/ \E tested, path \in Keys \cup {None} : CloseFile(tested, path)
    \/ \E k1, k2 \in Keys : RenameFile(k1, k2)

Spec == Init /\ [][Next]_vars

(* The event loop runs the interval and every callback that is due, even   *)
(* if others come first for a while; the disk answers; and the lookup of a *)
(* finished file does not fail for ever.                                   *)
Fairness ==
    /\ SF_vars(WriteBlobs)
    /\ \A s \in Stream : WF_vars(StreamLands(s))
    /\ \A d \in Drains : /\ WF_vars(BlobLands(d))
                         /\ SF_vars(BlobWritten(d))
                         /\ SF_vars(UploadFinished(d))

FairSpec == Spec /\ Fairness

-----------------------------------------------------------------------------
(* Properties.                                                             *)

Writers(k) ==
    {d \in Drains : drain[d] # None /\ drain[d].key = k /\ drain[d].pc # "completing"}

(* The flag writting is the drain's lock, and nobody owns it: setWritting  *)
(* can be called by any callback, for any record that goes by that path.   *)
(* While nothing disturbed the upload it is set exactly while a drain      *)
(* works on the file, and one drain only.                                  *)
SingleWriter ==
    \A k \in Keys : ExistsFile(k) /\ history[k].undisturbed =>
        /\ storage[k].writting <=> Writers(k) # {}
        /\ \A d, e \in Writers(k) : d = e

(* allowWriteMoreFiles is asked when a drain starts and never again in its *)
(* loop, and compares with <=: one file more than FILES_ATST is written at *)
(* a time, and never two more.                                             *)
WritingLimit ==
    Cardinality({k \in Keys : /\ ExistsFile(k)
                              /\ history[k].undisturbed
                              /\ storage[k].writting}) <= FilesAtSameTime + 1

(* A blob answered 'Blob Recived' is never dropped between the queue, a    *)
(* drain and the disk: each of its bytes is queued, or held by a drain, or *)
(* counted as written, also after a failed lookup queued a blob again.     *)
AcceptedBytesAccounted ==
    \A k \in Keys : ExistsFile(k) =>
        history[k].accepted \subseteq
            (storage[k].bytesWritten
             \cup (UNION {Bytes(storage[k].blobs[i]) : i \in DOMAIN storage[k].blobs})
             \cup (UNION {Bytes(drain[d].blob) : d \in Writers(k)}))

(* isCompleted compares sums of lengths.  For a client that sends each     *)
(* byte once and inside the announced size, and an upload nothing          *)
(* disturbed, the answer is right: every byte was written.                 *)
CompletedUploadIsWhole ==
    \A k \in Keys : /\ ExistsFile(k)
                    /\ history[k].undisturbed
                    /\ history[k].tidy
                    /\ storage[k].completed
        => storage[k].bytesWritten = 0 .. storage[k].size - 1

(* bytesWritten tells the truth: when no stream of an undisturbed upload   *)
(* is open any more, the bytes counted as written are in the file.         *)
WrittenBytesReachDisk ==
    \A k \in Keys :
        /\ ExistsFile(k)
        /\ history[k].undisturbed
        /\ Writers(k) = {}
        /\ \A s \in Stream : s.key = k => streams[s] = 0
        => storage[k].bytesWritten \subseteq Content(k)

(* Of the upload of k nothing is left that a reason in the code would      *)
(* explain: it was not counted as written, and no deleteFile took it.      *)
EndsUnfinished(k) ==
    /\ ExistsFile(k) /\ ~ExistsFile(k)' /\ up'
    /\ ~IsCompleted(storage[k])
    /\ ~\E r \in Requests : /\ request'[r] # request[r]
                            /\ request'[r] # None
                            /\ request'[r].key = k
                            /\ request'[r].pc = "delAccess"

(* While the process lives, the record of an undisturbed upload goes away  *)
(* because all of it was counted as written, or a deleteFile took it, or a *)
(* closeFile named its key: never through the end of another upload of the *)
(* same path.                                                              *)
UploadEndsForAReason ==
    [][\A k \in Keys : EndsUnfinished(k) /\ history[k].undisturbed =>
          \E tested \in Keys \cup {None} : CloseFile(tested, k)]_vars

(* An upload whose announced number of bytes has been received does not    *)
(* stay in the table for ever: it is finished, or deleted, or replaced, or *)
(* goes down with the process; unless the thread is caught in a drain      *)
(* whose queue holds nothing but blobs at a negative position.             *)
FullyReceivedUploadEnds ==
    \A k \in Keys :
        LET FullyReceived == /\ ExistsFile(k)
                             /\ storage[k].received > 0
                             /\ storage[k].received >= storage[k].size
            Caught == \E d \in Drains :
                         /\ drain[d] # None
                         /\ ~Writable(drain[d].blob)
                         /\ LET queue == storage[drain[d].key].blobs
                            IN  \A i \in DOMAIN queue : ~Writable(queue[i])
        IN  FullyReceived ~> ~FullyReceived \/ Caught

(* What comments of the source say.                                        *)

(* 'Veririfcar si esta completo': a completed upload has all its bytes.    *)
CompletedMeansWhole ==
    \A k \in Keys : ExistsFile(k) /\ history[k].undisturbed /\ storage[k].completed =>
        0 .. storage[k].size - 1 \subseteq storage[k].bytesWritten

(* 'Archivo ya inicializado': no initialize replaces an upload that is in  *)
(* the table.                                                              *)
NoUploadReplaced ==
    [][\A k \in Keys : ExistsFile(k) /\ ExistsFile(k)' =>
          storage'[k].received >= storage[k].received]_vars
=============================================================================
