----------------------------- MODULE UploadProofs -----------------------------
(***************************************************************************)
(* Theorems about Upload, for all keys, blobs, settings and bounds.        *)
(***************************************************************************)
EXTENDS Upload, Sums, SequenceTheorems, TLAPS

-----------------------------------------------------------------------------
(* What the operations on one record return.                               *)

(* A new record is a record.                                               *)
LEMMA NewFileType ==
    ASSUME NEW size \in Int
    PROVE  /\ NewFile(size) \in File
           /\ ~NewFile(size).writting
BY DEF NewFile, File

(* Queueing a blob keeps the record's type, its flag and what is written.  *)
LEMMA AllocateBlobType ==
    ASSUME NEW file \in File, NEW b \in Blobs
    PROVE  /\ AllocateBlob(file, b) \in File
           /\ AllocateBlob(file, b).writting = file.writting
           /\ AllocateBlob(file, b).saved = file.saved
           /\ AllocateBlob(file, b).size = file.size
<1>1. b.len \in Nat
  BY StorageAssumption DEF Blob
<1>2. Append(file.blobs, b) \in Seq(Blobs)
  BY DEF File
<1>3. file.received + b.len \in Nat
  BY <1>1 DEF File
<1> QED
  BY <1>2, <1>3 DEF AllocateBlob, File

(* Going round the queue changes the order of the blobs and the count of   *)
(* the bytes received, and does not empty the queue.                       *)
LEMMA TurnedType ==
    ASSUME NEW file \in File
    PROVE  /\ Turned(file) \in File
           /\ \E n \in 0 .. Len(file.blobs) :
                 /\ Turned(file).blobs = SubSeq(file.blobs, n + 1, Len(file.blobs))
                                            \o SubSeq(file.blobs, 1, n)
                 /\ (\A i \in DOMAIN file.blobs : Writable(file.blobs[i])) => n = 0
           /\ Turned(file).saved = file.saved
           /\ Turned(file).size = file.size
           /\ Turned(file).writting = file.writting
           /\ Turned(file).completed = file.completed
           /\ Turned(file).bytesWritten = file.bytesWritten
           /\ (Turned(file).blobs = << >>) <=> (file.blobs = << >>)
<1> DEFINE q == file.blobs
           Bad == {i \in DOMAIN q : \A j \in 1 .. i : ~Writable(q[j])}
           n == Cardinality(Bad)
           lengths == [i \in DOMAIN q |-> q[i].len]
           sum == SumOver(lengths, 1 .. n)
<1>1. q \in Seq(Blobs) /\ Len(q) \in Nat /\ DOMAIN q = 1 .. Len(q)
  BY DEF File
<1>2. n \in 0 .. Len(q)
  <2>1. IsFiniteSet(1 .. Len(q)) /\ Cardinality(1 .. Len(q)) = Len(q)
    BY <1>1, FS_Interval
  <2>2. Bad \subseteq 1 .. Len(q)
    BY <1>1
  <2>3. Cardinality(Bad) <= Len(q) /\ IsFiniteSet(Bad)
    BY <2>1, <2>2, FS_Subset
  <2> QED
    BY <1>1, <2>3, FS_CardinalityType
<1>3. sum \in Nat
  <2>1. IsFiniteSet(1 .. n)
    BY <1>2, FS_Interval
  <2>2. \A i \in 1 .. n : i \in DOMAIN q /\ q[i] \in Blobs
    BY <1>1, <1>2
  <2>3. \A i \in 1 .. n : lengths[i] \in Nat
    BY <2>2, StorageAssumption DEF Blob
  <2> QED
    BY <2>1, <2>3, SumType
<1>4. PICK t : t = SubSeq(q, n + 1, Len(q)) \o SubSeq(q, 1, n)
  OBVIOUS
<1>5. /\ t \in Seq(Blobs)
      /\ Len(t) = Len(q)
  <2> HIDE DEF n
  <2>1. SubSeq(q, n + 1, Len(q)) \in Seq(Blobs) /\ SubSeq(q, 1, n) \in Seq(Blobs)
    BY <1>1, <1>2
  <2>2. Len(SubSeq(q, n + 1, Len(q))) = Len(q) - n /\ Len(SubSeq(q, 1, n)) = n
    BY <1>1, <1>2
  <2> QED
    BY <1>1, <1>2, <1>4, <2>1, <2>2
<1>6. (\A i \in DOMAIN q : Writable(q[i])) => n = 0
  <2> SUFFICES ASSUME \A i \in DOMAIN q : Writable(q[i]) PROVE n = 0
    OBVIOUS
  <2>1. Bad = {}
    <3> SUFFICES ASSUME NEW i \in Bad PROVE FALSE
      OBVIOUS
    <3>1. i \in 1 .. Len(q) /\ i \in 1 .. i
      BY <1>1
    <3> QED
      BY <1>1, <3>1
  <2> QED
    BY <2>1, FS_EmptySet
<1>7. Turned(file) = [file EXCEPT !.blobs = t, !.received = @ + sum]
  BY <1>4 DEF Turned, SumOver
<1>8. file.received + sum \in Nat
  <2> HIDE DEF sum
  <2> QED
    BY <1>3 DEF File
<1>9. /\ Turned(file) \in File
      /\ Turned(file).blobs = t
      /\ Turned(file).saved = file.saved
      /\ Turned(file).size = file.size
      /\ Turned(file).writting = file.writting
      /\ Turned(file).completed = file.completed
      /\ Turned(file).bytesWritten = file.bytesWritten
  <2> HIDE DEF sum
  <2> QED
    BY <1>5, <1>7, <1>8 DEF File
<1> HIDE DEF n, sum
<1>10. (t = << >>) <=> (q = << >>)
  BY <1>1, <1>5
<1> QED
  BY <1>2, <1>4, <1>6, <1>9, <1>10

(* Nothing changes if a stream takes every blob of the queue.              *)
LEMMA TurnedWritable ==
    ASSUME NEW file \in File, \A i \in DOMAIN file.blobs : Writable(file.blobs[i])
    PROVE  Turned(file).blobs = file.blobs
<1>1. PICK n \in 0 .. Len(file.blobs) :
            /\ Turned(file).blobs = SubSeq(file.blobs, n + 1, Len(file.blobs))
                                       \o SubSeq(file.blobs, 1, n)
            /\ (\A i \in DOMAIN file.blobs : Writable(file.blobs[i])) => n = 0
  BY TurnedType
<1>2. PICK q \in Seq(Blobs) : q = file.blobs
  BY DEF File
<1>3. Turned(file).blobs = SubSeq(q, 1, Len(q)) \o SubSeq(q, 1, 0)
  <2>1. n = 0
    BY <1>1
  <2>2. n + 1 = 1
    BY <2>1
  <2>3. Turned(file).blobs = SubSeq(q, n + 1, Len(q)) \o SubSeq(q, 1, n)
    BY <1>1, <1>2
  <2> QED
    BY <2>1, <2>2, <2>3, Zenon
<1>4. SubSeq(q, 1, 0) = << >>
  BY SubSeqEmpty
<1>5. SubSeq(q, 1, Len(q)) = q
  OBVIOUS
<1>6. q \o << >> = q
  BY ConcatEmptySeq
<1> QED
  BY <1>2, <1>3, <1>4, <1>5, <1>6

(* Taking the first blob a stream takes leaves a record that is being      *)
(* written.                                                                *)
LEMMA DeallocateBlobType ==
    ASSUME NEW file \in File, file.blobs # << >>
    PROVE  /\ DeallocateBlob(Turned(file)) \in File
           /\ DeallocateBlob(Turned(file)).writting
           /\ DeallocateBlob(Turned(file)).saved = file.saved
           /\ DeallocateBlob(Turned(file)).size = file.size
           /\ Head(Turned(file).blobs) \in Blobs
<1>1. PICK turned \in File : /\ turned = Turned(file)
                             /\ turned.blobs # << >>
                             /\ turned.saved = file.saved
                             /\ turned.size = file.size
  BY TurnedType
<1>2. turned.blobs \in Seq(Blobs)
  BY DEF File
<1>3. Tail(turned.blobs) \in Seq(Blobs) /\ Head(turned.blobs) \in Blobs
  BY <1>1, <1>2, HeadTailProperties
<1> QED
  BY <1>1, <1>3 DEF DeallocateBlob, File

(* Counting a blob as written leaves a record that nobody writes.          *)
LEMMA UpdateBytesWritenType ==
    ASSUME NEW file \in File, NEW b \in Blobs
    PROVE  /\ UpdateBytesWriten(file, b) \in File
           /\ ~UpdateBytesWriten(file, b).writting
           /\ UpdateBytesWriten(file, b).saved = file.saved + b.len
           /\ UpdateBytesWriten(file, b).size = file.size
           /\ UpdateBytesWriten(file, b).completed = IsCompleted(UpdateBytesWriten(file, b))
<1>1. b.len \in Nat /\ b.pos \in Int
  BY StorageAssumption DEF Blob
<1>2. Bytes(b) \subseteq Int
  BY <1>1 DEF Bytes
<1>3. /\ file.saved \in Nat /\ file.size \in Int
      /\ file.bytesWritten \subseteq Int
  BY DEF File
<1>4. /\ file.saved + b.len \in Nat
      /\ file.bytesWritten \cup Bytes(b) \in SUBSET Int
      /\ (file.saved + b.len >= file.size) \in BOOLEAN
  BY <1>1, <1>2, <1>3
<1> QED
  BY <1>4 DEF UpdateBytesWriten, IsCompleted, File

(* A writer that begins is a drain at work on the key it was given.        *)
LEMMA WriteBlobType ==
    ASSUME NEW k \in Keys, NEW b \in Blobs
    PROVE  /\ WriteBlob(k, b) \in Drain
           /\ WriteBlob(k, b).key = k
           /\ WriteBlob(k, b).blob = b
           /\ WriteBlob(k, b).pc # "completing"
<1>1. Awaits(b) \in {"writing", "nextTick", "spinning"}
  <2>1. b.len \in Nat
    BY StorageAssumption DEF Blob
  <2> QED
    BY <2>1, UploadAssumption DEF Awaits
<1> QED
  BY <1>1 DEF WriteBlob, Drain

-----------------------------------------------------------------------------
(* Type correctness.                                                       *)

(* The streams stay counters, whichever writers begin.                     *)
LEMMA OpenStreamsType ==
    ASSUME TypeOK, NEW ws, OpenStreams(ws)
    PROVE  streams' \in [Stream -> Nat]
<1>1. \A s \in Stream, n \in {0, 1} : streams[s] + n \in Nat
  BY DEF TypeOK
<1> QED
  BY <1>1 DEF OpenStreams

(* Landing keeps the disk a disk.                                          *)
LEMMA LandsType ==
    ASSUME TypeOK, NEW s, s.key \in Keys, s.blob \in Blobs, Lands(s)
    PROVE  disk' \in [Keys -> (SUBSET Int) \cup {None}]
<1>1. s.blob.len \in Nat /\ s.blob.pos \in Int
  BY StorageAssumption DEF Blob
<1>2. Bytes(s.blob) \subseteq Int
  BY <1>1 DEF Bytes
<1>3. Content(s.key) \subseteq Int
  BY DEF Content, TypeOK
<1>4. PICK kept \in SUBSET Content(s.key) :
            disk' = [disk EXCEPT ![s.key] = kept \cup Bytes(s.blob)]
  BY DEF Lands
<1>5. kept \cup Bytes(s.blob) \in SUBSET Int
  BY <1>2, <1>3
<1> QED
  BY <1>4, <1>5 DEF TypeOK

(* The process dies into a state of the right type.                        *)
LEMMA DieType == TypeOK /\ Die => TypeOK'
<1> SUFFICES ASSUME TypeOK, Die PROVE TypeOK'
  OBVIOUS
<1>1. NewHistory \in History
  BY DEF NewHistory, History
<1>2. history' \in [Keys -> History]
  BY <1>1 DEF Die
<1>3. StorageTypeOK'
  BY DEF Die, StorageTypeOK
<1>4. /\ drain' \in [Drains -> Drain \cup {None}]
      /\ request' \in [Requests -> Request \cup {None}]
      /\ streams' \in [Stream -> Nat]
  BY DEF Die
<1>5. disk' \in [Keys -> (SUBSET Int) \cup {None}] /\ up' \in BOOLEAN
  BY DEF Die, TypeOK
<1> QED
  BY <1>2, <1>3, <1>4, <1>5 DEF TypeOK

(* One turn of the loop keeps the types of what it changes.                *)
LEMMA LoopType ==
    ASSUME TypeOK, NEW d \in Drains, NEW k \in Keys, NEW file \in File,
           Loop(d, k, file)
    PROVE  /\ storage' \in [Keys -> File \cup {None}]
           /\ drain' \in [Drains -> Drain \cup {None}]
           /\ streams' \in [Stream -> Nat]
<1>1. CASE file.blobs = << >>
  BY <1>1 DEF Loop, TypeOK, StorageTypeOK
<1>2. CASE file.blobs # << >>
  <2>1. /\ DeallocateBlob(Turned(file)) \in File
        /\ WriteBlob(k, Head(Turned(file).blobs)) \in Drain
    BY <1>2, DeallocateBlobType, WriteBlobType
  <2>2. OpenStreams({WriteBlob(k, Head(Turned(file).blobs))})
    BY <1>2 DEF Loop
  <2>3. streams' \in [Stream -> Nat]
    BY <2>2, OpenStreamsType
  <2> QED
    BY <1>2, <2>1, <2>3 DEF Loop, TypeOK, StorageTypeOK
<1> QED
  BY <1>1, <1>2

(* Marking uploads as disturbed keeps their history a history.             *)
LEMMA DisturbType ==
    ASSUME TypeOK, NEW ks, Disturb(ks)
    PROVE  history' \in [Keys -> History]
BY DEF Disturb, TypeOK, History

(* What closeFile does to each upload: it removes the one of the path, or  *)
(* notes whether the one asked about is completed, or leaves it alone.     *)
LEMMA CloseFileEffect ==
    ASSUME TypeOK, NEW tested, NEW path, CloseFile(tested, path), NEW k \in Keys
    PROVE  /\ UNCHANGED <<drain, request, streams, disk, up>>
           /\ \/ /\ k = path
                 /\ storage'[k] = None
                 /\ filesDirectories'[k] = 0
                 /\ history'[k] = NewHistory
              \/ /\ filesDirectories'[k] = filesDirectories[k]
                 /\ history'[k] = history[k]
                 /\ \/ storage'[k] = storage[k]
                    \/ /\ ExistsFile(k)
                       /\ storage'[k] \in File
                       /\ storage'[k] = [storage[k] EXCEPT !.completed = IsCompleted(storage[k])]
<1> DEFINE asked == {j \in {tested} \ {None} : ExistsFile(j)}
           closed == {j \in {path} \ {None} : \A t \in asked : IsCompleted(storage[t])}
<1>1. /\ UNCHANGED <<drain, request, streams, disk, up>>
      /\ storage'[k] = CASE k \in closed -> None
                         [] k \in asked -> [storage[k] EXCEPT !.completed = IsCompleted(storage[k])]
                         [] OTHER -> storage[k]
      /\ filesDirectories'[k] = IF k \in closed THEN 0 ELSE filesDirectories[k]
      /\ history'[k] = IF k \in closed THEN NewHistory ELSE history[k]
      /\ tested # path
  BY DEF CloseFile
<1>2. closed \subseteq {path} /\ asked \cap closed = {}
  BY <1>1
<1>3. CASE k \in closed
  BY <1>1, <1>2, <1>3
<1>4. CASE k \in asked
  <2>1. ExistsFile(k) /\ storage[k] \in File
    BY <1>4 DEF ExistsFile, TypeOK, StorageTypeOK
  <2>2. IsCompleted(storage[k]) \in BOOLEAN
    BY <2>1 DEF IsCompleted, File
  <2>3. [storage[k] EXCEPT !.completed = IsCompleted(storage[k])] \in File
    BY <2>1, <2>2 DEF File
  <2> HIDE DEF asked, closed
  <2> QED
    BY <1>1, <1>2, <1>4, <2>1, <2>3
<1>5. CASE k \notin asked /\ k \notin closed
  BY <1>1, <1>5
<1> QED
  BY <1>1, <1>3, <1>4, <1>5

(* What a request at work carries.                                         *)
LEMMA RequestData ==
    ASSUME TypeOK, NEW r \in Requests, request[r] # None
    PROVE  /\ request[r] \in Request
           /\ request[r].key \in Keys
           /\ request[r].size \in Int
<1>1. request[r] \in Request
  BY DEF TypeOK
<1>2. request[r].key \in Keys /\ request[r].size \in Sizes \cup {0}
  BY <1>1 DEF Request
<1>3. \A size \in Sizes \cup {0} : size \in Int
  BY StorageAssumption
<1> QED
  BY <1>1, <1>2, <1>3

(* Creating a record keeps the types of what it changes.                   *)
LEMMA CreateType ==
    ASSUME TypeOK, NEW r \in Requests, request[r] # None, Create(r)
    PROVE  /\ StorageTypeOK'
           /\ request' \in [Requests -> Request \cup {None}]
           /\ history' \in [Keys -> History]
<1>1. request[r] \in Request
  BY RequestData
<1>2. request[r].key \in Keys /\ request[r].size \in Int
  BY RequestData
<1>3. StorageTypeOK'
  <2>1. NewFile(request[r].size) \in File
    BY <1>2, NewFileType
  <2>2. filesDirectories[request[r].key] + 1 \in Nat
    BY <1>2 DEF TypeOK, StorageTypeOK
  <2> QED
    BY <1>2, <2>1, <2>2 DEF Create, CreateFileTemp, TypeOK, StorageTypeOK
<1>4. request' \in [Requests -> Request \cup {None}]
  <2>1. [request[r] EXCEPT !.pc = "reserve"] \in Request
    BY <1>1 DEF Request
  <2> QED
    BY <2>1 DEF Create, TypeOK
<1>5. history' \in [Keys -> History]
  <2>1. \A u \in BOOLEAN : [NewHistory EXCEPT !.undisturbed = u] \in History
    BY DEF NewHistory, History
  <2> QED
    BY <2>1 DEF Create, TypeOK
<1> QED
  BY <1>3, <1>4, <1>5

(* A run of the interval keeps the types.                                  *)
LEMMA WriteBlobsType == TypeOK /\ WriteBlobs => TypeOK'
<1> SUFFICES ASSUME TypeOK, WriteBlobs PROVE TypeOK'
  OBVIOUS
<1>1. PICK D \in SUBSET {d \in Drains : drain[d] = None} :
      \E job \in Injection(D, Startable) :
         LET S == {job[d] : d \in D}
             Writer(k) == WriteBlob(k, First(k))
         IN  /\ storage' = [k \in Keys |-> IF k \in S THEN DeallocateBlob(Turned(storage[k]))
                                                      ELSE storage[k]]
             /\ drain' = [d \in Drains |-> IF d \in D THEN Writer(job[d]) ELSE drain[d]]
             /\ OpenStreams({Writer(k) : k \in S})
  BY DEF WriteBlobs
<1>2. PICK job \in Injection(D, Startable) :
         LET S == {job[d] : d \in D}
             Writer(k) == WriteBlob(k, First(k))
         IN  /\ storage' = [k \in Keys |-> IF k \in S THEN DeallocateBlob(Turned(storage[k]))
                                                      ELSE storage[k]]
             /\ drain' = [d \in Drains |-> IF d \in D THEN Writer(job[d]) ELSE drain[d]]
             /\ OpenStreams({Writer(k) : k \in S})
  BY <1>1
<1>3. \A k \in Startable : /\ k \in Keys
                           /\ storage[k] \in File
                           /\ storage[k].blobs # << >>
  BY DEF Startable, ExistsFile, TypeOK, StorageTypeOK
<1>4. \A d \in D : job[d] \in Startable
  BY DEF Injection
<1>5. \A k \in Startable : /\ DeallocateBlob(Turned(storage[k])) \in File
                           /\ WriteBlob(k, First(k)) \in Drain
  BY <1>3, DeallocateBlobType, WriteBlobType DEF First
<1>6. storage' \in [Keys -> File \cup {None}]
  BY <1>2, <1>4, <1>5 DEF TypeOK, StorageTypeOK
<1>7. drain' \in [Drains -> Drain \cup {None}]
  BY <1>2, <1>4, <1>5 DEF TypeOK
<1>8. streams' \in [Stream -> Nat]
  BY <1>2, OpenStreamsType
<1>9. UNCHANGED <<filesDirectories, request, disk, up, history>>
  BY DEF WriteBlobs
<1> QED
  BY <1>6, <1>7, <1>8, <1>9 DEF TypeOK, StorageTypeOK

(* A step of a drain keeps the types.                                      *)
LEMMA DrainType ==
    ASSUME TypeOK, NEW d \in Drains, DrainStep(d)
    PROVE  TypeOK'
<1>1. /\ drain[d] \in Drain
      /\ drain[d].key \in Keys
      /\ drain[d].blob \in Blobs
  <2>1. drain[d] # None
    BY DEF DrainStep, BlobLands, BlobWritten, UploadFinished, LookupFails
  <2> QED
    BY <2>1 DEF TypeOK, Drain
<1> DEFINE k == drain[d].key
           b == drain[d].blob
<1>2. \A pc \in {"flushed", "completing"} : [drain[d] EXCEPT !.pc = pc] \in Drain
  BY <1>1 DEF Drain
<1>3. ExistsFile(k) => storage[k] \in File
  BY <1>1 DEF ExistsFile, TypeOK, StorageTypeOK
<1>4. CASE BlobLands(d)
  <2>1. CASE Die
    BY <2>1, DieType
  <2>2. CASE ~Die
    <3>1. /\ Lands(drain[d])
          /\ drain' = [drain EXCEPT ![d].pc = "flushed"]
          /\ UNCHANGED <<storageVars, request, streams, up, history>>
      BY <1>4, <2>2 DEF BlobLands
    <3>2. disk' \in [Keys -> (SUBSET Int) \cup {None}]
      BY <1>1, <3>1, LandsType
    <3>3. drain' \in [Drains -> Drain \cup {None}]
      BY <1>2, <3>1 DEF TypeOK
    <3> QED
      BY <3>1, <3>2, <3>3 DEF TypeOK, StorageTypeOK, storageVars
  <2> QED
    BY <2>1, <2>2
<1>5. CASE BlobWritten(d)
  <2>1. CASE Die
    BY <2>1, DieType
  <2>2. CASE ~Die
    <3> DEFINE file == UpdateBytesWriten(storage[k], b)
    <3>1. /\ ExistsFile(k)
          /\ IF file.completed
             THEN /\ storage' = [storage EXCEPT ![k] = file]
                  /\ drain' = [drain EXCEPT ![d].pc = "completing"]
                  /\ UNCHANGED streams
             ELSE Loop(d, k, file)
          /\ UNCHANGED <<filesDirectories, request, disk, up, history>>
      BY <1>5, <2>2 DEF BlobWritten
    <3>2. file \in File
      BY <1>1, <1>3, <3>1, UpdateBytesWritenType
    <3>3. CASE file.completed
      <4>1. storage' \in [Keys -> File \cup {None}]
        BY <3>1, <3>2, <3>3 DEF TypeOK, StorageTypeOK
      <4>2. drain' \in [Drains -> Drain \cup {None}]
        BY <1>2, <3>1, <3>3 DEF TypeOK
      <4> QED
        BY <3>1, <3>3, <4>1, <4>2 DEF TypeOK, StorageTypeOK
    <3>4. CASE ~file.completed
      <4>1. Loop(d, k, file)
        BY <3>1, <3>4
      <4>2. /\ storage' \in [Keys -> File \cup {None}]
            /\ drain' \in [Drains -> Drain \cup {None}]
            /\ streams' \in [Stream -> Nat]
        BY <1>1, <3>2, <4>1, LoopType
      <4> QED
        BY <3>1, <4>2 DEF TypeOK, StorageTypeOK
    <3> QED
      BY <3>3, <3>4
  <2> QED
    BY <2>1, <2>2
<1>6. CASE UploadFinished(d)
  <2>1. NewHistory \in History
    BY DEF NewHistory, History
  <2>2. /\ StorageTypeOK'
        /\ drain' \in [Drains -> Drain \cup {None}]
        /\ history' \in [Keys -> History]
    BY <1>1, <1>6, <2>1 DEF UploadFinished, DelFile, TypeOK, StorageTypeOK
  <2> QED
    BY <1>6, <2>2 DEF UploadFinished, TypeOK
<1>7. CASE LookupFails(d)
  <2>1. CASE Die
    BY <2>1, DieType
  <2>2. CASE ~Die
    <3>1. /\ ExistsFile(k)
          /\ Loop(d, k, AllocateBlob(storage[k], b))
          /\ Disturb({k})
          /\ UNCHANGED <<filesDirectories, request, disk, up>>
      BY <1>7, <2>2 DEF LookupFails
    <3>2. AllocateBlob(storage[k], b) \in File
      BY <1>1, <1>3, <3>1, AllocateBlobType
    <3>3. /\ storage' \in [Keys -> File \cup {None}]
          /\ drain' \in [Drains -> Drain \cup {None}]
          /\ streams' \in [Stream -> Nat]
      BY <1>1, <3>1, <3>2, LoopType
    <3>4. history' \in [Keys -> History]
      BY <3>1, DisturbType
    <3> QED
      BY <3>1, <3>3, <3>4 DEF TypeOK, StorageTypeOK
  <2> QED
    BY <2>1, <2>2
<1> QED
  BY <1>4, <1>5, <1>6, <1>7 DEF DrainStep

(* A background stream keeps the types.                                    *)
LEMMA StreamLandsType ==
    ASSUME TypeOK, NEW s \in Stream, StreamLands(s)
    PROVE  TypeOK'
<1>1. CASE Die
  BY <1>1, DieType
<1>2. CASE ~Die
  <2>1. /\ Lands(s)
        /\ streams[s] > 0
        /\ streams' = [streams EXCEPT ![s] = @ - 1]
        /\ UNCHANGED <<storageVars, drain, request, up, history>>
    BY <1>2 DEF StreamLands
  <2>2. s.key \in Keys /\ s.blob \in Blobs
    BY DEF Stream
  <2>3. disk' \in [Keys -> (SUBSET Int) \cup {None}]
    BY <2>1, <2>2, LandsType
  <2>4. streams[s] - 1 \in Nat
    BY <2>1 DEF TypeOK
  <2>5. streams' \in [Stream -> Nat]
    BY <2>1, <2>4 DEF TypeOK
  <2> QED
    BY <2>1, <2>3, <2>5 DEF TypeOK, StorageTypeOK, storageVars
<1> QED
  BY <1>1, <1>2

(* The first part of deleteFile keeps the types of what it changes.        *)
LEMMA BeginDeleteType ==
    ASSUME TypeOK, NEW k \in Keys, BeginDelete(k)
    PROVE  StorageTypeOK' /\ history' \in [Keys -> History]
<1>1. NewHistory \in History
  BY DEF NewHistory, History
<1> QED
  BY <1>1 DEF BeginDelete, DelFile, TypeOK, StorageTypeOK, storageVars

(* A step of a handler keeps the types.                                    *)
LEMMA RequestType ==
    ASSUME TypeOK, NEW r \in Requests, RequestStep(r)
    PROVE  TypeOK'
<1>1. request[r] # None => /\ request[r] \in Request
                           /\ request[r].key \in Keys
  BY DEF TypeOK, Request
<1>2. request[r] # None =>
        \A pc \in {"exists", "missing", "delAccess", "rm", "removed"} :
           [request[r] EXCEPT !.pc = pc] \in Request
  BY <1>1 DEF Request
<1>3. CASE \E k \in Keys, size \in Sizes, overwrite \in BOOLEAN :
              InitializeFile(r, k, size, overwrite)
  <2>1. PICK k \in Keys, size \in Sizes, overwrite \in BOOLEAN :
                InitializeFile(r, k, size, overwrite)
    BY <1>3
  <2>2. [pc |-> "access", key |-> k, size |-> size, overwrite |-> overwrite] \in Request
    BY DEF Request
  <2> QED
    BY <2>1, <2>2 DEF InitializeFile, TypeOK, StorageTypeOK, storageVars
<1>4. CASE \E k \in Keys : DeleteFile(r, k)
  <2>1. PICK k \in Keys : DeleteFile(r, k)
    BY <1>4
  <2>2. [pc |-> "delAccess", key |-> k, size |-> 0, overwrite |-> FALSE] \in Request
    BY DEF Request
  <2>3. StorageTypeOK' /\ history' \in [Keys -> History]
    BY <2>1, BeginDeleteType DEF DeleteFile
  <2> QED
    BY <2>1, <2>2, <2>3 DEF DeleteFile, TypeOK
<1>5. CASE Access(r)
  BY <1>1, <1>2, <1>5 DEF Access, TypeOK, StorageTypeOK, storageVars
<1>6. CASE InitializeGoesOn(r)
  <2>1. request[r] # None
    BY <1>6 DEF InitializeGoesOn
  <2>2. UNCHANGED <<drain, streams, disk, up>>
    BY <1>6 DEF InitializeGoesOn
  <2>3. CASE Create(r)
    BY <2>1, <2>2, <2>3, CreateType DEF TypeOK
  <2>4. CASE request' = [request EXCEPT ![r] = None] /\ UNCHANGED <<storageVars, history>>
    BY <2>2, <2>4 DEF TypeOK, StorageTypeOK, storageVars
  <2>5. CASE /\ BeginDelete(request[r].key)
             /\ request' = [request EXCEPT ![r].pc = "delAccess"]
    <3>1. StorageTypeOK' /\ history' \in [Keys -> History]
      BY <1>1, <2>1, <2>5, BeginDeleteType
    <3>2. request' \in [Requests -> Request \cup {None}]
      BY <1>2, <2>1, <2>5 DEF TypeOK
    <3> QED
      BY <2>2, <3>1, <3>2 DEF TypeOK
  <2> QED
    BY <1>6, <2>3, <2>4, <2>5 DEF InitializeGoesOn
<1>7. CASE DeleteAccess(r)
  BY <1>1, <1>2, <1>7 DEF DeleteAccess, TypeOK, StorageTypeOK, storageVars
<1>8. CASE Rm(r)
  <2>1. history' \in [Keys -> History]
    BY <1>8, DisturbType DEF Rm
  <2>2. disk' \in [Keys -> (SUBSET Int) \cup {None}]
    BY <1>8 DEF Rm, TypeOK
  <2>3. request' \in [Requests -> Request \cup {None}]
    BY <1>1, <1>2, <1>8 DEF Rm, TypeOK
  <2> QED
    BY <1>8, <2>1, <2>2, <2>3 DEF Rm, TypeOK, StorageTypeOK, storageVars
<1>9. CASE DeleteGoesOn(r)
  BY <1>9, CreateType DEF DeleteGoesOn, TypeOK
<1>10. CASE Reserve(r)
  <2>1. history' \in [Keys -> History]
    BY <1>10, DisturbType DEF Reserve
  <2>2. disk' \in [Keys -> (SUBSET Int) \cup {None}]
    BY <1>10 DEF Reserve, TypeOK
  <2>3. request' \in [Requests -> Request \cup {None}]
    BY <1>10 DEF Reserve, TypeOK
  <2> QED
    BY <1>10, <2>1, <2>2, <2>3 DEF Reserve, TypeOK, StorageTypeOK, storageVars
<1> QED
  BY <1>3, <1>4, <1>5, <1>6, <1>7, <1>8, <1>9, <1>10 DEF RequestStep

(* The other handlers keep the types.                                      *)
LEMMA HandlerType ==
    ASSUME TypeOK,
           \/ \E k \in Keys, b \in Blobs : ReciveBlob(k, b)
           \/ \E tested, path \in Keys \cup {None} : CloseFile(tested, path)
           \/ \E k1, k2 \in Keys : RenameFile(k1, k2)
    PROVE  TypeOK'
<1>1. CASE \E k \in Keys, b \in Blobs : ReciveBlob(k, b)
  <2>1. PICK k \in Keys, b \in Blobs : ReciveBlob(k, b)
    BY <1>1
  <2>2. storage[k] \in File
    BY <2>1 DEF ReciveBlob, ExistsFile, TypeOK, StorageTypeOK
  <2>3. AllocateBlob(storage[k], b) \in File
    BY <2>2, AllocateBlobType
  <2>4. storage' \in [Keys -> File \cup {None}]
    BY <2>1, <2>3 DEF ReciveBlob, TypeOK, StorageTypeOK
  <2>5. b.len \in Nat /\ b.pos \in Int
    BY StorageAssumption DEF Blob
  <2>6. Bytes(b) \subseteq Int
    BY <2>5 DEF Bytes
  <2>7. history[k] \in History /\ history[k].accepted \cup Bytes(b) \in SUBSET Int
    BY <2>6 DEF TypeOK, History
  <2>8. \A a \in SUBSET Int, t \in BOOLEAN :
           [history[k] EXCEPT !.accepted = a, !.tidy = t] \in History
    BY <2>7 DEF History
  <2>9. PICK t \in BOOLEAN :
           history' = [history EXCEPT ![k] =
              [history[k] EXCEPT !.accepted = history[k].accepted \cup Bytes(b), !.tidy = t]]
    BY <2>1, <2>7 DEF ReciveBlob, TypeOK, History
  <2>10. history' \in [Keys -> History]
    BY <2>7, <2>8, <2>9 DEF TypeOK
  <2> QED
    BY <2>1, <2>4, <2>10 DEF ReciveBlob, TypeOK, StorageTypeOK
<1>2. CASE \E tested, path \in Keys \cup {None} : CloseFile(tested, path)
  <2>1. PICK tested, path \in Keys \cup {None} : CloseFile(tested, path)
    BY <1>2
  <2>2. NewHistory \in History
    BY DEF NewHistory, History
  <2>3. \A k \in Keys : /\ storage'[k] \in File \cup {None}
                       /\ filesDirectories'[k] \in Nat
                       /\ history'[k] \in History
    <3> SUFFICES ASSUME NEW k \in Keys
                 PROVE  /\ storage'[k] \in File \cup {None}
                        /\ filesDirectories'[k] \in Nat
                        /\ history'[k] \in History
      OBVIOUS
    <3>1. /\ storage[k] \in File \cup {None}
          /\ filesDirectories[k] \in Nat
          /\ history[k] \in History
      BY DEF TypeOK, StorageTypeOK
    <3>2. \/ storage'[k] \in File \cup {None} /\ filesDirectories'[k] = 0
             /\ history'[k] = NewHistory
          \/ storage'[k] \in File \cup {None} /\ filesDirectories'[k] = filesDirectories[k]
             /\ history'[k] = history[k]
      BY <2>1, <3>1, CloseFileEffect
    <3> QED
      BY <2>2, <3>1, <3>2
  <2>4. StorageTypeOK' /\ history' \in [Keys -> History]
    BY <2>1, <2>3 DEF CloseFile, StorageTypeOK
  <2> QED
    BY <2>1, <2>4 DEF CloseFile, TypeOK
<1>3. CASE \E k1, k2 \in Keys : RenameFile(k1, k2)
  <2>1. PICK k1 \in Keys, k2 \in Keys : RenameFile(k1, k2)
    BY <1>3
  <2>2. history' \in [Keys -> History]
    BY <2>1, DisturbType DEF RenameFile
  <2>3. disk' \in [Keys -> (SUBSET Int) \cup {None}]
    BY <2>1 DEF RenameFile, TypeOK
  <2> QED
    BY <2>1, <2>2, <2>3 DEF RenameFile, TypeOK, StorageTypeOK, storageVars
<1> QED
  BY <1>1, <1>2, <1>3

(* The initial state has the right type.                                   *)
LEMMA InitType == Init => TypeOK
<1> SUFFICES ASSUME Init PROVE TypeOK
  OBVIOUS
<1>1. NewHistory \in History
  BY DEF NewHistory, History
<1>2. disk \in [Keys -> (SUBSET Int) \cup {None}]
  BY DEF Init
<1>3. StorageTypeOK
  BY DEF Init, StorageInit, StorageTypeOK
<1>4. /\ drain \in [Drains -> Drain \cup {None}]
      /\ request \in [Requests -> Request \cup {None}]
      /\ streams \in [Stream -> Nat]
      /\ history \in [Keys -> History]
      /\ up \in BOOLEAN
  BY <1>1 DEF Init
<1> QED
  BY <1>2, <1>3, <1>4 DEF TypeOK

(* Every step keeps the types.                                             *)
LEMMA NextType == TypeOK /\ [Next]_vars => TypeOK'
<1> SUFFICES ASSUME TypeOK, [Next]_vars PROVE TypeOK'
  OBVIOUS
<1>1. CASE Kill \/ Restart
  BY <1>1, DieType DEF Kill, Restart, TypeOK, StorageTypeOK, storageVars
<1>2. CASE WriteBlobs
  BY <1>2, WriteBlobsType
<1>3. CASE \E d \in Drains : DrainStep(d)
  BY <1>3, DrainType
<1>4. CASE \E s \in Stream : StreamLands(s)
  BY <1>4, StreamLandsType
<1>5. CASE \E r \in Requests : RequestStep(r)
  BY <1>5, RequestType
<1>6. CASE \/ \E k \in Keys, b \in Blobs : ReciveBlob(k, b)
           \/ \E tested, path \in Keys \cup {None} : CloseFile(tested, path)
           \/ \E k1, k2 \in Keys : RenameFile(k1, k2)
  BY <1>6, HandlerType
<1>7. CASE UNCHANGED vars
  BY <1>7 DEF vars, TypeOK, StorageTypeOK
<1> QED
  BY <1>1, <1>2, <1>3, <1>4, <1>5, <1>6, <1>7 DEF Next

(* Type correctness: every variable of the upload stays in its type, for   *)
(* every set of keys, blobs, drains and requests.                          *)
THEOREM TypeCorrect == Spec => []TypeOK
<1>1. Init => TypeOK
  BY InitType
<1>2. TypeOK /\ [Next]_vars => TypeOK'
  BY NextType
<1> QED
  BY <1>1, <1>2, PTL DEF Spec

-----------------------------------------------------------------------------
(* The array of keys and the table of records.                             *)

(* One turn of the loop neither makes nor removes a record.                *)
LEMMA LoopKeepsRecords ==
    ASSUME TypeOK, NEW d \in Drains, NEW k \in Keys, NEW file \in File,
           ExistsFile(k), Loop(d, k, file)
    PROVE  \A j \in Keys : (storage'[j] # None) = (storage[j] # None)
<1>1. file.blobs # << >> => DeallocateBlob(Turned(file)) \in File
  BY DeallocateBlobType
<1> QED
  BY <1>1, NoneAssumption DEF Loop, TypeOK, StorageTypeOK, ExistsFile

(* Every step lists a key exactly when it has a record.                    *)
LEMMA DirectoriesStep ==
    TypeOK /\ DirectoriesMatchStorage /\ [Next]_vars => DirectoriesMatchStorage'
<1> SUFFICES ASSUME TypeOK, DirectoriesMatchStorage, [Next]_vars
             PROVE  DirectoriesMatchStorage'
  OBVIOUS
<1> USE DEF DirectoriesMatchStorage, ExistsFile
<1>1. ASSUME UNCHANGED filesDirectories,
             \A k \in Keys : (storage'[k] # None) = (storage[k] # None)
      PROVE  DirectoriesMatchStorage'
  BY <1>1
<1>2. ASSUME NEW k \in Keys, DelFile(k) PROVE DirectoriesMatchStorage'
  BY <1>2 DEF DelFile, TypeOK, StorageTypeOK
<1>3. ASSUME NEW r \in Requests, request[r] # None, Create(r)
      PROVE  DirectoriesMatchStorage'
  <2>1. request[r].key \in Keys /\ request[r].size \in Int
    BY <1>3, RequestData
  <2>2. NewFile(request[r].size) # None
    BY <2>1, NewFileType, NoneAssumption
  <2>3. \A k \in Keys : filesDirectories[k] \in Nat
    BY DEF TypeOK, StorageTypeOK
  <2> QED
    BY <1>3, <2>1, <2>2, <2>3 DEF Create, CreateFileTemp, TypeOK, StorageTypeOK
<1>4. CASE Die
  BY <1>4 DEF Die
<1>5. ASSUME NEW d \in Drains, ~Die, DrainStep(d) PROVE DirectoriesMatchStorage'
  <2>1. /\ drain[d] # None
        /\ drain[d] \in Drain
        /\ drain[d].key \in Keys
        /\ drain[d].blob \in Blobs
    <3>1. drain[d] # None
      BY <1>5 DEF DrainStep, BlobLands, BlobWritten, UploadFinished, LookupFails
    <3> QED
      BY <3>1 DEF TypeOK, Drain
  <2> DEFINE k == drain[d].key
             b == drain[d].blob
  <2>2. CASE BlobLands(d)
    BY <1>5, <2>2 DEF BlobLands, storageVars
  <2>3. CASE BlobWritten(d)
    <3> DEFINE file == UpdateBytesWriten(storage[k], b)
    <3>1. ExistsFile(k) /\ UNCHANGED filesDirectories
      BY <1>5, <2>3 DEF BlobWritten
    <3>2. file \in File
      BY <2>1, <3>1, UpdateBytesWritenType DEF TypeOK, StorageTypeOK
    <3>3. \/ storage' = [storage EXCEPT ![k] = file]
          \/ Loop(d, k, file)
      BY <1>5, <2>3 DEF BlobWritten
    <3>4. \A j \in Keys : (storage'[j] # None) = (storage[j] # None)
      <4>1. CASE storage' = [storage EXCEPT ![k] = file]
        BY <2>1, <3>1, <3>2, <4>1, NoneAssumption DEF TypeOK, StorageTypeOK
      <4>2. CASE Loop(d, k, file)
        BY <2>1, <3>1, <3>2, <4>2, LoopKeepsRecords
      <4> QED
        BY <3>3, <4>1, <4>2
    <3> QED
      BY <1>1, <3>1, <3>4
  <2>4. CASE UploadFinished(d)
    BY <1>2, <2>1, <2>4 DEF UploadFinished
  <2>5. CASE LookupFails(d)
    <3>1. /\ ExistsFile(k) /\ UNCHANGED filesDirectories
          /\ Loop(d, k, AllocateBlob(storage[k], b))
      BY <1>5, <2>5 DEF LookupFails
    <3>2. AllocateBlob(storage[k], b) \in File
      BY <2>1, <3>1, AllocateBlobType DEF TypeOK, StorageTypeOK
    <3> QED
      BY <1>1, <2>1, <3>1, <3>2, LoopKeepsRecords
  <2> QED
    BY <1>5, <2>2, <2>3, <2>4, <2>5 DEF DrainStep
<1>6. CASE WriteBlobs
  <2>1. PICK D \in SUBSET {d \in Drains : drain[d] = None} : \E job \in Injection(D, Startable) :
           storage' = [k \in Keys |-> IF k \in {job[d] : d \in D}
                                      THEN DeallocateBlob(Turned(storage[k])) ELSE storage[k]]
    BY <1>6 DEF WriteBlobs
  <2>6. PICK job \in Injection(D, Startable) :
           storage' = [k \in Keys |-> IF k \in {job[d] : d \in D}
                                      THEN DeallocateBlob(Turned(storage[k])) ELSE storage[k]]
    BY <2>1
  <2>2. \A d \in D : job[d] \in Startable
    BY DEF Injection
  <2>3. \A k \in Startable : storage[k] \in File /\ storage[k].blobs # << >>
    BY DEF Startable, TypeOK, StorageTypeOK
  <2>4. \A k \in Startable : storage[k] # None /\ DeallocateBlob(Turned(storage[k])) # None
    BY <2>3, DeallocateBlobType, NoneAssumption
  <2>5. UNCHANGED filesDirectories
    BY <1>6 DEF WriteBlobs
  <2> QED
    BY <1>1, <2>2, <2>4, <2>5, <2>6
<1>7. ASSUME NEW r \in Requests, RequestStep(r) PROVE DirectoriesMatchStorage'
  <2>1. request[r] # None => request[r].key \in Keys
    BY DEF TypeOK, Request
  <2>2. \/ UNCHANGED storageVars
        \/ \E k \in Keys : BeginDelete(k)
        \/ request[r] # None /\ Create(r)
    BY <1>7, <2>1 DEF RequestStep, InitializeFile, DeleteFile, Access, InitializeGoesOn,
                      DeleteAccess, Rm, DeleteGoesOn, Reserve
  <2> QED
    BY <1>2, <1>3, <1>7, <2>2 DEF BeginDelete, storageVars
<1>8. ASSUME NEW k \in Keys, NEW b \in Blobs, ReciveBlob(k, b)
      PROVE  DirectoriesMatchStorage'
  <2>1. storage[k] \in File
    BY <1>8 DEF ReciveBlob, TypeOK, StorageTypeOK
  <2>2. AllocateBlob(storage[k], b) # None
    BY <2>1, AllocateBlobType, NoneAssumption
  <2> QED
    BY <1>8, <2>2 DEF ReciveBlob, TypeOK, StorageTypeOK
<1>9. ASSUME NEW tested, NEW path, CloseFile(tested, path) PROVE DirectoriesMatchStorage'
  <2> SUFFICES ASSUME NEW k \in Keys PROVE filesDirectories'[k] > 0 <=> storage'[k] # None
    BY DEF DirectoriesMatchStorage, ExistsFile
  <2>1. \/ storage'[k] = None /\ filesDirectories'[k] = 0
        \/ /\ filesDirectories'[k] = filesDirectories[k]
           /\ \/ storage'[k] = storage[k]
              \/ storage[k] # None /\ storage'[k] \in File
    BY <1>9, CloseFileEffect DEF ExistsFile
  <2> QED
    BY <2>1, NoneAssumption DEF DirectoriesMatchStorage, ExistsFile
<1>10. ASSUME NEW s \in Stream, StreamLands(s), ~Die PROVE DirectoriesMatchStorage'
  BY <1>10 DEF StreamLands, storageVars
<1>11. ASSUME NEW k1 \in Keys, NEW k2 \in Keys, RenameFile(k1, k2)
       PROVE  DirectoriesMatchStorage'
  BY <1>11 DEF RenameFile, storageVars
<1>12. CASE Kill \/ Restart \/ UNCHANGED vars
  BY <1>4, <1>12 DEF Kill, Restart, vars, storageVars
<1> QED
  BY <1>4, <1>5, <1>6, <1>7, <1>8, <1>9, <1>10, <1>11, <1>12 DEF Next

(* The interval and the space guard see the uploads that exist and no      *)
(* other: a key is listed exactly while it has a record.                   *)
THEOREM DirectoriesMatch == Spec => []DirectoriesMatchStorage
<1>1. Init => DirectoriesMatchStorage
  BY DEF Init, StorageInit, DirectoriesMatchStorage, ExistsFile
<1>2. TypeOK /\ DirectoriesMatchStorage /\ [Next]_vars => DirectoriesMatchStorage'
  BY DirectoriesStep
<1> QED
  BY <1>1, <1>2, TypeCorrect, PTL DEF Spec

-----------------------------------------------------------------------------
(* The flag writting is a lock.                                            *)

AtWork(d, k) == drain[d] # None /\ drain[d].key = k /\ drain[d].pc # "completing"
Finishing(d, k) == drain[d] # None /\ drain[d].key = k /\ drain[d].pc = "completing"

(* SingleWriter for one key, and what makes UploadEndsForAReason true: a   *)
(* drain finishes an undisturbed upload only if all of it is counted.      *)
Locked(k) ==
    ExistsFile(k) /\ history[k].undisturbed =>
        /\ storage[k].writting <=> \E d \in Drains : AtWork(d, k)
        /\ \A d, e \in Drains : AtWork(d, k) /\ AtWork(e, k) => d = e
        /\ \A d \in Drains : Finishing(d, k) => storage[k].saved >= storage[k].size

IInv == TypeOK /\ \A k \in Keys : Locked(k)

(* The invariant says what the property says.                              *)
LEMMA IInvGivesSingleWriter == IInv => SingleWriter
<1> SUFFICES ASSUME IInv, NEW k \in Keys, ExistsFile(k), history[k].undisturbed
             PROVE  /\ storage[k].writting <=> Writers(k) # {}
                    /\ \A d, e \in Writers(k) : d = e
  BY DEF SingleWriter
<1>1. \A d : d \in Writers(k) <=> d \in Drains /\ AtWork(d, k)
  BY DEF Writers, AtWork
<1>2. storage[k].writting <=> \E d \in Drains : AtWork(d, k)
  BY DEF IInv, Locked
<1>3. \A d, e \in Drains : AtWork(d, k) /\ AtWork(e, k) => d = e
  BY DEF IInv, Locked
<1> QED
  BY <1>1, <1>2, <1>3

(* A step that leaves the drains alone, and the counters and the flag of   *)
(* an undisturbed upload, or takes the upload away, keeps the lock.        *)
LEMMA QuietStep ==
    ASSUME NEW k \in Keys, Locked(k), UNCHANGED drain,
           ExistsFile(k)' /\ history'[k].undisturbed =>
               /\ ExistsFile(k)
               /\ history[k].undisturbed
               /\ storage'[k].writting = storage[k].writting
               /\ storage'[k].saved = storage[k].saved
               /\ storage'[k].size = storage[k].size
    PROVE  Locked(k)'
BY DEF Locked, AtWork, Finishing

(* A drain that works on another key does not touch the lock.              *)
LEMMA OtherKeyStep ==
    ASSUME TypeOK, NEW d \in Drains, drain[d] # None,
           NEW k \in Keys, k # drain[d].key, Locked(k),
           NEW w, w = None \/ w.key = drain[d].key,
           drain' = [drain EXCEPT ![d] = w],
           storage'[k] = storage[k], history'[k] = history[k]
    PROVE  Locked(k)'
<1>1. \A e \in Drains : drain'[e] = IF e = d THEN w ELSE drain[e]
  BY DEF TypeOK
<1>2. \A e \in Drains : /\ AtWork(e, k)' <=> AtWork(e, k)
                        /\ Finishing(e, k)' <=> Finishing(e, k)
  BY <1>1 DEF AtWork, Finishing
<1> QED
  BY <1>2 DEF Locked, ExistsFile

(* A new record is free: undisturbed means that no drain was left.         *)
LEMMA CreateLocked ==
    ASSUME TypeOK, \A k \in Keys : Locked(k), UNCHANGED drain,
           NEW r \in Requests, request[r] # None, Create(r)
    PROVE  \A k \in Keys : Locked(k)'
<1>1. PICK key \in Keys : key = request[r].key
  BY RequestData
<1>2. request[r].size \in Int
  BY RequestData
<1>3. /\ storage' = [storage EXCEPT ![key] = NewFile(request[r].size)]
      /\ \A k \in Keys : k # key => history'[k] = history[k]
      /\ history'[key].undisturbed => \A d \in Drains : drain[d] # None => drain[d].key # key
  BY <1>1 DEF Create, CreateFileTemp, TypeOK, NewHistory
<1>4. ASSUME NEW k \in Keys, k = key PROVE Locked(k)'
  <2>1. ~storage'[k].writting
    BY <1>2, <1>3, <1>4, NewFileType DEF TypeOK, StorageTypeOK
  <2>2. history'[k].undisturbed =>
           \A d \in Drains : ~AtWork(d, k)' /\ ~Finishing(d, k)'
    BY <1>3, <1>4 DEF AtWork, Finishing
  <2> QED
    BY <2>1, <2>2 DEF Locked
<1>5. ASSUME NEW k \in Keys, k # key PROVE Locked(k)'
  <2>1. storage'[k] = storage[k] /\ history'[k] = history[k]
    BY <1>3, <1>5 DEF TypeOK, StorageTypeOK
  <2> QED
    BY <2>1, QuietStep DEF ExistsFile
<1> QED
  BY <1>4, <1>5

(* A run of the interval takes free records only, one drain each.          *)
LEMMA WriteBlobsLocked ==
    ASSUME TypeOK, \A k \in Keys : Locked(k), WriteBlobs
    PROVE  \A k \in Keys : Locked(k)'
<1>1. PICK D \in SUBSET {d \in Drains : drain[d] = None} :
      \E job \in Injection(D, Startable) :
         LET S == {job[d] : d \in D}
             Writer(k) == WriteBlob(k, First(k))
         IN  /\ storage' = [k \in Keys |-> IF k \in S THEN DeallocateBlob(Turned(storage[k]))
                                                      ELSE storage[k]]
             /\ drain' = [d \in Drains |-> IF d \in D THEN Writer(job[d]) ELSE drain[d]]
  BY DEF WriteBlobs
<1>2. PICK job \in Injection(D, Startable) :
         LET S == {job[d] : d \in D}
             Writer(k) == WriteBlob(k, First(k))
         IN  /\ storage' = [k \in Keys |-> IF k \in S THEN DeallocateBlob(Turned(storage[k]))
                                                      ELSE storage[k]]
             /\ drain' = [d \in Drains |-> IF d \in D THEN Writer(job[d]) ELSE drain[d]]
  BY <1>1
<1>3. \A k \in Startable : /\ k \in Keys
                           /\ ExistsFile(k)
                           /\ ~storage[k].writting
                           /\ storage[k] \in File
                           /\ storage[k].blobs # << >>
  BY DEF Startable, ExistsFile, TypeOK, StorageTypeOK
<1>4. /\ \A d \in D : job[d] \in Startable
      /\ \A d, e \in D : job[d] = job[e] => d = e
  BY DEF Injection, IsInjective
<1>5. \A k \in Startable : /\ DeallocateBlob(Turned(storage[k])).writting
                           /\ DeallocateBlob(Turned(storage[k])).saved = storage[k].saved
                           /\ DeallocateBlob(Turned(storage[k])).size = storage[k].size
                           /\ WriteBlob(k, First(k)) # None
                           /\ WriteBlob(k, First(k)).key = k
                           /\ WriteBlob(k, First(k)).pc # "completing"
  <2> SUFFICES ASSUME NEW k \in Startable
               PROVE  /\ DeallocateBlob(Turned(storage[k])).writting
                      /\ DeallocateBlob(Turned(storage[k])).saved = storage[k].saved
                      /\ DeallocateBlob(Turned(storage[k])).size = storage[k].size
                      /\ WriteBlob(k, First(k)) # None
                      /\ WriteBlob(k, First(k)).key = k
                      /\ WriteBlob(k, First(k)).pc # "completing"
    OBVIOUS
  <2>1. First(k) \in Blobs
    BY <1>3, DeallocateBlobType DEF First
  <2> QED
    BY <1>3, <2>1, DeallocateBlobType, WriteBlobType, NobodyAssumption
<1>6. UNCHANGED history
  BY DEF WriteBlobs
<1>7. \A d \in Drains : d \notin D => drain'[d] = drain[d]
  BY <1>2
<1>8. \A d \in D : drain[d] = None /\ drain'[d] = WriteBlob(job[d], First(job[d]))
  BY <1>2
<1>9. \A d \in D, k \in Keys : /\ AtWork(d, k)' <=> job[d] = k
                               /\ ~Finishing(d, k)' /\ ~AtWork(d, k) /\ ~Finishing(d, k)
  BY <1>4, <1>5, <1>8 DEF AtWork, Finishing
<1>10. \A d \in Drains, k \in Keys :
          d \notin D => /\ AtWork(d, k)' <=> AtWork(d, k)
                        /\ Finishing(d, k)' <=> Finishing(d, k)
  BY <1>7 DEF AtWork, Finishing
<1> SUFFICES ASSUME NEW k \in Keys, ExistsFile(k), history[k].undisturbed
             PROVE  /\ storage'[k].writting <=> \E d \in Drains : AtWork(d, k)'
                    /\ \A d, e \in Drains : AtWork(d, k)' /\ AtWork(e, k)' => d = e
                    /\ \A d \in Drains : Finishing(d, k)' => storage'[k].saved >= storage'[k].size
  <2>1. \A k \in Keys : ExistsFile(k)' => ExistsFile(k)
    BY <1>2, <1>3, <1>4 DEF ExistsFile
  <2> QED
    BY <1>6, <2>1 DEF Locked
<1>11. /\ storage[k].writting <=> \E d \in Drains : AtWork(d, k)
       /\ \A d, e \in Drains : AtWork(d, k) /\ AtWork(e, k) => d = e
       /\ \A d \in Drains : Finishing(d, k) => storage[k].saved >= storage[k].size
  BY DEF Locked
<1>12. CASE \E d \in D : job[d] = k
  <2>1. /\ storage'[k] = DeallocateBlob(Turned(storage[k]))
        /\ k \in Startable
    BY <1>2, <1>4, <1>12
  <2>2. \A d \in Drains : ~AtWork(d, k)
    BY <1>3, <1>11, <2>1
  <2>3. \A d \in Drains : AtWork(d, k)' <=> d \in D /\ job[d] = k
    BY <1>9, <1>10, <2>2
  <2>4. \A d \in Drains : Finishing(d, k)' => Finishing(d, k)
    BY <1>9, <1>10
  <2> QED
    BY <1>4, <1>5, <1>11, <1>12, <2>1, <2>3, <2>4
<1>13. CASE ~ \E d \in D : job[d] = k
  <2>1. storage'[k] = storage[k]
    BY <1>2, <1>13
  <2>2. \A d \in Drains : /\ AtWork(d, k)' <=> AtWork(d, k)
                          /\ Finishing(d, k)' <=> Finishing(d, k)
    BY <1>9, <1>10, <1>13
  <2> QED
    BY <1>11, <2>1, <2>2
<1> QED
  BY <1>12, <1>13

(* What one turn of the loop does to the drain and to the record: either   *)
(* the drain leaves, or it is at work on the record and holds its flag.    *)
LEMMA LoopEffect ==
    ASSUME TypeOK, NEW d \in Drains, NEW k \in Keys, NEW file \in File, Loop(d, k, file)
    PROVE  /\ \A j \in Keys : j # k => storage'[j] = storage[j]
           /\ storage'[k].saved = file.saved
           /\ storage'[k].size = file.size
           /\ \/ /\ drain' = [drain EXCEPT ![d] = None]
                 /\ storage'[k].writting = file.writting
              \/ \E w : /\ drain' = [drain EXCEPT ![d] = w]
                        /\ w # None
                        /\ w.key = k
                        /\ w.pc # "completing"
                        /\ storage'[k].writting
<1>1. CASE file.blobs = << >>
  <2>1. storage' = [storage EXCEPT ![k] = file] /\ drain' = [drain EXCEPT ![d] = None]
    BY <1>1 DEF Loop
  <2> QED
    BY <2>1 DEF TypeOK, StorageTypeOK
<1>2. CASE file.blobs # << >>
  <2> DEFINE w == WriteBlob(k, Head(Turned(file).blobs))
  <2>1. storage' = [storage EXCEPT ![k] = DeallocateBlob(Turned(file))] /\ drain' = [drain EXCEPT ![d] = w]
    BY <1>2 DEF Loop
  <2>2. /\ DeallocateBlob(Turned(file)).writting
        /\ DeallocateBlob(Turned(file)).saved = file.saved
        /\ DeallocateBlob(Turned(file)).size = file.size
        /\ Head(Turned(file).blobs) \in Blobs
    BY <1>2, DeallocateBlobType
  <2>3. w # None /\ w.key = k /\ w.pc # "completing"
    BY <2>2, WriteBlobType, NobodyAssumption
  <2>4. /\ storage'[k] = DeallocateBlob(Turned(file))
        /\ \A j \in Keys : j # k => storage'[j] = storage[j]
    BY <2>1 DEF TypeOK, StorageTypeOK
  <2> HIDE DEF w
  <2> QED
    BY <2>1, <2>2, <2>3, <2>4
<1> QED
  BY <1>1, <1>2

(* A drain that has written its blob gives the lock back, or keeps it for  *)
(* the next blob.                                                          *)
LEMMA BlobWrittenLocked ==
    ASSUME TypeOK, \A k \in Keys : Locked(k), NEW d \in Drains, BlobWritten(d), ~Die
    PROVE  \A k \in Keys : Locked(k)'
<1>1. /\ drain[d] # None
      /\ drain[d] \in Drain
      /\ drain[d].blob \in Blobs
      /\ drain[d].key \in Keys
      /\ drain[d].pc # "completing"
  <2>1. drain[d] # None /\ drain[d].pc \in {"flushed", "nextTick"}
    BY DEF BlobWritten
  <2> QED
    BY <2>1 DEF TypeOK, Drain
<1>2. PICK key \in Keys, b \in Blobs : key = drain[d].key /\ b = drain[d].blob
  BY <1>1
<1>3. PICK file : file = UpdateBytesWriten(storage[key], b)
  OBVIOUS
<1>4. /\ ExistsFile(key)
      /\ UNCHANGED history
      /\ IF file.completed
         THEN /\ storage' = [storage EXCEPT ![key] = file]
              /\ drain' = [drain EXCEPT ![d].pc = "completing"]
         ELSE Loop(d, key, file)
  BY <1>2, <1>3 DEF BlobWritten
<1>5. storage[key] \in File
  BY <1>4 DEF ExistsFile, TypeOK, StorageTypeOK
<1>6. /\ file \in File
      /\ ~file.writting
      /\ file.saved = storage[key].saved + b.len
      /\ file.size = storage[key].size
  BY <1>3, <1>5, UpdateBytesWritenType
<1>7. \E w : /\ drain' = [drain EXCEPT ![d] = w]
             /\ \A j \in Keys : j # key => storage'[j] = storage[j]
             /\ storage'[key].saved = file.saved
             /\ storage'[key].size = file.size
             /\ \/ w = None /\ ~storage'[key].writting
                \/ /\ w # None /\ w.key = key /\ w.pc # "completing"
                   /\ storage'[key].writting
                \/ /\ w # None /\ w.key = key /\ w.pc = "completing"
                   /\ ~storage'[key].writting
                   /\ file.saved >= file.size
  <2>1. CASE file.completed
    <3> DEFINE w == [drain[d] EXCEPT !.pc = "completing"]
    <3>1. w \in Drain /\ w.key = key /\ w.pc = "completing"
      BY <1>1, <1>2 DEF Drain
    <3>2. w # None
      BY <3>1, NobodyAssumption
    <3>3. /\ drain' = [drain EXCEPT ![d] = w]
          /\ storage' = [storage EXCEPT ![key] = file]
      BY <1>4, <2>1
    <3>4. /\ storage'[key] = file
          /\ \A j \in Keys : j # key => storage'[j] = storage[j]
      BY <3>3 DEF TypeOK, StorageTypeOK
    <3>5. file.saved >= file.size
      BY <1>3, <1>5, <2>1, UpdateBytesWritenType DEF IsCompleted
    <3> HIDE DEF w
    <3> QED
      BY <1>6, <3>1, <3>2, <3>3, <3>4, <3>5
  <2>2. CASE ~file.completed
    <3>1. Loop(d, key, file)
      BY <1>4, <2>2
    <3> QED
      BY <1>6, <3>1, LoopEffect
  <2> QED
    BY <2>1, <2>2
<1>8. PICK w : /\ drain' = [drain EXCEPT ![d] = w]
               /\ \A j \in Keys : j # key => storage'[j] = storage[j]
               /\ storage'[key].saved = file.saved
               /\ storage'[key].size = file.size
               /\ \/ w = None /\ ~storage'[key].writting
                  \/ /\ w # None /\ w.key = key /\ w.pc # "completing"
                     /\ storage'[key].writting
                  \/ /\ w # None /\ w.key = key /\ w.pc = "completing"
                     /\ ~storage'[key].writting
                     /\ file.saved >= file.size
  BY <1>7
<1>9. ASSUME NEW k \in Keys, k # key PROVE Locked(k)'
  <2>1. (w = None \/ w.key = drain[d].key) /\ k # drain[d].key
    BY <1>2, <1>8, <1>9
  <2>2. storage'[k] = storage[k] /\ history'[k] = history[k]
    BY <1>4, <1>8, <1>9
  <2> QED
    BY <1>1, <1>8, <2>1, <2>2, OtherKeyStep
<1>10. ASSUME NEW k \in Keys, k = key, history[k].undisturbed PROVE Locked(k)'
  <2>1. /\ \A e, f \in Drains : AtWork(e, k) /\ AtWork(f, k) => e = f
        /\ \A e \in Drains : Finishing(e, k) => storage[k].saved >= storage[k].size
    BY <1>4, <1>10 DEF Locked
  <2>2. AtWork(d, k)
    BY <1>1, <1>2, <1>10 DEF AtWork
  <2>3. \A e \in Drains : drain'[e] = IF e = d THEN w ELSE drain[e]
    BY <1>8 DEF TypeOK
  <2>4. \A e \in Drains : e # d => ~AtWork(e, k)' /\ (Finishing(e, k)' => Finishing(e, k))
    BY <2>1, <2>2, <2>3 DEF AtWork, Finishing
  <2>5. storage'[k].writting <=> AtWork(d, k)'
    BY <1>8, <1>10, <2>3 DEF AtWork
  <2>6. Finishing(d, k)' => storage'[k].saved >= storage'[k].size
    BY <1>8, <1>10, <2>3 DEF Finishing
  <2>7. \A e \in Drains : Finishing(e, k) => storage'[k].saved >= storage'[k].size
    <3>1. /\ storage[k].saved \in Nat /\ storage[k].size \in Int /\ b.len \in Nat
          /\ storage'[k].saved = storage[k].saved + b.len
          /\ storage'[k].size = storage[k].size
      BY <1>5, <1>6, <1>8, <1>10, StorageAssumption DEF File, Blob
    <3>2. storage[k].saved >= storage[k].size => storage'[k].saved >= storage'[k].size
      BY <3>1
    <3> QED
      BY <2>1, <3>2
  <2> QED
    BY <2>4, <2>5, <2>6, <2>7 DEF Locked
<1>11. ASSUME NEW k \in Keys, ~history[k].undisturbed PROVE Locked(k)'
  BY <1>4, <1>11 DEF Locked
<1> QED
  BY <1>9, <1>10, <1>11

(* Every step of a drain keeps the locks.                                  *)
LEMMA DrainLocked ==
    ASSUME TypeOK, \A k \in Keys : Locked(k), NEW d \in Drains, DrainStep(d), ~Die
    PROVE  \A k \in Keys : Locked(k)'
<1>1. /\ drain[d] # None
      /\ drain[d] \in Drain
      /\ drain[d].blob \in Blobs
      /\ drain[d].key \in Keys
  <2>1. drain[d] # None
    BY DEF DrainStep, BlobLands, BlobWritten, UploadFinished, LookupFails
  <2> QED
    BY <2>1 DEF TypeOK, Drain
<1>2. PICK key \in Keys, b \in Blobs : key = drain[d].key /\ b = drain[d].blob
  BY <1>1
<1>3. CASE BlobLands(d)
  <2>1. /\ drain[d].pc = "writing"
        /\ drain' = [drain EXCEPT ![d].pc = "flushed"]
        /\ UNCHANGED <<storage, history>>
    BY <1>3 DEF BlobLands, storageVars
  <2>2. [drain[d] EXCEPT !.pc = "flushed"] \in Drain
    BY <1>1 DEF Drain
  <2>3. /\ drain'[d] # None
        /\ drain'[d].key = drain[d].key
        /\ drain'[d].pc = "flushed"
        /\ \A e \in Drains : e # d => drain'[e] = drain[e]
    BY <1>1, <2>1, <2>2, NobodyAssumption DEF TypeOK, Drain
  <2>4. \A e \in Drains, k \in Keys : /\ AtWork(e, k)' <=> AtWork(e, k)
                                      /\ Finishing(e, k)' <=> Finishing(e, k)
    BY <1>1, <2>1, <2>3 DEF AtWork, Finishing
  <2> QED
    BY <2>1, <2>4 DEF Locked, ExistsFile
<1>4. CASE BlobWritten(d)
  BY <1>4, BlobWrittenLocked
<1>5. CASE UploadFinished(d)
  <2>1. /\ storage' = [storage EXCEPT ![key] = None]
        /\ drain' = [drain EXCEPT ![d] = None]
        /\ history' = [history EXCEPT ![key] = NewHistory]
    BY <1>2, <1>5 DEF UploadFinished, DelFile
  <2>2. ASSUME NEW k \in Keys, k # key PROVE Locked(k)'
    <3>1. storage'[k] = storage[k] /\ history'[k] = history[k] /\ k # drain[d].key
      BY <1>2, <2>1, <2>2 DEF TypeOK, StorageTypeOK
    <3> QED
      BY <1>1, <2>1, <3>1, OtherKeyStep
  <2>3. ASSUME NEW k \in Keys, k = key PROVE Locked(k)'
    BY <2>1, <2>3 DEF Locked, ExistsFile, TypeOK, StorageTypeOK
  <2> QED
    BY <2>2, <2>3
<1>6. CASE LookupFails(d)
  <2>1. /\ ExistsFile(key)
        /\ Loop(d, key, AllocateBlob(storage[key], b))
        /\ Disturb({key})
    BY <1>2, <1>6 DEF LookupFails
  <2>2. storage[key] \in File
    BY <2>1 DEF ExistsFile, TypeOK, StorageTypeOK
  <2>3. AllocateBlob(storage[key], b) \in File
    BY <2>2, AllocateBlobType
  <2>4. PICK w : /\ drain' = [drain EXCEPT ![d] = w]
                 /\ w = None \/ w.key = key
                 /\ \A j \in Keys : j # key => storage'[j] = storage[j]
    BY <2>1, <2>3, LoopEffect
  <2>5. /\ ~history'[key].undisturbed
        /\ \A k \in Keys : k # key => history'[k] = history[k]
    BY <2>1 DEF Disturb, TypeOK, History
  <2>6. ASSUME NEW k \in Keys, k # key PROVE Locked(k)'
    <3>1. storage'[k] = storage[k] /\ history'[k] = history[k] /\ k # drain[d].key
      BY <1>2, <2>4, <2>5, <2>6
    <3> QED
      BY <1>1, <1>2, <2>4, <3>1, OtherKeyStep
  <2>7. ASSUME NEW k \in Keys, k = key PROVE Locked(k)'
    BY <2>5, <2>7 DEF Locked
  <2> QED
    BY <2>6, <2>7
<1> QED
  BY <1>3, <1>4, <1>5, <1>6 DEF DrainStep

(* Removing a record, or only noting that a file was disturbed, cannot     *)
(* break a lock.                                                           *)
LEMMA RemoveLocked ==
    ASSUME TypeOK, \A k \in Keys : Locked(k), UNCHANGED drain,
           NEW key \in Keys, BeginDelete(key)
    PROVE  \A k \in Keys : Locked(k)'
<1> SUFFICES ASSUME NEW k \in Keys, ExistsFile(k)'
             PROVE  storage'[k] = storage[k] /\ history'[k] = history[k] /\ ExistsFile(k)
  BY QuietStep DEF Locked
<1> QED
  BY DEF BeginDelete, DelFile, ExistsFile, storageVars, TypeOK, StorageTypeOK

(* Noting it takes a promise away and makes none.                          *)
LEMMA DisturbLocked ==
    ASSUME TypeOK, \A k \in Keys : Locked(k), UNCHANGED <<storage, drain>>,
           NEW ks, Disturb(ks)
    PROVE  \A k \in Keys : Locked(k)'
<1>1. \A k \in Keys : history'[k].undisturbed => history[k].undisturbed
  BY DEF Disturb, TypeOK, History
<1> QED
  BY <1>1, QuietStep DEF ExistsFile

(* Every step keeps the locks.                                             *)
LEMMA IInvStep == IInv /\ [Next]_vars => IInv'
<1> SUFFICES ASSUME TypeOK, \A k \in Keys : Locked(k), [Next]_vars
             PROVE  \A k \in Keys : Locked(k)'
  BY NextType DEF IInv
<1>1. CASE Die
  BY <1>1 DEF Die, Locked, ExistsFile
<1>2. CASE WriteBlobs
  BY <1>2, WriteBlobsLocked
<1>3. ASSUME NEW d \in Drains, DrainStep(d), ~Die PROVE \A k \in Keys : Locked(k)'
  BY <1>3, DrainLocked
<1>4. ASSUME UNCHANGED <<storage, drain, history>> PROVE \A k \in Keys : Locked(k)'
  BY <1>4, QuietStep DEF ExistsFile
<1>5. ASSUME NEW s \in Stream, StreamLands(s), ~Die PROVE \A k \in Keys : Locked(k)'
  BY <1>4, <1>5 DEF StreamLands, storageVars
<1>6. ASSUME NEW r \in Requests, RequestStep(r) PROVE \A k \in Keys : Locked(k)'
  <2>1. request[r] # None => request[r].key \in Keys
    BY RequestData
  <2>2. UNCHANGED drain
    BY <1>6 DEF RequestStep, InitializeFile, DeleteFile, Access, InitializeGoesOn,
                DeleteAccess, Rm, DeleteGoesOn, Reserve
  <2>3. \/ UNCHANGED <<storage, history>>
        \/ \E k \in Keys : BeginDelete(k)
        \/ request[r] # None /\ Create(r)
        \/ UNCHANGED storage /\ \E ks : Disturb(ks)
    BY <1>6, <2>1 DEF RequestStep, InitializeFile, DeleteFile, Access, InitializeGoesOn,
                      DeleteAccess, Rm, DeleteGoesOn, Reserve, storageVars
  <2> QED
    BY <1>4, <2>2, <2>3, RemoveLocked, CreateLocked, DisturbLocked
<1>7. ASSUME NEW key \in Keys, NEW b \in Blobs, ReciveBlob(key, b)
      PROVE  \A k \in Keys : Locked(k)'
  <2>1. storage[key] \in File
    BY <1>7 DEF ReciveBlob, ExistsFile, TypeOK, StorageTypeOK
  <2>2. storage' = [storage EXCEPT ![key] = AllocateBlob(storage[key], b)]
    BY <1>7 DEF ReciveBlob
  <2>3. \A k \in Keys : ExistsFile(k)' => /\ ExistsFile(k)
                                          /\ storage'[k].writting = storage[k].writting
                                          /\ storage'[k].saved = storage[k].saved
                                          /\ storage'[k].size = storage[k].size
    BY <1>7, <2>1, <2>2, AllocateBlobType DEF ReciveBlob, ExistsFile, TypeOK, StorageTypeOK
  <2>4. \A k \in Keys : history'[k].undisturbed = history[k].undisturbed
    BY <1>7 DEF ReciveBlob, TypeOK, History
  <2>5. UNCHANGED drain
    BY <1>7 DEF ReciveBlob
  <2> QED
    BY <2>3, <2>4, <2>5, QuietStep
<1>8. ASSUME NEW tested, NEW path, CloseFile(tested, path)
      PROVE  \A k \in Keys : Locked(k)'
  <2>1. \A k \in Keys : ExistsFile(k)' => /\ ExistsFile(k)
                                          /\ history'[k] = history[k]
                                          /\ storage'[k].writting = storage[k].writting
                                          /\ storage'[k].saved = storage[k].saved
                                          /\ storage'[k].size = storage[k].size
    <3> SUFFICES ASSUME NEW k \in Keys, ExistsFile(k)'
                 PROVE  /\ ExistsFile(k)
                        /\ history'[k] = history[k]
                        /\ storage'[k].writting = storage[k].writting
                        /\ storage'[k].saved = storage[k].saved
                        /\ storage'[k].size = storage[k].size
      OBVIOUS
    <3>1. /\ history'[k] = history[k]
          /\ \/ storage'[k] = storage[k]
             \/ /\ ExistsFile(k)
                /\ storage'[k] = [storage[k] EXCEPT !.completed = IsCompleted(storage[k])]
      BY <1>8, CloseFileEffect DEF ExistsFile
    <3>2. CASE storage'[k] = storage[k]
      BY <3>1, <3>2 DEF ExistsFile
    <3>3. CASE /\ ExistsFile(k)
               /\ storage'[k] = [storage[k] EXCEPT !.completed = IsCompleted(storage[k])]
      <4>1. storage[k] \in File
        BY <3>3 DEF ExistsFile, TypeOK, StorageTypeOK
      <4> QED
        BY <3>1, <3>3, <4>1 DEF File
    <3> QED
      BY <3>1, <3>2, <3>3
  <2>2. UNCHANGED drain
    BY <1>8 DEF CloseFile
  <2> QED
    BY <2>1, <2>2, QuietStep
<1>9. ASSUME NEW k1 \in Keys, NEW k2 \in Keys, RenameFile(k1, k2)
      PROVE  \A k \in Keys : Locked(k)'
  BY <1>9, DisturbLocked DEF RenameFile, storageVars
<1>10. CASE Kill \/ Restart \/ UNCHANGED vars
  BY <1>1, <1>4, <1>10 DEF Kill, Restart, vars, storageVars
<1> QED
  BY <1>1, <1>2, <1>3, <1>5, <1>6, <1>7, <1>8, <1>9, <1>10 DEF Next

(* The invariant holds from the start: there is no record.                 *)
LEMMA IInvHolds == Spec => []IInv
<1>1. Init => IInv
  <2>1. Init => \A k \in Keys : Locked(k)
    BY DEF Init, StorageInit, Locked, ExistsFile
  <2> QED
    BY <2>1, InitType DEF IInv
<1> QED
  BY <1>1, IInvStep, PTL DEF Spec

(* For every number of drains, keys and blobs: while nothing disturbs an   *)
(* upload, its flag writting is set exactly while a drain works on it, and *)
(* no two drains ever do.                                                  *)
THEOREM OneWriter == Spec => []SingleWriter
BY IInvHolds, IInvGivesSingleWriter, PTL

-----------------------------------------------------------------------------
(* How an upload ends.                                                     *)

(* The steps that may take a record away: the end of the process, the end  *)
(* of a drain, closeFile, and deleteFile.                                  *)
LEMMA RecordGoes ==
    ASSUME TypeOK, [Next]_vars, NEW k \in Keys, ExistsFile(k), ~ExistsFile(k)'
    PROVE  \/ Die
           \/ \E d \in Drains : UploadFinished(d) /\ drain[d].key = k
           \/ \E tested \in Keys \cup {None} : CloseFile(tested, k)
           \/ \E r \in Requests : /\ request'[r] # request[r]
                                  /\ request'[r] # None
                                  /\ request'[r].key = k
                                  /\ request'[r].pc = "delAccess"
<1>1. storage[k] \in File /\ storage[k] # None /\ storage'[k] = None
  BY DEF ExistsFile, TypeOK, StorageTypeOK
<1>2. ASSUME NEW d \in Drains, DrainStep(d), ~Die
      PROVE  UploadFinished(d) /\ drain[d].key = k
  <2>1. /\ drain[d] # None
        /\ drain[d].blob \in Blobs
        /\ drain[d].key \in Keys
    <3>1. drain[d] # None
      BY <1>2 DEF DrainStep, BlobLands, BlobWritten, UploadFinished, LookupFails
    <3> QED
      BY <3>1 DEF TypeOK, Drain
  <2>2. ~BlobLands(d)
    BY <1>1, <1>2 DEF BlobLands, storageVars
  <2>3. CASE BlobWritten(d)
    <3>1. PICK file : file = UpdateBytesWriten(storage[drain[d].key], drain[d].blob)
      OBVIOUS
    <3>2. /\ ExistsFile(drain[d].key)
          /\ \/ storage' = [storage EXCEPT ![drain[d].key] = file]
             \/ Loop(d, drain[d].key, file)
      BY <1>2, <2>3, <3>1 DEF BlobWritten
    <3>3. file \in File
      BY <2>1, <3>1, <3>2, UpdateBytesWritenType DEF ExistsFile, TypeOK, StorageTypeOK
    <3>4. CASE storage' = [storage EXCEPT ![drain[d].key] = file]
      BY <1>1, <2>1, <3>3, <3>4, NoneAssumption DEF TypeOK, StorageTypeOK
    <3>5. CASE Loop(d, drain[d].key, file)
      BY <1>1, <2>1, <3>2, <3>3, <3>5, LoopKeepsRecords
    <3> QED
      BY <3>2, <3>4, <3>5
  <2>4. CASE LookupFails(d)
    <3>1. /\ ExistsFile(drain[d].key)
          /\ Loop(d, drain[d].key, AllocateBlob(storage[drain[d].key], drain[d].blob))
      BY <1>2, <2>4 DEF LookupFails
    <3>2. AllocateBlob(storage[drain[d].key], drain[d].blob) \in File
      BY <2>1, <3>1, AllocateBlobType DEF ExistsFile, TypeOK, StorageTypeOK
    <3> QED
      BY <1>1, <2>1, <3>1, <3>2, LoopKeepsRecords
  <2>5. CASE UploadFinished(d)
    BY <1>1, <2>1, <2>5 DEF UploadFinished, DelFile, TypeOK, StorageTypeOK
  <2> QED
    BY <1>2, <2>2, <2>3, <2>4, <2>5 DEF DrainStep
<1>3. ~WriteBlobs
  <2> SUFFICES ASSUME WriteBlobs PROVE FALSE
    OBVIOUS
  <2>1. PICK D \in SUBSET {d \in Drains : drain[d] = None} : \E job \in Injection(D, Startable) :
           storage' = [j \in Keys |-> IF j \in {job[d] : d \in D}
                                      THEN DeallocateBlob(Turned(storage[j])) ELSE storage[j]]
    BY DEF WriteBlobs
  <2>2. PICK job \in Injection(D, Startable) :
           storage' = [j \in Keys |-> IF j \in {job[d] : d \in D}
                                      THEN DeallocateBlob(Turned(storage[j])) ELSE storage[j]]
    BY <2>1
  <2>3. storage'[k] = storage[k] \/ (k \in Startable /\ storage'[k] = DeallocateBlob(Turned(storage[k])))
    BY <2>2 DEF Injection
  <2>4. k \in Startable => storage[k].blobs # << >>
    BY DEF Startable
  <2> QED
    BY <1>1, <2>3, <2>4, DeallocateBlobType, NoneAssumption
<1>4. ASSUME NEW r \in Requests, RequestStep(r)
      PROVE  /\ request'[r] # request[r]
             /\ request'[r] # None
             /\ request'[r].key = k
             /\ request'[r].pc = "delAccess"
  <2>1. storage' # storage
    BY <1>1
  <2>2. ASSUME request[r] # None, Create(r) PROVE FALSE
    <3>1. request[r].key \in Keys /\ NewFile(request[r].size) \in File
      BY <2>2, RequestData, NewFileType
    <3> QED
      BY <1>1, <2>2, <3>1, NoneAssumption DEF Create, CreateFileTemp, TypeOK, StorageTypeOK
  <2>3. CASE \E j \in Keys : DeleteFile(r, j)
    <3>1. PICK j \in Keys : DeleteFile(r, j)
      BY <2>3
    <3>2. [pc |-> "delAccess", key |-> j, size |-> 0, overwrite |-> FALSE] \in Request
      BY DEF Request
    <3>3. /\ request[r] = None
          /\ request'[r] = [pc |-> "delAccess", key |-> j, size |-> 0, overwrite |-> FALSE]
          /\ BeginDelete(j)
      BY <3>1 DEF DeleteFile, TypeOK
    <3>4. k = j
      BY <1>1, <3>3 DEF BeginDelete, DelFile, storageVars, TypeOK, StorageTypeOK
    <3>5. request'[r] \in Request
      BY <3>2, <3>3
    <3>6. request'[r].key = j /\ request'[r].pc = "delAccess"
      BY <3>3
    <3> QED
      BY <3>3, <3>4, <3>5, <3>6, NobodyAssumption
  <2>4. CASE InitializeGoesOn(r)
    <3>1. /\ request[r] # None
          /\ request[r].pc \in {"exists", "missing"}
          /\ BeginDelete(request[r].key)
          /\ request' = [request EXCEPT ![r].pc = "delAccess"]
      BY <2>1, <2>2, <2>4 DEF InitializeGoesOn, storageVars
    <3>2. request[r] \in Request /\ request[r].key \in Keys
      BY <3>1, RequestData
    <3>3. [request[r] EXCEPT !.pc = "delAccess"] \in Request
      BY <3>2 DEF Request
    <3>4. /\ request'[r] # None
          /\ request'[r].key = request[r].key
          /\ request'[r].pc = "delAccess"
          /\ request'[r] # request[r]
      BY <3>1, <3>2, <3>3, NobodyAssumption DEF TypeOK, Request
    <3>5. k = request[r].key
      BY <1>1, <3>1, <3>2 DEF BeginDelete, DelFile, storageVars, TypeOK, StorageTypeOK
    <3> QED
      BY <3>4, <3>5
  <2>5. ~DeleteGoesOn(r)
    BY <2>2 DEF DeleteGoesOn
  <2> QED
    BY <1>4, <2>1, <2>3, <2>4, <2>5
       DEF RequestStep, InitializeFile, Access, DeleteAccess, Rm, Reserve, storageVars
<1>5. \A b \in Blobs, j \in Keys : ~ReciveBlob(j, b)
  <2> SUFFICES ASSUME NEW b \in Blobs, NEW j \in Keys, ReciveBlob(j, b) PROVE FALSE
    OBVIOUS
  <2>1. storage[j] \in File
    BY DEF ReciveBlob, ExistsFile, TypeOK, StorageTypeOK
  <2>2. AllocateBlob(storage[j], b) # None
    BY <2>1, AllocateBlobType, NoneAssumption
  <2> QED
    BY <1>1, <2>2 DEF ReciveBlob, TypeOK, StorageTypeOK
<1>6. \A tested, path : CloseFile(tested, path) => path = k
  <2> SUFFICES ASSUME NEW tested, NEW path, CloseFile(tested, path) PROVE path = k
    OBVIOUS
  <2> QED
    BY <1>1, CloseFileEffect, NoneAssumption
<1>7. \A s \in Stream : StreamLands(s) => Die
  BY <1>1 DEF StreamLands, storageVars
<1>8. /\ Kill => Die
      /\ ~Restart
      /\ ~UNCHANGED vars
      /\ \A k1, k2 \in Keys : ~RenameFile(k1, k2)
  BY <1>1 DEF Kill, Restart, vars, RenameFile, storageVars
<1> QED
  BY <1>2, <1>3, <1>4, <1>5, <1>6, <1>7, <1>8 DEF Next

(* A step that takes an undisturbed upload away from a live process does   *)
(* so for one of the three reasons.                                        *)
LEMMA EndStep ==
    ASSUME IInv, [Next]_vars, NEW k \in Keys, EndsUnfinished(k), history[k].undisturbed
    PROVE  \E tested \in Keys \cup {None} : CloseFile(tested, k)
<1>1. ~Die
  BY DEF Die, EndsUnfinished
<1>2. ASSUME NEW d \in Drains, UploadFinished(d), drain[d].key = k
      PROVE  FALSE
  <2>1. Finishing(d, k)
    BY <1>2 DEF UploadFinished, Finishing
  <2> QED
    BY <2>1 DEF IInv, Locked, IsCompleted, EndsUnfinished
<1> QED
  BY <1>1, <1>2, RecordGoes DEF IInv, EndsUnfinished

(* For all constants: an undisturbed upload leaves the table of a live     *)
(* process only if its size was counted as written, or a deleteFile took   *)
(* it, or a closeFile named its key, never through the end of another      *)
(* upload of the same path.                                                *)
THEOREM UploadsEndForAReason == Spec => UploadEndsForAReason
<1> DEFINE Explained == \A k \in Keys : EndsUnfinished(k) /\ history[k].undisturbed =>
                           \E tested \in Keys \cup {None} : CloseFile(tested, k)
<1>1. IInv /\ [Next]_vars => [Explained]_vars
  BY EndStep
<1>2. UploadEndsForAReason <=> [][Explained]_vars
  BY DEF UploadEndsForAReason
<1> QED
  BY <1>1, <1>2, IInvHolds, PTL DEF Spec

-----------------------------------------------------------------------------
(* What a step is for one upload.                                          *)

OfKey(d, k) == drain[d] # None /\ drain[d].key = k

(* Nobody but the drains of D begins, goes on or leaves at the upload of k.*)
Rest(D, k) ==
    \A e \in Drains \ D : drain'[e] = drain[e] \/ (~OfKey(e, k) /\ ~OfKey(e, k)')

Quiet(k) ==
    /\ ExistsFile(k)
    /\ \/ storage'[k] = storage[k]
       \/ storage'[k] = [storage[k] EXCEPT !.completed = IsCompleted(storage[k])]
    /\ history'[k] = history[k] \/ (/\ ~history'[k].undisturbed
                                    /\ history'[k].accepted = history[k].accepted)
    /\ Rest({}, k)

Created(k) ==
    /\ \E size \in Int : storage'[k] = NewFile(size)
    /\ history'[k].accepted = {}
    /\ history'[k].undisturbed => \A d \in Drains : ~OfKey(d, k)
    /\ UNCHANGED drain

Received(k, b) ==
    /\ ExistsFile(k)
    /\ storage'[k] = AllocateBlob(storage[k], b)
    /\ history'[k].accepted = history[k].accepted \cup Bytes(b)
    /\ history'[k].undisturbed = history[k].undisturbed
    /\ history'[k].tidy => /\ history[k].tidy
                           /\ Bytes(b) \cap history[k].accepted = {}
                           /\ Bytes(b) \subseteq 0 .. storage[k].size - 1
                           /\ Writable(b)
    /\ UNCHANGED drain

Started(d, k) ==
    /\ WriteBlobs
    /\ ExistsFile(k)
    /\ ~storage[k].writting
    /\ storage[k].blobs # << >>
    /\ drain[d] = None
    /\ storage'[k] = DeallocateBlob(Turned(storage[k]))
    /\ drain'[d] = WriteBlob(k, First(k))
    /\ history'[k] = history[k]
    /\ Rest({d}, k)

Landed(d, k) ==
    /\ AtWork(d, k)
    /\ drain[d].pc = "writing"
    /\ Lands(drain[d])
    /\ drain' = [drain EXCEPT ![d].pc = "flushed"]
    /\ UNCHANGED <<storage, history>>

(* The test of the loop, of file, the record as the drain left it.         *)
Turn(d, k, file) ==
    \/ /\ file.blobs = << >>
       /\ storage'[k] = file
       /\ drain'[d] = None
    \/ /\ file.blobs # << >>
       /\ storage'[k] = DeallocateBlob(Turned(file))
       /\ drain'[d] = WriteBlob(k, Head(Turned(file).blobs))

Written(d, k) ==
    LET file == UpdateBytesWriten(storage[k], drain[d].blob)
    IN  /\ ExistsFile(k)
        /\ AtWork(d, k)
        /\ drain[d].pc \in {"flushed", "nextTick"}
        /\ \/ /\ storage'[k] = file
              /\ drain'[d] = [drain[d] EXCEPT !.pc = "completing"]
           \/ Turn(d, k, file)
        /\ history'[k] = history[k]
        /\ Rest({d}, k)

Requeued(d, k) ==
    /\ ExistsFile(k)
    /\ Finishing(d, k)
    /\ Turn(d, k, AllocateBlob(storage[k], drain[d].blob))
    /\ ~history'[k].undisturbed
    /\ history'[k].accepted = history[k].accepted
    /\ Rest({d}, k)

RecordStep(k) ==
    \/ Quiet(k)
    \/ Created(k)
    \/ \E b \in Blobs : Received(k, b)
    \/ \E d \in Drains : Started(d, k) \/ Landed(d, k) \/ Written(d, k) \/ Requeued(d, k)

(* What one turn of the loop is for the upload it is about.                *)
LEMMA LoopTurn ==
    ASSUME TypeOK, NEW d \in Drains, NEW k \in Keys, NEW file \in File, Loop(d, k, file)
    PROVE  /\ Turn(d, k, file)
           /\ \A e \in Drains : e # d => drain'[e] = drain[e]
           /\ \A j \in Keys : j # k => storage'[j] = storage[j]
           /\ drain'[d] = None \/ drain'[d].key = k
<1>1. CASE file.blobs = << >>
  BY <1>1 DEF Loop, Turn, TypeOK, StorageTypeOK
<1>2. CASE file.blobs # << >>
  BY <1>2 DEF Loop, Turn, TypeOK, StorageTypeOK, WriteBlob
<1> QED
  BY <1>1, <1>2

(* A step of a drain, for each upload that is there after it.              *)
LEMMA DrainRecordStep ==
    ASSUME TypeOK, NEW d \in Drains, DrainStep(d), ~Die, NEW k \in Keys, ExistsFile(k)'
    PROVE  RecordStep(k)
<1>1. /\ drain[d] # None
      /\ drain[d] \in Drain
      /\ drain[d].blob \in Blobs
      /\ drain[d].key \in Keys
  <2>1. drain[d] # None
    BY DEF DrainStep, BlobLands, BlobWritten, UploadFinished, LookupFails
  <2> QED
    BY <2>1 DEF TypeOK, Drain
<1>2. PICK key \in Keys, b \in Blobs : key = drain[d].key /\ b = drain[d].blob
  BY <1>1
<1>3. CASE BlobLands(d)
  <2>1. /\ drain[d].pc = "writing"
        /\ Lands(drain[d])
        /\ drain' = [drain EXCEPT ![d].pc = "flushed"]
        /\ UNCHANGED <<storage, history>>
    BY <1>3 DEF BlobLands, storageVars
  <2>2. CASE k = key
    BY <1>1, <1>2, <2>1, <2>2 DEF RecordStep, Landed, AtWork
  <2>3. CASE k # key
    <3>1. drain'[d].key = key /\ \A e \in Drains : e # d => drain'[e] = drain[e]
      BY <1>1, <1>2, <2>1 DEF TypeOK, Drain
    <3>2. Rest({}, k)
      BY <1>2, <2>3, <3>1 DEF Rest, OfKey
    <3> QED
      BY <2>1, <3>2 DEF RecordStep, Quiet, ExistsFile
  <2> QED
    BY <2>2, <2>3
<1>4. CASE BlobWritten(d)
  <2> DEFINE file == UpdateBytesWriten(storage[key], b)
  <2>1. /\ ExistsFile(key)
        /\ drain[d].pc \in {"flushed", "nextTick"}
        /\ UNCHANGED history
        /\ IF file.completed
           THEN /\ storage' = [storage EXCEPT ![key] = file]
                /\ drain' = [drain EXCEPT ![d].pc = "completing"]
           ELSE Loop(d, key, file)
    BY <1>2, <1>4 DEF BlobWritten
  <2>2. storage[key] \in File
    BY <2>1 DEF ExistsFile, TypeOK, StorageTypeOK
  <2>3. file \in File
    BY <2>2, UpdateBytesWritenType
  <2> HIDE DEF file
  <2>4. /\ \/ /\ storage'[key] = file
              /\ drain'[d] = [drain[d] EXCEPT !.pc = "completing"]
           \/ Turn(d, key, file)
        /\ \A e \in Drains : e # d => drain'[e] = drain[e]
        /\ \A j \in Keys : j # key => storage'[j] = storage[j]
        /\ drain'[d] = None \/ drain'[d].key = key
    <3>1. CASE file.completed
      BY <1>1, <1>2, <2>1, <3>1 DEF TypeOK, StorageTypeOK, Drain
    <3>2. CASE ~file.completed
      BY <2>1, <2>3, <3>2, LoopTurn
    <3> QED
      BY <3>1, <3>2
  <2>5. CASE k = key
    <3>1. Rest({d}, k)
      BY <2>4 DEF Rest
    <3> QED
      BY <1>1, <1>2, <2>1, <2>4, <2>5, <3>1 DEF RecordStep, Written, AtWork, file
  <2>6. CASE k # key
    <3>1. Rest({}, k)
      BY <1>2, <2>4, <2>6 DEF Rest, OfKey
    <3> QED
      BY <2>1, <2>4, <2>6, <3>1 DEF RecordStep, Quiet, ExistsFile
  <2> QED
    BY <2>5, <2>6
<1>5. CASE UploadFinished(d)
  <2>1. /\ storage' = [storage EXCEPT ![key] = None]
        /\ drain' = [drain EXCEPT ![d] = None]
        /\ history' = [history EXCEPT ![key] = NewHistory]
    BY <1>2, <1>5 DEF UploadFinished, DelFile
  <2>2. k # key
    BY <2>1 DEF ExistsFile, TypeOK, StorageTypeOK
  <2>3. /\ storage'[k] = storage[k]
        /\ history'[k] = history[k]
        /\ drain'[d] = None
        /\ \A e \in Drains : e # d => drain'[e] = drain[e]
    BY <2>1, <2>2 DEF TypeOK, StorageTypeOK
  <2>4. Rest({}, k)
    BY <1>2, <2>2, <2>3 DEF Rest, OfKey
  <2> QED
    BY <2>3, <2>4 DEF RecordStep, Quiet, ExistsFile
<1>6. CASE LookupFails(d)
  <2> DEFINE file == AllocateBlob(storage[key], b)
  <2>1. /\ ExistsFile(key)
        /\ drain[d].pc = "completing"
        /\ Loop(d, key, file)
        /\ Disturb({key})
    BY <1>2, <1>6 DEF LookupFails
  <2>2. storage[key] \in File
    BY <2>1 DEF ExistsFile, TypeOK, StorageTypeOK
  <2>3. file \in File
    BY <2>2, AllocateBlobType
  <2>4. /\ Turn(d, key, file)
        /\ \A e \in Drains : e # d => drain'[e] = drain[e]
        /\ \A j \in Keys : j # key => storage'[j] = storage[j]
        /\ drain'[d] = None \/ drain'[d].key = key
    <3> HIDE DEF file
    <3> QED
      BY <2>1, <2>3, LoopTurn
  <2>5. /\ ~history'[key].undisturbed
        /\ history'[key].accepted = history[key].accepted
        /\ \A j \in Keys : j # key => history'[j] = history[j]
    BY <2>1 DEF Disturb, TypeOK, History
  <2> HIDE DEF file
  <2>6. CASE k = key
    <3>1. Rest({d}, k)
      BY <2>4 DEF Rest
    <3> QED
      BY <1>1, <1>2, <2>1, <2>4, <2>5, <2>6, <3>1 DEF RecordStep, Requeued, Finishing, file
  <2>7. CASE k # key
    <3>1. Rest({}, k)
      BY <1>2, <2>4, <2>7 DEF Rest, OfKey
    <3> QED
      BY <2>4, <2>5, <2>7, <3>1 DEF RecordStep, Quiet, ExistsFile
  <2> QED
    BY <2>6, <2>7
<1> QED
  BY <1>3, <1>4, <1>5, <1>6 DEF DrainStep

(* A run of the interval, for each upload.                                 *)
LEMMA WriteBlobsRecordStep ==
    ASSUME TypeOK, WriteBlobs, NEW k \in Keys, ExistsFile(k)'
    PROVE  RecordStep(k)
<1>1. PICK D \in SUBSET {d \in Drains : drain[d] = None} :
      \E job \in Injection(D, Startable) :
         LET S == {job[d] : d \in D}
             Writer(j) == WriteBlob(j, First(j))
         IN  /\ storage' = [j \in Keys |-> IF j \in S THEN DeallocateBlob(Turned(storage[j]))
                                                      ELSE storage[j]]
             /\ drain' = [d \in Drains |-> IF d \in D THEN Writer(job[d]) ELSE drain[d]]
  BY DEF WriteBlobs
<1>2. PICK job \in Injection(D, Startable) :
         LET S == {job[d] : d \in D}
             Writer(j) == WriteBlob(j, First(j))
         IN  /\ storage' = [j \in Keys |-> IF j \in S THEN DeallocateBlob(Turned(storage[j]))
                                                      ELSE storage[j]]
             /\ drain' = [d \in Drains |-> IF d \in D THEN Writer(job[d]) ELSE drain[d]]
  BY <1>1
<1>3. /\ \A d \in D : job[d] \in Startable
      /\ \A d, e \in D : job[d] = job[e] => d = e
  BY DEF Injection, IsInjective
<1>4. UNCHANGED history
  BY DEF WriteBlobs
<1>5. /\ \A d \in Drains : d \notin D => drain'[d] = drain[d]
      /\ \A d \in D : drain[d] = None /\ drain'[d] = WriteBlob(job[d], First(job[d]))
  BY <1>2
<1>6. \A d \in D : ~OfKey(d, k) /\ drain'[d].key = job[d]
  <2>1. \A j, b : WriteBlob(j, b).key = j
    BY DEF WriteBlob
  <2> QED
    BY <1>5, <2>1 DEF OfKey
<1>7. CASE \E d \in D : job[d] = k
  <2>1. PICK d \in D : job[d] = k
    BY <1>7
  <2>2. /\ storage'[k] = DeallocateBlob(Turned(storage[k]))
        /\ k \in Startable
    BY <1>2, <1>3, <2>1
  <2>3. ExistsFile(k) /\ ~storage[k].writting /\ storage[k].blobs # << >>
    BY <2>2 DEF Startable
  <2>4. Rest({d}, k)
    BY <1>3, <1>5, <1>6, <2>1 DEF Rest, OfKey
  <2>5. Started(d, k)
    BY <1>4, <1>5, <2>1, <2>2, <2>3, <2>4 DEF Started
  <2> QED
    BY <2>5 DEF RecordStep
<1>8. CASE ~ \E d \in D : job[d] = k
  <2>1. storage'[k] = storage[k]
    BY <1>2, <1>8
  <2>2. Rest({}, k)
    BY <1>5, <1>6, <1>8 DEF Rest, OfKey
  <2> QED
    BY <1>4, <2>1, <2>2 DEF RecordStep, Quiet, ExistsFile
<1> QED
  BY <1>7, <1>8

(* Each step of the server is one of these steps for each upload.          *)
LEMMA StepOfRecord ==
    ASSUME TypeOK, [Next]_vars, NEW k \in Keys, ExistsFile(k)'
    PROVE  RecordStep(k)
<1>1. ~Die
  BY DEF Die, ExistsFile
<1>2. CASE WriteBlobs
  BY <1>2, WriteBlobsRecordStep
<1>3. ASSUME NEW d \in Drains, DrainStep(d) PROVE RecordStep(k)
  BY <1>1, <1>3, DrainRecordStep
<1>4. ASSUME UNCHANGED <<storage, drain>>, UNCHANGED history \/ \E ks : Disturb(ks)
      PROVE  RecordStep(k)
  <2>1. history'[k] = history[k] \/ (/\ ~history'[k].undisturbed
                                     /\ history'[k].accepted = history[k].accepted)
    BY <1>4 DEF Disturb, TypeOK, History
  <2> QED
    BY <1>4, <2>1 DEF RecordStep, Quiet, Rest, ExistsFile
<1>5. ASSUME NEW s \in Stream, StreamLands(s) PROVE RecordStep(k)
  BY <1>1, <1>4, <1>5 DEF StreamLands, storageVars
<1>6. ASSUME NEW r \in Requests, RequestStep(r) PROVE RecordStep(k)
  <2>1. request[r] # None => request[r].key \in Keys /\ request[r].size \in Int
    BY RequestData
  <2>2. UNCHANGED drain
    BY <1>6 DEF RequestStep, InitializeFile, DeleteFile, Access, InitializeGoesOn,
                DeleteAccess, Rm, DeleteGoesOn, Reserve
  <2>3. \/ UNCHANGED <<storage, history>>
        \/ \E j \in Keys : BeginDelete(j)
        \/ request[r] # None /\ Create(r)
        \/ UNCHANGED storage /\ \E ks : Disturb(ks)
    BY <1>6, <2>1 DEF RequestStep, InitializeFile, DeleteFile, Access, InitializeGoesOn,
                      DeleteAccess, Rm, DeleteGoesOn, Reserve, storageVars
  <2>4. ASSUME NEW j \in Keys, BeginDelete(j) PROVE RecordStep(k)
    <3>1. storage'[k] = storage[k] /\ history'[k] = history[k]
      BY <2>4 DEF BeginDelete, DelFile, ExistsFile, storageVars, TypeOK, StorageTypeOK
    <3> QED
      BY <2>2, <3>1 DEF RecordStep, Quiet, Rest, ExistsFile
  <2>5. ASSUME request[r] # None, Create(r) PROVE RecordStep(k)
    <3>1. PICK key \in Keys, size \in Int : key = request[r].key /\ size = request[r].size
      BY <2>1, <2>5
    <3>2. /\ storage' = [storage EXCEPT ![key] = NewFile(size)]
          /\ history' = [history EXCEPT ![key] =
                [NewHistory EXCEPT !.undisturbed =
                    /\ \A d \in Drains : drain[d] # None => drain[d].key # key
                    /\ \A s \in Stream : streams[s] > 0 => s.key # key]]
      BY <2>5, <3>1 DEF Create, CreateFileTemp
    <3>3. CASE k = key
      <4>1. /\ storage'[k] = NewFile(size)
            /\ history'[k].accepted = {}
            /\ history'[k].undisturbed => \A d \in Drains : drain[d] # None => drain[d].key # key
        BY <3>2, <3>3 DEF TypeOK, StorageTypeOK, NewHistory
      <4> QED
        BY <2>2, <3>3, <4>1 DEF RecordStep, Created, OfKey
    <3>4. CASE k # key
      <4>1. storage'[k] = storage[k] /\ history'[k] = history[k]
        BY <3>2, <3>4 DEF TypeOK, StorageTypeOK
      <4> QED
        BY <2>2, <4>1 DEF RecordStep, Quiet, Rest, ExistsFile
    <3> QED
      BY <3>3, <3>4
  <2> QED
    BY <1>4, <2>2, <2>3, <2>4, <2>5
<1>7. ASSUME NEW key \in Keys, NEW b \in Blobs, ReciveBlob(key, b) PROVE RecordStep(k)
  <2>1. /\ ExistsFile(key)
        /\ storage' = [storage EXCEPT ![key] = AllocateBlob(storage[key], b)]
        /\ UNCHANGED drain
    BY <1>7 DEF ReciveBlob
  <2>2. CASE k = key
    <3>1. /\ history'[k].accepted = history[k].accepted \cup Bytes(b)
          /\ history'[k].undisturbed = history[k].undisturbed
          /\ history'[k].tidy => /\ history[k].tidy
                                 /\ Bytes(b) \cap history[k].accepted = {}
                                 /\ Bytes(b) \subseteq 0 .. storage[k].size - 1
                                 /\ Writable(b)
      BY <1>7, <2>2 DEF ReciveBlob, TypeOK, History, Writable
    <3>2. storage'[k] = AllocateBlob(storage[k], b)
      BY <2>1, <2>2 DEF TypeOK, StorageTypeOK
    <3> QED
      BY <2>1, <2>2, <3>1, <3>2 DEF RecordStep, Received
  <2>3. CASE k # key
    <3>1. storage'[k] = storage[k] /\ history'[k] = history[k]
      BY <1>7, <2>1, <2>3 DEF ReciveBlob, TypeOK, StorageTypeOK
    <3> QED
      BY <2>1, <3>1 DEF RecordStep, Quiet, Rest, ExistsFile
  <2> QED
    BY <2>2, <2>3
<1>8. ASSUME NEW tested, NEW path, CloseFile(tested, path) PROVE RecordStep(k)
  <2>1. /\ history'[k] = history[k]
        /\ \/ storage'[k] = storage[k]
           \/ storage'[k] = [storage[k] EXCEPT !.completed = IsCompleted(storage[k])]
        /\ ExistsFile(k)
        /\ UNCHANGED drain
    BY <1>8, CloseFileEffect DEF ExistsFile
  <2> QED
    BY <2>1 DEF RecordStep, Quiet, Rest
<1>9. ASSUME NEW k1 \in Keys, NEW k2 \in Keys, RenameFile(k1, k2) PROVE RecordStep(k)
  BY <1>4, <1>9 DEF RenameFile, storageVars
<1>10. CASE Kill \/ Restart \/ UNCHANGED vars
  BY <1>1, <1>4, <1>10 DEF Kill, Restart, vars, storageVars
<1> QED
  BY <1>2, <1>3, <1>5, <1>6, <1>7, <1>8, <1>9, <1>10 DEF Next

-----------------------------------------------------------------------------
(* How many files are written at a time.                                   *)

(* calculateWritting and the entries a scan adds are sums.                 *)
LEMMA WrittingCountIsSum ==
    WrittingCount = SumOver(filesDirectories, {k \in Keys : ExistsFile(k) /\ storage[k].writting})
BY DEF WrittingCount, MapThenSumSet, SumOver, SumFunctionOnSet, FoldFunctionOnSet

(* A scan that starts a file was within the limit without the last one.    *)
LEMMA ScanCounts ==
    ASSUME NEW S, ScanStarts(S), S # {}
    PROVE  \E last \in S :
              WrittingCount + SumOver(filesDirectories, S \ {last}) <= FilesAtSameTime
BY DEF ScanStarts, AllowWriteMoreFiles, MapThenSumSet, SumOver, SumFunctionOnSet, FoldFunctionOnSet

(* Only the interval begins to write: whatever else happens, an undisturbed*)
(* upload that is being written was being written before.                  *)
LEMMA OnlyTheIntervalStarts ==
    ASSUME IInv, [Next]_vars, ~WriteBlobs, NEW k \in Keys,
           ExistsFile(k)', history'[k].undisturbed, storage'[k].writting
    PROVE  ExistsFile(k) /\ history[k].undisturbed /\ storage[k].writting
<1>1. TypeOK /\ Locked(k)
  BY DEF IInv
<1>2. ExistsFile(k) => storage[k] \in File
  BY <1>1 DEF ExistsFile, TypeOK, StorageTypeOK
<1>3. RecordStep(k)
  BY <1>1, StepOfRecord
<1>4. CASE Quiet(k)
  BY <1>2, <1>4 DEF Quiet, File
<1>5. CASE Created(k)
  BY <1>5 DEF Created, NewFile
<1>6. ASSUME NEW b \in Blobs, Received(k, b) PROVE ExistsFile(k) /\ history[k].undisturbed /\ storage[k].writting
  BY <1>2, <1>6, AllocateBlobType DEF Received
<1>7. ASSUME NEW d \in Drains, Landed(d, k)
      PROVE  ExistsFile(k) /\ history[k].undisturbed /\ storage[k].writting
  BY <1>7 DEF Landed, ExistsFile
<1>8. ASSUME NEW d \in Drains, Written(d, k)
      PROVE  ExistsFile(k) /\ history[k].undisturbed /\ storage[k].writting
  BY <1>1, <1>8 DEF Written, Locked
<1>9. \A d \in Drains : ~Started(d, k) /\ ~Requeued(d, k)
  BY DEF Started, Requeued
<1> QED
  BY <1>3, <1>4, <1>5, <1>6, <1>7, <1>8, <1>9 DEF RecordStep

(* The uploads of WritingLimit.                                            *)
BeingWritten == {k \in Keys : /\ ExistsFile(k)
                              /\ history[k].undisturbed
                              /\ storage[k].writting}

(* A run of the interval lets one entry more in than FILES_ATST, as each   *)
(* upload in the table has an entry of its own.                            *)
LEMMA WriteBlobsLimit ==
    ASSUME TypeOK, DirectoriesMatchStorage, Cardinality(BeingWritten) <= FilesAtSameTime + 1,
           WriteBlobs
    PROVE  Cardinality(BeingWritten') <= FilesAtSameTime + 1
<1>1. PICK D \in SUBSET {d \in Drains : drain[d] = None} :
      \E job \in Injection(D, Startable) :
         LET S == {job[d] : d \in D}
         IN  /\ ScanStarts(S)
             /\ storage' = [j \in Keys |-> IF j \in S THEN DeallocateBlob(Turned(storage[j]))
                                                      ELSE storage[j]]
  BY DEF WriteBlobs
<1>2. PICK job \in Injection(D, Startable) :
         LET S == {job[d] : d \in D}
         IN  /\ ScanStarts(S)
             /\ storage' = [j \in Keys |-> IF j \in S THEN DeallocateBlob(Turned(storage[j]))
                                                      ELSE storage[j]]
  BY <1>1
<1>3. PICK S : S = {job[d] : d \in D}
  OBVIOUS
<1>4. /\ S \subseteq Startable
      /\ ScanStarts(S)
      /\ storage' = [j \in Keys |-> IF j \in S THEN DeallocateBlob(Turned(storage[j])) ELSE storage[j]]
  BY <1>2, <1>3 DEF Injection
<1>5. UNCHANGED history
  BY DEF WriteBlobs
<1>6. PICK W : W = {k \in Keys : ExistsFile(k) /\ storage[k].writting}
  OBVIOUS
<1>7. S \subseteq Keys /\ \A k \in S : ExistsFile(k)
  BY <1>4 DEF Startable
<1>8. BeingWritten' \subseteq W \cup S /\ (S = {} => BeingWritten' = BeingWritten)
  <2>1. ASSUME NEW k \in BeingWritten' PROVE k \in W \cup S
    BY <1>4, <1>6, <2>1 DEF BeingWritten, ExistsFile
  <2>2. ASSUME S = {} PROVE storage' = storage
    BY <1>4, <2>2 DEF TypeOK, StorageTypeOK
  <2> QED
    BY <1>5, <2>1, <2>2 DEF BeingWritten, ExistsFile
<1>9. CASE S = {}
  BY <1>8, <1>9
<1>10. CASE S # {}
  <2>1. PICK last \in S :
             WrittingCount + SumOver(filesDirectories, S \ {last}) <= FilesAtSameTime
    BY <1>4, <1>10, ScanCounts
  <2>2. /\ IsFiniteSet(W) /\ IsFiniteSet(S) /\ IsFiniteSet(S \ {last})
    <3>1. W \subseteq Keys /\ S \subseteq Keys /\ S \ {last} \subseteq Keys
      BY <1>6, <1>7
    <3> QED
      BY <3>1, FS_Subset, StorageAssumption
  <2>3. \A k \in W \cup S : filesDirectories[k] \in Nat /\ filesDirectories[k] > 0
    BY <1>6, <1>7 DEF DirectoriesMatchStorage, TypeOK, StorageTypeOK
  <2>4. Cardinality(W) <= WrittingCount /\ WrittingCount \in Nat
    <3>1. /\ Cardinality(W) <= SumOver(filesDirectories, W)
          /\ SumOver(filesDirectories, W) \in Nat
      BY <2>2, <2>3, SumCountsAll, SumType
    <3> QED
      BY <1>6, <3>1, WrittingCountIsSum
  <2>5. /\ Cardinality(S \ {last}) <= SumOver(filesDirectories, S \ {last})
        /\ SumOver(filesDirectories, S \ {last}) \in Nat
    BY <2>2, <2>3, SumCountsAll, SumType
  <2>6. /\ IsFiniteSet(W \cup S)
        /\ Cardinality(W \cup S) <= Cardinality(W) + Cardinality(S)
        /\ Cardinality(S) = Cardinality(S \ {last}) + 1
    <3>1. IsFiniteSet(W \cup S) /\ IsFiniteSet(W \cap S)
      BY <2>2, FS_Union, FS_Intersection
    <3>2. Cardinality(W \cup S) = Cardinality(W) + Cardinality(S) - Cardinality(W \cap S)
      BY <2>2, FS_Union, Zenon
    <3>3. /\ Cardinality(W) \in Nat /\ Cardinality(S) \in Nat
          /\ Cardinality(W \cap S) \in Nat /\ Cardinality(S \ {last}) \in Nat
      BY <2>2, <3>1, FS_CardinalityType
    <3>4. Cardinality(S \ {last}) = Cardinality(S) - 1
      BY <2>2, FS_RemoveElement
    <3> QED
      BY <3>1, <3>2, <3>3, <3>4
  <2>7. Cardinality(BeingWritten') <= Cardinality(W \cup S)
    BY <1>8, <2>6, FS_Subset
  <2>8. /\ Cardinality(W) \in Nat /\ Cardinality(S) \in Nat /\ Cardinality(S \ {last}) \in Nat
        /\ Cardinality(W \cup S) \in Nat /\ Cardinality(BeingWritten') \in Nat
    <3>1. IsFiniteSet(BeingWritten')
      BY <1>8, <2>6, FS_Subset
    <3> QED
      BY <2>2, <2>6, <3>1, FS_CardinalityType
  <2> QED
    BY <2>1, <2>4, <2>5, <2>6, <2>7, <2>8, StorageAssumption
<1> QED
  BY <1>9, <1>10

(* Every other step lets none in.                                          *)
LEMMA LimitStep ==
    ASSUME IInv, DirectoriesMatchStorage, WritingLimit, [Next]_vars
    PROVE  WritingLimit'
<1>1. Cardinality(BeingWritten) <= FilesAtSameTime + 1
  BY DEF WritingLimit, BeingWritten
<1>2. Cardinality(BeingWritten') <= FilesAtSameTime + 1
  <2>1. CASE WriteBlobs
    BY <1>1, <2>1, WriteBlobsLimit DEF IInv
  <2>2. CASE ~WriteBlobs
    <3>1. BeingWritten' \subseteq BeingWritten
      BY <2>2, OnlyTheIntervalStarts DEF BeingWritten
    <3>2. IsFiniteSet(BeingWritten)
      <4>1. BeingWritten \subseteq Keys
        BY DEF BeingWritten
      <4> QED
        BY <4>1, FS_Subset, StorageAssumption
    <3>3. IsFiniteSet(BeingWritten') /\ Cardinality(BeingWritten') <= Cardinality(BeingWritten)
      BY <3>1, <3>2, FS_Subset
    <3>4. Cardinality(BeingWritten) \in Nat /\ Cardinality(BeingWritten') \in Nat
      BY <3>2, <3>3, FS_CardinalityType
    <3> QED
      BY <1>1, <3>3, <3>4, StorageAssumption
  <2> QED
    BY <2>1, <2>2
<1> QED
  BY <1>2 DEF WritingLimit, BeingWritten

(* For every number of keys, drains and requests, and every FILES_ATST: at *)
(* most one undisturbed upload more than the setting is written at a time. *)
THEOREM LimitOfWriting == Spec => []WritingLimit
<1>1. Init => WritingLimit
  <2> SUFFICES ASSUME Init PROVE WritingLimit
    OBVIOUS
  <2>1. BeingWritten = {}
    BY DEF Init, StorageInit, BeingWritten, ExistsFile
  <2>2. Cardinality(BeingWritten) = 0
    BY <2>1, FS_EmptySet
  <2> QED
    BY <2>2, StorageAssumption DEF WritingLimit, BeingWritten
<1>2. IInv /\ DirectoriesMatchStorage /\ WritingLimit /\ [Next]_vars => WritingLimit'
  BY LimitStep
<1> QED
  BY <1>1, <1>2, IInvHolds, DirectoriesMatch, PTL DEF Spec

-----------------------------------------------------------------------------
(* No accepted byte is lost.                                               *)

Queued(blobs, n) == \E i \in DOMAIN blobs : n \in Bytes(blobs[i])

(* A queue holds what is put into it ...                                   *)
LEMMA QueuedByAppend ==
    ASSUME NEW blobs \in Seq(Blobs), NEW b \in Blobs, NEW n
    PROVE  Queued(Append(blobs, b), n) <=> Queued(blobs, n) \/ n \in Bytes(b)
<1>1. /\ Len(Append(blobs, b)) = Len(blobs) + 1
      /\ \A i \in 1 .. Len(blobs) : Append(blobs, b)[i] = blobs[i]
      /\ Append(blobs, b)[Len(blobs) + 1] = b
      /\ Len(blobs) \in Nat
  OBVIOUS
<1>2. /\ DOMAIN blobs = 1 .. Len(blobs)
      /\ DOMAIN Append(blobs, b) = 1 .. Len(blobs) + 1
  BY <1>1
<1>3. \A i \in 1 .. Len(blobs) + 1 : i \in 1 .. Len(blobs) \/ i = Len(blobs) + 1
  BY <1>1
<1>4. Len(blobs) + 1 \in 1 .. Len(blobs) + 1 /\ 1 .. Len(blobs) \subseteq 1 .. Len(blobs) + 1
  BY <1>1
<1> QED
  BY <1>1, <1>2, <1>3, <1>4 DEF Queued

(* ... and gives away its head and nothing else.                           *)
LEMMA QueuedByTail ==
    ASSUME NEW blobs \in Seq(Blobs), blobs # << >>, NEW n
    PROVE  Queued(blobs, n) <=> n \in Bytes(Head(blobs)) \/ Queued(Tail(blobs), n)
<1>1. /\ Len(Tail(blobs)) = Len(blobs) - 1
      /\ \A i \in 1 .. Len(Tail(blobs)) : Tail(blobs)[i] = blobs[i + 1]
      /\ Head(blobs) = blobs[1]
      /\ Len(blobs) \in Nat \ {0}
      /\ Tail(blobs) \in Seq(Blobs)
  BY HeadTailProperties, EmptySeq
<1>2. /\ DOMAIN blobs = 1 .. Len(blobs)
      /\ DOMAIN Tail(blobs) = 1 .. Len(blobs) - 1
  BY <1>1
<1>3. \A i \in 1 .. Len(blobs) : i = 1 \/ (i - 1 \in 1 .. Len(blobs) - 1 /\ (i - 1) + 1 = i)
  BY <1>1
<1>4. 1 \in 1 .. Len(blobs) /\ \A i \in 1 .. Len(blobs) - 1 : i + 1 \in 1 .. Len(blobs)
  BY <1>1
<1>5. ASSUME NEW i \in DOMAIN blobs, n \in Bytes(blobs[i])
      PROVE  n \in Bytes(Head(blobs)) \/ Queued(Tail(blobs), n)
  <2>1. CASE i = 1
    BY <1>1, <1>5, <2>1
  <2>2. CASE i # 1
    <3>1. PICK j \in 1 .. Len(blobs) - 1 : j + 1 = i
      BY <1>2, <1>3, <1>5, <2>2
    <3>2. Tail(blobs)[j] = blobs[i]
      BY <1>1, <3>1
    <3> QED
      BY <1>2, <1>5, <3>1, <3>2 DEF Queued
  <2> QED
    BY <2>1, <2>2
<1>6. Queued(Tail(blobs), n) => Queued(blobs, n)
  BY <1>1, <1>2, <1>4 DEF Queued
<1>7. n \in Bytes(Head(blobs)) => Queued(blobs, n)
  BY <1>1, <1>2, <1>4 DEF Queued
<1> QED
  BY <1>5, <1>6, <1>7 DEF Queued

(* Going round a queue keeps what is in it.                                *)
LEMMA QueuedByTurned ==
    ASSUME NEW file \in File, NEW n, Queued(file.blobs, n)
    PROVE  Queued(Turned(file).blobs, n)
<1>1. PICK m \in 0 .. Len(file.blobs) :
            Turned(file).blobs = SubSeq(file.blobs, m + 1, Len(file.blobs))
                                    \o SubSeq(file.blobs, 1, m)
  BY TurnedType
<1>2. PICK q \in Seq(Blobs) : q = file.blobs
  BY DEF File
<1>3. PICK s, t \in Seq(Blobs) : s = SubSeq(q, m + 1, Len(q)) /\ t = SubSeq(q, 1, m)
  <2>1. m \in 0 .. Len(q) /\ Len(q) \in Nat
    BY <1>1, <1>2
  <2>2. SubSeq(q, m + 1, Len(q)) \in Seq(Blobs) /\ SubSeq(q, 1, m) \in Seq(Blobs)
    BY <2>1
  <2> QED
    BY <2>2, Zenon
<1>4. /\ Len(q) \in Nat /\ m \in Nat /\ m <= Len(q)
      /\ Len(s) = Len(q) - m /\ Len(t) = m
      /\ \A i \in 1 .. Len(q) - m : s[i] = q[m + i]
      /\ \A i \in 1 .. m : t[i] = q[i]
  <2>1. Len(q) \in Nat /\ m \in Nat /\ m <= Len(q)
    BY <1>1, <1>2
  <2>2. /\ Len(t) = m
        /\ \A i \in 1 .. m : t[i] = q[i]
    BY <1>3, <2>1
  <2>3. /\ Len(s) = Len(q) - m
        /\ \A i \in 1 .. Len(q) - m : s[i] = q[m + i]
    <3>1. \A i \in m + 1 .. Len(q) : q[i] \in Blobs
      BY <2>1
    <3>2. PICK p \in Int : p = m + 1
      BY <2>1
    <3>3. /\ Len(s) = IF p <= Len(q) THEN Len(q) - p + 1 ELSE 0
          /\ \A i \in 1 .. Len(q) - p + 1 : s[i] = q[p + i - 1]
      BY <1>3, <2>1, <3>1, <3>2, SubSeqProperties
    <3>4. \A i \in Int : p + i - 1 = m + i
      BY <2>1, <3>2
    <3> QED
      BY <2>1, <3>2, <3>3, <3>4
  <2> QED
    BY <2>1, <2>2, <2>3
<1>5. /\ Len(s \o t) = Len(q)
      /\ \A i \in 1 .. Len(q) - m : (s \o t)[i] = q[m + i]
      /\ \A i \in 1 .. m : (s \o t)[Len(q) - m + i] = q[i]
  <2>1. /\ Len(s \o t) = Len(q)
        /\ \A i \in 1 .. Len(q) :
              (s \o t)[i] = IF i <= Len(q) - m THEN s[i] ELSE t[i - (Len(q) - m)]
    <3>1. /\ Len(s \o t) = Len(s) + Len(t)
          /\ \A i \in 1 .. Len(s) + Len(t) :
                (s \o t)[i] = IF i <= Len(s) THEN s[i] ELSE t[i - Len(s)]
      BY ConcatProperties
    <3>2. Len(s) + Len(t) = Len(q) /\ Len(s) = Len(q) - m
      BY <1>4
    <3> QED
      BY <3>1, <3>2
  <2>2. \A i \in 1 .. Len(q) - m : i \in 1 .. Len(q) /\ i <= Len(q) - m
    BY <1>4
  <2>3. \A i \in 1 .. m : /\ Len(q) - m + i \in 1 .. Len(q)
                           /\ ~(Len(q) - m + i <= Len(q) - m)
                           /\ (Len(q) - m + i) - (Len(q) - m) = i
    BY <1>4
  <2>4. \A i \in 1 .. Len(q) - m : (s \o t)[i] = q[m + i]
    BY <1>4, <2>1, <2>2
  <2>5. ASSUME NEW i \in 1 .. m PROVE (s \o t)[Len(q) - m + i] = q[i]
    <3>1. PICK p \in 1 .. Len(q) :
                p = Len(q) - m + i /\ ~(p <= Len(q) - m) /\ p - (Len(q) - m) = i
      BY <2>3
    <3>2. (s \o t)[p] = t[p - (Len(q) - m)]
      BY <2>1, <3>1
    <3> QED
      BY <1>4, <3>1, <3>2
  <2> QED
    BY <2>1, <2>4, <2>5
<1>6. PICK i \in 1 .. Len(q) : n \in Bytes(q[i])
  BY <1>2 DEF Queued
<1>7. PICK j \in 1 .. Len(q) : (s \o t)[j] = q[i]
  <2>1. CASE i <= m
    <3>1. Len(q) - m + i \in 1 .. Len(q) /\ i \in 1 .. m
      BY <1>4, <2>1
    <3> QED
      BY <1>5, <3>1
  <2>2. CASE i > m
    <3>1. i - m \in 1 .. Len(q) - m /\ i - m \in 1 .. Len(q) /\ m + (i - m) = i
      BY <1>4, <2>2
    <3> QED
      BY <1>5, <3>1
  <2> QED
    BY <1>4, <2>1, <2>2
<1>8. j \in DOMAIN (s \o t)
  <2>1. s \o t \in Seq(Blobs)
    BY ConcatProperties
  <2> QED
    BY <1>5, <1>7, <2>1
<1> QED
  BY <1>1, <1>2, <1>3, <1>6, <1>7, <1>8 DEF Queued

(* A byte a record accounts for: counted as written, or queued.            *)
Covers(file, n) == n \in file.bytesWritten \/ Queued(file.blobs, n)

(* Byte n is with a drain.                                                 *)
Held(n, k) == \E d \in Drains : AtWork(d, k) /\ n \in Bytes(drain[d].blob)

Accounted(k) ==
    ExistsFile(k) => \A n \in history[k].accepted : Covers(storage[k], n) \/ Held(n, k)

(* What the operations on one record do with a byte.                       *)
LEMMA CoversByOperations ==
    ASSUME NEW file \in File, NEW b \in Blobs, NEW n
    PROVE  /\ Covers(AllocateBlob(file, b), n) <=> Covers(file, n) \/ n \in Bytes(b)
           /\ Covers(UpdateBytesWriten(file, b), n) <=> Covers(file, n) \/ n \in Bytes(b)
           /\ file.blobs # << >> =>
                 (Covers(file, n) => \/ Covers(DeallocateBlob(file), n)
                                     \/ n \in Bytes(Head(file.blobs)))
<1>1. file.blobs \in Seq(Blobs)
  BY DEF File
<1>2. /\ AllocateBlob(file, b).blobs = Append(file.blobs, b)
      /\ AllocateBlob(file, b).bytesWritten = file.bytesWritten
      /\ UpdateBytesWriten(file, b).blobs = file.blobs
      /\ UpdateBytesWriten(file, b).bytesWritten = file.bytesWritten \cup Bytes(b)
      /\ DeallocateBlob(file).blobs = Tail(file.blobs)
      /\ DeallocateBlob(file).bytesWritten = file.bytesWritten
  BY DEF AllocateBlob, UpdateBytesWriten, DeallocateBlob, File
<1> QED
  BY <1>1, <1>2, QueuedByAppend, QueuedByTail DEF Covers

(* One turn of the loop drops no byte of the record it is given.           *)
LEMMA TurnCovers ==
    ASSUME NEW d \in Drains, NEW k \in Keys, NEW file \in File, Turn(d, k, file),
           NEW n, Covers(file, n)
    PROVE  Covers(storage[k], n)' \/ Held(n, k)'
<1>1. CASE file.blobs = << >>
  BY <1>1 DEF Turn, Covers
<1>2. CASE file.blobs # << >>
  <2>1. /\ storage'[k] = DeallocateBlob(Turned(file))
        /\ drain'[d] = WriteBlob(k, Head(Turned(file).blobs))
        /\ Head(Turned(file).blobs) \in Blobs
    BY <1>2, DeallocateBlobType DEF Turn
  <2>2. /\ WriteBlob(k, Head(Turned(file).blobs)) \in Drain
        /\ WriteBlob(k, Head(Turned(file).blobs)).key = k
        /\ WriteBlob(k, Head(Turned(file).blobs)).blob = Head(Turned(file).blobs)
        /\ WriteBlob(k, Head(Turned(file).blobs)).pc # "completing"
    BY <2>1, WriteBlobType
  <2>3. AtWork(d, k)' /\ drain'[d].blob = Head(Turned(file).blobs)
    BY <2>1, <2>2, NobodyAssumption DEF AtWork
  <2>4. Covers(DeallocateBlob(Turned(file)), n) \/ n \in Bytes(Head(Turned(file).blobs))
    <3>1. /\ Turned(file) \in File
          /\ Turned(file).blobs # << >>
          /\ Turned(file).bytesWritten = file.bytesWritten
      BY <1>2, TurnedType
    <3>2. Covers(Turned(file), n)
      BY <3>1, QueuedByTurned DEF Covers
    <3> QED
      BY <2>1, <3>1, <3>2, CoversByOperations
  <2> QED
    BY <2>1, <2>3, <2>4 DEF Held, Covers
<1> QED
  BY <1>1, <1>2

(* What the other drains hold they go on holding.                          *)
LEMMA HeldByTheRest ==
    ASSUME NEW k \in Keys, NEW D, Rest(D, k), NEW n, Held(n, k)
    PROVE  \/ Held(n, k)'
           \/ \E d \in Drains \cap D : AtWork(d, k) /\ n \in Bytes(drain[d].blob)
<1>1. PICK d \in Drains : AtWork(d, k) /\ n \in Bytes(drain[d].blob)
  BY DEF Held
<1>2. CASE d \in D
  BY <1>1, <1>2
<1>3. CASE d \notin D
  <2>1. drain'[d] = drain[d]
    BY <1>1, <1>3 DEF Rest, OfKey, AtWork
  <2> QED
    BY <1>1, <2>1 DEF Held, AtWork
<1> QED
  BY <1>2, <1>3

(* No step loses a byte of a record that is there after it.                *)
LEMMA AccountedStep ==
    ASSUME TypeOK, [Next]_vars, NEW k \in Keys, Accounted(k)
    PROVE  Accounted(k)'
<1> SUFFICES ASSUME ExistsFile(k)', NEW n \in history'[k].accepted
             PROVE  Covers(storage[k], n)' \/ Held(n, k)'
  BY DEF Accounted
<1>1. RecordStep(k)
  BY StepOfRecord
<1>2. ExistsFile(k) => storage[k] \in File
  BY DEF ExistsFile, TypeOK, StorageTypeOK
<1>3. \A d \in Drains : drain[d] # None => drain[d].blob \in Blobs
  BY DEF TypeOK, Drain
<1>4. ASSUME UNCHANGED drain, Held(n, k) PROVE Held(n, k)'
  BY <1>4 DEF Held, AtWork
<1>5. CASE Quiet(k)
  <2>1. /\ storage'[k].bytesWritten = storage[k].bytesWritten
        /\ storage'[k].blobs = storage[k].blobs
    BY <1>2, <1>5 DEF Quiet, File
  <2>2. Covers(storage[k], n) \/ Held(n, k)
    BY <1>5 DEF Quiet, Accounted
  <2>3. Held(n, k) => Held(n, k)'
    BY <1>5, HeldByTheRest DEF Quiet
  <2> QED
    BY <2>1, <2>2, <2>3 DEF Covers
<1>6. CASE Created(k)
  BY <1>6 DEF Created
<1>7. ASSUME NEW b \in Blobs, Received(k, b) PROVE Covers(storage[k], n)' \/ Held(n, k)'
  <2>1. /\ n \in Bytes(b) \/ Covers(storage[k], n) \/ Held(n, k)
        /\ storage'[k] = AllocateBlob(storage[k], b)
        /\ UNCHANGED drain
        /\ storage[k] \in File
    BY <1>2, <1>7 DEF Received, Accounted
  <2>2. Covers(AllocateBlob(storage[k], b), n) <=> Covers(storage[k], n) \/ n \in Bytes(b)
    BY <2>1, CoversByOperations
  <2> QED
    BY <1>4, <2>1, <2>2 DEF Covers
<1>8. ASSUME NEW d \in Drains, Started(d, k) PROVE Covers(storage[k], n)' \/ Held(n, k)'
  <2>1. /\ Covers(storage[k], n) \/ Held(n, k)
        /\ storage[k] \in File
        /\ Turn(d, k, storage[k])
        /\ drain[d] = None
    BY <1>2, <1>8 DEF Started, Turn, Accounted, First
  <2>2. Held(n, k) => Held(n, k)'
    BY <1>8, <2>1, HeldByTheRest DEF Started, AtWork
  <2> QED
    BY <2>1, <2>2, TurnCovers
<1>9. ASSUME NEW d \in Drains, Landed(d, k) PROVE Covers(storage[k], n)' \/ Held(n, k)'
  <2>1. /\ ExistsFile(k)
        /\ Covers(storage[k], n) \/ Held(n, k)
        /\ UNCHANGED storage
    BY <1>9 DEF Landed, ExistsFile, Accounted
  <2>2. ASSUME NEW e \in Drains, AtWork(e, k), n \in Bytes(drain[e].blob)
        PROVE  Held(n, k)'
    <3>1. /\ drain[e] # None /\ drain[e] \in Drain
          /\ drain[d] # None /\ drain[d] \in Drain
      BY <1>9, <2>2 DEF Landed, AtWork, TypeOK
    <3>2. drain' = [drain EXCEPT ![d].pc = "flushed"]
      BY <1>9 DEF Landed
    <3>3. /\ drain'[e].key = drain[e].key
          /\ drain'[e].blob = drain[e].blob
          /\ drain'[e].pc # "completing"
          /\ drain'[e] \in Drain
      BY <2>2, <3>1, <3>2 DEF TypeOK, Drain, AtWork
    <3>4. AtWork(e, k)'
      BY <2>2, <3>3, NobodyAssumption DEF AtWork
    <3> QED
      BY <2>2, <3>3, <3>4 DEF Held
  <2> QED
    BY <2>1, <2>2 DEF Held, Covers
<1>10. ASSUME NEW d \in Drains, Written(d, k) PROVE Covers(storage[k], n)' \/ Held(n, k)'
  <2> DEFINE file == UpdateBytesWriten(storage[k], drain[d].blob)
  <2>1. /\ storage[k] \in File
        /\ drain[d].blob \in Blobs
        /\ Covers(storage[k], n) \/ Held(n, k)
        /\ storage'[k] = file \/ Turn(d, k, file)
        /\ Rest({d}, k)
    BY <1>2, <1>3, <1>10 DEF Written, AtWork, Accounted
  <2>2. file \in File /\ (Covers(file, n) <=> Covers(storage[k], n) \/ n \in Bytes(drain[d].blob))
    BY <2>1, CoversByOperations, UpdateBytesWritenType
  <2> HIDE DEF file
  <2>3. CASE Covers(file, n)
    BY <2>1, <2>2, <2>3, TurnCovers DEF Covers
  <2>4. CASE ~Covers(file, n)
    BY <2>1, <2>2, <2>4, HeldByTheRest
  <2> QED
    BY <2>3, <2>4
<1>11. ASSUME NEW d \in Drains, Requeued(d, k) PROVE Covers(storage[k], n)' \/ Held(n, k)'
  <2> DEFINE file == AllocateBlob(storage[k], drain[d].blob)
  <2>1. /\ storage[k] \in File
        /\ drain[d].blob \in Blobs
        /\ Covers(storage[k], n) \/ Held(n, k)
        /\ Turn(d, k, file)
        /\ Rest({d}, k)
        /\ ~AtWork(d, k)
    BY <1>2, <1>3, <1>11 DEF Requeued, Finishing, AtWork, Accounted
  <2>2. file \in File /\ (Covers(storage[k], n) => Covers(file, n))
    BY <2>1, CoversByOperations, AllocateBlobType
  <2> HIDE DEF file
  <2>3. Held(n, k) => Held(n, k)'
    BY <2>1, HeldByTheRest
  <2> QED
    BY <2>1, <2>2, <2>3, TurnCovers
<1> QED
  BY <1>1, <1>5, <1>6, <1>7, <1>8, <1>9, <1>10, <1>11 DEF RecordStep

(* What AcceptedBytesAccounted says in sets.                               *)
LEMMA AccountedInSets == (\A k \in Keys : Accounted(k)) => AcceptedBytesAccounted
<1> SUFFICES ASSUME NEW k \in Keys, Accounted(k), ExistsFile(k), NEW n \in history[k].accepted
             PROVE  n \in storage[k].bytesWritten
                     \cup (UNION {Bytes(storage[k].blobs[i]) : i \in DOMAIN storage[k].blobs})
                     \cup (UNION {Bytes(drain[d].blob) : d \in Writers(k)})
  BY DEF AcceptedBytesAccounted
<1>1. Covers(storage[k], n) \/ Held(n, k)
  BY DEF Accounted
<1>2. Queued(storage[k].blobs, n) =>
        n \in UNION {Bytes(storage[k].blobs[i]) : i \in DOMAIN storage[k].blobs}
  BY Zenon DEF Queued
<1>3. Held(n, k) => n \in UNION {Bytes(drain[d].blob) : d \in Writers(k)}
  <2> SUFFICES ASSUME NEW d \in Drains, AtWork(d, k), n \in Bytes(drain[d].blob)
               PROVE  n \in UNION {Bytes(drain[e].blob) : e \in Writers(k)}
    BY Zenon DEF Held
  <2>1. d \in Writers(k)
    BY DEF Writers, AtWork
  <2> QED
    BY <2>1, Zenon
<1> QED
  BY <1>1, <1>2, <1>3 DEF Covers

(* For all constants, whatever disturbs an upload, and also after a failed *)
(* lookup queued a blob again: a byte answered 'Blob Recived' is queued,   *)
(* with a drain, or counted as written as long as the record is there.     *)
THEOREM NoAcceptedByteLost == Spec => []AcceptedBytesAccounted
<1> DEFINE AInv == \A k \in Keys : Accounted(k)
<1>1. Init => AInv
  BY DEF Init, StorageInit, Accounted, ExistsFile
<1>2. TypeOK /\ AInv /\ [Next]_vars => AInv'
  BY AccountedStep
<1>3. AInv => AcceptedBytesAccounted
  BY AccountedInSets
<1>4. IInv => TypeOK
  BY DEF IInv
<1> QED
  BY <1>1, <1>2, <1>3, <1>4, IInvHolds, PTL DEF Spec

-----------------------------------------------------------------------------
(* A completed upload is whole.                                            *)

(* A record of accepted bytes A, of a client that sends each byte once:    *)
(* the written bytes and the queued blobs share no byte, and saved, a sum  *)
(* of lengths, is the number of the written bytes.                         *)
Neat(file, A) ==
    /\ file.bytesWritten \subseteq A
    /\ \A i \in DOMAIN file.blobs : /\ Writable(file.blobs[i])
                                    /\ Bytes(file.blobs[i]) \subseteq A
                                    /\ Bytes(file.blobs[i]) \cap file.bytesWritten = {}
    /\ \A i, j \in DOMAIN file.blobs :
          i # j => Bytes(file.blobs[i]) \cap Bytes(file.blobs[j]) = {}
    /\ file.saved = Cardinality(file.bytesWritten)

(* Blob b was taken from that record.                                      *)
Apart(file, A, b) ==
    /\ Bytes(b) \subseteq A
    /\ Bytes(b) \cap file.bytesWritten = {}
    /\ \A i \in DOMAIN file.blobs : Bytes(file.blobs[i]) \cap Bytes(b) = {}

Exact(k) ==
    ExistsFile(k) /\ history[k].undisturbed /\ history[k].tidy =>
        /\ history[k].accepted \subseteq 0 .. storage[k].size - 1
        /\ Neat(storage[k], history[k].accepted)
        /\ \A d \in Drains :
              AtWork(d, k) => Apart(storage[k], history[k].accepted, drain[d].blob)
        /\ storage[k].completed => storage[k].saved >= storage[k].size

(* How many numbers there are from nought to q.                            *)
LEMMA UpTo ==
    ASSUME NEW q \in Int
    PROVE  IsFiniteSet(0 .. q) /\ Cardinality(0 .. q) = IF 0 > q THEN 0 ELSE q + 1
<1>1. /\ IsFiniteSet(0 .. q)
      /\ Cardinality(0 .. q) = IF 0 > q THEN 0 ELSE q - 0 + 1
  BY FS_Interval
<1> QED
  BY <1>1

(* A blob has as many bytes as it says.                                    *)
LEMMA BytesCount ==
    ASSUME NEW b \in Blobs
    PROVE  IsFiniteSet(Bytes(b)) /\ Cardinality(Bytes(b)) = b.len
<1>1. b.pos \in Int /\ b.len \in Nat
  BY StorageAssumption DEF Blob
<1>2. PICK p \in Int, q \in Int : p = b.pos /\ q = b.pos + b.len - 1
  BY <1>1
<1>3. IsFiniteSet(p .. q) /\ Cardinality(p .. q) = IF p > q THEN 0 ELSE q - p + 1
  BY FS_Interval
<1>4. Bytes(b) = p .. q
  BY <1>2 DEF Bytes
<1>5. IsFiniteSet(Bytes(b)) /\ Cardinality(Bytes(b)) = IF p > q THEN 0 ELSE q - p + 1
  BY <1>3, <1>4, Zenon
<1> QED
  BY <1>1, <1>2, <1>5

(* A new blob of new bytes keeps a record neat, and apart from the blobs   *)
(* it was apart from.                                                      *)
LEMMA NeatAllocate ==
    ASSUME NEW file \in File, NEW b \in Blobs, NEW A, Neat(file, A), Bytes(b) \cap A = {},
           Writable(b)
    PROVE  /\ Neat(AllocateBlob(file, b), A \cup Bytes(b))
           /\ \A c : Apart(file, A, c) => Apart(AllocateBlob(file, b), A \cup Bytes(b), c)
<1>1. /\ AllocateBlob(file, b).blobs = Append(file.blobs, b)
      /\ AllocateBlob(file, b).bytesWritten = file.bytesWritten
      /\ AllocateBlob(file, b).saved = file.saved
      /\ file.blobs \in Seq(Blobs)
  BY DEF AllocateBlob, File
<1>2. PICK blobs \in Seq(Blobs) : blobs = file.blobs
  BY <1>1
<1>3. /\ Len(Append(blobs, b)) = Len(blobs) + 1
      /\ \A i \in 1 .. Len(blobs) : Append(blobs, b)[i] = blobs[i]
      /\ Append(blobs, b)[Len(blobs) + 1] = b
      /\ Len(blobs) \in Nat
  OBVIOUS
<1>4. /\ DOMAIN blobs = 1 .. Len(blobs)
      /\ DOMAIN Append(blobs, b) = 1 .. Len(blobs) + 1
  BY <1>3
<1>5. \A i \in DOMAIN Append(blobs, b) :
         \/ i \in DOMAIN blobs /\ Append(blobs, b)[i] = blobs[i]
         \/ i = Len(blobs) + 1 /\ Append(blobs, b)[i] = b
  BY <1>3, <1>4
<1>6. Neat(AllocateBlob(file, b), A \cup Bytes(b))
  <2>1. \A i \in DOMAIN Append(blobs, b) :
           /\ Writable(Append(blobs, b)[i])
           /\ Bytes(Append(blobs, b)[i]) \subseteq A \cup Bytes(b)
           /\ Bytes(Append(blobs, b)[i]) \cap file.bytesWritten = {}
    BY <1>2, <1>5 DEF Neat
  <2>2. ASSUME NEW i \in DOMAIN Append(blobs, b), NEW j \in DOMAIN Append(blobs, b), i # j
        PROVE  Bytes(Append(blobs, b)[i]) \cap Bytes(Append(blobs, b)[j]) = {}
    <3>1. CASE i \in DOMAIN blobs /\ j \in DOMAIN blobs
      <4>1. Append(blobs, b)[i] = blobs[i] /\ Append(blobs, b)[j] = blobs[j]
        BY <1>3, <1>4, <3>1
      <4>2. Bytes(blobs[i]) \cap Bytes(blobs[j]) = {}
        BY <1>2, <2>2, <3>1 DEF Neat
      <4> QED
        BY <4>1, <4>2
    <3>2. CASE i \in DOMAIN blobs /\ j \notin DOMAIN blobs
      <4>1. Append(blobs, b)[i] = blobs[i] /\ Append(blobs, b)[j] = b
        BY <1>3, <1>4, <1>5, <3>2
      <4>2. Bytes(blobs[i]) \subseteq A
        BY <1>2, <3>2 DEF Neat
      <4> QED
        BY <4>1, <4>2
    <3>3. CASE i \notin DOMAIN blobs
      <4>1. j \in DOMAIN blobs /\ Append(blobs, b)[i] = b
        BY <1>5, <2>2, <3>3
      <4>2. Append(blobs, b)[j] = blobs[j]
        BY <1>3, <1>4, <4>1
      <4>3. Bytes(blobs[j]) \subseteq A
        BY <1>2, <4>1 DEF Neat
      <4> QED
        BY <4>1, <4>2, <4>3
    <3> QED
      BY <3>1, <3>2, <3>3
  <2>3. /\ file.bytesWritten \subseteq A \cup Bytes(b)
        /\ file.saved = Cardinality(file.bytesWritten)
    BY DEF Neat
  <2>4. AllocateBlob(file, b).blobs = Append(blobs, b)
    BY <1>1, <1>2
  <2> QED
    BY <1>1, <2>1, <2>2, <2>3, <2>4, Zenon DEF Neat
<1>7. ASSUME NEW c, Apart(file, A, c)
      PROVE  Apart(AllocateBlob(file, b), A \cup Bytes(b), c)
  BY <1>1, <1>2, <1>5, <1>7 DEF Apart
<1> QED
  BY <1>6, <1>7

(* Taking the oldest blob keeps a record neat, and apart from that blob.   *)
LEMMA NeatDeallocate ==
    ASSUME NEW file \in File, file.blobs # << >>, NEW A, Neat(file, A)
    PROVE  /\ Neat(DeallocateBlob(file), A)
           /\ Apart(DeallocateBlob(file), A, Head(file.blobs))
<1>1. /\ DeallocateBlob(file).blobs = Tail(file.blobs)
      /\ DeallocateBlob(file).bytesWritten = file.bytesWritten
      /\ DeallocateBlob(file).saved = file.saved
      /\ file.blobs \in Seq(Blobs)
  BY DEF DeallocateBlob, File
<1>2. PICK blobs \in Seq(Blobs) : blobs = file.blobs /\ blobs # << >>
  BY <1>1
<1>3. /\ Len(Tail(blobs)) = Len(blobs) - 1
      /\ \A i \in 1 .. Len(Tail(blobs)) : Tail(blobs)[i] = blobs[i + 1]
      /\ Head(blobs) = blobs[1]
      /\ Len(blobs) \in Nat \ {0}
      /\ Tail(blobs) \in Seq(Blobs)
  BY <1>2, HeadTailProperties, EmptySeq
<1>4. /\ DOMAIN blobs = 1 .. Len(blobs)
      /\ DOMAIN Tail(blobs) = 1 .. Len(blobs) - 1
      /\ 1 \in DOMAIN blobs
  BY <1>3
<1>5. \A i \in DOMAIN Tail(blobs) :
         /\ i + 1 \in DOMAIN blobs
         /\ i + 1 # 1
         /\ Tail(blobs)[i] = blobs[i + 1]
  BY <1>3, <1>4
<1>6. \A i, j \in DOMAIN Tail(blobs) : i # j => i + 1 # j + 1
  BY <1>3, <1>4
<1>7. Neat(DeallocateBlob(file), A)
  <2>1. \A i \in DOMAIN Tail(blobs) : /\ Writable(Tail(blobs)[i])
                                      /\ Bytes(Tail(blobs)[i]) \subseteq A
                                      /\ Bytes(Tail(blobs)[i]) \cap file.bytesWritten = {}
    BY <1>2, <1>5 DEF Neat
  <2>2. \A i, j \in DOMAIN Tail(blobs) :
           i # j => Bytes(Tail(blobs)[i]) \cap Bytes(Tail(blobs)[j]) = {}
    <3> SUFFICES ASSUME NEW i \in DOMAIN Tail(blobs), NEW j \in DOMAIN Tail(blobs), i # j
                 PROVE  Bytes(Tail(blobs)[i]) \cap Bytes(Tail(blobs)[j]) = {}
      OBVIOUS
    <3>1. PICK p \in DOMAIN blobs : p = i + 1 /\ Tail(blobs)[i] = blobs[p]
      BY <1>5
    <3>2. PICK q \in DOMAIN blobs : q = j + 1 /\ Tail(blobs)[j] = blobs[q]
      BY <1>5
    <3>3. p # q
      BY <1>6, <3>1, <3>2
    <3> QED
      BY <1>2, <3>1, <3>2, <3>3 DEF Neat
  <2> QED
    BY <1>1, <1>2, <2>1, <2>2 DEF Neat
<1>8. Apart(DeallocateBlob(file), A, Head(file.blobs))
  <2>1. \A i \in DOMAIN Tail(blobs) : Bytes(Tail(blobs)[i]) \cap Bytes(blobs[1]) = {}
    BY <1>2, <1>4, <1>5 DEF Neat
  <2>2. /\ Bytes(blobs[1]) \subseteq A
        /\ Bytes(blobs[1]) \cap file.bytesWritten = {}
    BY <1>2, <1>4 DEF Neat
  <2> QED
    BY <1>1, <1>2, <1>3, <2>1, <2>2 DEF Apart
<1> QED
  BY <1>7, <1>8

(* Counting a blob that is apart from the record keeps it neat: the bytes  *)
(* written grow by the blob's length.                                      *)
LEMMA NeatUpdate ==
    ASSUME NEW file \in File, NEW b \in Blobs, NEW A, IsFiniteSet(A),
           Neat(file, A), Apart(file, A, b)
    PROVE  Neat(UpdateBytesWriten(file, b), A)
<1>1. /\ UpdateBytesWriten(file, b).blobs = file.blobs
      /\ UpdateBytesWriten(file, b).bytesWritten = file.bytesWritten \cup Bytes(b)
      /\ UpdateBytesWriten(file, b).saved = file.saved + b.len
  BY DEF UpdateBytesWriten, File
<1>2. PICK S : S = file.bytesWritten
  OBVIOUS
<1>3. PICK T : T = Bytes(b)
  OBVIOUS
<1>4. /\ IsFiniteSet(S) /\ IsFiniteSet(T)
      /\ S \cap T = {}
      /\ Cardinality(T) = b.len
      /\ Cardinality(S) = file.saved
  BY <1>2, <1>3, BytesCount, FS_Subset DEF Neat, Apart
<1>5. Cardinality(S \cup T) = Cardinality(S) + Cardinality(T) - Cardinality(S \cap T)
  BY <1>4, FS_Union, Zenon
<1>6. Cardinality(S \cap T) = 0 /\ Cardinality(S) \in Nat /\ Cardinality(T) \in Nat
  BY <1>4, FS_EmptySet, FS_CardinalityType
<1>7. Cardinality(S \cup T) = file.saved + b.len
  BY <1>4, <1>5, <1>6
<1>8. /\ file.bytesWritten \cup Bytes(b) \subseteq A
      /\ \A i \in DOMAIN file.blobs :
            /\ Writable(file.blobs[i])
            /\ Bytes(file.blobs[i]) \subseteq A
            /\ Bytes(file.blobs[i]) \cap (file.bytesWritten \cup Bytes(b)) = {}
      /\ \A i, j \in DOMAIN file.blobs :
            i # j => Bytes(file.blobs[i]) \cap Bytes(file.blobs[j]) = {}
  BY DEF Neat, Apart
<1> QED
  BY <1>1, <1>2, <1>3, <1>7, <1>8 DEF Neat

(* A neat record's queue is taken as it stands.                            *)
LEMMA NeatTurned ==
    ASSUME NEW file \in File, NEW A, Neat(file, A)
    PROVE  /\ Turned(file) \in File
           /\ Turned(file).blobs = file.blobs
           /\ Turned(file).size = file.size
           /\ Turned(file).saved = file.saved
           /\ Turned(file).completed = file.completed
           /\ Neat(Turned(file), A)
<1>1. \A i \in DOMAIN file.blobs : Writable(file.blobs[i])
  BY DEF Neat
<1>2. /\ Turned(file) \in File
      /\ Turned(file).blobs = file.blobs
      /\ Turned(file).saved = file.saved
      /\ Turned(file).size = file.size
      /\ Turned(file).completed = file.completed
      /\ Turned(file).bytesWritten = file.bytesWritten
  BY <1>1, TurnedType, TurnedWritable
<1> QED
  BY <1>2 DEF Neat

(* One turn of the loop keeps a record neat.                               *)
LEMMA TurnNeat ==
    ASSUME NEW d \in Drains, NEW k \in Keys, NEW file \in File, Turn(d, k, file),
           NEW A, Neat(file, A)
    PROVE  /\ Neat(storage'[k], A)
           /\ AtWork(d, k)' => Apart(storage'[k], A, drain'[d].blob)
           /\ storage'[k].size = file.size
           /\ storage'[k].saved = file.saved
           /\ storage'[k].completed = file.completed
<1>1. CASE file.blobs = << >>
  BY <1>1 DEF Turn, AtWork
<1>2. CASE file.blobs # << >>
  <2>1. /\ storage'[k] = DeallocateBlob(Turned(file))
        /\ drain'[d] = WriteBlob(k, Head(Turned(file).blobs))
    BY <1>2 DEF Turn
  <2>2. drain'[d].blob = Head(Turned(file).blobs)
    BY <1>2, <2>1, DeallocateBlobType, WriteBlobType
  <2>3. PICK turned \in File : /\ turned = Turned(file)
                               /\ turned.blobs # << >>
                               /\ turned.size = file.size
                               /\ turned.saved = file.saved
                               /\ turned.completed = file.completed
                               /\ Neat(turned, A)
    BY <1>2, NeatTurned
  <2>4. /\ DeallocateBlob(turned).size = file.size
        /\ DeallocateBlob(turned).saved = file.saved
        /\ DeallocateBlob(turned).completed = file.completed
    BY <2>3 DEF DeallocateBlob, File
  <2> QED
    BY <2>1, <2>2, <2>3, <2>4, NeatDeallocate
<1> QED
  BY <1>1, <1>2

(* A drain that is at work after a step and did not take it was at work.   *)
LEMMA AtWorkBefore ==
    ASSUME NEW k \in Keys, NEW D, Rest(D, k), NEW d \in Drains \ D, AtWork(d, k)'
    PROVE  AtWork(d, k) /\ drain'[d] = drain[d]
<1>1. drain'[d] = drain[d]
  BY DEF Rest, OfKey, AtWork
<1> QED
  BY <1>1 DEF AtWork

(* Every step keeps the records of such clients exact.                     *)
LEMMA ExactStep ==
    ASSUME IInv, [Next]_vars, NEW k \in Keys, Exact(k)
    PROVE  Exact(k)'
<1> SUFFICES ASSUME ExistsFile(k)', history'[k].undisturbed, history'[k].tidy
             PROVE  Exact(k)'
  BY DEF Exact
<1> DEFINE A == history[k].accepted
           file == storage[k]
<1>1. TypeOK /\ Locked(k)
  BY DEF IInv
<1>2. RecordStep(k)
  BY <1>1, StepOfRecord
<1>3. ExistsFile(k) => storage[k] \in File
  BY <1>1 DEF ExistsFile, TypeOK, StorageTypeOK
<1>4. \A d \in Drains : drain[d] # None => drain[d].blob \in Blobs
  BY <1>1 DEF TypeOK, Drain
<1>5. ASSUME ExistsFile(k), history[k].undisturbed, history[k].tidy
      PROVE  /\ A \subseteq 0 .. file.size - 1
             /\ Neat(file, A)
             /\ \A d \in Drains : AtWork(d, k) => Apart(file, A, drain[d].blob)
             /\ file.completed => file.saved >= file.size
             /\ file \in File
             /\ IsFiniteSet(A)
  <2>1. /\ A \subseteq 0 .. file.size - 1
        /\ Neat(file, A)
        /\ \A d \in Drains : AtWork(d, k) => Apart(file, A, drain[d].blob)
        /\ file.completed => file.saved >= file.size
        /\ file \in File
    BY <1>3, <1>5 DEF Exact
  <2>2. IsFiniteSet(0 .. file.size - 1)
    <3>1. PICK q \in Int : q = file.size - 1
      BY <2>1 DEF File
    <3>2. IsFiniteSet(0 .. q)
      BY UpTo
    <3> QED
      BY <3>1, <3>2
  <2> QED
    BY <2>1, <2>2, FS_Subset
<1> HIDE DEF A, file
<1>6. CASE Quiet(k)
  <2>1. /\ ExistsFile(k) /\ history'[k] = history[k]
        /\ history[k].undisturbed /\ history[k].tidy
        /\ Rest({}, k)
    BY <1>6 DEF Quiet
  <2>2. /\ storage'[k].bytesWritten = file.bytesWritten
        /\ storage'[k].blobs = file.blobs
        /\ storage'[k].saved = file.saved
        /\ storage'[k].size = file.size
        /\ storage'[k].completed => file.completed \/ file.saved >= file.size
    BY <1>5, <1>6, <2>1 DEF Quiet, IsCompleted, file, File
  <2>3. \A c : Apart(file, A, c) => Apart(storage'[k], A, c)
    BY <2>2 DEF Apart
  <2>4. Neat(storage'[k], A)
    BY <1>5, <2>1, <2>2 DEF Neat
  <2>5. \A d \in Drains : AtWork(d, k)' => Apart(storage'[k], A, drain'[d].blob)
    BY <1>5, <2>1, <2>3, AtWorkBefore
  <2> QED
    BY <1>5, <2>1, <2>2, <2>4, <2>5 DEF Exact, A
<1>7. CASE Created(k)
  <2>1. PICK size \in Int : storage'[k] = NewFile(size)
    BY <1>7 DEF Created
  <2>2. history'[k].accepted = {} /\ \A d \in Drains : ~AtWork(d, k)'
    BY <1>7 DEF Created, OfKey, AtWork
  <2>3. Neat(storage'[k], {})
    <3>1. /\ NewFile(size).bytesWritten = {}
          /\ NewFile(size).saved = 0
          /\ DOMAIN NewFile(size).blobs = {}
      BY EmptySeq DEF NewFile
    <3> QED
      BY <2>1, <3>1, FS_EmptySet DEF Neat
  <2>4. ~storage'[k].completed
    BY <2>1 DEF NewFile
  <2> QED
    BY <2>2, <2>3, <2>4 DEF Exact
<1>8. ASSUME NEW b \in Blobs, Received(k, b) PROVE Exact(k)'
  <2>1. /\ ExistsFile(k) /\ history[k].undisturbed /\ history[k].tidy
        /\ Bytes(b) \cap A = {} /\ Writable(b)
        /\ Bytes(b) \subseteq 0 .. file.size - 1
        /\ storage'[k] = AllocateBlob(file, b)
        /\ history'[k].accepted = A \cup Bytes(b)
        /\ UNCHANGED drain
    BY <1>8 DEF Received, A, file
  <2>2. /\ Neat(storage'[k], A \cup Bytes(b))
        /\ \A c : Apart(file, A, c) => Apart(storage'[k], A \cup Bytes(b), c)
    BY <1>5, <2>1, NeatAllocate
  <2>3. /\ storage'[k].size = file.size
        /\ storage'[k].saved = file.saved
        /\ storage'[k].completed = file.completed
    BY <1>5, <2>1 DEF AllocateBlob, File
  <2>4. \A d \in Drains : AtWork(d, k)' => Apart(storage'[k], A \cup Bytes(b), drain'[d].blob)
    BY <1>5, <2>1, <2>2 DEF AtWork
  <2>5. A \cup Bytes(b) \subseteq 0 .. storage'[k].size - 1
    BY <1>5, <2>1, <2>3
  <2> QED
    BY <1>5, <2>1, <2>2, <2>3, <2>4, <2>5 DEF Exact
<1>9. ASSUME NEW d \in Drains, Started(d, k) PROVE Exact(k)'
  <2>1. /\ ExistsFile(k) /\ history'[k] = history[k]
        /\ history[k].undisturbed /\ history[k].tidy
        /\ Turn(d, k, file)
        /\ Rest({d}, k)
        /\ ~file.writting
    BY <1>9 DEF Started, Turn, file, First
  <2>2. \A e \in Drains : ~AtWork(e, k)
    BY <1>1, <2>1 DEF Locked, file
  <2>3. \A e \in Drains : AtWork(e, k)' => e = d
    BY <2>1, <2>2, AtWorkBefore
  <2> QED
    BY <1>5, <2>1, <2>3, TurnNeat DEF Exact, A
<1>10. ASSUME NEW d \in Drains, Landed(d, k) PROVE Exact(k)'
  <2>1. /\ ExistsFile(k) /\ UNCHANGED <<storage, history>>
        /\ history[k].undisturbed /\ history[k].tidy
        /\ drain' = [drain EXCEPT ![d].pc = "flushed"]
        /\ AtWork(d, k)
    BY <1>10 DEF Landed, ExistsFile
  <2>2. \A e \in Drains : AtWork(e, k)' => AtWork(e, k) /\ drain'[e].blob = drain[e].blob
    <3>1. drain[d] \in Drain
      BY <1>1, <2>1 DEF AtWork, TypeOK
    <3> QED
      BY <1>1, <2>1, <3>1 DEF AtWork, TypeOK, Drain
  <2>3. \A e \in Drains : AtWork(e, k)' => Apart(storage'[k], A, drain'[e].blob)
    BY <1>5, <2>1, <2>2 DEF file
  <2> QED
    BY <1>5, <2>1, <2>3 DEF Exact, A, file
<1>11. ASSUME NEW d \in Drains, Written(d, k) PROVE Exact(k)'
  <2> DEFINE new == UpdateBytesWriten(file, drain[d].blob)
  <2>1. /\ ExistsFile(k) /\ history'[k] = history[k]
        /\ history[k].undisturbed /\ history[k].tidy
        /\ AtWork(d, k)
        /\ drain[d].blob \in Blobs
        /\ \/ storage'[k] = new /\ drain'[d] = [drain[d] EXCEPT !.pc = "completing"]
           \/ Turn(d, k, new)
        /\ Rest({d}, k)
    BY <1>4, <1>11 DEF Written, AtWork, file
  <2>2. \A e \in Drains : AtWork(e, k)' => e = d
    BY <1>1, <2>1, AtWorkBefore DEF Locked
  <2>3. new \in File /\ Neat(new, A)
    BY <1>5, <2>1, NeatUpdate, UpdateBytesWritenType
  <2>4. /\ new.size = file.size
        /\ new.completed => new.saved >= new.size
    BY <1>5, <2>1, UpdateBytesWritenType DEF IsCompleted
  <2> HIDE DEF new
  <2>5. CASE storage'[k] = new /\ drain'[d] = [drain[d] EXCEPT !.pc = "completing"]
    <3>1. ~AtWork(d, k)'
      <4>1. drain[d] \in Drain
        BY <1>1, <2>1 DEF AtWork, TypeOK
      <4> QED
        BY <2>5, <4>1 DEF AtWork, Drain
    <3> QED
      BY <1>5, <2>1, <2>2, <2>3, <2>4, <2>5, <3>1 DEF Exact, A
  <2>6. CASE Turn(d, k, new)
    <3>1. /\ Neat(storage'[k], A)
          /\ AtWork(d, k)' => Apart(storage'[k], A, drain'[d].blob)
          /\ storage'[k].size = new.size
          /\ storage'[k].saved = new.saved
          /\ storage'[k].completed = new.completed
      BY <2>3, <2>6, TurnNeat
    <3> QED
      BY <1>5, <2>1, <2>2, <2>4, <3>1 DEF Exact, A
  <2> QED
    BY <2>1, <2>5, <2>6
<1>12. \A d \in Drains : ~Requeued(d, k)
  BY DEF Requeued
<1> QED
  BY <1>2, <1>6, <1>7, <1>8, <1>9, <1>10, <1>11, <1>12 DEF RecordStep

(* A neat record whose sum of lengths has reached the size holds each byte.*)
LEMMA ExactIsWhole == IInv /\ (\A k \in Keys : Exact(k)) => CompletedUploadIsWhole
<1> SUFFICES ASSUME IInv, NEW k \in Keys, Exact(k), ExistsFile(k), history[k].undisturbed,
                    history[k].tidy, storage[k].completed
             PROVE  storage[k].bytesWritten = 0 .. storage[k].size - 1
  BY DEF CompletedUploadIsWhole
<1>1. storage[k] \in File
  BY DEF IInv, ExistsFile, TypeOK, StorageTypeOK
<1>2. PICK size \in Int : size = storage[k].size
  BY <1>1 DEF File
<1>3. PICK S : S = storage[k].bytesWritten
  OBVIOUS
<1>4. /\ S \subseteq 0 .. size - 1
      /\ Cardinality(S) >= size
  BY <1>2, <1>3 DEF Exact, Neat
<1>5. /\ IsFiniteSet(0 .. size - 1)
      /\ Cardinality(0 .. size - 1) = IF size < 0 THEN 0 ELSE size
  <2>1. PICK q \in Int : q = size - 1
    OBVIOUS
  <2>2. IsFiniteSet(0 .. q) /\ Cardinality(0 .. q) = IF 0 > q THEN 0 ELSE q + 1
    BY UpTo
  <2> QED
    BY <2>1, <2>2
<1>6. /\ IsFiniteSet(S)
      /\ Cardinality(S) <= Cardinality(0 .. size - 1)
      /\ Cardinality(0 .. size - 1) = Cardinality(S) => 0 .. size - 1 = S
  BY <1>4, <1>5, FS_Subset
<1>7. Cardinality(S) \in Nat
  BY <1>6, FS_CardinalityType
<1> QED
  BY <1>2, <1>3, <1>4, <1>5, <1>6, <1>7

(* For all constants: if a client sends each byte once and inside the      *)
(* announced size, and nothing disturbs the upload, then isCompleted,      *)
(* which compares sums of lengths, is right: every byte was written.       *)
THEOREM CompletedIsWhole == Spec => []CompletedUploadIsWhole
<1> DEFINE EInv == \A k \in Keys : Exact(k)
<1>1. Init => EInv
  BY DEF Init, StorageInit, Exact, ExistsFile
<1>2. IInv /\ EInv /\ [Next]_vars => EInv'
  BY ExactStep
<1>3. IInv /\ EInv => CompletedUploadIsWhole
  BY ExactIsWhole
<1> QED
  BY <1>1, <1>2, <1>3, IInvHolds, PTL DEF Spec

-----------------------------------------------------------------------------
(* What is counted as written is in the file.                              *)

(* Every blob fills the buffer of the stream, so that the drains wait for  *)
(* the disk with each of them.                                             *)
NoSmallBlob == \A b \in Blobs : b.len >= HighWaterMark

(* What a file may hold.                                                   *)
Storable == UNION {Bytes(b) : b \in Blobs}

(* Then no stream is left alone, and the files hold bytes of blobs.        *)
Awaited ==
    /\ \A s \in Stream : streams[s] = 0
    /\ \A d \in Drains : drain[d] # None => drain[d].pc # "nextTick"
    /\ \A k \in Keys : Content(k) \subseteq Storable

(* What is counted is in the file; what a drain is about to count is too;  *)
(* and a stream that is to empty the file began when nothing was counted.  *)
Reaches(k) ==
    ExistsFile(k) /\ history[k].undisturbed =>
        /\ storage[k].bytesWritten \subseteq Content(k)
        /\ \A d \in Drains : AtWork(d, k) =>
              /\ drain[d].pc = "flushed" => Bytes(drain[d].blob) \subseteq Content(k)
              /\ drain[d].pc = "writing" /\ drain[d].mode = "w" => storage[k].bytesWritten = {}

(* A writer of a large blob is waited for.                                 *)
LEMMA LargeWriter ==
    ASSUME NoSmallBlob, NEW k \in Keys, NEW b \in Blobs
    PROVE  WriteBlob(k, b).pc \in {"writing", "spinning"}
<1>1. b.len \in Nat /\ HighWaterMark \in Nat /\ b.len >= HighWaterMark
  BY StorageAssumption, UploadAssumption DEF Blob, NoSmallBlob
<1>2. Awaits(b) \in {"writing", "spinning"}
  BY <1>1 DEF Awaits
<1> QED
  BY <1>2 DEF WriteBlob

(* Such writers open no stream of their own.                               *)
LEMMA NoStreamOpens ==
    ASSUME TypeOK, NEW ws, OpenStreams(ws), \A w \in ws : w.pc # "nextTick"
    PROVE  streams' = streams
<1>1. \A s \in Stream : streams'[s] = streams[s] + 0
  BY DEF OpenStreams
<1>2. streams' \in [Stream -> Nat]
  BY OpenStreamsType
<1> QED
  BY <1>1, <1>2 DEF TypeOK

(* A stream that lands puts its blob into its file, and one that does not  *)
(* truncate loses nothing there.                                           *)
LEMMA LandsStores ==
    ASSUME TypeOK, \A k \in Keys : Content(k) \subseteq Storable,
           NEW s, s.key \in Keys, s.blob \in Blobs, Lands(s)
    PROVE  /\ \A k \in Keys : k # s.key => disk'[k] = disk[k]
           /\ Content(s.key)' \subseteq Storable
           /\ Bytes(s.blob) \subseteq Content(s.key)'
           /\ s.mode = "r+" => Content(s.key) \subseteq Content(s.key)'
<1>1. PICK kept \in SUBSET Content(s.key) :
         /\ s.mode = "r+" => kept = Content(s.key)
         /\ disk' = [disk EXCEPT ![s.key] = kept \cup Bytes(s.blob)]
  BY DEF Lands
<1>2. kept \cup Bytes(s.blob) \subseteq Storable
  BY DEF Storable
<1>3. kept \cup Bytes(s.blob) # None
  BY <1>2, NobodyAssumption DEF Storable
<1>4. disk'[s.key] = kept \cup Bytes(s.blob) /\ \A k \in Keys : k # s.key => disk'[k] = disk[k]
  BY <1>1 DEF TypeOK
<1>5. Content(s.key)' = kept \cup Bytes(s.blob)
  BY <1>3, <1>4 DEF Content
<1> QED
  BY <1>1, <1>2, <1>4, <1>5

(* One turn of the loop waits for what it writes.                          *)
LEMMA LoopAwaits ==
    ASSUME NoSmallBlob, TypeOK, NEW d \in Drains, NEW k \in Keys, NEW file \in File,
           Loop(d, k, file)
    PROVE  /\ streams' = streams
           /\ drain'[d] # None => drain'[d].pc # "nextTick"
           /\ \A e \in Drains : e # d => drain'[e] = drain[e]
<1>1. CASE file.blobs = << >>
  BY <1>1 DEF Loop, TypeOK
<1>2. CASE file.blobs # << >>
  <2>1. PICK w : w = WriteBlob(k, Head(Turned(file).blobs))
    OBVIOUS
  <2>2. drain' = [drain EXCEPT ![d] = w] /\ OpenStreams({w})
    BY <1>2, <2>1 DEF Loop
  <2>3. w.pc # "nextTick"
    BY <1>2, <2>1, DeallocateBlobType, LargeWriter
  <2> QED
    BY <2>2, <2>3, NoStreamOpens DEF TypeOK
<1> QED
  BY <1>1, <1>2

(* The end of the process leaves the disk and nothing in memory.           *)
LEMMA DieAwaited == TypeOK /\ Awaited /\ Die => Awaited'
<1> SUFFICES ASSUME TypeOK, Awaited, Die PROVE Awaited'
  OBVIOUS
<1>1. \A s \in Stream : streams'[s] = 0
  BY DEF Die
<1>2. \A d \in Drains : drain'[d] = None
  BY DEF Die
<1>3. \A k \in Keys : Content(k)' \subseteq Storable
  BY DEF Die, Awaited, Content
<1> QED
  BY <1>1, <1>2, <1>3 DEF Awaited

(* A run of the interval waits for each blob it writes.                    *)
LEMMA WriteBlobsAwaited == NoSmallBlob /\ TypeOK /\ Awaited /\ WriteBlobs => Awaited'
<1> SUFFICES ASSUME NoSmallBlob, TypeOK, Awaited, WriteBlobs PROVE Awaited'
  OBVIOUS
<1>1. PICK D \in SUBSET {d \in Drains : drain[d] = None} :
      \E job \in Injection(D, Startable) :
         LET S == {job[d] : d \in D}
             Writer(k) == WriteBlob(k, First(k))
         IN  /\ drain' = [d \in Drains |-> IF d \in D THEN Writer(job[d]) ELSE drain[d]]
             /\ OpenStreams({Writer(k) : k \in S})
  BY DEF WriteBlobs
<1>2. PICK job \in Injection(D, Startable) :
         LET S == {job[d] : d \in D}
             Writer(k) == WriteBlob(k, First(k))
         IN  /\ drain' = [d \in Drains |-> IF d \in D THEN Writer(job[d]) ELSE drain[d]]
             /\ OpenStreams({Writer(k) : k \in S})
  BY <1>1
<1>3. \A k \in Startable : /\ k \in Keys
                           /\ storage[k] \in File
                           /\ storage[k].blobs # << >>
  BY DEF Startable, ExistsFile, TypeOK, StorageTypeOK
<1>4. \A k \in Startable : WriteBlob(k, First(k)).pc # "nextTick"
  BY <1>3, DeallocateBlobType, LargeWriter DEF First
<1>5. \A d \in D : job[d] \in Startable
  BY DEF Injection
<1>6. streams' = streams
  <2>1. PICK ws : ws = {WriteBlob(k, First(k)) : k \in {job[d] : d \in D}}
    OBVIOUS
  <2>2. OpenStreams(ws)
    BY <1>2, <2>1
  <2>3. \A w \in ws : w.pc # "nextTick"
    BY <1>4, <1>5, <2>1
  <2> QED
    BY <2>2, <2>3, NoStreamOpens
<1>7. \A d \in Drains : drain'[d] # None => drain'[d].pc # "nextTick"
  <2> SUFFICES ASSUME NEW d \in Drains, drain'[d] # None PROVE drain'[d].pc # "nextTick"
    OBVIOUS
  <2>1. CASE d \in D
    <3>1. drain'[d] = WriteBlob(job[d], First(job[d]))
      BY <1>2, <2>1
    <3>2. WriteBlob(job[d], First(job[d])).pc # "nextTick"
      BY <1>4, <1>5, <2>1
    <3> QED
      BY <3>1, <3>2
  <2>2. CASE d \notin D
    BY <1>2, <2>2 DEF Awaited
  <2> QED
    BY <2>1, <2>2
<1>8. UNCHANGED disk
  BY DEF WriteBlobs
<1> QED
  BY <1>6, <1>7, <1>8 DEF Awaited, Content

(* So does a drain that goes on.                                           *)
LEMMA DrainAwaited ==
    ASSUME NoSmallBlob, TypeOK, Awaited, NEW d \in Drains, DrainStep(d), ~Die
    PROVE  Awaited'
<1>1. /\ drain[d] # None
      /\ drain[d] \in Drain
      /\ drain[d].blob \in Blobs
      /\ drain[d].key \in Keys
  <2>1. drain[d] # None
    BY DEF DrainStep, BlobLands, BlobWritten, UploadFinished, LookupFails
  <2> QED
    BY <2>1 DEF TypeOK, Drain
<1>2. PICK key \in Keys, b \in Blobs : key = drain[d].key /\ b = drain[d].blob
  BY <1>1
<1>3. ASSUME streams' = streams,
             drain'[d] # None => drain'[d].pc # "nextTick",
             \A e \in Drains : e # d => drain'[e] = drain[e],
             UNCHANGED disk
      PROVE  Awaited'
  BY <1>3 DEF Awaited, Content
<1>4. CASE BlobLands(d)
  <2>1. /\ Lands(drain[d])
        /\ drain' = [drain EXCEPT ![d].pc = "flushed"]
        /\ UNCHANGED streams
    BY <1>4 DEF BlobLands
  <2>2. /\ \A k \in Keys : k # key => disk'[k] = disk[k]
        /\ Content(key)' \subseteq Storable
    BY <1>1, <1>2, <2>1, LandsStores DEF Awaited
  <2>3. \A k \in Keys : Content(k)' \subseteq Storable
    BY <2>2 DEF Awaited, Content
  <2>4. \A e \in Drains : drain'[e] # None => drain'[e].pc # "nextTick"
    BY <1>1, <2>1 DEF Awaited, TypeOK, Drain
  <2> QED
    BY <2>1, <2>3, <2>4 DEF Awaited
<1>5. CASE BlobWritten(d)
  <2> DEFINE file == UpdateBytesWriten(storage[key], b)
  <2>1. /\ ExistsFile(key)
        /\ IF file.completed
           THEN /\ drain' = [drain EXCEPT ![d].pc = "completing"]
                /\ UNCHANGED streams
           ELSE Loop(d, key, file)
        /\ UNCHANGED disk
    BY <1>2, <1>5 DEF BlobWritten
  <2>2. storage[key] \in File
    BY <2>1 DEF ExistsFile, TypeOK, StorageTypeOK
  <2>3. file \in File
    BY <2>2, UpdateBytesWritenType
  <2> HIDE DEF file
  <2>4. CASE file.completed
    BY <1>1, <1>3, <2>1, <2>4 DEF TypeOK, Drain
  <2>5. CASE ~file.completed
    BY <1>3, <2>1, <2>3, <2>5, LoopAwaits
  <2> QED
    BY <2>4, <2>5
<1>6. CASE UploadFinished(d)
  BY <1>3, <1>6 DEF UploadFinished, TypeOK
<1>7. CASE LookupFails(d)
  <2>1. /\ ExistsFile(key)
        /\ Loop(d, key, AllocateBlob(storage[key], b))
        /\ UNCHANGED disk
    BY <1>2, <1>7 DEF LookupFails
  <2>2. storage[key] \in File
    BY <2>1 DEF ExistsFile, TypeOK, StorageTypeOK
  <2>3. AllocateBlob(storage[key], b) \in File
    BY <2>2, AllocateBlobType
  <2> QED
    BY <1>3, <2>1, <2>3, LoopAwaits
<1> QED
  BY <1>4, <1>5, <1>6, <1>7 DEF DrainStep

(* Nothing but a drain opens a stream.                                     *)
LEMMA AwaitedStep == NoSmallBlob /\ TypeOK /\ Awaited /\ [Next]_vars => Awaited'
<1> SUFFICES ASSUME NoSmallBlob, TypeOK, Awaited, [Next]_vars PROVE Awaited'
  OBVIOUS
<1>1. CASE Die
  BY <1>1, DieAwaited
<1>2. CASE WriteBlobs
  BY <1>2, WriteBlobsAwaited
<1>3. ASSUME NEW d \in Drains, DrainStep(d), ~Die PROVE Awaited'
  BY <1>3, DrainAwaited
<1>4. ASSUME UNCHANGED <<streams, drain>>, \A k \in Keys : Content(k)' \subseteq Storable
      PROVE  Awaited'
  BY <1>4 DEF Awaited
<1>5. UNCHANGED disk => \A k \in Keys : Content(k)' \subseteq Storable
  BY DEF Awaited, Content
<1>6. \A s \in Stream : ~StreamLands(s)
  BY DEF StreamLands, Awaited
<1>7. ASSUME NEW r \in Requests, RequestStep(r) PROVE Awaited'
  <2>1. UNCHANGED <<streams, drain>>
    BY <1>7 DEF RequestStep, InitializeFile, DeleteFile, Access, InitializeGoesOn,
                DeleteAccess, Rm, DeleteGoesOn, Reserve
  <2>2. \/ UNCHANGED disk
        \/ disk' = [disk EXCEPT ![request[r].key] = None]
        \/ disk' = [disk EXCEPT ![request[r].key] = {}]
    BY <1>7 DEF RequestStep, InitializeFile, DeleteFile, Access, InitializeGoesOn,
                DeleteAccess, Rm, DeleteGoesOn, Reserve
  <2>3. \A k \in Keys : disk'[k] = disk[k] \/ disk'[k] = None \/ disk'[k] = {}
    BY <2>2 DEF TypeOK
  <2>4. \A k \in Keys : Content(k)' \subseteq Storable
    BY <2>3 DEF Awaited, Content
  <2> QED
    BY <1>4, <2>1, <2>4
<1>8. ASSUME NEW k1 \in Keys, NEW k2 \in Keys, RenameFile(k1, k2) PROVE Awaited'
  <2>1. \A k \in Keys : disk'[k] = disk[k] \/ disk'[k] = None \/ disk'[k] = disk[k1]
    BY <1>8 DEF RenameFile, TypeOK
  <2>2. \A k \in Keys : Content(k)' \subseteq Storable
    BY <2>1 DEF Awaited, Content
  <2> QED
    BY <1>4, <1>8, <2>2 DEF RenameFile
<1>9. ASSUME NEW k \in Keys, NEW b \in Blobs, ReciveBlob(k, b) PROVE Awaited'
  BY <1>4, <1>5, <1>9 DEF ReciveBlob
<1>10. ASSUME NEW tested, NEW path, CloseFile(tested, path) PROVE Awaited'
  BY <1>4, <1>5, <1>10 DEF CloseFile
<1>11. CASE Kill \/ Restart \/ UNCHANGED vars
  BY <1>1, <1>4, <1>5, <1>11 DEF Kill, Restart, vars
<1> QED
  BY <1>1, <1>2, <1>3, <1>6, <1>7, <1>8, <1>9, <1>10, <1>11 DEF Next

(* The file of an undisturbed upload changes only when a blob lands in it. *)
LEMMA StepOfContent ==
    ASSUME TypeOK, Awaited, [Next]_vars, NEW k \in Keys, ExistsFile(k)', history'[k].undisturbed
    PROVE  Content(k)' = Content(k) \/ \E d \in Drains : Landed(d, k)
<1> USE DEF Content
<1>1. ~Die
  BY DEF Die, ExistsFile
<1>2. CASE WriteBlobs
  BY <1>2 DEF WriteBlobs
<1>3. ASSUME NEW d \in Drains, DrainStep(d), disk'[k] # disk[k] PROVE Landed(d, k)
  <2>1. BlobLands(d)
    BY <1>1, <1>3 DEF DrainStep, BlobWritten, UploadFinished, LookupFails
  <2>2. /\ drain[d] # None
        /\ drain[d].pc = "writing"
        /\ Lands(drain[d])
        /\ drain' = [drain EXCEPT ![d].pc = "flushed"]
        /\ UNCHANGED <<storage, history>>
    BY <1>1, <2>1 DEF BlobLands, storageVars
  <2>3. drain[d].key = k
    BY <1>3, <2>2 DEF Lands, TypeOK
  <2> QED
    BY <2>2, <2>3 DEF Landed, AtWork
<1>4. \A s \in Stream : ~StreamLands(s)
  BY DEF StreamLands, Awaited
<1>5. ASSUME NEW r \in Requests, RequestStep(r) PROVE Content(k)' = Content(k)
  <2>1. CASE Rm(r)
    BY <2>1 DEF Rm, Disturb, TypeOK, History
  <2>2. CASE Reserve(r)
    <3>1. /\ disk' = [disk EXCEPT ![request[r].key] = {}]
          /\ Disturb(IF Content(request[r].key) = {} THEN {} ELSE {request[r].key})
      BY <2>2 DEF Reserve
    <3>2. CASE k = request[r].key
      <4>1. Content(k) = {}
        BY <3>1, <3>2 DEF Disturb, TypeOK, History
      <4> QED
        BY <3>1, <3>2, <4>1 DEF TypeOK
    <3>3. CASE k # request[r].key
      BY <3>1, <3>3 DEF TypeOK
    <3> QED
      BY <3>2, <3>3
  <2>3. ~Rm(r) /\ ~Reserve(r) => UNCHANGED disk
    BY <1>5 DEF RequestStep, InitializeFile, DeleteFile, Access, InitializeGoesOn,
                DeleteAccess, DeleteGoesOn
  <2> QED
    BY <2>1, <2>2, <2>3
<1>6. ASSUME NEW k1 \in Keys, NEW k2 \in Keys, RenameFile(k1, k2) PROVE Content(k)' = Content(k)
  BY <1>6 DEF RenameFile, Disturb, TypeOK, History
<1>7. ASSUME NEW j \in Keys, NEW b \in Blobs, ReciveBlob(j, b) PROVE Content(k)' = Content(k)
  BY <1>7 DEF ReciveBlob
<1>8. ASSUME NEW tested, NEW path, CloseFile(tested, path) PROVE Content(k)' = Content(k)
  BY <1>8 DEF CloseFile
<1>9. CASE Kill \/ Restart \/ UNCHANGED vars
  BY <1>1, <1>9 DEF Kill, Restart, vars
<1> QED
  BY <1>2, <1>3, <1>4, <1>5, <1>6, <1>7, <1>8, <1>9 DEF Next

(* One turn of the loop of a drain whose file holds what is counted: if    *)
(* the next stream is to empty the file, nothing was counted yet.          *)
LEMMA TurnReaches ==
    ASSUME NEW d \in Drains, NEW k \in Keys, NEW file \in File, Turn(d, k, file), NoSmallBlob,
           file.bytesWritten \subseteq Content(k)
    PROVE  /\ storage'[k].bytesWritten = file.bytesWritten
           /\ AtWork(d, k)' => /\ drain'[d].pc # "flushed"
                               /\ drain'[d].mode = "w" => file.bytesWritten = {}
<1>1. CASE file.blobs = << >>
  BY <1>1 DEF Turn, AtWork
<1>2. CASE file.blobs # << >>
  <2>1. /\ storage'[k] = DeallocateBlob(Turned(file))
        /\ drain'[d] = WriteBlob(k, Head(Turned(file).blobs))
        /\ Head(Turned(file).blobs) \in Blobs
    BY <1>2, DeallocateBlobType DEF Turn
  <2>2. DeallocateBlob(Turned(file)).bytesWritten = file.bytesWritten
    <3>1. PICK turned \in File : turned = Turned(file) /\ turned.bytesWritten = file.bytesWritten
      BY TurnedType
    <3> QED
      BY <3>1 DEF DeallocateBlob, File
  <2>3. WriteBlob(k, Head(Turned(file).blobs)).mode = "w" => Content(k) = {}
    BY DEF WriteBlob, Content
  <2> QED
    BY <2>1, <2>2, <2>3, LargeWriter
<1> QED
  BY <1>1, <1>2

(* A blob lands: nothing that was counted goes.                            *)
LEMMA LandedReaches ==
    ASSUME IInv, Awaited, NEW k \in Keys, Reaches(k), ExistsFile(k), history[k].undisturbed,
           NEW d \in Drains, Landed(d, k)
    PROVE  Reaches(k)'
<1>1. /\ AtWork(d, k)
      /\ drain[d].pc = "writing"
      /\ Lands(drain[d])
      /\ drain' = [drain EXCEPT ![d].pc = "flushed"]
      /\ UNCHANGED <<storage, history>>
  BY DEF Landed
<1>2. /\ drain[d] \in Drain
      /\ drain[d].key = k
      /\ drain[d].blob \in Blobs
      /\ drain[d].mode \in {"r+", "w"}
      /\ TypeOK
  BY <1>1 DEF IInv, TypeOK, AtWork, Drain
<1>3. /\ Bytes(drain[d].blob) \subseteq Content(k)'
      /\ drain[d].mode = "r+" => Content(k) \subseteq Content(k)'
  BY <1>1, <1>2, LandsStores DEF Awaited
<1>4. storage[k].bytesWritten \subseteq Content(k)'
  BY <1>1, <1>2, <1>3 DEF Reaches
<1>5. ASSUME NEW e \in Drains, AtWork(e, k)'
      PROVE  e = d /\ drain'[d].pc = "flushed" /\ drain'[d].blob = drain[d].blob
  <2>1. drain'[d] = [drain[d] EXCEPT !.pc = "flushed"]
    BY <1>1, <1>2 DEF TypeOK
  <2>2. e # d => AtWork(e, k)
    BY <1>1, <1>2, <1>5 DEF AtWork, TypeOK
  <2>3. e = d
    BY <1>1, <2>2 DEF IInv, Locked
  <2> QED
    BY <1>2, <2>1, <2>3 DEF Drain
<1> QED
  BY <1>1, <1>3, <1>4, <1>5 DEF Reaches

(* Every step keeps what is counted in the file.                           *)
LEMMA ReachesStep ==
    ASSUME NoSmallBlob, IInv, Awaited, [Next]_vars, NEW k \in Keys, Reaches(k)
    PROVE  Reaches(k)'
<1> SUFFICES ASSUME ExistsFile(k)', history'[k].undisturbed PROVE Reaches(k)'
  BY DEF Reaches
<1>1. TypeOK /\ Locked(k)
  BY DEF IInv
<1>2. RecordStep(k)
  BY <1>1, StepOfRecord
<1>3. ExistsFile(k) => storage[k] \in File
  BY <1>1 DEF ExistsFile, TypeOK, StorageTypeOK
<1>4. CASE \E d \in Drains : Landed(d, k)
  BY <1>4, LandedReaches DEF Landed, ExistsFile
<1>5. CASE ~ \E d \in Drains : Landed(d, k)
  <2>1. Content(k)' = Content(k)
    BY <1>1, <1>5, StepOfContent
  <2>2. ASSUME ExistsFile(k), history[k].undisturbed,
               storage'[k].bytesWritten = storage[k].bytesWritten, Rest({}, k)
        PROVE  Reaches(k)'
    <3>1. \A d \in Drains : AtWork(d, k)' => AtWork(d, k) /\ drain'[d] = drain[d]
      BY <2>2, AtWorkBefore
    <3> QED
      BY <2>1, <2>2, <3>1 DEF Reaches
  <2>3. CASE Quiet(k)
    <3>1. storage'[k].bytesWritten = storage[k].bytesWritten
      BY <1>3, <2>3 DEF Quiet, File
    <3> QED
      BY <2>2, <2>3, <3>1 DEF Quiet
  <2>4. CASE Created(k)
    <3>1. /\ storage'[k].bytesWritten = {}
          /\ \A d \in Drains : ~AtWork(d, k)'
      BY <2>4 DEF Created, NewFile, OfKey, AtWork
    <3> QED
      BY <3>1 DEF Reaches
  <2>5. ASSUME NEW b \in Blobs, Received(k, b) PROVE Reaches(k)'
    <3>1. storage'[k].bytesWritten = storage[k].bytesWritten
      BY <1>3, <2>5 DEF Received, AllocateBlob, File
    <3> QED
      BY <2>2, <2>5, <3>1 DEF Received, Rest
  <2>6. ASSUME NEW d \in Drains, Started(d, k) PROVE Reaches(k)'
    <3>1. /\ ExistsFile(k) /\ history[k].undisturbed
          /\ storage[k] \in File
          /\ Turn(d, k, storage[k])
          /\ Rest({d}, k)
          /\ storage[k].bytesWritten \subseteq Content(k)
      BY <1>3, <2>6 DEF Started, Turn, Reaches, First
    <3>2. \A e \in Drains : AtWork(e, k)' => e = d
      BY <1>1, <2>6, <3>1, AtWorkBefore DEF Started, Locked
    <3>3. /\ storage'[k].bytesWritten = storage[k].bytesWritten
          /\ AtWork(d, k)' => /\ drain'[d].pc # "flushed"
                              /\ drain'[d].mode = "w" => storage[k].bytesWritten = {}
      BY <3>1, TurnReaches
    <3> QED
      BY <2>1, <3>1, <3>2, <3>3 DEF Reaches
  <2>7. ASSUME NEW d \in Drains, Written(d, k) PROVE Reaches(k)'
    <3> DEFINE file == UpdateBytesWriten(storage[k], drain[d].blob)
    <3>1. /\ ExistsFile(k) /\ history[k].undisturbed
          /\ storage[k] \in File
          /\ AtWork(d, k) /\ drain[d].pc \in {"flushed", "nextTick"}
          /\ \/ storage'[k] = file /\ drain'[d] = [drain[d] EXCEPT !.pc = "completing"]
             \/ Turn(d, k, file)
          /\ Rest({d}, k)
      BY <1>3, <2>7 DEF Written
    <3>2. /\ drain[d] \in Drain
          /\ drain[d].blob \in Blobs
          /\ drain[d].pc = "flushed"
      BY <1>1, <3>1 DEF AtWork, TypeOK, Drain, Awaited
    <3>3. /\ file \in File
          /\ file.bytesWritten = storage[k].bytesWritten \cup Bytes(drain[d].blob)
      BY <3>1, <3>2, UpdateBytesWritenType DEF UpdateBytesWriten, File
    <3>4. file.bytesWritten \subseteq Content(k)
      BY <3>1, <3>2, <3>3 DEF Reaches
    <3> HIDE DEF file
    <3>5. \A e \in Drains : AtWork(e, k)' => e = d
      BY <1>1, <3>1, AtWorkBefore DEF Locked
    <3>6. CASE storage'[k] = file /\ drain'[d] = [drain[d] EXCEPT !.pc = "completing"]
      <4>1. ~AtWork(d, k)'
        BY <3>2, <3>6 DEF AtWork, Drain
      <4> QED
        BY <2>1, <3>4, <3>5, <3>6, <4>1 DEF Reaches
    <3>7. CASE Turn(d, k, file)
      <4>1. /\ storage'[k].bytesWritten = file.bytesWritten
            /\ AtWork(d, k)' => /\ drain'[d].pc # "flushed"
                                /\ drain'[d].mode = "w" => file.bytesWritten = {}
        BY <3>3, <3>4, <3>7, TurnReaches
      <4> QED
        BY <2>1, <3>4, <3>5, <4>1 DEF Reaches
    <3> QED
      BY <3>1, <3>6, <3>7
  <2>8. \A d \in Drains : ~Requeued(d, k)
    BY DEF Requeued
  <2> QED
    BY <1>2, <1>5, <2>3, <2>4, <2>5, <2>6, <2>7, <2>8 DEF RecordStep
<1> QED
  BY <1>4, <1>5

(* For all constants with which each blob fills the stream's buffer: once  *)
(* no drain is at work on an undisturbed upload, the bytes counted as      *)
(* written are in the file.  (With smaller blobs they need not be.)        *)
THEOREM WrittenReachesDisk == NoSmallBlob => (Spec => []WrittenBytesReachDisk)
<1> SUFFICES ASSUME NoSmallBlob PROVE Spec => []WrittenBytesReachDisk
  OBVIOUS
<1> DEFINE RInv == Awaited /\ \A k \in Keys : Reaches(k)
<1>1. Init => RInv
  <2>1. Init => Awaited
    BY DEF Init, Awaited, Content
  <2>2. Init => \A k \in Keys : Reaches(k)
    BY DEF Init, StorageInit, Reaches, ExistsFile
  <2> QED
    BY <2>1, <2>2
<1>2. IInv /\ RInv /\ [Next]_vars => RInv'
  BY AwaitedStep, ReachesStep DEF IInv
<1>3. RInv => WrittenBytesReachDisk
  BY DEF WrittenBytesReachDisk, Reaches
<1> QED
  BY <1>1, <1>2, <1>3, IInvHolds, PTL DEF Spec
=============================================================================
