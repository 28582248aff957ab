----------------------------- MODULE TempStorage -----------------------------
(***************************************************************************)
(* The in-memory table of uploads in progress: TempStorageService.         *)
(*                                                                         *)
(* A key is a storage path, join(userId, path).  storage[k] is the record  *)
(* of the upload of k, or None.  filesDirectories is the array of the keys *)
(* the interval visits, kept here as the number of times each key is in    *)
(* it: createFileTemp pushes without looking, so a key can be in twice.    *)
(* Neither the order of that array nor what the record only hands back     *)
(* (name, path, userId) is kept, and filesWritting is recomputed before    *)
(* every use.                                                              *)
(***************************************************************************)
EXTENDS Integers, Sequences, FiniteSets, FiniteSetsExt, Functions

CONSTANTS
    Keys,            \* storage paths
    Blobs,           \* the blobs clients may send, records [pos, len]
    Sizes,           \* the sizes an upload may be announced with
    FilesAtSameTime, \* the setting FILES_ATST
    None             \* no record, no file, nobody at work

(* The position is what the client says, read by ParseIntPipe: it may be   *)
(* negative.                                                               *)
Blob == [pos : Int, len : Nat]

(* The bytes a blob covers. *)
Bytes(b) == b.pos .. (b.pos + b.len - 1)

(* createWriteStream throws at a negative start (and at one beyond the     *)
(* safe integers, which the negative ones stand for).                      *)
Writable(b) == b.pos >= 0

(* An upload's record.  blobs holds the queue oldest blob first (the code  *)
(* keeps it the other way round: unshift to add, pop to take).             *)
(* bytesWritten is the set of the bytes in its ranges; saved is the sum of *)
(* the lengths of the ranges, which counts a byte once per range it is in. *)
(* The announced size is any number: FileInitDTO asks for no sign.         *)
File == [size : Int, saved : Nat, received : Nat, bytesWritten : SUBSET Int,
         completed : BOOLEAN, blobs : Seq(Blobs), writting : BOOLEAN]

ASSUME StorageAssumption ==
    /\ IsFiniteSet(Keys)
    /\ Blobs \subseteq Blob
    /\ Sizes \subseteq Int
    /\ FilesAtSameTime \in Nat

ASSUME NoneAssumption == None \notin File

VARIABLES
    storage,          \* the uploads' records
    filesDirectories  \* how many times each key is in the array of keys

storageVars == <<storage, filesDirectories>>

StorageTypeOK ==
    /\ storage \in [Keys -> File \cup {None}]
    /\ filesDirectories \in [Keys -> Nat]

StorageInit ==
    /\ storage = [k \in Keys |-> None]
    /\ filesDirectories = [k \in Keys |-> 0]

-----------------------------------------------------------------------------
(* What the service answers. *)

ExistsFile(k) == storage[k] # None

IsCompleted(file) == file.saved >= file.size

(* calculateWritting: the entries of the array whose record is writing.    *)
WrittingCount ==
    MapThenSumSet(LAMBDA k : filesDirectories[k],
                  {k \in Keys : ExistsFile(k) /\ storage[k].writting})

(* Mutant: one more than the code lets in.                                 *)
AllowOneMore(count) == count <= FilesAtSameTime + 1

AllowWriteMoreFiles(count) == count <= FilesAtSameTime

-----------------------------------------------------------------------------
(* What the service does to one record. *)

NewFile(size) ==
    [size |-> size, saved |-> 0, received |-> 0, bytesWritten |-> {},
     completed |-> FALSE, blobs |-> << >>, writting |-> FALSE]

(* Mutant: the blob takes the place of the queue.                          *)
AllocateOnly(file, b) ==
    [file EXCEPT !.blobs = <<b>>, !.received = @ + b.len]

AllocateBlob(file, b) ==
    [file EXCEPT !.blobs = Append(@, b), !.received = @ + b.len]

(* setWritting(true) and deallocateBlob, which the drain calls together.   *)
DeallocateBlob(file) ==
    [file EXCEPT !.blobs = Tail(@), !.writting = TRUE]

(* A drain that finds writeBlob throwing at the oldest blob queues the     *)
(* blob again, which counts its bytes once more, and takes the next at     *)
(* once: it gets past the blobs no stream takes to the first it can write, *)
(* or round the queue and to the same blob again.                          *)
Turned(file) ==
    LET n == Cardinality({i \in DOMAIN file.blobs :
                            \A j \in 1 .. i : ~Writable(file.blobs[j])})
        lengths == [i \in DOMAIN file.blobs |-> file.blobs[i].len]
    IN  [file EXCEPT !.blobs = SubSeq(@, n + 1, Len(@)) \o SubSeq(@, 1, n),
                     !.received = @ + SumFunctionOnSet(lengths, 1 .. n)]

(* Mutant: the flag is never given back.                                   *)
UpdateKeepingTheFlag(file, b) ==
    [file EXCEPT !.bytesWritten = @ \cup Bytes(b),
                 !.saved = @ + b.len,
                 !.completed = file.saved + b.len >= file.size]

(* Mutant: completed once all is received.                                 *)
UpdateFromReceived(file, b) ==
    [file EXCEPT !.writting = FALSE,
                 !.bytesWritten = @ \cup Bytes(b),
                 !.saved = @ + b.len,
                 !.completed = file.received >= file.size]

(* setWritting(false), updateBytesWriten and isCompleted, in a row in the  *)
(* drain: isCompleted leaves its answer in the record.                     *)
UpdateBytesWriten(file, b) ==
    [file EXCEPT !.writting = FALSE,
                 !.bytesWritten = @ \cup Bytes(b),
                 !.saved = @ + b.len,
                 !.completed = file.saved + b.len >= file.size]

(* And to the table.  createFileTemp replaces a record that is there and   *)
(* lists the key once more; delFile takes every listing of it away.        *)
CreateFileTemp(k, size) ==
    /\ storage' = [storage EXCEPT ![k] = NewFile(size)]
    /\ filesDirectories' = [filesDirectories EXCEPT ![k] = @ + 1]

(* Mutant: one listing is taken away, as with splice.                      *)
DelOneListing(k) ==
    /\ storage' = [storage EXCEPT ![k] = None]
    /\ filesDirectories' = [filesDirectories EXCEPT ![k] = @ - 1]

DelFile(k) ==
    /\ storage' = [storage EXCEPT ![k] = None]
    /\ filesDirectories' = [filesDirectories EXCEPT ![k] = 0]

-----------------------------------------------------------------------------
(* SpaceGuard reads the size of every listed record (getSpaceToUse) and    *)
(* the interval visits the listed keys only, so a key is listed exactly    *)
(* while it has a record, whichever handlers overlap.                      *)
DirectoriesMatchStorage ==
    \A k \in Keys : filesDirectories[k] > 0 <=> ExistsFile(k)
=============================================================================
