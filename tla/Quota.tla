-------------------------------- MODULE Quota --------------------------------
(***************************************************************************)
(* The dedicated space.  SpaceGuard lets an upload begin if its size fits  *)
(* beside the used space and the sizes of all uploads under way.  The used *)
(* space is what the last walk of the disk to finish has added up, which is*)
(* out of date as soon as a file is written, removed or finished; walks may*)
(* overlap.  The blobs of an upload are in Upload; here a file only grows, *)
(* and nobody compares it with the size that was announced for it.         *)
(* Directories weigh nothing.                                              *)
(***************************************************************************)
EXTENDS Integers, FiniteSets, Functions

CONSTANTS
    Files,
    Requests,   \* slots for initialize requests at work (a bound)
    Walks,      \* slots for walks at work (a bound)
    Sizes,      \* the sizes clients announce for uploads, of any sign
    Weights,    \* the sizes of files that are sent in one piece
    Totals,     \* the dedicated spaces an administrator may set
    MaxBytes,   \* bound on the bytes of a file
    Nothing

VARIABLES
    usedSpaceBytes, dedicatedSpaceBytes,   \* config.core
    storage,   \* [Files -> Sizes \cup {Nothing}]: the uploads under way
    disk,      \* [Files -> Nat]: bytes; 0 also of a file that is not there
    request,   \* an initialize request between SpaceGuard and createFileTemp
    walk       \* a walk has added up bytes and has these files left

quotaVars == <<usedSpaceBytes, dedicatedSpaceBytes, storage, disk, request, walk>>

Request == [file : Files, size : Sizes]

(* removals: files were removed during the walk.  quiet is no part of the  *)
(* code: no file has changed.                                              *)
Walk == [left : SUBSET Files, bytes : Nat, removals : BOOLEAN, quiet : BOOLEAN]

ASSUME QuotaAssumption ==
    /\ IsFiniteSet(Files)
    /\ Sizes \subseteq Int /\ Weights \subseteq Nat /\ Totals \subseteq Nat /\ MaxBytes \in Nat
    /\ Nothing \notin Int /\ Nothing \notin Request /\ Nothing \notin Walk

QuotaTypeOK ==
    /\ usedSpaceBytes \in Nat /\ dedicatedSpaceBytes \in Totals
    /\ storage \in [Files -> Sizes \cup {Nothing}]
    /\ disk \in [Files -> Nat]
    /\ request \in [Requests -> Request \cup {Nothing}]
    /\ walk \in [Walks -> Walk \cup {Nothing}]

QuotaInit ==
    /\ usedSpaceBytes = 0
    /\ dedicatedSpaceBytes \in Totals
    /\ storage = [f \in Files |-> Nothing]
    /\ disk = [f \in Files |-> 0]
    /\ request = [r \in Requests |-> Nothing]
    /\ walk = [w \in Walks |-> Nothing]

DiskBytes == SumFunction(disk)

UploadSize(f) == IF storage[f] = Nothing THEN 0 ELSE storage[f]

(* The whole size of an upload, also of what it has written by now.        *)
GetSpaceToUse == SumFunction([f \in Files |-> UploadSize(f)])

(* The file f gets these bytes.                                            *)
Becomes(f, bytes) ==
    /\ disk' = [disk EXCEPT ![f] = bytes]
    /\ walk' = [w \in Walks |->
           IF walk[w] = Nothing \/ bytes = disk[f] THEN walk[w]
           ELSE [walk[w] EXCEPT !.removals = @ \/ bytes = 0, !.quiet = FALSE]]

-----------------------------------------------------------------------------
(* initializeFile.  Two requests for one path are the subject of Upload.   *)
SpaceGuard(r, f, size) ==
    /\ request[r] = Nothing /\ storage[f] = Nothing
    /\ \A other \in Requests : request[other] # Nothing => request[other].file # f
    /\ usedSpaceBytes + size + GetSpaceToUse <= dedicatedSpaceBytes
    /\ request' = [request EXCEPT ![r] = [file |-> f, size |-> size]]
    /\ UNCHANGED <<usedSpaceBytes, dedicatedSpaceBytes, storage, disk, walk>>

(* The disk has answered: the file is not there, or was to be overwritten  *)
(* and is removed.                                                         *)
CreateFileTemp(r) ==
    /\ request[r] # Nothing
    /\ storage' = [storage EXCEPT ![request[r].file] = request[r].size]
    /\ Becomes(request[r].file, 0)
    /\ request' = [request EXCEPT ![r] = Nothing]
    /\ UNCHANGED <<usedSpaceBytes, dedicatedSpaceBytes>>

(* It is there, or it was to be overwritten and is not.                    *)
RefuseFile(r) ==
    /\ request[r] # Nothing
    /\ request' = [request EXCEPT ![r] = Nothing]
    /\ UNCHANGED <<usedSpaceBytes, dedicatedSpaceBytes, storage, disk, walk>>

Grow(f) ==
    /\ storage[f] # Nothing
    /\ disk[f] < MaxBytes
    /\ Becomes(f, disk[f] + 1)
    /\ UNCHANGED <<usedSpaceBytes, dedicatedSpaceBytes, storage, request>>

(* Mutant: the walk starts with what is used by now.                       *)
StartsFromUsed(w) ==
    /\ walk[w] = Nothing
    /\ walk' = [walk EXCEPT ![w] =
           [left |-> Files, bytes |-> usedSpaceBytes, removals |-> FALSE, quiet |-> TRUE]]

Starts(w) ==
    /\ walk[w] = Nothing
    /\ walk' = [walk EXCEPT ![w] =
           [left |-> Files, bytes |-> 0, removals |-> FALSE, quiet |-> TRUE]]

(* The end of an upload: delFile, then updateUsedSpace, which nobody awaits*)
(* (a bound: while both walks are at work no upload ends).  When that is,  *)
(* is in Upload: the bytes counted by then need not be those on the disk.  *)
Finish(f) ==
    /\ storage[f] # Nothing
    /\ storage' = [storage EXCEPT ![f] = Nothing]
    /\ \E w \in Walks : Starts(w)
    /\ UNCHANGED <<usedSpaceBytes, dedicatedSpaceBytes, disk, request>>

(* deleteFile drops the upload at once and removes the file when the disk  *)
(* gets to it.  Nobody counts the used space again.                        *)
DeleteFile(f) ==
    /\ storage[f] # Nothing
    /\ storage' = [storage EXCEPT ![f] = Nothing]
    /\ UNCHANGED <<usedSpaceBytes, dedicatedSpaceBytes, disk, request, walk>>

Rm(f) ==
    /\ disk[f] > 0
    /\ Becomes(f, 0)
    /\ UNCHANGED <<usedSpaceBytes, dedicatedSpaceBytes, storage, request>>

(* The upload in one piece has no guard and starts no walk.                *)
CreateFile(f, weight) ==
    /\ disk[f] = 0 /\ storage[f] = Nothing
    /\ Becomes(f, weight)
    /\ UNCHANGED <<usedSpaceBytes, dedicatedSpaceBytes, storage, request>>

(* setDedicatedSpace looks at the used space only.                         *)
SetDedicatedSpace(total) ==
    /\ usedSpaceBytes <= total
    /\ dedicatedSpaceBytes' = total
    /\ UNCHANGED <<usedSpaceBytes, storage, disk, request, walk>>

-----------------------------------------------------------------------------
(* updateUsedSpace and its cron job.                                       *)

UpdateUsedSpace(w) ==
    Starts(w) /\ UNCHANGED <<usedSpaceBytes, dedicatedSpaceBytes, storage, disk, request>>

(* getUsedSpace: lstat of one file after the other, in any order.          *)
Lstat(w) ==
    /\ walk[w] # Nothing
    /\ \E f \in walk[w].left :
          walk' = [walk EXCEPT ![w].left = @ \ {f}, ![w].bytes = @ + disk[f]]
    /\ UNCHANGED <<usedSpaceBytes, dedicatedSpaceBytes, storage, disk, request>>

(* Mutant: only growth is noticed.                                         *)
OnlyMore(bytes) == IF bytes > usedSpaceBytes THEN bytes ELSE usedSpaceBytes

Counted(bytes) == bytes

(* A file that vanishes under the walk takes along what was found beside it*)
(* and in the folders around it, up to the user's directory.               *)
EndWalk(w) ==
    /\ walk[w] # Nothing
    /\ walk[w].left = {}
    /\ \E bytes \in IF walk[w].removals THEN 0 .. walk[w].bytes ELSE {walk[w].bytes} :
          usedSpaceBytes' = Counted(bytes)
    /\ walk' = [walk EXCEPT ![w] = Nothing]
    /\ UNCHANGED <<dedicatedSpaceBytes, storage, disk, request>>

QuotaNext ==
    \/ \E f \in Files :
          \/ \E r \in Requests, size \in Sizes : SpaceGuard(r, f, size)
          \/ Grow(f) \/ Finish(f) \/ DeleteFile(f) \/ Rm(f)
          \/ \E weight \in Weights : CreateFile(f, weight)
    \/ \E r \in Requests : CreateFileTemp(r) \/ RefuseFile(r)
    \/ \E total \in Totals : SetDedicatedSpace(total)
    \/ \E w \in Walks : UpdateUsedSpace(w) \/ Lstat(w) \/ EndWalk(w)

QuotaSpec == QuotaInit /\ [][QuotaNext]_quotaVars

-----------------------------------------------------------------------------
(* Properties.                                                             *)

(* A walk during which no file changes leaves the used space at what is on *)
(* the disk, in whatever order it finds the files and whatever other walks *)
(* have set it to meanwhile.                                               *)
QuietWalksCountTheDisk ==
    [][\A w \in Walks :
        walk[w] # Nothing /\ walk[w].quiet /\ walk'[w] = Nothing
        => usedSpaceBytes' = DiskBytes]_quotaVars

(* When the files rest, some later walk of the cron job sets the used space*)
(* right for good, also if older walks end after it.                       *)
UsedSpaceCatchesUp ==
    <>[][disk' = disk]_disk => <>[](usedSpaceBytes = DiskBytes)
=============================================================================
