---------------------------- MODULE StorageProofs ----------------------------
(***************************************************************************)
(* Theorems about what is derived from the disk: Quota, for all files,     *)
(* sizes, dedicated spaces and numbers of requests and walks at work; and  *)
(* Trees, for all users, versions and numbers of refreshes at work.        *)
(***************************************************************************)
EXTENDS Quota, Trees, Sums, TLAPS

-----------------------------------------------------------------------------
(* The used space.                                                         *)

(* What a walk has added up and what the files it has left hold is all that*)
(* is on the disk, as long as no file changes.                             *)
QuietWalksAddUp ==
    \A w \in Walks : walk[w] # Nothing /\ walk[w].quiet =>
        /\ ~walk[w].removals
        /\ walk[w].bytes + SumOver(disk, walk[w].left) = SumOver(disk, Files)

SpaceIInv == QuotaTypeOK /\ QuietWalksAddUp

(* The bytes of some files are a number.                                   *)
LEMMA BytesType ==
    ASSUME QuotaTypeOK, NEW some \in SUBSET Files
    PROVE  /\ IsFiniteSet(some)
           /\ \A f \in some : disk[f] \in Nat
           /\ SumOver(disk, some) \in Nat
<1>1. IsFiniteSet(some)
  BY QuotaAssumption, FS_Subset
<1>2. \A f \in some : disk[f] \in Nat
  BY DEF QuotaTypeOK
<1> QED
  BY <1>1, <1>2, SumType

(* The invariant holds at the start.                                       *)
LEMMA SpaceInitIInv == ASSUME QuotaInit PROVE SpaceIInv
BY DEF QuotaInit, SpaceIInv, QuotaTypeOK, QuietWalksAddUp

(* A step that changes neither disk nor walks.                             *)
LEMMA WalksStay ==
    ASSUME SpaceIInv, UNCHANGED <<disk, walk>>
    PROVE  /\ disk' \in [Files -> Nat]
           /\ walk' \in [Walks -> Walk \cup {Nothing}]
           /\ QuietWalksAddUp'
BY DEF SpaceIInv, QuotaTypeOK, QuietWalksAddUp

(* A file changes: no walk is quiet any more, if it is a change at all.    *)
LEMMA BecomesAddsUp ==
    ASSUME SpaceIInv, NEW f \in Files, NEW bytes \in Nat, Becomes(f, bytes)
    PROVE  /\ disk' \in [Files -> Nat]
           /\ walk' \in [Walks -> Walk \cup {Nothing}]
           /\ \A w \in Walks : walk'[w] = Nothing <=> walk[w] = Nothing
           /\ QuietWalksAddUp'
<1>1. disk' = [disk EXCEPT ![f] = bytes] /\ disk \in [Files -> Nat]
  BY DEF Becomes, SpaceIInv, QuotaTypeOK
<1>2. ASSUME NEW w \in Walks
      PROVE  /\ walk'[w] \in Walk \cup {Nothing}
             /\ walk'[w] = Nothing <=> walk[w] = Nothing
             /\ walk'[w] # Nothing /\ walk'[w].quiet => walk'[w] = walk[w] /\ disk' = disk
  <2>1. walk'[w] = IF walk[w] = Nothing \/ bytes = disk[f] THEN walk[w]
                   ELSE [walk[w] EXCEPT !.removals = @ \/ bytes = 0, !.quiet = FALSE]
    BY DEF Becomes
  <2>2. CASE walk[w] = Nothing
    BY <2>1, <2>2
  <2>3. CASE bytes = disk[f]
    <3>1. disk' = disk
      BY <1>1, <2>3
    <3> QED
      BY <2>1, <2>3, <3>1 DEF SpaceIInv, QuotaTypeOK
  <2>4. CASE walk[w] # Nothing /\ bytes # disk[f]
    <3>1. walk[w] \in Walk
      BY <2>4 DEF SpaceIInv, QuotaTypeOK
    <3>2. walk'[w] = [walk[w] EXCEPT !.removals = walk[w].removals \/ bytes = 0, !.quiet = FALSE]
      BY <2>1, <2>4
    <3>3. walk'[w] \in Walk /\ ~walk'[w].quiet
      BY <3>1, <3>2 DEF Walk
    <3> QED
      BY <2>4, <3>3, QuotaAssumption
  <2> QED
    BY <2>2, <2>3, <2>4
<1>3. walk' \in [Walks -> Walk \cup {Nothing}]
  BY <1>2 DEF Becomes
<1>4. disk' \in [Files -> Nat]
  BY <1>1
<1>5. QuietWalksAddUp'
  BY <1>2 DEF SpaceIInv, QuietWalksAddUp
<1> QED
  BY <1>2, <1>3, <1>4, <1>5

(* A walk that starts has all to add up.                                   *)
LEMMA StartsAddsUp ==
    ASSUME SpaceIInv, NEW w \in Walks, Starts(w), disk' = disk
    PROVE  walk' \in [Walks -> Walk \cup {Nothing}] /\ QuietWalksAddUp'
<1> DEFINE new == [left |-> Files, bytes |-> 0, removals |-> FALSE, quiet |-> TRUE]
<1>1. new \in Walk
  BY DEF Walk
<1>2. walk' = [walk EXCEPT ![w] = new] /\ walk \in [Walks -> Walk \cup {Nothing}]
  BY DEF Starts, SpaceIInv, QuotaTypeOK
<1>3. SumOver(disk, Files) \in Nat
  BY BytesType DEF SpaceIInv
<1>4. ~new.removals /\ new.bytes + SumOver(disk, new.left) = SumOver(disk, Files)
  BY <1>3
<1> HIDE DEF new
<1>5. walk' \in [Walks -> Walk \cup {Nothing}]
  BY <1>1, <1>2
<1>6. \A v \in Walks : walk'[v] = IF v = w THEN new ELSE walk[v]
  BY <1>2
<1>7. QuietWalksAddUp'
  BY <1>4, <1>6 DEF SpaceIInv, QuietWalksAddUp
<1> QED
  BY <1>5, <1>7

(* What a walk is when it has added up a file of n bytes.                  *)
LEMMA WalkAdds ==
    ASSUME NEW cur \in Walk, NEW f \in cur.left, NEW n \in Nat
    PROVE  \E new \in Walk :
               /\ new = [cur EXCEPT !.left = @ \ {f}, !.bytes = @ + n]
               /\ new.left = cur.left \ {f} /\ new.bytes = cur.bytes + n
               /\ new.quiet = cur.quiet /\ new.removals = cur.removals
<1>1. cur.left \ {f} \in SUBSET Files /\ cur.bytes + n \in Nat
  BY DEF Walk
<1> DEFINE rest == cur.left \ {f}
           bytes == cur.bytes + n
<1>2. [cur EXCEPT !.left = rest, !.bytes = bytes] \in Walk
  <2> HIDE DEF rest, bytes
  <2>1. rest \in SUBSET Files /\ bytes \in Nat
    BY <1>1 DEF rest, bytes
  <2> QED
    BY <2>1 DEF Walk
<1> WITNESS [cur EXCEPT !.left = rest, !.bytes = bytes] \in Walk
<1> QED
  BY <1>1 DEF Walk

(* A walk adds up one file, and goes on.                                   *)
LEMMA LstatIInv ==
    ASSUME SpaceIInv, NEW w \in Walks, Lstat(w)
    PROVE  SpaceIInv' /\ \A v \in Walks : walk[v] # Nothing => walk'[v] # Nothing
<1>1. PICK f \in walk[w].left :
         walk' = [walk EXCEPT ![w].left = @ \ {f}, ![w].bytes = @ + disk[f]]
  BY DEF Lstat
<1>2. PICK cur \in Walk : cur = walk[w]
  BY DEF Lstat, SpaceIInv, QuotaTypeOK
<1>3. /\ cur.left \in SUBSET Files /\ cur.bytes \in Nat /\ f \in cur.left
      /\ disk[f] \in Nat /\ walk \in [Walks -> Walk \cup {Nothing}]
  BY <1>1, <1>2 DEF Walk, SpaceIInv, QuotaTypeOK
<1>4. PICK new \in Walk :
         /\ new = [cur EXCEPT !.left = @ \ {f}, !.bytes = @ + disk[f]]
         /\ new.left = cur.left \ {f} /\ new.bytes = cur.bytes + disk[f]
         /\ new.quiet = cur.quiet /\ new.removals = cur.removals
  <2>1. \A g \in cur.left, n \in Nat : \E new \in Walk :
            /\ new = [cur EXCEPT !.left = @ \ {g}, !.bytes = @ + n]
            /\ new.left = cur.left \ {g} /\ new.bytes = cur.bytes + n
            /\ new.quiet = cur.quiet /\ new.removals = cur.removals
    BY WalkAdds
  <2> QED
    BY <1>3, <2>1
<1>5. \A v \in Walks : walk'[v] = IF v = w THEN new ELSE walk[v]
  BY <1>1, <1>2, <1>3, <1>4
<1>6. /\ walk' \in [Walks -> Walk \cup {Nothing}]
      /\ UNCHANGED <<usedSpaceBytes, dedicatedSpaceBytes, storage, disk, request>>
  <2>1. DOMAIN walk' = Walks /\ walk' = [v \in Walks |-> walk'[v]]
    BY <1>1, <1>3
  <2>2. \A v \in Walks : walk'[v] \in Walk \cup {Nothing}
    BY <1>3, <1>4, <1>5
  <2> QED
    BY <2>1, <2>2 DEF Lstat
<1>7. SumOver(disk, cur.left) = disk[f] + SumOver(disk, cur.left \ {f})
  BY <1>3, BytesType, SumWithout DEF SpaceIInv
<1>8. SumOver(disk, cur.left \ {f}) \in Nat
  BY <1>3, BytesType DEF SpaceIInv
<1>9. new.bytes + SumOver(disk, new.left) = cur.bytes + SumOver(disk, cur.left)
  BY <1>3, <1>4, <1>7, <1>8
<1>10. walk[w] # Nothing
  BY DEF Lstat
<1>11. ASSUME NEW v \in Walks, walk'[v] # Nothing, walk'[v].quiet
       PROVE  /\ ~walk'[v].removals
              /\ walk'[v].bytes + SumOver(disk, walk'[v].left) = SumOver(disk, Files)
  <2>1. CASE v = w
    <3>1. walk'[v] = new /\ cur.quiet
      BY <1>4, <1>5, <1>11, <2>1
    <3>2. ~cur.removals /\ cur.bytes + SumOver(disk, cur.left) = SumOver(disk, Files)
      BY <1>2, <1>10, <3>1 DEF SpaceIInv, QuietWalksAddUp
    <3> QED
      BY <1>4, <1>9, <3>1, <3>2
  <2>2. CASE v # w
    BY <1>5, <1>11, <2>2 DEF SpaceIInv, QuietWalksAddUp
  <2> QED
    BY <2>1, <2>2
<1>12. \A v \in Walks : walk[v] # Nothing => walk'[v] # Nothing
  BY <1>4, <1>5, QuotaAssumption
<1> QED
  BY <1>6, <1>11, <1>12 DEF SpaceIInv, QuotaTypeOK, QuietWalksAddUp

(* What a walk that ends has counted.                                      *)
LEMMA EndWalkIInv ==
    ASSUME SpaceIInv, NEW w \in Walks, EndWalk(w)
    PROVE  SpaceIInv'
<1>1. walk[w] \in Walk /\ walk[w].bytes \in Nat
  BY DEF EndWalk, SpaceIInv, QuotaTypeOK, Walk
<1>2. usedSpaceBytes' \in Nat
  BY <1>1 DEF EndWalk, Counted
<1>3. /\ walk' = [walk EXCEPT ![w] = Nothing] /\ walk \in [Walks -> Walk \cup {Nothing}]
      /\ UNCHANGED <<dedicatedSpaceBytes, storage, disk, request>>
  BY DEF EndWalk, SpaceIInv, QuotaTypeOK
<1> QED
  BY <1>2, <1>3 DEF SpaceIInv, QuotaTypeOK, QuietWalksAddUp

(* The uploads: their guard, their files and their ends.                   *)
LEMMA UploadsIInv ==
    ASSUME SpaceIInv, NEW f \in Files,
           \/ \E r \in Requests, size \in Sizes : SpaceGuard(r, f, size)
           \/ Grow(f) \/ Finish(f) \/ DeleteFile(f) \/ Rm(f)
           \/ \E weight \in Weights : CreateFile(f, weight)
    PROVE  SpaceIInv'
<1>1. /\ usedSpaceBytes \in Nat /\ dedicatedSpaceBytes \in Totals
      /\ storage \in [Files -> Sizes \cup {Nothing}]
      /\ request \in [Requests -> Request \cup {Nothing}]
      /\ disk[f] + 1 \in Nat
  BY DEF SpaceIInv, QuotaTypeOK
<1>2. ASSUME NEW r \in Requests, NEW size \in Sizes, SpaceGuard(r, f, size) PROVE SpaceIInv'
  <2>1. [file |-> f, size |-> size] \in Request
    BY DEF Request
  <2>2. request' \in [Requests -> Request \cup {Nothing}]
    BY <1>1, <1>2, <2>1 DEF SpaceGuard
  <2> QED
    BY <1>1, <1>2, <2>2, WalksStay DEF SpaceGuard, SpaceIInv, QuotaTypeOK
<1>3. ASSUME NEW bytes \in Nat, Becomes(f, bytes),
             UNCHANGED <<usedSpaceBytes, dedicatedSpaceBytes, storage, request>>
      PROVE  SpaceIInv'
  BY <1>1, <1>3, BecomesAddsUp DEF SpaceIInv, QuotaTypeOK
<1>4. CASE Grow(f) \/ Rm(f) \/ \E weight \in Weights : CreateFile(f, weight)
  <2>1. PICK bytes \in Nat : Becomes(f, bytes)
    BY <1>1, <1>4, QuotaAssumption DEF Grow, Rm, CreateFile
  <2>2. UNCHANGED <<usedSpaceBytes, dedicatedSpaceBytes, storage, request>>
    BY <1>4 DEF Grow, Rm, CreateFile
  <2> QED
    BY <1>3, <2>1, <2>2
<1>5. CASE Finish(f)
  BY <1>1, <1>5, StartsAddsUp DEF Finish, SpaceIInv, QuotaTypeOK
<1>6. CASE DeleteFile(f)
  BY <1>1, <1>6, WalksStay DEF DeleteFile, SpaceIInv, QuotaTypeOK
<1> QED
  BY <1>2, <1>4, <1>5, <1>6

(* The request behind the guard.                                           *)
LEMMA RequestsIInv ==
    ASSUME SpaceIInv, NEW r \in Requests, CreateFileTemp(r) \/ RefuseFile(r)
    PROVE  SpaceIInv'
<1>1. /\ usedSpaceBytes \in Nat /\ dedicatedSpaceBytes \in Totals
      /\ storage \in [Files -> Sizes \cup {Nothing}]
      /\ request \in [Requests -> Request \cup {Nothing}]
      /\ request[r] \in Request
  BY DEF CreateFileTemp, RefuseFile, SpaceIInv, QuotaTypeOK
<1>2. /\ request' = [request EXCEPT ![r] = Nothing]
      /\ UNCHANGED <<usedSpaceBytes, dedicatedSpaceBytes>>
  BY DEF CreateFileTemp, RefuseFile
<1>3. CASE CreateFileTemp(r)
  <2>1. request[r].file \in Files /\ request[r].size \in Sizes
    BY <1>1 DEF Request
  <2>2. storage' \in [Files -> Sizes \cup {Nothing}] /\ Becomes(request[r].file, 0)
    BY <1>1, <1>3, <2>1 DEF CreateFileTemp
  <2>3. /\ disk' \in [Files -> Nat]
        /\ walk' \in [Walks -> Walk \cup {Nothing}]
        /\ QuietWalksAddUp'
    BY <2>1, <2>2, BecomesAddsUp
  <2> QED
    BY <1>1, <1>2, <2>2, <2>3 DEF SpaceIInv, QuotaTypeOK
<1>4. CASE RefuseFile(r)
  BY <1>1, <1>2, <1>4, WalksStay DEF RefuseFile, SpaceIInv, QuotaTypeOK
<1> QED
  BY <1>3, <1>4

(* Every step keeps the invariant.                                         *)
LEMMA SpaceNextIInv == ASSUME SpaceIInv, [QuotaNext]_quotaVars PROVE SpaceIInv'
<1>1. ASSUME NEW total \in Totals, SetDedicatedSpace(total) PROVE SpaceIInv'
  BY <1>1, WalksStay DEF SetDedicatedSpace, SpaceIInv, QuotaTypeOK
<1>2. ASSUME NEW w \in Walks, UpdateUsedSpace(w) PROVE SpaceIInv'
  BY <1>2, StartsAddsUp DEF UpdateUsedSpace, SpaceIInv, QuotaTypeOK
<1>3. CASE UNCHANGED quotaVars
  BY <1>3, WalksStay DEF quotaVars, SpaceIInv, QuotaTypeOK
<1> QED
  BY <1>1, <1>2, <1>3, UploadsIInv, RequestsIInv, LstatIInv, EndWalkIInv DEF QuotaNext

(* The figures of the space guard keep their types, and quiet walks add up *)
(* what is on the disk, however many overlap ...                           *)
THEOREM SpaceInvariance == QuotaSpec => []SpaceIInv
<1>1. QuotaInit => SpaceIInv
  BY SpaceInitIInv
<1>2. SpaceIInv /\ [QuotaNext]_quotaVars => SpaceIInv'
  BY SpaceNextIInv
<1> QED
  BY <1>1, <1>2, PTL DEF QuotaSpec

(* (the used space is a number, of nothing less than nothing)              *)
THEOREM SpaceTypeCorrect == QuotaSpec => []QuotaTypeOK
<1>1. SpaceIInv => QuotaTypeOK
  BY DEF SpaceIInv
<1> QED
  BY <1>1, SpaceInvariance, PTL

(* ... so that a walk during which no file changes sets the used space to  *)
(* what is on the disk, for any files and numbers of requests and walks.   *)
THEOREM QuietWalksAreRight == QuotaSpec => QuietWalksCountTheDisk
<1> DEFINE Right(w) == walk[w] # Nothing /\ walk[w].quiet /\ walk'[w] = Nothing
                           => usedSpaceBytes' = DiskBytes
<1>1. ASSUME SpaceIInv, QuotaNext, NEW w \in Walks,
             walk[w] # Nothing, walk[w].quiet, walk'[w] = Nothing
      PROVE  usedSpaceBytes' = DiskBytes
  <2>1. walk \in [Walks -> Walk \cup {Nothing}] /\ walk[w] \in Walk /\ disk \in [Files -> Nat]
    BY <1>1 DEF SpaceIInv, QuotaTypeOK
  <2>2. ASSUME NEW f \in Files, NEW bytes \in Nat, Becomes(f, bytes) PROVE FALSE
    BY <1>1, <2>2, BecomesAddsUp
  <2>3. EndWalk(w)
    <3>1. ASSUME NEW v \in Walks, Starts(v) PROVE FALSE
      BY <1>1, <2>1, <3>1 DEF Starts
    <3>2. ASSUME NEW f \in Files, Grow(f) \/ Rm(f) PROVE FALSE
      <4>1. disk[f] + 1 \in Nat
        BY <2>1
      <4> QED
        BY <2>2, <3>2, <4>1 DEF Grow, Rm
    <3>3. ASSUME NEW f \in Files, NEW weight \in Weights, CreateFile(f, weight) PROVE FALSE
      BY <2>2, <3>3, QuotaAssumption DEF CreateFile
    <3>4. ASSUME NEW r \in Requests, CreateFileTemp(r) PROVE FALSE
      <4>1. request[r].file \in Files
        BY <1>1, <3>4 DEF CreateFileTemp, SpaceIInv, QuotaTypeOK, Request
      <4> QED
        BY <2>2, <3>4, <4>1 DEF CreateFileTemp
    <3>5. ASSUME NEW v \in Walks, Lstat(v) PROVE FALSE
      BY <1>1, <3>5, LstatIInv
    <3>6. \E v \in Walks : EndWalk(v)
      BY <1>1, <3>1, <3>2, <3>3, <3>4, <3>5
      DEF QuotaNext, SpaceGuard, RefuseFile, DeleteFile, Finish, SetDedicatedSpace, UpdateUsedSpace
    <3> QED
      BY <1>1, <3>6, <2>1 DEF EndWalk
  <2>4. ~walk[w].removals /\ walk[w].bytes + SumOver(disk, walk[w].left) = SumOver(disk, Files)
    BY <1>1 DEF SpaceIInv, QuietWalksAddUp
  <2>5. usedSpaceBytes' = walk[w].bytes /\ walk[w].left = {} /\ walk[w].bytes \in Nat
    BY <2>1, <2>3, <2>4 DEF EndWalk, Counted, Walk
  <2>6. SumOver(disk, {}) = 0
    BY SumOfNothing
  <2>7. DiskBytes = SumOver(disk, Files)
    BY <2>1 DEF DiskBytes, SumFunction, SumOver
  <2> QED
    BY <2>4, <2>5, <2>6, <2>7
<1>2. SpaceIInv /\ [QuotaNext]_quotaVars => [\A w \in Walks : Right(w)]_quotaVars
  BY <1>1
<1> QED
  BY <1>2, SpaceInvariance, PTL DEF QuotaSpec, QuietWalksCountTheDisk

-----------------------------------------------------------------------------
(* The stored trees.                                                       *)

(* A refresh that began when the user had both a stored tree and a         *)
(* directory still finds them, and does not create the tree.               *)
Founded ==
    \A t \in Tasks : refresh[t] # None /\ ~refresh[t].first =>
        /\ tree[refresh[t].user] # None
        /\ files[refresh[t].user] # None
        /\ refresh[t].pc # "create"

IInv == TypeOK /\ Founded /\ OnlyBrokenRefreshesEndTheProcess

-----------------------------------------------------------------------------
(* The version numbers are those of some user.                             *)
LEMMA VersionsAreNumbers ==
    /\ Versions \subseteq Nat
    /\ None \notin Versions
    /\ \A u \in Users : 0 .. MaxVersion[u] \subseteq Versions
<1>1. Versions \subseteq Nat
  BY TreesAssumption DEF Versions
<1>2. \A u \in Users : 0 .. MaxVersion[u] \subseteq Versions
  BY Zenon DEF Versions
<1> QED
  BY <1>1, <1>2, TreesAssumption

(* A refresh that begins is founded.                                       *)
LEMMA NewRefreshIsFounded ==
    ASSUME NEW kind \in Kinds, NEW u \in Users, NEW left \in SUBSET Users
    PROVE  /\ NewRefresh(kind, u, left) \in Refresh
           /\ NewRefresh(kind, u, left).user = u
           /\ NewRefresh(kind, u, left).pc = "walk"
           /\ ~NewRefresh(kind, u, left).first => tree[u] # None /\ files[u] # None
<1>1. 0 \in Versions
  <2>1. 0 \in 0 .. MaxVersion[u]
    BY TreesAssumption
  <2> QED
    BY <2>1, VersionsAreNumbers
<1>2. (tree[u] = None \/ files[u] = None) \in BOOLEAN
  OBVIOUS
<1> QED
  BY <1>1, <1>2 DEF NewRefresh, Refresh

(* What a step may do to the refreshes: each stays, ends, or is founded on *)
(* what there is after the step.                                           *)
LEMMA RefreshesIInv ==
    ASSUME IInv,
           files' \in [Users -> Versions \cup {None}],
           tree' \in [Users -> Versions \cup {None}],
           userIndexUpdateScheduled' \subseteq Users, failed' \subseteq Users,
           updating' \in BOOLEAN, alive' \in BOOLEAN, culprit' = culprit,
           \A u \in Users : /\ files[u] # None => files'[u] # None
                            /\ tree[u] # None => tree'[u] # None,
           refresh' \in [Tasks -> Refresh \cup {None}],
           \A t \in Tasks :
               \/ refresh'[t] = refresh[t]
               \/ refresh'[t] # None /\ ~refresh'[t].first =>
                      /\ tree[refresh'[t].user] # None
                      /\ files[refresh'[t].user] # None
                      /\ refresh'[t].pc # "create"
    PROVE  IInv'
<1>1. \A t \in Tasks : refresh'[t] # None => refresh'[t].user \in Users
  BY DEF Refresh
<1>2. Founded'
  BY <1>1 DEF IInv, Founded
<1> QED
  BY <1>2 DEF IInv, TypeOK, OnlyBrokenRefreshesEndTheProcess

(* One refresh begins or goes on.                                          *)
LEMMA RefreshIInv ==
    ASSUME IInv, NEW t \in Tasks, NEW new \in Refresh \cup {None},
           refresh' = [refresh EXCEPT ![t] = new],
           new # None /\ ~new.first =>
               tree[new.user] # None /\ files[new.user] # None /\ new.pc # "create",
           files' \in [Users -> Versions \cup {None}],
           tree' \in [Users -> Versions \cup {None}],
           userIndexUpdateScheduled' \subseteq Users, failed' \subseteq Users,
           updating' \in BOOLEAN, alive' \in BOOLEAN, culprit' = culprit,
           \A u \in Users : /\ files[u] # None => files'[u] # None
                            /\ tree[u] # None => tree'[u] # None
    PROVE  IInv'
<1>1. \A s \in Tasks : refresh'[s] = IF s = t THEN new ELSE refresh[s]
  BY DEF IInv, TypeOK
<1>2. refresh' \in [Tasks -> Refresh \cup {None}]
  BY DEF IInv, TypeOK
<1>3. \A s \in Tasks :
          \/ refresh'[s] = refresh[s]
          \/ refresh'[s] # None /\ ~refresh'[s].first =>
                 /\ tree[refresh'[s].user] # None
                 /\ files[refresh'[s].user] # None
                 /\ refresh'[s].pc # "create"
  BY <1>1
<1> HIDE DEF IInv
<1> QED
  BY <1>2, <1>3, RefreshesIInv

(* The user's files and tree stay what they are, or become a version.      *)
LEMMA VersionStays ==
    ASSUME NEW f \in [Users -> Versions \cup {None}], NEW u \in Users,
           NEW v \in Versions
    PROVE  /\ [f EXCEPT ![u] = v] \in [Users -> Versions \cup {None}]
           /\ \A w \in Users : f[w] # None => [f EXCEPT ![u] = v][w] # None
BY VersionsAreNumbers

-----------------------------------------------------------------------------
(* The steps.                                                              *)

(* The invariant holds at the start.                                       *)
LEMMA InitIInv == ASSUME Init PROVE IInv
BY TreesAssumption DEF Init, IInv, TypeOK, Founded, OnlyBrokenRefreshesEndTheProcess

(* A folder is created: its user has files from now on.                    *)
LEMMA CreateFolderIInv ==
    ASSUME IInv, NEW t \in Tasks, NEW u \in Users, CreateFolder(t, u)
    PROVE  IInv'
<1>1. PICK v \in Versions : v = IF files[u] = None THEN 0 ELSE files[u] + 1
  <2>1. CASE files[u] = None
    <3>1. 0 \in 0 .. MaxVersion[u]
      BY TreesAssumption
    <3> QED
      BY <2>1, <3>1, VersionsAreNumbers
  <2>2. CASE files[u] # None
    <3>1. files[u] \in Nat /\ files[u] < MaxVersion[u]
      BY <2>2, VersionsAreNumbers DEF CreateFolder, IInv, TypeOK
    <3>2. files[u] + 1 \in 0 .. MaxVersion[u]
      BY <3>1, TreesAssumption
    <3> QED
      BY <2>2, <3>2, VersionsAreNumbers
  <2> QED
    BY <2>1, <2>2
<1>2. files' = [files EXCEPT ![u] = v] /\ files \in [Users -> Versions \cup {None}]
  BY <1>1 DEF CreateFolder, IInv, TypeOK
<1>3. /\ files' \in [Users -> Versions \cup {None}]
      /\ \A w \in Users : files[w] # None => files'[w] # None
  BY <1>2, VersionStays
<1>4. PICK new \in Refresh \cup {None} : new = NewRefresh("folder", u, {})
  BY NewRefreshIsFounded DEF Kinds
<1>5. new # None /\ ~new.first =>
          tree[new.user] # None /\ files[new.user] # None /\ new.pc # "create"
  BY <1>4, NewRefreshIsFounded DEF Kinds
<1>6. /\ refresh' = [refresh EXCEPT ![t] = new]
      /\ UNCHANGED <<tree, userIndexUpdateScheduled, updating, alive, culprit, failed>>
  BY <1>4 DEF CreateFolder
<1>7. /\ tree' \in [Users -> Versions \cup {None}] /\ userIndexUpdateScheduled' \subseteq Users
      /\ updating' \in BOOLEAN /\ alive' \in BOOLEAN /\ failed' \subseteq Users
  BY <1>6 DEF IInv, TypeOK
<1> HIDE DEF IInv
<1> QED
  BY <1>3, <1>5, <1>6, <1>7, RefreshIInv

(* A file changes.                                                         *)
LEMMA ChangeFileIInv ==
    ASSUME IInv, NEW u \in Users, NEW schedules \in BOOLEAN,
           NEW removes \in BOOLEAN, ChangeFile(u, schedules, removes)
    PROVE  IInv'
<1>1. files[u] \in Nat /\ files[u] < MaxVersion[u]
  BY VersionsAreNumbers DEF ChangeFile, IInv, TypeOK
<1>2. files[u] + 1 \in 0 .. MaxVersion[u]
  BY <1>1, TreesAssumption
<1>3. PICK v \in Versions : v = files[u] + 1
  BY <1>2, VersionsAreNumbers
<1>4. files' = [files EXCEPT ![u] = v] /\ files \in [Users -> Versions \cup {None}]
  BY <1>3 DEF ChangeFile, IInv, TypeOK
<1>5. /\ files' \in [Users -> Versions \cup {None}]
      /\ \A w \in Users : files[w] # None => files'[w] # None
  BY <1>4, VersionStays
<1>6. /\ UNCHANGED <<tree, updating, alive, culprit>>
      /\ userIndexUpdateScheduled' \subseteq Users /\ failed' \subseteq Users
      /\ tree' \in [Users -> Versions \cup {None}] /\ updating' \in BOOLEAN /\ alive' \in BOOLEAN
  BY DEF ChangeFile, IInv, TypeOK
<1>7. ASSUME NEW t \in Tasks
      PROVE  /\ refresh'[t] \in Refresh \cup {None}
             /\ \/ refresh'[t] = refresh[t]
                \/ refresh'[t] # None /\ ~refresh'[t].first =>
                       /\ tree[refresh'[t].user] # None
                       /\ files[refresh'[t].user] # None
                       /\ refresh'[t].pc # "create"
  <2>1. CASE refresh'[t] = refresh[t]
    BY <2>1 DEF IInv, TypeOK
  <2>2. CASE refresh[t] # None /\ refresh'[t] = [refresh[t] EXCEPT !.torn = TRUE]
    <3>1. PICK cur \in Refresh : cur = refresh[t]
      BY <2>2 DEF IInv, TypeOK
    <3>2. /\ refresh'[t] \in Refresh /\ refresh'[t].user = cur.user
          /\ refresh'[t].pc = cur.pc /\ refresh'[t].first = cur.first
      BY <2>2, <3>1 DEF Refresh
    <3> QED
      BY <2>2, <3>1, <3>2 DEF IInv, Founded
  <2> QED
    BY <2>1, <2>2 DEF ChangeFile, At
<1>8. refresh' \in [Tasks -> Refresh \cup {None}]
  BY <1>7 DEF ChangeFile
<1> HIDE DEF IInv
<1> QED
  BY <1>5, <1>6, <1>7, <1>8, RefreshesIInv

(* A refresh of one user begins.                                           *)
LEMMA NewRefreshIInv ==
    ASSUME IInv, NEW t \in Tasks, NEW kind \in Kinds, NEW u \in Users,
           NEW left \in SUBSET Users, refresh' = [refresh EXCEPT ![t] = NewRefresh(kind, u, left)],
           userIndexUpdateScheduled' \subseteq Users, failed' \subseteq Users,
           updating' \in BOOLEAN, alive' \in BOOLEAN, culprit' = culprit,
           files' = files,
           tree' \in [Users -> Versions \cup {None}],
           \A w \in Users : tree[w] # None => tree'[w] # None
    PROVE  IInv'
<1>1. PICK new \in Refresh \cup {None} : new = NewRefresh(kind, u, left)
  BY NewRefreshIsFounded
<1>2. new # None /\ ~new.first =>
          tree[new.user] # None /\ files[new.user] # None /\ new.pc # "create"
  BY <1>1, NewRefreshIsFounded
<1>3. files' \in [Users -> Versions \cup {None}]
  BY DEF IInv, TypeOK
<1> HIDE DEF IInv
<1> QED
  BY <1>1, <1>2, <1>3, RefreshIInv

(* A refresh ends, or its loop goes on to another user.                    *)
LEMMA EndsIInv ==
    ASSUME IInv, NEW t \in Tasks, Ends(t), refresh[t] # None,
           UNCHANGED <<files, alive, culprit>>, failed' \subseteq Users,
           tree' \in [Users -> Versions \cup {None}],
           \A w \in Users : tree[w] # None => tree'[w] # None
    PROVE  IInv'
<1>1. alive' \in BOOLEAN /\ updating \in BOOLEAN /\ userIndexUpdateScheduled \subseteq Users
  BY DEF IInv, TypeOK
<1>2. ASSUME NEW u \in Users, Pop(t, u), UNCHANGED updating
      PROVE  IInv'
  <2>1. "indexes" \in Kinds /\ {} \in SUBSET Users
    BY DEF Kinds
  <2>2. /\ refresh' = [refresh EXCEPT ![t] = NewRefresh("indexes", u, {})]
        /\ userIndexUpdateScheduled' \subseteq Users /\ updating' \in BOOLEAN
    BY <1>1, <1>2 DEF Pop
  <2> QED
    BY <1>1, <2>1, <2>2, NewRefreshIInv
<1>3. ASSUME NEW u \in refresh[t].left,
             refresh' = [refresh EXCEPT ![t] = NewRefresh("all", u, refresh[t].left \ {u})],
             UNCHANGED <<userIndexUpdateScheduled, updating>>
      PROVE  IInv'
  <2>1. "all" \in Kinds /\ u \in Users /\ refresh[t].left \ {u} \in SUBSET Users
    BY DEF Kinds, IInv, TypeOK, Refresh
  <2>2. userIndexUpdateScheduled' \subseteq Users /\ updating' \in BOOLEAN
    BY <1>1, <1>3
  <2> QED
    BY <1>1, <1>3, <2>1, <2>2, NewRefreshIInv
<1>4. CASE /\ refresh' = [refresh EXCEPT ![t] = None]
           /\ updating' = (updating /\ refresh[t].kind # "all")
           /\ UNCHANGED userIndexUpdateScheduled
  <2>1. PICK new \in Refresh \cup {None} : new = None
    OBVIOUS
  <2>2. files' \in [Users -> Versions \cup {None}] /\ updating' \in BOOLEAN
    BY <1>4 DEF IInv, TypeOK
  <2> QED
    BY <1>1, <1>4, <2>1, <2>2, RefreshIInv
<1> QED
  BY <1>2, <1>3, <1>4 DEF Ends

(* A refresh rejects: the cause is the database, or the refresh itself, if *)
(* it is a first one or torn.                                              *)
LEMMA FailsIInv ==
    ASSUME IInv, NEW t \in Tasks, refresh[t] # None,
           NEW cause \in {refresh[t], Database}, NEW walked \in BOOLEAN,
           Fails(t, cause, walked),
           cause = refresh[t] => refresh[t].first \/ refresh[t].torn
    PROVE  IInv'
<1>1. CASE /\ Unheard(refresh[t].kind, walked)
           /\ alive' = FALSE
           /\ culprit' = cause
           /\ userIndexUpdateScheduled' = {}
           /\ updating' = FALSE
           /\ refresh' = [s \in Tasks |-> None]
           /\ UNCHANGED failed
  <2>1. TypeOK' /\ Founded'
    BY <1>1 DEF Fails, IInv, TypeOK, Founded
  <2>2. OnlyBrokenRefreshesEndTheProcess'
    <3>1. Database \notin Refresh
      BY TreesAssumption
    <3>2. cause = refresh[t] => refresh[t].kind \in {"folder", "patch", "get"}
      BY <1>1 DEF Unheard
    <3> QED
      BY <1>1, <3>1, <3>2 DEF OnlyBrokenRefreshesEndTheProcess
  <2> QED
    BY <2>1, <2>2 DEF IInv
<1>2. CASE /\ failed' = failed \cup {refresh[t].user}
           /\ Ends(t)
           /\ UNCHANGED <<alive, culprit>>
  <2>1. tree' \in [Users -> Versions \cup {None}] /\ UNCHANGED <<files, tree>>
    BY DEF Fails, IInv, TypeOK
  <2>2. failed' \subseteq Users
    BY <1>2 DEF IInv, TypeOK, Refresh
  <2> HIDE DEF IInv
  <2> QED
    BY <1>2, <2>1, <2>2, EndsIInv
<1>3. CASE /\ refresh' = [refresh EXCEPT ![t] = None]
           /\ UNCHANGED <<userIndexUpdateScheduled, updating, alive, culprit, failed>>
  BY <1>3 DEF Fails, IInv, TypeOK, Founded, OnlyBrokenRefreshesEndTheProcess
<1> QED
  BY <1>1, <1>2, <1>3 DEF Fails

(* A refresh at another await, with what it has read.                      *)
LEMMA RefreshReads ==
    ASSUME NEW cur \in Refresh, NEW v \in Versions
    PROVE  \E new \in Refresh :
               /\ new = [cur EXCEPT !.pc = "findUnique", !.version = v]
               /\ new.user = cur.user /\ new.pc = "findUnique"
               /\ new.first <=> cur.first
<1> USE DEF Refresh
<1> WITNESS [cur EXCEPT !.pc = "findUnique", !.version = v] \in Refresh
<1> QED
  OBVIOUS

(* The same, without.                                                      *)
LEMMA RefreshMoves ==
    ASSUME NEW cur \in Refresh, NEW pc \in {"update", "create"}
    PROVE  \E new \in Refresh :
               /\ new = [cur EXCEPT !.pc = pc]
               /\ new.user = cur.user /\ new.pc = pc
               /\ new.first <=> cur.first
<1> USE DEF Refresh
<1> WITNESS [cur EXCEPT !.pc = pc] \in Refresh
<1> QED
  OBVIOUS

(* A walk ends.                                                            *)
LEMMA GenerateTreeIInv ==
    ASSUME IInv, NEW t \in Tasks, GenerateTree(t)
    PROVE  IInv'
<1>1. PICK cur \in Refresh : cur = refresh[t]
  BY DEF GenerateTree, At, IInv, TypeOK
<1>2. refresh[t] # None /\ UNCHANGED <<files, tree>>
  BY DEF GenerateTree, At, Fails
<1>3. CASE /\ files[cur.user] # None
           /\ refresh' = [refresh EXCEPT ![t].pc = "findUnique", ![t].version = files[cur.user]]
           /\ UNCHANGED <<userIndexUpdateScheduled, updating, alive, culprit, failed>>
  <2>1. PICK v \in Versions : v = files[cur.user]
    BY <1>3 DEF IInv, TypeOK, Refresh
  <2>2. PICK new \in Refresh :
           /\ new = [cur EXCEPT !.pc = "findUnique", !.version = v]
           /\ new.user = cur.user /\ new.pc = "findUnique"
           /\ new.first <=> cur.first
    BY RefreshReads
  <2>3. refresh' = [refresh EXCEPT ![t] = new]
    BY <1>1, <1>3, <2>1, <2>2
  <2>4. new # None /\ ~new.first =>
            tree[new.user] # None /\ files[new.user] # None /\ new.pc # "create"
    BY <1>1, <1>2, <2>2 DEF IInv, Founded
  <2>5. /\ files' \in [Users -> Versions \cup {None}] /\ tree' \in [Users -> Versions \cup {None}]
        /\ userIndexUpdateScheduled' \subseteq Users /\ updating' \in BOOLEAN /\ alive' \in BOOLEAN
        /\ failed' \subseteq Users
    BY <1>2, <1>3 DEF IInv, TypeOK
  <2> QED
    BY <1>2, <1>3, <2>3, <2>4, <2>5, RefreshIInv
<1>4. CASE refresh[t].torn /\ Fails(t, refresh[t], TRUE)
  BY <1>2, <1>4, FailsIInv
<1>5. CASE files[refresh[t].user] = None /\ Fails(t, refresh[t], FALSE)
  <2>1. refresh[t].first
    BY <1>2, <1>5 DEF IInv, Founded
  <2> QED
    BY <1>2, <1>5, <2>1, FailsIInv
<1> QED
  BY <1>1, <1>3, <1>4, <1>5 DEF GenerateTree

(* The row was looked for.                                                 *)
LEMMA FindUniqueIInv ==
    ASSUME IInv, NEW t \in Tasks, FindUnique(t)
    PROVE  IInv'
<1>1. PICK cur \in Refresh : cur = refresh[t]
  BY DEF FindUnique, At, IInv, TypeOK
<1>2. /\ refresh[t] # None
      /\ UNCHANGED <<files, tree, userIndexUpdateScheduled, updating, alive, culprit, failed>>
  BY DEF FindUnique, At
<1>3. PICK pc \in {"update", "create"} :
          pc = IF tree[cur.user] # None THEN "update" ELSE "create"
  OBVIOUS
<1>4. PICK new \in Refresh :
         /\ new = [cur EXCEPT !.pc = pc]
         /\ new.user = cur.user /\ new.pc = pc
         /\ new.first <=> cur.first
  <2>1. \A p \in {"update", "create"} : \E new \in Refresh :
            /\ new = [cur EXCEPT !.pc = p]
            /\ new.user = cur.user /\ new.pc = p
            /\ new.first <=> cur.first
    BY RefreshMoves
  <2> QED
    BY <2>1
<1>5. refresh' = [refresh EXCEPT ![t] = new]
  BY <1>1, <1>3, <1>4 DEF FindUnique
<1>6. new # None /\ ~new.first =>
          tree[new.user] # None /\ files[new.user] # None /\ new.pc # "create"
  BY <1>1, <1>2, <1>3, <1>4 DEF IInv, Founded
<1>7. /\ files' \in [Users -> Versions \cup {None}] /\ tree' \in [Users -> Versions \cup {None}]
      /\ userIndexUpdateScheduled' \subseteq Users /\ updating' \in BOOLEAN /\ alive' \in BOOLEAN
      /\ failed' \subseteq Users
  BY <1>2 DEF IInv, TypeOK
<1> QED
  BY <1>2, <1>5, <1>6, <1>7, RefreshIInv

(* The tree is stored.                                                     *)
LEMMA StoredIInv ==
    ASSUME IInv, NEW t \in Tasks, refresh[t] # None, Stored(t)
    PROVE  IInv'
<1>1. PICK cur \in Refresh : cur = refresh[t]
  BY DEF IInv, TypeOK
<1>2. /\ tree' = [tree EXCEPT ![cur.user] = cur.version]
      /\ cur.user \in Users /\ cur.version \in Versions
      /\ tree \in [Users -> Versions \cup {None}]
  BY <1>1 DEF Stored, Refresh, IInv, TypeOK
<1>3. /\ tree' \in [Users -> Versions \cup {None}]
      /\ \A w \in Users : tree[w] # None => tree'[w] # None
  BY <1>2, VersionStays
<1>4. Ends(t) /\ UNCHANGED <<files, alive, culprit>> /\ failed' \subseteq Users
  BY DEF Stored, IInv, TypeOK
<1> HIDE DEF IInv
<1> QED
  BY <1>3, <1>4, EndsIInv

(* The tree is stored, is there already, or the database refuses.          *)
LEMMA WrittenIInv ==
    ASSUME IInv, NEW t \in Tasks, UpdateTree(t) \/ SaveTree(t) \/ Refused(t)
    PROVE  IInv'
<1>1. refresh[t] # None
  BY DEF UpdateTree, SaveTree, Refused, At
<1>2. CASE refresh[t].pc = "create" /\ Fails(t, refresh[t], TRUE)
  <2>1. refresh[t].first
    BY <1>1, <1>2 DEF IInv, Founded
  <2> QED
    BY <1>1, <1>2, <2>1, FailsIInv
<1>3. CASE Refused(t)
  <2>1. Database # refresh[t]
    BY <1>1, TreesAssumption DEF IInv, TypeOK
  <2> QED
    BY <1>1, <1>3, <2>1, FailsIInv DEF Refused
<1> QED
  BY <1>1, <1>2, <1>3, StoredIInv DEF UpdateTree, SaveTree, At

(* The jobs and requests that begin a refresh.                             *)
LEMMA BeginsIInv ==
    ASSUME IInv, NEW t \in Tasks,
           \/ UpdateIndexes(t)
           \/ UpdateUsersTrees(t)
           \/ \E u \in Users : RefreshOne(t, "patch", u) \/ RefreshOne(t, "get", u)
    PROVE  IInv'
<1>1. /\ tree \in [Users -> Versions \cup {None}] /\ userIndexUpdateScheduled \subseteq Users
      /\ updating \in BOOLEAN /\ alive \in BOOLEAN /\ failed \subseteq Users
  BY DEF IInv, TypeOK
<1>2. {"indexes", "all", "patch", "get"} \subseteq Kinds /\ {} \in SUBSET Users
  BY DEF Kinds
<1>3. ASSUME NEW u \in Users, Pop(t, u), UNCHANGED <<files, tree, updating, alive, culprit, failed>>
      PROVE  IInv'
  <2>1. /\ refresh' = [refresh EXCEPT ![t] = NewRefresh("indexes", u, {})]
        /\ userIndexUpdateScheduled' \subseteq Users
    BY <1>1, <1>3 DEF Pop
  <2> QED
    BY <1>1, <1>2, <1>3, <2>1, NewRefreshIInv
<1>4. ASSUME NEW u \in Users, updating' = TRUE,
             refresh' = [refresh EXCEPT ![t] = NewRefresh("all", u, Users \ {u})],
             UNCHANGED <<files, tree, userIndexUpdateScheduled, alive, culprit, failed>>
      PROVE  IInv'
  <2>1. Users \ {u} \in SUBSET Users /\ updating' \in BOOLEAN
    BY <1>4
  <2> QED
    BY <1>1, <1>2, <1>4, <2>1, NewRefreshIInv
<1>5. ASSUME NEW u \in Users, NEW kind \in {"patch", "get"}, RefreshOne(t, kind, u)
      PROVE  IInv'
  <2>1. /\ refresh' = [refresh EXCEPT ![t] = NewRefresh(kind, u, {})]
        /\ UNCHANGED <<files, tree, userIndexUpdateScheduled, updating, alive, culprit, failed>>
    BY <1>5 DEF RefreshOne
  <2>2. kind \in Kinds
    BY <1>2
  <2> QED
    BY <1>1, <1>2, <2>1, <2>2, NewRefreshIInv
<1>6. ASSUME UpdateUsersTrees(t), UNCHANGED refresh
      PROVE  IInv'
  BY <1>6 DEF UpdateUsersTrees, IInv, TypeOK, Founded, OnlyBrokenRefreshesEndTheProcess
<1> QED
  BY <1>3, <1>4, <1>5, <1>6 DEF UpdateIndexes, UpdateUsersTrees

(* Every step keeps the invariant.                                         *)
LEMMA NextIInv == ASSUME IInv, [Next]_treeVars PROVE IInv'
<1>1. CASE Start \/ UNCHANGED treeVars
  BY <1>1, TreesAssumption
  DEF Start, treeVars, IInv, TypeOK, Founded, OnlyBrokenRefreshesEndTheProcess
<1>2. CASE \E u \in Users, schedules, removes \in BOOLEAN : ChangeFile(u, schedules, removes)
  BY <1>2, ChangeFileIInv
<1>3. ASSUME NEW t \in Tasks, Continue(t) \/ Refused(t) PROVE IInv'
  BY <1>3, GenerateTreeIInv, FindUniqueIInv, WrittenIInv DEF Continue
<1>4. ASSUME NEW t \in Tasks, NEW u \in Users, CreateFolder(t, u) PROVE IInv'
  BY <1>4, CreateFolderIInv
<1> QED
  BY <1>1, <1>2, <1>3, <1>4, BeginsIInv DEF Next

-----------------------------------------------------------------------------
(* The theorems.                                                           *)

(* The invariant holds in every state.                                     *)
THEOREM Invariance == Spec => []IInv
<1>1. Init => IInv
  BY InitIInv
<1>2. IInv /\ [Next]_treeVars => IInv'
  BY NextIInv
<1> QED
  BY <1>1, <1>2, PTL DEF Spec

(* What is stored and what is read are versions of the files of a user; in *)
(* particular GenerateTree never stores a directory that is not there.     *)
THEOREM TypeCorrect == Spec => []TypeOK
<1>1. IInv => TypeOK
  BY DEF IInv
<1> QED
  BY <1>1, Invariance, PTL

(* Unless the database refuses a query, what ends the process is a refresh *)
(* that somebody asked for and nobody listens to, and either began before  *)
(* its user had both a directory and a stored tree, or lost a file under   *)
(* its walk: all others may overlap, however many there are.               *)
THEOREM BrokenRefreshes == Spec => []OnlyBrokenRefreshesEndTheProcess
<1>1. IInv => OnlyBrokenRefreshesEndTheProcess
  BY DEF IInv
<1> QED
  BY <1>1, Invariance, PTL
=============================================================================
