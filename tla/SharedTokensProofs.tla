-------------------------- MODULE SharedTokensProofs --------------------------
(***************************************************************************)
(* Theorems about SharedTokens: the types, what a cached link or list      *)
(* promises, which requests may take a link away or end the process, and   *)
(* that links follow files.                                                *)
(***************************************************************************)
EXTENDS SharedTokens, FiniteSetTheorems, TLAPS

Looking == {"info", "content", "delete", "update"}
Everyone == {"deleteMany", "updateMany", "findStarts", "updateEach"}
Holding == {"fill", "exists", "remove", "update"}

(* What a task holds at each of its awaits.  The guard has let an owner in *)
(* by the name it found, however old that was.                             *)
Shape(k) ==
    \/ /\ k.pc \in {"count", "create"} /\ k.op = "share" /\ k.id \in Ids
       /\ k.user \in Users /\ k.path \in Paths /\ k.settings \in Settings
    \/ /\ k.pc \in {"findUnique", "fill"} /\ k.op \in Looking /\ k.id \in Ids
       /\ k.op = "update" => k.settings \in Settings
    \/ k.pc = "exists" /\ k.op = "info" /\ k.id \in Ids /\ k.row \in Row
    \/ /\ k.pc = "remove" /\ k.op \in {"info", "delete"} /\ k.id \in Ids /\ k.row \in Row
       /\ k.op = "delete" => k.row.userid = k.user
    \/ /\ k.pc = "update" /\ k.op = "update" /\ k.id \in Ids /\ k.row \in Row
       /\ k.settings \in Settings /\ k.row.userid = k.user
    \/ k.pc \in {"findMany", "fillPage"} /\ k.op \in {"list", "pages"}
    \/ /\ k.pc = "deleteMany" /\ k.op \in {"unshare", "deleteFile"}
       /\ k.user \in Users /\ k.path \in Paths
    \/ k.pc = "rm" /\ k.op = "deleteFile" /\ k.user \in Users /\ k.path \in Paths
    \/ /\ k.pc = "rename" /\ k.op \in {"move", "rename"}
       /\ k.user \in Users /\ k.path \in Paths /\ k.to \in Paths
    \/ /\ k.pc \in {"updateMany", "findStarts", "updateEach"} /\ k.op = "move"
       /\ k.user \in Users /\ k.path \in Paths /\ k.to \in Paths

Shapes == \A t \in Tasks : task[t] # None => Shape(task[t])

(* What it holds is so as long as nobody has written it.                   *)
Fresh(k) ==
    ~k.stale =>
        /\ k.pc \in Holding => k.row = sharedfile[k.id]
        /\ k.pc = "remove" /\ k.op = "info" => <<k.row.userid, k.row.path>> \notin disk
        /\ k.pc = "fillPage" =>
               IF k.op = "list"
               THEN \A id \in k.tokens : sharedfile[id] # None /\ sharedfile[id].public
               ELSE Listed \subseteq k.tokens

FreshReads == \A t \in Tasks : task[t] # None => Fresh(task[t])

Typed == TypeOK /\ Shapes

(* k has dropped the caches and is going to write the link id.             *)
Rewriter(k, id) == k.pc \in Everyone \/ (k.pc \in {"remove", "update"} /\ k.id = id)

Publisher(k) == k.pc = "create" /\ k.settings.public

SoundEntries ==
    \A id \in Ids :
        LET entry == cacheTokens[id]
        IN  entry # None /\ ~entry.overlapped /\ entry.data # None =>
                /\ sharedfile[id] = entry.data
                /\ \A t \in Tasks : task[t] # None => ~Rewriter(task[t], id)

SoundPages ==
    \A p \in Pages :
        LET list == tokensPagesCache[p]
        IN  list # None /\ ~list.overlapped =>
                /\ \A id \in list.tokens : sharedfile[id] # None /\ sharedfile[id].public
                /\ \A id \in Ids, t \in Tasks : task[t] # None => ~Rewriter(task[t], id)

SoundTotal ==
    LET total == tokensTotalPagesCache
    IN  total # None /\ ~total.overlapped =>
            /\ total.pages * Group >= Cardinality(Listed)
            /\ \A id \in Ids, t \in Tasks :
                  task[t] # None => ~Rewriter(task[t], id) /\ ~Publisher(task[t])

Sound == SoundEntries /\ SoundPages /\ SoundTotal

IInv == Typed /\ FreshReads /\ Sound

-----------------------------------------------------------------------------
(* Sets and numbers.                                                       *)

(* There is a first page.                                                  *)
LEMMA FirstPage == 0 \in Pages /\ Pages \subseteq Nat
<1>1. Cardinality(Ids) \in Nat /\ Cardinality(Ids) # 0
  BY SharedTokensAssumption, FS_CardinalityType, FS_EmptySet
<1> QED
  BY <1>1 DEF Pages

(* The public links are finitely many, and fewer if there are fewer.       *)
LEMMA Counting ==
    ASSUME NEW S \in SUBSET Ids
    PROVE  /\ IsFiniteSet(S) /\ Cardinality(S) \in Nat
           /\ \A R \in SUBSET S : Cardinality(R) \in Nat /\ Cardinality(R) <= Cardinality(S)
<1>1. IsFiniteSet(S)
  BY SharedTokensAssumption, FS_Subset
<1>2. ASSUME NEW R \in SUBSET S
      PROVE  Cardinality(R) \in Nat /\ Cardinality(R) <= Cardinality(S)
  BY <1>1, FS_Subset, FS_CardinalityType
<1> QED
  BY <1>1, <1>2, FS_CardinalityType

(* Rounded up, the pages hold all.                                         *)
LEMMA CeilCovers ==
    ASSUME NEW a \in Nat, NEW b \in Nat \ {0}
    PROVE  Ceil(a, b) \in Nat /\ Ceil(a, b) * b >= a
<1>1. (a + b - 1) \div b \in Int
  OBVIOUS
<1>2. (a + b - 1) = ((a + b - 1) \div b) * b + ((a + b - 1) % b)
  OBVIOUS
<1>3. (a + b - 1) % b \in 0 .. b - 1
  OBVIOUS
<1>4. ((a + b - 1) \div b) * b >= a
  BY <1>1, <1>2, <1>3
<1>5. (a + b - 1) \div b >= 0
  BY <1>1, <1>4
<1> QED
  BY <1>1, <1>4, <1>5 DEF Ceil

-----------------------------------------------------------------------------
(* Tasks.                                                                  *)

(* A new task is a task.                                                   *)
LEMMA NewTaskType ==
    ASSUME NEW op \in Kinds,
           NEW pc \in {"count", "create", "findUnique", "fill", "exists", "remove", "update",
               "findMany", "fillPage", "deleteMany", "rm", "rename", "updateMany",
               "findStarts", "updateEach"}
    PROVE  /\ NewTask(op, pc) \in Task
           /\ NewTask(op, pc).op = op /\ NewTask(op, pc).pc = pc
           /\ NewTask(op, pc).stale = FALSE
BY FirstPage DEF NewTask, Task

(* One task starts, goes on or ends, and nothing is written.               *)
LEMMA OneTask ==
    ASSUME Typed, FreshReads, NEW t \in Tasks, NEW k \in Task \cup {None},
           k # None => Shape(k) /\ Fresh(k),
           Goes(t, k), UNCHANGED <<sharedfile, disk, now>>
    PROVE  task' \in [Tasks -> Task \cup {None}] /\ Shapes' /\ FreshReads'
<1>1. task' \in [Tasks -> Task \cup {None}]
  BY DEF Typed, TypeOK, Goes
<1>2. ASSUME NEW s \in Tasks, task'[s] # None
      PROVE  Shape(task'[s]) /\ Fresh(task'[s])
  BY <1>2 DEF Typed, TypeOK, Shapes, FreshReads, Goes
<1>4. Shapes'
  BY <1>2 DEF Shapes
<1>5. FreshReads'
  BY <1>2 DEF FreshReads, Fresh, Listed, Expired
<1> QED
  BY <1>1, <1>4, <1>5

(* A writer marks the tasks that hold what it writes.                      *)
LEMMA WrittenTasks ==
    ASSUME Typed, FreshReads, NEW ids \in SUBSET Ids, NEW t \in Tasks,
           NEW k \in Task \cup {None},
           k # None => Shape(k) /\ k.pc \in Everyone,
           Written(ids, t, k), UNCHANGED <<disk, now>>,
           \A id \in Ids \ ids : sharedfile'[id] = sharedfile[id]
    PROVE  task' \in [Tasks -> Task \cup {None}] /\ Shapes' /\ FreshReads'
<1>1. ASSUME NEW s \in Tasks
      PROVE  /\ task'[s] \in Task \cup {None}
             /\ task'[s] # None => Shape(task'[s]) /\ Fresh(task[s])'
  <2>1. CASE s = t
    BY <2>1 DEF Written, Fresh, Everyone, Holding
  <2>2. CASE s # t /\ task'[s] = [task[s] EXCEPT !.stale = TRUE] /\ task[s] # None
    <3>1. task[s] \in Task /\ Shape(task[s])
      BY <2>2 DEF Typed, TypeOK, Shapes
    <3>2. task'[s] \in Task
      BY <2>2, <3>1 DEF Task
    <3>3. Shape(task'[s])
      BY <2>2, <3>1 DEF Task, Shape
    <3>4. task'[s].stale
      BY <2>2, <3>1 DEF Task
    <3> QED
      BY <3>2, <3>3, <3>4 DEF Fresh
  <2>3. CASE s # t /\ task'[s] = task[s] /\ task[s] = None
    BY <2>3
  <2>4. CASE /\ s # t /\ task'[s] = task[s] /\ task[s] # None
             /\ ~(task[s].id \in ids /\ task[s].pc \in Holding)
             /\ ~(task[s].pc = "fillPage" /\ ids # {})
    <3>1. task[s] \in Task /\ Shape(task[s]) /\ Fresh(task[s])
      BY <2>4 DEF Typed, TypeOK, Shapes, FreshReads
    <3>2. CASE task[s].pc = "fillPage"
      <4>1. ids = {}
        BY <2>4, <3>2
      <4>2. Listed' = Listed /\ \A id \in Ids : sharedfile'[id] = sharedfile[id]
        BY <4>1 DEF Listed, Expired
      <4>3. task[s].tokens \subseteq Ids
        BY <3>1 DEF Task
      <4> QED
        BY <2>4, <3>1, <3>2, <4>2, <4>3 DEF Fresh, Holding
    <3>3. CASE task[s].pc \in Holding
      <4>1. task[s].id \in Ids
        BY <3>1, <3>3 DEF Shape, Holding
      <4> QED
        BY <2>4, <3>1, <3>3, <4>1 DEF Fresh, Holding
    <3>4. CASE task[s].pc # "fillPage" /\ task[s].pc \notin Holding
      BY <2>4, <3>1, <3>4 DEF Fresh, Holding
    <3> QED
      BY <3>2, <3>3, <3>4
  <2> QED
    BY <2>1, <2>2, <2>3, <2>4 DEF Written, Holding
<1>2. task' \in [Tasks -> Task \cup {None}]
  BY <1>1 DEF Written
<1>3. Shapes'
  BY <1>1 DEF Shapes
<1>4. FreshReads'
  BY <1>1 DEF FreshReads, Fresh
<1> QED
  BY <1>2, <1>3, <1>4

-----------------------------------------------------------------------------
(* Caches.                                                                 *)

(* Tasks that write after this step were going to write before it.         *)
NoNewRewriter ==
    \A t \in Tasks, id \in Ids :
        task'[t] # None /\ Rewriter(task'[t], id) =>
            \E s \in Tasks : task[s] # None /\ Rewriter(task[s], id)

NoNewPublisher ==
    \A t \in Tasks :
        task'[t] # None /\ Publisher(task'[t]) =>
            \E s \in Tasks : task[s] # None /\ Publisher(task[s])

(* Empty caches promise nothing.                                           *)
LEMMA EmptyIsSound ==
    ASSUME InvalidateAllCache
    PROVE  /\ Sound'
           /\ cacheTokens' \in [Ids -> Entry \cup {None}]
           /\ tokensPagesCache' \in [Pages -> Page \cup {None}]
           /\ tokensTotalPagesCache' \in Total \cup {None}
BY DEF InvalidateAllCache, InvalidatePagesCache, Sound, SoundEntries, SoundPages, SoundTotal

(* A cached link stays sound when no writer starts and its row is left.    *)
LEMMA EntriesStaySound ==
    ASSUME SoundEntries, NoNewRewriter, cacheTokens' = cacheTokens,
           \A id \in Ids :
              \/ sharedfile'[id] = sharedfile[id]
              \/ sharedfile[id] = None
              \/ \E t \in Tasks : task[t] # None /\ Rewriter(task[t], id),
           TypeOK
    PROVE  SoundEntries'
<1> SUFFICES ASSUME NEW id \in Ids,
                    cacheTokens[id] # None, ~cacheTokens[id].overlapped,
                    cacheTokens[id].data # None
             PROVE  /\ sharedfile'[id] = cacheTokens[id].data
                    /\ \A t \in Tasks : task'[t] # None => ~Rewriter(task'[t], id)
  BY DEF SoundEntries
<1>1. /\ sharedfile[id] = cacheTokens[id].data
      /\ \A t \in Tasks : task[t] # None => ~Rewriter(task[t], id)
  BY DEF SoundEntries
<1> QED
  BY <1>1 DEF NoNewRewriter

(* So does a list, if no listed row is touched.                            *)
LEMMA PagesStaySound ==
    ASSUME SoundPages, NoNewRewriter, tokensPagesCache' = tokensPagesCache,
           \A id \in Ids :
              \/ sharedfile'[id] = sharedfile[id]
              \/ sharedfile[id] = None
              \/ \E t \in Tasks : task[t] # None /\ Rewriter(task[t], id),
           TypeOK
    PROVE  SoundPages'
<1> SUFFICES ASSUME NEW p \in Pages,
                    tokensPagesCache[p] # None, ~tokensPagesCache[p].overlapped
             PROVE  /\ \A id \in tokensPagesCache[p].tokens :
                          sharedfile'[id] # None /\ sharedfile'[id].public
                    /\ \A id \in Ids, t \in Tasks : task'[t] # None => ~Rewriter(task'[t], id)
  BY DEF SoundPages
<1>1. /\ \A id \in tokensPagesCache[p].tokens : sharedfile[id] # None /\ sharedfile[id].public
      /\ \A id \in Ids, t \in Tasks : task[t] # None => ~Rewriter(task[t], id)
  BY DEF SoundPages
<1>2. tokensPagesCache[p].tokens \subseteq Ids
  BY DEF TypeOK, Page
<1> QED
  BY <1>1, <1>2 DEF NoNewRewriter

(* And the number of pages, if no link becomes public.                     *)
LEMMA TotalStaysSound ==
    ASSUME SoundTotal, NoNewRewriter, NoNewPublisher,
           tokensTotalPagesCache' = tokensTotalPagesCache,
           \/ Listed' \subseteq Listed
           \/ \E t \in Tasks, id \in Ids :
                 task[t] # None /\ (Rewriter(task[t], id) \/ Publisher(task[t])),
           TypeOK
    PROVE  SoundTotal'
<1> SUFFICES ASSUME tokensTotalPagesCache # None, ~tokensTotalPagesCache.overlapped
             PROVE  /\ tokensTotalPagesCache.pages * Group >= Cardinality(Listed')
                    /\ \A id \in Ids, t \in Tasks :
                          task'[t] # None => ~Rewriter(task'[t], id) /\ ~Publisher(task'[t])
  BY DEF SoundTotal
<1>1. /\ tokensTotalPagesCache.pages * Group >= Cardinality(Listed)
      /\ \A id \in Ids, t \in Tasks :
            task[t] # None => ~Rewriter(task[t], id) /\ ~Publisher(task[t])
  BY DEF SoundTotal
<1>2. Listed' \subseteq Listed
  BY <1>1
<1>3. Cardinality(Listed') \in Nat /\ Cardinality(Listed) \in Nat
      /\ Cardinality(Listed') <= Cardinality(Listed)
  <2>1. Listed \in SUBSET Ids
    BY DEF Listed
  <2> QED
    BY <1>2, <2>1, Counting
<1>4. tokensTotalPagesCache.pages * Group \in Nat
  BY SharedTokensAssumption DEF TypeOK, Total
<1>5. tokensTotalPagesCache.pages * Group >= Cardinality(Listed')
  BY <1>1, <1>3, <1>4
<1>6. \A id \in Ids, t \in Tasks :
         task'[t] # None => ~Rewriter(task'[t], id) /\ ~Publisher(task'[t])
  BY <1>1, SharedTokensAssumption DEF NoNewRewriter, NoNewPublisher
<1> QED
  BY <1>5, <1>6

-----------------------------------------------------------------------------
(* Steps.                                                                  *)

(* What is in a workload.                                                  *)
LEMMA WorkloadType ==
    ASSUME TypeOK
    PROVE  /\ workload.kinds \subseteq Kinds
           /\ workload.users \subseteq Users /\ workload.movers \subseteq Users
           /\ workload.ids \subseteq Ids
           /\ workload.paths \subseteq Files /\ workload.paths \subseteq Paths
           /\ workload.settings \subseteq Settings /\ workload.moves \subseteq Moves
           /\ workload.until \in 0 .. MaxTime
BY SharedTokensAssumption, WorkloadsAssumption DEF TypeOK

(* A task that goes on writes only if it did.                              *)
LEMMA NothingNew ==
    ASSUME TypeOK, NEW t \in Tasks, NEW k, Goes(t, k),
           k # None => \A id \in Ids :
               Rewriter(k, id) => task[t] # None /\ Rewriter(task[t], id)
    PROVE  /\ NoNewRewriter
           /\ (k # None => ~Publisher(k)) => NoNewPublisher
<1>1. ASSUME NEW s \in Tasks
      PROVE  task'[s] = IF s = t THEN k ELSE task[s]
  BY DEF Goes, TypeOK
<1> QED
  BY <1>1 DEF NoNewRewriter, NoNewPublisher

(* One task goes on or ends, and nothing else changes.                     *)
LEMMA QuietStep ==
    ASSUME IInv, NEW t \in Tasks, NEW k \in Task \cup {None}, Goes(t, k),
           k # None => /\ Shape(k) /\ Fresh(k) /\ ~Publisher(k)
                       /\ \A id \in Ids :
                             Rewriter(k, id) => task[t] # None /\ Rewriter(task[t], id),
           UNCHANGED <<workload, sharedfile, caches, disk, now, up, file>>
    PROVE  IInv'
<1>1. task' \in [Tasks -> Task \cup {None}] /\ Shapes' /\ FreshReads'
  BY OneTask DEF IInv
<1>2. NoNewRewriter /\ NoNewPublisher
  BY NothingNew DEF IInv, Typed
<1>3. TypeOK'
  BY <1>1 DEF IInv, Typed, TypeOK, caches
<1>4. Listed' = Listed
  BY DEF Listed, Expired
<1>5. Sound'
  BY <1>2, <1>4, EntriesStaySound, PagesStaySound, TotalStaysSound
     DEF IInv, Typed, Sound, caches
<1> QED
  BY <1>1, <1>3, <1>5 DEF IInv, Typed

(* One task goes on, and the caches are dropped.                           *)
LEMMA DroppingStep ==
    ASSUME IInv, NEW t \in Tasks, NEW k \in Task \cup {None}, Goes(t, k),
           k # None => Shape(k) /\ Fresh(k),
           InvalidateAllCache,
           UNCHANGED <<workload, sharedfile, disk, now, up, file>>
    PROVE  IInv'
<1>1. task' \in [Tasks -> Task \cup {None}] /\ Shapes' /\ FreshReads'
  BY OneTask DEF IInv
<1>2. TypeOK'
  BY <1>1, EmptyIsSound DEF IInv, Typed, TypeOK
<1> QED
  BY <1>1, <1>2, EmptyIsSound DEF IInv, Typed

(* A loop that tries again.                                                *)
LEMMA Again ==
    ASSUME IInv, UNCHANGED vars
    PROVE  IInv'
<1>1. Listed' = Listed
  BY DEF vars, Listed, Expired
<1> QED
  BY <1>1 DEF vars, caches, IInv, Typed, TypeOK, Shapes, FreshReads, Fresh, Sound, SoundEntries,
              SoundPages, SoundTotal

(* What a caller of getSharedFileByID does with the answer: with cache,    *)
(* which is as sound as the tasks were before.                             *)
LEMMA WithTokenStep ==
    ASSUME IInv, NEW t \in Tasks, NEW cur \in Task, Shape(cur),
           cur.pc \in {"findUnique", "fill"}, NEW entry \in Entry,
           ~entry.overlapped /\ entry.data # None => entry.data = sharedfile[cur.id],
           NEW cache \in [Ids -> Entry \cup {None}],
           \A id \in Ids :
              cache[id] # None /\ ~cache[id].overlapped /\ cache[id].data # None =>
                  /\ sharedfile[id] = cache[id].data
                  /\ \A s \in Tasks : task[s] # None => ~Rewriter(task[s], id),
           WithToken(t, cur, entry, cache),
           UNCHANGED <<workload, sharedfile, disk, now, up, file>>
    PROVE  IInv'
<1> DEFINE k == [cur EXCEPT !.pc = HandlerPc(cur.op), !.row = entry.data, !.stale = entry.overlapped]
           goesOn == Admitted(cur.op, cur.user, entry.data) /\ cur.op # "content"
           next == IF goesOn THEN k ELSE None
<1>1. cur.op \in Looking /\ cur.id \in Ids /\ (cur.op = "update" => cur.settings \in Settings)
  BY DEF Shape
<1>2. ASSUME goesOn
      PROVE  k \in Task /\ Shape(k) /\ Fresh(k) /\ ~Publisher(k)
             /\ (cur.op = "info" => k.pc = "exists")
  <2>1. entry.data \in Row /\ entry.overlapped \in BOOLEAN
    BY <1>2 DEF Entry, Admitted
  <2>2. HandlerPc(cur.op) \in {"exists", "update", "remove"}
    BY DEF HandlerPc
  <2>3. k \in Task
    BY <2>1, <2>2 DEF Task
  <2>4. /\ k.pc = HandlerPc(cur.op) /\ k.row = entry.data /\ k.stale = entry.overlapped
        /\ k.op = cur.op /\ k.id = cur.id /\ k.user = cur.user /\ k.settings = cur.settings
    BY DEF Task
  <2> HIDE DEF k
  <2>5. cur.op \in ForOwner => k.row.userid = k.user
    BY <1>2, <2>4 DEF Admitted
  <2>6. Shape(k)
    BY <1>1, <1>2, <2>1, <2>4, <2>5 DEF Shape, HandlerPc, Looking, ForOwner
  <2>7. Fresh(k) /\ ~Publisher(k)
    BY <1>1, <1>2, <2>1, <2>4 DEF Fresh, Publisher, HandlerPc, Holding, Looking, Admitted
  <2> QED
    BY <2>3, <2>4, <2>6, <2>7 DEF HandlerPc
<1>3. next \in Task \cup {None} /\ Goes(t, next)
  BY <1>2 DEF WithToken
<1>4. CASE goesOn /\ cur.op \in ForOwner
  BY <1>2, <1>3, <1>4, DroppingStep DEF WithToken
<1>5. CASE ~(goesOn /\ cur.op \in ForOwner)
  <2>1. cacheTokens' = cache /\ UNCHANGED <<tokensPagesCache, tokensTotalPagesCache>>
    BY <1>5 DEF WithToken
  <2>2. next # None => next.pc = "exists" /\ Shape(next) /\ Fresh(next) /\ ~Publisher(next)
    BY <1>1, <1>2, <1>5 DEF Looking, ForOwner
  <2> HIDE DEF next
  <2>3. task' \in [Tasks -> Task \cup {None}] /\ Shapes' /\ FreshReads'
    BY <1>3, <2>2, OneTask DEF IInv
  <2>4. \A id : next # None => ~Rewriter(next, id)
    BY <2>2 DEF Rewriter, Everyone
  <2>5. NoNewRewriter /\ NoNewPublisher
    BY <1>3, <2>2, <2>4, NothingNew DEF IInv, Typed
  <2>6. TypeOK'
    BY <2>1, <2>3 DEF IInv, Typed, TypeOK
  <2>7. SoundEntries'
    BY <2>1, <2>5 DEF SoundEntries, NoNewRewriter
  <2>8. Listed' = Listed
    BY DEF Listed, Expired
  <2>9. SoundPages' /\ SoundTotal'
    BY <2>1, <2>5, <2>8, PagesStaySound, TotalStaysSound DEF IInv, Typed, Sound
  <2> QED
    BY <2>3, <2>6, <2>7, <2>9 DEF IInv, Typed, Sound
<1> QED
  BY <1>4, <1>5

-----------------------------------------------------------------------------
(* Actions that ask.                                                       *)

(* Share.                                                                  *)
LEMMA ShareStep ==
    ASSUME IInv, NEW t \in Tasks, NEW u \in workload.users, NEW id \in workload.ids,
           NEW path \in workload.paths, NEW settings \in workload.settings,
           Share(t, u, id, path, settings)
    PROVE  IInv'
<1> DEFINE k == [NewTask("share", "count") EXCEPT !.user = u, !.id = id, !.path = path,
                                                  !.settings = settings]
<1>1. u \in Users /\ id \in Ids /\ path \in Paths /\ settings \in Settings
  BY WorkloadType DEF IInv, Typed
<1>2. /\ NewTask("share", "count") \in Task
      /\ NewTask("share", "count").op = "share" /\ NewTask("share", "count").pc = "count"
  BY NewTaskType DEF Kinds
<1>3. k \in Task /\ k.pc = "count" /\ k.op = "share" /\ k.user = u /\ k.id = id
      /\ k.path = path /\ k.settings = settings
  BY <1>1, <1>2 DEF Task
<1>4. Goes(t, k) /\ UNCHANGED <<workload, sharedfile, caches, disk, now, up, file>>
  BY DEF Share
<1> HIDE DEF k
<1>5. Shape(k) /\ Fresh(k) /\ ~Publisher(k) /\ \A i : ~Rewriter(k, i)
  BY <1>1, <1>3 DEF Shape, Fresh, Publisher, Rewriter, Holding, Everyone
<1> QED
  BY <1>3, <1>4, <1>5, QuietStep

(* Lookup: an answer from the cache, or a question.                        *)
LEMMA LookupStep ==
    ASSUME IInv, NEW t \in Tasks, NEW op \in Looking, NEW u \in Users \cup {None},
           NEW id \in Ids, NEW settings \in Settings \cup {None},
           op = "update" => settings \in Settings,
           Lookup(t, op, u, id, settings)
    PROVE  IInv'
<1> DEFINE new == [NewTask(op, "findUnique") EXCEPT !.user = u, !.id = id, !.settings = settings]
           cache == [cacheTokens EXCEPT ![id].lastUsed = now]
<1>1. op \in Kinds
  BY DEF Looking, Kinds
<1>2. /\ NewTask(op, "findUnique") \in Task
      /\ NewTask(op, "findUnique").op = op /\ NewTask(op, "findUnique").pc = "findUnique"
  <2>1. NewTask(op, "findUnique") \in Task
    BY <1>1, NewTaskType
  <2>2. NewTask(op, "findUnique").op = op
    BY DEF NewTask
  <2>3. NewTask(op, "findUnique").pc = "findUnique"
    BY DEF NewTask
  <2> QED
    BY <2>1, <2>2, <2>3
<1>3. new \in Task /\ new.pc = "findUnique" /\ new.op = op /\ new.id = id
      /\ new.user = u /\ new.settings = settings
  BY <1>2 DEF Task
<1>4. \/ cacheTokens[id] # None /\ WithToken(t, new, cacheTokens[id], cache)
      \/ Goes(t, new) /\ UNCHANGED caches
  BY DEF Lookup
<1>5. UNCHANGED <<workload, sharedfile, disk, now, up, file>>
  BY DEF Lookup
<1> HIDE DEF new
<1>6. Shape(new) /\ Fresh(new) /\ ~Publisher(new) /\ \A i : ~Rewriter(new, i)
  BY <1>3 DEF Shape, Fresh, Publisher, Rewriter, Holding, Everyone
<1>7. CASE Goes(t, new) /\ UNCHANGED caches
  BY <1>3, <1>5, <1>6, <1>7, QuietStep
<1>8. CASE cacheTokens[id] # None /\ WithToken(t, new, cacheTokens[id], cache)
  <2>1. cacheTokens[id] \in Entry /\ now \in Nat
    BY <1>8, SharedTokensAssumption DEF IInv, Typed, TypeOK
  <2>2. cache \in [Ids -> Entry \cup {None}]
    BY <2>1 DEF IInv, Typed, TypeOK, Entry
  <2>3. ASSUME NEW i \in Ids, cache[i] # None
        PROVE  /\ cacheTokens[i] # None
               /\ cache[i].data = cacheTokens[i].data
               /\ cache[i].overlapped = cacheTokens[i].overlapped
    BY <1>8, <2>1, <2>3 DEF IInv, Typed, TypeOK, Entry
  <2> HIDE DEF cache
  <2>4. \A i \in Ids :
           cache[i] # None /\ ~cache[i].overlapped /\ cache[i].data # None =>
               /\ sharedfile[i] = cache[i].data
               /\ \A s \in Tasks : task[s] # None => ~Rewriter(task[s], i)
    BY <2>3 DEF IInv, Sound, SoundEntries
  <2>5. ~cacheTokens[id].overlapped /\ cacheTokens[id].data # None =>
            cacheTokens[id].data = sharedfile[new.id]
    BY <1>3, <1>8 DEF IInv, Sound, SoundEntries
  <2> QED
    BY <1>3, <1>5, <1>6, <1>8, <2>1, <2>2, <2>4, <2>5, WithTokenStep
<1> QED
  BY <1>4, <1>7, <1>8

(* FindUnique.                                                             *)
LEMMA FindUniqueStep ==
    ASSUME IInv, NEW t \in Tasks, FindUnique(t)
    PROVE  IInv'
<1> DEFINE k == [task[t] EXCEPT !.pc = "fill", !.row = sharedfile[task[t].id]]
<1>1. task[t] \in Task /\ Shape(task[t]) /\ task[t].pc = "findUnique"
  BY DEF FindUnique, At, IInv, Typed, TypeOK, Shapes
<1>2. task[t].id \in Ids /\ task[t].op \in Looking
      /\ (task[t].op = "update" => task[t].settings \in Settings)
  BY <1>1 DEF Shape
<1>3. sharedfile[task[t].id] \in Row \cup {None}
  BY <1>2 DEF IInv, Typed, TypeOK
<1>4. k \in Task /\ k.pc = "fill" /\ k.row = sharedfile[k.id] /\ k.id = task[t].id
      /\ k.op = task[t].op /\ k.settings = task[t].settings
  BY <1>1, <1>3 DEF Task
<1>5. Goes(t, k) /\ UNCHANGED <<workload, sharedfile, caches, disk, now, up, file>>
  BY DEF FindUnique
<1> HIDE DEF k
<1>6. Shape(k) /\ Fresh(k) /\ ~Publisher(k) /\ \A i : ~Rewriter(k, i)
  BY <1>2, <1>4 DEF Shape, Fresh, Publisher, Rewriter, Everyone
<1> QED
  BY <1>4, <1>5, <1>6, QuietStep

(* Nobody is writing the link, as the fill sees it.                        *)
LEMMA NotWriting ==
    ASSUME NEW id \in Ids, ~Writing(id), NEW s \in Tasks, task[s] # None
    PROVE  ~Rewriter(task[s], id) /\ ~(task[s].pc = "create" /\ task[s].id = id)
BY DEF Writing, WritesAll, Rewriter, Everyone

(* Fill.                                                                   *)
LEMMA FillStep ==
    ASSUME IInv, NEW t \in Tasks, Fill(t)
    PROVE  IInv'
<1> DEFINE cur == task[t]
           entry == [data |-> task[t].row, lastUsed |-> now,
                     overlapped |-> task[t].stale \/ Writing(task[t].id)]
           cache == [cacheTokens EXCEPT ![task[t].id] = entry]
<1>1. cur \in Task /\ Shape(cur) /\ Fresh(cur) /\ cur.pc = "fill"
  BY DEF Fill, At, IInv, Typed, TypeOK, Shapes, FreshReads
<1>2. cur.id \in Ids
  BY <1>1 DEF Shape
<1>3. entry \in Entry
  <2>1. now \in Nat
    BY SharedTokensAssumption DEF IInv, Typed, TypeOK
  <2>2. (task[t].stale \/ Writing(task[t].id)) \in BOOLEAN
    BY <1>1 DEF Writing, WritesAll, Task
  <2>3. task[t].row \in Row \cup {None}
    BY <1>1 DEF Task
  <2> QED
    BY <2>1, <2>2, <2>3 DEF Entry
<1>4. ~entry.overlapped => entry.data = sharedfile[cur.id] /\ ~Writing(cur.id)
  BY <1>1 DEF Fresh, Holding
<1>5. WithToken(t, cur, entry, cache) /\ UNCHANGED <<workload, sharedfile, disk, now, up, file>>
  BY DEF Fill
<1> HIDE DEF entry
<1>6. cache \in [Ids -> Entry \cup {None}]
  BY <1>3 DEF IInv, Typed, TypeOK
<1>7. ASSUME NEW id \in Ids, cache[id] # None, ~cache[id].overlapped, cache[id].data # None
      PROVE  /\ sharedfile[id] = cache[id].data
             /\ \A s \in Tasks : task[s] # None => ~Rewriter(task[s], id)
  <2>1. CASE id = cur.id
    <3>1. cache[id] = entry
      BY <1>2, <2>1 DEF IInv, Typed, TypeOK
    <3> QED
      BY <1>4, <1>7, <2>1, <3>1, NotWriting
  <2>2. CASE id # cur.id
    <3>1. cache[id] = cacheTokens[id]
      BY <2>2
    <3> QED
      BY <1>7, <3>1 DEF IInv, Sound, SoundEntries
  <2> QED
    BY <2>1, <2>2
<1> QED
  BY <1>1, <1>3, <1>4, <1>5, <1>6, <1>7, WithTokenStep

(* Count.                                                                  *)
LEMMA CountStep ==
    ASSUME IInv, NEW t \in Tasks, Count(t)
    PROVE  IInv'
<1> DEFINE id == IF sharedfile[task[t].id] = None THEN task[t].id ELSE OwnId[task[t].id]
           k == [task[t] EXCEPT !.pc = "create", !.id = id]
<1>1. task[t] \in Task /\ Shape(task[t]) /\ task[t].pc = "count"
  BY DEF Count, At, IInv, Typed, TypeOK, Shapes
<1>2. /\ task[t].op = "share" /\ task[t].id \in Ids /\ task[t].user \in Users
      /\ task[t].path \in Paths /\ task[t].settings \in Settings
  BY <1>1 DEF Shape
<1>3. id \in Ids
  BY <1>2, SharedTokensAssumption
<1>4. Goes(t, k) /\ ListsDropped(task[t].settings)
      /\ UNCHANGED <<workload, sharedfile, disk, now, up, file>>
  BY <1>1 DEF Count, Task
<1> HIDE DEF id
<1>5. k \in Task /\ k.pc = "create" /\ k.id = id /\ k.op = "share" /\ k.user = task[t].user
      /\ k.path = task[t].path /\ k.settings = task[t].settings
  BY <1>1, <1>2, <1>3 DEF Task
<1> HIDE DEF k
<1>6. Shape(k) /\ Fresh(k) /\ \A i : ~Rewriter(k, i)
  BY <1>2, <1>3, <1>5 DEF Shape, Fresh, Rewriter, Holding, Everyone
<1>7. NoNewRewriter /\ (~Publisher(k) => NoNewPublisher)
  BY <1>4, <1>6, NothingNew DEF IInv, Typed
<1>8. task' \in [Tasks -> Task \cup {None}] /\ Shapes' /\ FreshReads'
  BY <1>4, <1>5, <1>6, OneTask DEF IInv
<1>9. cacheTokens' = cacheTokens
  BY <1>4 DEF ListsDropped
<1>10. SoundEntries'
  BY <1>4, <1>7, <1>9, EntriesStaySound DEF IInv, Typed, Sound
<1>11. Listed' = Listed
  BY <1>4 DEF Listed, Expired
<1>12. CASE k.settings.public
  <2>1. InvalidatePagesCache
    BY <1>4, <1>5, <1>12 DEF ListsDropped
  <2>2. SoundPages' /\ SoundTotal'
    BY <2>1 DEF InvalidatePagesCache, SoundPages, SoundTotal
  <2>3. TypeOK'
    BY <1>4, <1>8, <1>9, <2>1 DEF IInv, Typed, TypeOK, InvalidatePagesCache
  <2> QED
    BY <1>8, <1>10, <2>2, <2>3 DEF IInv, Typed, Sound
<1>13. CASE ~k.settings.public
  <2>1. UNCHANGED <<tokensPagesCache, tokensTotalPagesCache>>
    BY <1>4, <1>5, <1>13 DEF ListsDropped
  <2>2. NoNewPublisher
    BY <1>7, <1>13 DEF Publisher
  <2>3. SoundPages' /\ SoundTotal'
    BY <1>4, <1>7, <1>11, <2>1, <2>2, PagesStaySound, TotalStaysSound DEF IInv, Typed, Sound
  <2>4. TypeOK'
    BY <1>4, <1>8, <1>9, <2>1 DEF IInv, Typed, TypeOK
  <2> QED
    BY <1>8, <1>10, <2>3, <2>4 DEF IInv, Typed, Sound
<1> QED
  BY <1>12, <1>13

(* Exists: a visitor may go on to remove the link.                         *)
LEMMA ExistsStep ==
    ASSUME IInv, NEW t \in Tasks, Exists(t)
    PROVE  IInv'
<1> DEFINE k == [task[t] EXCEPT !.pc = "remove"]
<1>1. task[t] \in Task /\ Shape(task[t]) /\ Fresh(task[t]) /\ task[t].pc = "exists"
  BY DEF Exists, At, IInv, Typed, TypeOK, Shapes, FreshReads
<1>2. task[t].op = "info" /\ task[t].id \in Ids /\ task[t].row \in Row
  BY <1>1 DEF Shape
<1>3. UNCHANGED <<workload, sharedfile, disk, now, up, file>>
  BY DEF Exists
<1>4. CASE <<task[t].row.userid, task[t].row.path>> \notin disk
  <2>1. Goes(t, k) /\ InvalidateAllCache
    BY <1>4 DEF Exists, Continue
  <2>2. k \in Task /\ k.pc = "remove" /\ k.op = "info" /\ k.id = task[t].id
        /\ k.row = task[t].row /\ k.stale = task[t].stale
    BY <1>1, <1>2 DEF Task
  <2> HIDE DEF k
  <2>3. Shape(k) /\ Fresh(k)
    BY <1>1, <1>2, <1>4, <2>2 DEF Shape, Fresh, Holding
  <2> QED
    BY <1>3, <2>1, <2>2, <2>3, DroppingStep
<1>5. CASE <<task[t].row.userid, task[t].row.path>> \in disk
  <2>1. Goes(t, None) /\ UNCHANGED caches
    BY <1>5 DEF Exists, End
  <2> QED
    BY <1>3, <2>1, QuietStep
<1> QED
  BY <1>4, <1>5

(* Unshare.                                                                *)
LEMMA UnshareStep ==
    ASSUME IInv, NEW t \in Tasks, NEW u \in workload.users, NEW path \in workload.paths,
           Unshare(t, u, path)
    PROVE  IInv'
<1> DEFINE k == [NewTask("unshare", "deleteMany") EXCEPT !.user = u, !.path = path]
<1>1. u \in Users /\ path \in Paths
  BY WorkloadType DEF IInv, Typed
<1>2. NewTask("unshare", "deleteMany") \in Task
  BY NewTaskType DEF Kinds
<1>3. k \in Task
  BY <1>1, <1>2 DEF Task
<1>4. k.pc = "deleteMany" /\ k.op = "unshare" /\ k.user = u /\ k.path = path
  BY DEF NewTask
<1>5. Goes(t, k) /\ InvalidateAllCache /\ UNCHANGED <<workload, sharedfile, disk, now, up, file>>
  BY DEF Unshare
<1> HIDE DEF k
<1>6. Shape(k) /\ Fresh(k)
  BY <1>1, <1>4 DEF Shape, Fresh, Holding
<1> QED
  BY <1>3, <1>5, <1>6, DroppingStep

(* DeleteFile.                                                             *)
LEMMA DeleteFileStep ==
    ASSUME IInv, NEW t \in Tasks, NEW u \in workload.movers, NEW path \in workload.paths,
           DeleteFile(t, u, path)
    PROVE  IInv'
<1> DEFINE k == [NewTask("deleteFile", "rm") EXCEPT !.user = u, !.path = path]
<1>1. u \in Users /\ path \in Paths
  BY WorkloadType DEF IInv, Typed
<1>2. NewTask("deleteFile", "rm") \in Task
  BY NewTaskType DEF Kinds
<1>3. k \in Task
  BY <1>1, <1>2 DEF Task
<1>4. k.pc = "rm" /\ k.op = "deleteFile" /\ k.user = u /\ k.path = path
  BY DEF NewTask
<1>5. Goes(t, k) /\ UNCHANGED <<workload, sharedfile, caches, disk, now, up, file>>
  BY DEF DeleteFile
<1> HIDE DEF k
<1>6. Shape(k) /\ Fresh(k) /\ ~Publisher(k) /\ \A i : ~Rewriter(k, i)
  BY <1>1, <1>4 DEF Shape, Fresh, Publisher, Rewriter, Holding, Everyone
<1> QED
  BY <1>3, <1>5, <1>6, QuietStep

(* Move.                                                                   *)
LEMMA MoveStep ==
    ASSUME IInv, NEW t \in Tasks, NEW u \in workload.movers, NEW m \in workload.moves,
           NEW op \in {"move", "rename"}, Move(t, op, u, m[1], m[2])
    PROVE  IInv'
<1> DEFINE k == [NewTask(op, "rename") EXCEPT !.user = u, !.path = m[1], !.to = m[2]]
<1>1. u \in Users /\ m[1] \in Paths /\ m[2] \in Paths
  BY WorkloadType, SharedTokensAssumption DEF IInv, Typed
<1>2. NewTask(op, "rename") \in Task
  BY NewTaskType DEF Kinds
<1>3. k \in Task
  BY <1>1, <1>2 DEF Task
<1>4. k.pc = "rename" /\ k.op = op /\ k.user = u /\ k.path = m[1] /\ k.to = m[2]
  BY DEF NewTask
<1>5. Goes(t, k) /\ UNCHANGED <<workload, sharedfile, caches, disk, now, up, file>>
  BY DEF Move
<1> HIDE DEF k
<1>6. Shape(k) /\ Fresh(k) /\ ~Publisher(k) /\ \A i : ~Rewriter(k, i)
  BY <1>1, <1>4 DEF Shape, Fresh, Publisher, Rewriter, Holding, Everyone
<1> QED
  BY <1>3, <1>5, <1>6, QuietStep

(* A query of a move rejects, and the request ends.                        *)
LEMMA QueryFailsStep ==
    ASSUME IInv, NEW t \in Tasks, QueryFails(t)
    PROVE  IInv'
<1>1. Goes(t, None) /\ UNCHANGED <<workload, sharedfile, caches, disk, now, up>>
  BY DEF QueryFails, End
<1>2. file' \in [Ids -> Paths \cup {None}]
  BY DEF QueryFails, Lost, IInv, Typed, TypeOK
<1>3. task' \in [Tasks -> Task \cup {None}] /\ Shapes' /\ FreshReads'
  BY <1>1, OneTask DEF IInv
<1>4. NoNewRewriter /\ NoNewPublisher
  BY <1>1, NothingNew DEF IInv, Typed
<1>5. TypeOK'
  BY <1>1, <1>2, <1>3 DEF IInv, Typed, TypeOK, caches
<1>6. Listed' = Listed
  BY <1>1 DEF Listed, Expired
<1>7. Sound'
  BY <1>1, <1>4, <1>6, EntriesStaySound, PagesStaySound, TotalStaysSound
     DEF IInv, Typed, Sound, caches
<1> QED
  BY <1>3, <1>5, <1>7 DEF IInv, Typed

(* FindStarts: the mover goes on to the links one by one, or is done.      *)
LEMMA FindStartsStep ==
    ASSUME IInv, NEW t \in Tasks, FindStarts(t)
    PROVE  IInv'
<1> SUFFICES ASSUME ~QueryFails(t)
             PROVE  IInv'
  BY QueryFailsStep
<1> DEFINE todo == {<<id, Replaced[sharedfile[id].path, task[t].path, task[t].to]>> : id \in ToRewrite(t)}
           k == IF todo = {} THEN None ELSE [task[t] EXCEPT !.pc = "updateEach", !.todo = todo]
<1>1. task[t] # None /\ task[t] \in Task /\ Shape(task[t]) /\ task[t].pc = "findStarts"
  BY DEF FindStarts, At, IInv, Typed, TypeOK, Shapes
<1>2. task[t].op = "move" /\ task[t].user \in Users /\ task[t].path \in Paths /\ task[t].to \in Paths
  BY <1>1 DEF Shape
<1>3. todo \in SUBSET (Ids \X Paths)
  <2>1. ASSUME NEW id \in ToRewrite(t)
        PROVE  id \in Ids /\ Replaced[sharedfile[id].path, task[t].path, task[t].to] \in Paths
    <3>1. id \in Ids /\ sharedfile[id] \in Row
      BY <2>1 DEF ToRewrite, IInv, Typed, TypeOK
    <3>2. sharedfile[id].path \in Paths
      BY <3>1 DEF Row
    <3> QED
      BY <1>2, <3>1, <3>2, SharedTokensAssumption
  <2>2. ASSUME NEW do \in todo
        PROVE  do \in Ids \X Paths
    <3>1. PICK id \in ToRewrite(t) :
              do = <<id, Replaced[sharedfile[id].path, task[t].path, task[t].to]>>
      BY <2>2
    <3> QED
      BY <2>1, <3>1
  <2> QED
    BY <2>2
<1>4. Goes(t, k) /\ UNCHANGED <<workload, sharedfile, caches, disk, now, up>>
  BY DEF FindStarts
<1>5. file' \in [Ids -> Paths \cup {None}]
  BY DEF FindStarts, Lost, IInv, Typed, TypeOK
<1> HIDE DEF todo
<1>6. k # None => k \in Task /\ k.pc = "updateEach" /\ k.op = "move" /\ k.user = task[t].user
                  /\ k.path = task[t].path /\ k.to = task[t].to
  BY <1>1, <1>2, <1>3 DEF Task
<1>7. k \in Task \cup {None}
  BY <1>6
<1> HIDE DEF k
<1>8. k # None => Shape(k) /\ Fresh(k) /\ ~Publisher(k)
  BY <1>2, <1>6 DEF Shape, Fresh, Publisher, Holding
<1>9. \A id \in Ids : Rewriter(task[t], id)
  BY <1>1 DEF Rewriter, Everyone
<1>10. task' \in [Tasks -> Task \cup {None}] /\ Shapes' /\ FreshReads'
  BY <1>4, <1>7, <1>8, OneTask DEF IInv
<1>11. NoNewRewriter /\ NoNewPublisher
  BY <1>1, <1>4, <1>8, <1>9, NothingNew DEF IInv, Typed
<1>12. TypeOK'
  BY <1>4, <1>5, <1>10 DEF IInv, Typed, TypeOK, caches
<1>13. Listed' = Listed
  BY <1>4 DEF Listed, Expired
<1>14. Sound'
  BY <1>4, <1>11, <1>13, EntriesStaySound, PagesStaySound, TotalStaysSound
     DEF IInv, Typed, Sound, caches
<1> QED
  BY <1>10, <1>12, <1>14 DEF IInv, Typed

-----------------------------------------------------------------------------
(* The lists.                                                              *)

(* List: an answer from the cache, or a question.                          *)
LEMMA ListStep ==
    ASSUME IInv, NEW t \in Tasks, NEW op \in {"list", "pages"}, NEW page \in Pages,
           List(t, op, page)
    PROVE  IInv'
<1> DEFINE k == [NewTask(op, "findMany") EXCEPT !.page = page]
<1>1. UNCHANGED <<workload, sharedfile, disk, now, up, file>>
  BY DEF List
<1>2. CASE Goes(t, k) /\ UNCHANGED caches
  <2>1. NewTask(op, "findMany") \in Task
    BY NewTaskType DEF Kinds
  <2>2. k \in Task
    BY <2>1 DEF Task
  <2>3. k.pc = "findMany" /\ k.op = op
    BY DEF NewTask
  <2> HIDE DEF k
  <2>4. Shape(k) /\ Fresh(k) /\ ~Publisher(k) /\ \A i : ~Rewriter(k, i)
    BY <2>3 DEF Shape, Fresh, Publisher, Rewriter, Holding, Everyone
  <2> QED
    BY <1>1, <1>2, <2>2, <2>4, QuietStep
<1>3. CASE /\ tokensPagesCache[page] # None
           /\ tokensPagesCache' = [tokensPagesCache EXCEPT ![page].lastUsed = now]
           /\ UNCHANGED <<cacheTokens, tokensTotalPagesCache, task>>
  <2>1. tokensPagesCache[page] \in Page /\ now \in Nat
    BY <1>3, SharedTokensAssumption DEF IInv, Typed, TypeOK
  <2>2. tokensPagesCache' \in [Pages -> Page \cup {None}]
    BY <1>3, <2>1 DEF IInv, Typed, TypeOK, Page
  <2>3. ASSUME NEW p \in Pages, tokensPagesCache'[p] # None
        PROVE  /\ tokensPagesCache[p] # None
               /\ tokensPagesCache'[p].tokens = tokensPagesCache[p].tokens
               /\ tokensPagesCache'[p].overlapped = tokensPagesCache[p].overlapped
    BY <1>3, <2>1, <2>3 DEF IInv, Typed, TypeOK, Page
  <2>4. SoundPages'
    <3> SUFFICES ASSUME NEW p \in Pages,
                        tokensPagesCache'[p] # None, ~tokensPagesCache'[p].overlapped
                 PROVE  /\ \A id \in tokensPagesCache'[p].tokens :
                              sharedfile'[id] # None /\ sharedfile'[id].public
                        /\ \A id \in Ids, s \in Tasks : task'[s] # None => ~Rewriter(task'[s], id)
      BY DEF SoundPages
    <3> QED
      BY <1>1, <1>3, <2>3 DEF IInv, Sound, SoundPages
  <2>5. Listed' = Listed
    BY <1>1 DEF Listed, Expired
  <2>6. NoNewRewriter /\ NoNewPublisher
    BY <1>3 DEF NoNewRewriter, NoNewPublisher
  <2>7. SoundEntries' /\ SoundTotal'
    BY <1>1, <1>3, <2>5, <2>6, EntriesStaySound, TotalStaysSound DEF IInv, Typed, Sound
  <2>8. TypeOK' /\ Shapes' /\ FreshReads'
    BY <1>1, <1>3, <2>2, <2>5 DEF IInv, Typed, TypeOK, Shapes, FreshReads, Fresh
  <2> QED
    BY <2>4, <2>7, <2>8 DEF IInv, Typed, Sound
<1> QED
  BY <1>2, <1>3 DEF List

(* FindMany.                                                               *)
LEMMA FindManyStep ==
    ASSUME IInv, NEW t \in Tasks, FindMany(t)
    PROVE  IInv'
<1>1. task[t] \in Task /\ Shape(task[t]) /\ task[t].pc = "findMany"
  BY DEF FindMany, At, IInv, Typed, TypeOK, Shapes
<1>2. task[t].op \in {"list", "pages"}
  BY <1>1 DEF Shape
<1>3. PICK tokens \in SUBSET Listed :
          /\ task[t].op = "pages" => tokens = Listed
          /\ Goes(t, [task[t] EXCEPT !.pc = "fillPage", !.tokens = tokens])
  BY DEF FindMany
<1> DEFINE k == [task[t] EXCEPT !.pc = "fillPage", !.tokens = tokens]
<1>4. tokens \subseteq Ids
  BY DEF Listed
<1>5. k \in Task /\ k.pc = "fillPage" /\ k.op = task[t].op /\ k.tokens = tokens
  BY <1>1, <1>4 DEF Task
<1>6. Goes(t, k) /\ UNCHANGED <<workload, sharedfile, caches, disk, now, up, file>>
  BY <1>3 DEF FindMany
<1> HIDE DEF k
<1>7. Shape(k) /\ ~Publisher(k) /\ \A i : ~Rewriter(k, i)
  BY <1>2, <1>5 DEF Shape, Publisher, Rewriter, Everyone
<1>8. Fresh(k)
  BY <1>2, <1>3, <1>5 DEF Fresh, Holding, Listed
<1> QED
  BY <1>5, <1>6, <1>7, <1>8, QuietStep

(* FillPage.                                                               *)
LEMMA FillPageStep ==
    ASSUME IInv, NEW t \in Tasks, FillPage(t)
    PROVE  IInv'
<1> DEFINE overlapped == task[t].stale \/ \E id \in Ids : Writing(id)
           total == [pages |-> Ceil(Cardinality(task[t].tokens), Group), overlapped |-> overlapped]
           list == [tokens |-> task[t].tokens, lastUsed |-> now, overlapped |-> overlapped]
<1>1. task[t] \in Task /\ Shape(task[t]) /\ Fresh(task[t]) /\ task[t].pc = "fillPage"
  BY DEF FillPage, At, IInv, Typed, TypeOK, Shapes, FreshReads
<1>2. task[t].op \in {"list", "pages"} /\ task[t].tokens \subseteq Ids /\ task[t].page \in Pages
  BY <1>1 DEF Shape, Task
<1>3. overlapped \in BOOLEAN
  BY <1>1 DEF Writing, WritesAll, Task
<1>4. Goes(t, None) /\ UNCHANGED <<workload, sharedfile, cacheTokens, disk, now, up, file>>
  BY DEF FillPage, End
<1>5. task' \in [Tasks -> Task \cup {None}] /\ Shapes' /\ FreshReads'
  BY <1>4, OneTask DEF IInv
<1>6. NoNewRewriter /\ NoNewPublisher
  BY <1>4, NothingNew DEF IInv, Typed
<1>7. Listed' = Listed
  BY <1>4 DEF Listed, Expired
<1>8. SoundEntries'
  BY <1>4, <1>6, EntriesStaySound DEF IInv, Typed, Sound
<1>9. ~overlapped => \A id \in Ids, s \in Tasks :
          task'[s] # None => ~Rewriter(task'[s], id) /\ ~Publisher(task'[s])
  <2> SUFFICES ASSUME ~overlapped, NEW id \in Ids, NEW s \in Tasks, task'[s] # None
               PROVE  ~Rewriter(task'[s], id) /\ ~Publisher(task'[s])
    OBVIOUS
  <2>1. task[s] # None /\ task'[s] = task[s]
    BY <1>4 DEF Goes, IInv, Typed, TypeOK
  <2>2. \A i \in Ids : ~Rewriter(task[s], i) /\ ~(task[s].pc = "create" /\ task[s].id = i)
    BY <2>1, NotWriting
  <2>3. Shape(task[s])
    BY <2>1 DEF IInv, Typed, Shapes
  <2>4. task[s].pc # "create"
    BY <2>2, <2>3 DEF Shape
  <2> QED
    BY <2>1, <2>2, <2>4 DEF Publisher
<1>10. CASE task[t].op = "pages"
  <2>1. tokensTotalPagesCache' = total /\ UNCHANGED tokensPagesCache
    BY <1>10 DEF FillPage
  <2>2. Cardinality(task[t].tokens) \in Nat
    BY <1>2, Counting
  <2>3. /\ total.pages \in Nat /\ total.pages * Group >= Cardinality(task[t].tokens)
        /\ total \in Total
    BY <1>3, <2>2, CeilCovers, SharedTokensAssumption DEF Total
  <2>4. total.overlapped = overlapped
    OBVIOUS
  <2> HIDE DEF total
  <2>5. ~overlapped => total.pages * Group >= Cardinality(Listed)
    <3> SUFFICES ASSUME ~overlapped
                 PROVE  total.pages * Group >= Cardinality(Listed)
      OBVIOUS
    <3>1. Listed \subseteq task[t].tokens
      BY <1>1, <1>10 DEF Fresh
    <3>2. Cardinality(Listed) \in Nat /\ Cardinality(Listed) <= Cardinality(task[t].tokens)
      BY <1>2, <3>1, Counting
    <3>3. total.pages * Group \in Nat
      BY <2>3, SharedTokensAssumption
    <3> QED
      BY <2>2, <2>3, <3>2, <3>3
  <2> HIDE DEF overlapped
  <2>6. SoundTotal'
    BY <1>7, <1>9, <2>1, <2>4, <2>5 DEF SoundTotal
  <2>7. SoundPages'
    BY <1>4, <1>6, <2>1, PagesStaySound DEF IInv, Typed, Sound
  <2>8. TypeOK'
    BY <1>4, <1>5, <2>1, <2>3 DEF IInv, Typed, TypeOK
  <2> QED
    BY <1>5, <1>8, <2>6, <2>7, <2>8 DEF IInv, Typed, Sound
<1>11. CASE task[t].op = "list"
  <2>1. /\ tokensPagesCache' = [tokensPagesCache EXCEPT ![task[t].page] = list]
        /\ UNCHANGED tokensTotalPagesCache
    BY <1>11 DEF FillPage
  <2>2. list \in Page
    BY <1>2, <1>3, SharedTokensAssumption DEF IInv, Typed, TypeOK, Page
  <2>3. list.overlapped = overlapped /\ list.tokens = task[t].tokens
    OBVIOUS
  <2>4. ~overlapped => \A id \in task[t].tokens : sharedfile[id] # None /\ sharedfile[id].public
    BY <1>1, <1>11 DEF Fresh
  <2> HIDE DEF list, overlapped
  <2>5. SoundPages'
    <3> SUFFICES ASSUME NEW p \in Pages,
                        tokensPagesCache'[p] # None, ~tokensPagesCache'[p].overlapped
                 PROVE  /\ \A id \in tokensPagesCache'[p].tokens :
                              sharedfile'[id] # None /\ sharedfile'[id].public
                        /\ \A id \in Ids, s \in Tasks : task'[s] # None => ~Rewriter(task'[s], id)
      BY DEF SoundPages
    <3>1. CASE p = task[t].page
      <4>1. tokensPagesCache'[p] = list
        BY <2>1, <3>1 DEF IInv, Typed, TypeOK
      <4> QED
        BY <1>4, <1>9, <2>3, <2>4, <4>1
    <3>2. CASE p # task[t].page
      <4>1. tokensPagesCache'[p] = tokensPagesCache[p]
        BY <2>1, <3>2 DEF IInv, Typed, TypeOK
      <4> QED
        BY <1>4, <1>6, <4>1 DEF IInv, Sound, SoundPages, NoNewRewriter
    <3> QED
      BY <3>1, <3>2
  <2>6. SoundTotal'
    BY <1>4, <1>6, <1>7, <2>1, TotalStaysSound DEF IInv, Typed, Sound
  <2>7. TypeOK'
    BY <1>4, <1>5, <2>1, <2>2 DEF IInv, Typed, TypeOK
  <2> QED
    BY <1>5, <1>8, <2>5, <2>6, <2>7 DEF IInv, Typed, Sound
<1> QED
  BY <1>2, <1>10, <1>11

-----------------------------------------------------------------------------
(* Actions that write links.                                               *)

(* Marking tasks makes no writer of them.                                  *)
LEMMA NothingNewWritten ==
    ASSUME Typed, NEW ids, NEW t \in Tasks, NEW k, Written(ids, t, k),
           task[t] # None,
           k # None => ~Publisher(k) /\ \A id \in Ids : Rewriter(k, id) => Rewriter(task[t], id)
    PROVE  NoNewRewriter /\ NoNewPublisher
<1>1. ASSUME NEW s \in Tasks, task'[s] # None
      PROVE  \/ s = t /\ task'[s] = k
             \/ /\ task[s] # None
                /\ \A id \in Ids : Rewriter(task'[s], id) <=> Rewriter(task[s], id)
                /\ Publisher(task'[s]) <=> Publisher(task[s])
  <2>1. CASE s = t
    BY <2>1 DEF Written
  <2>2. CASE task'[s] = task[s]
    BY <1>1, <2>2
  <2>3. CASE task[s] # None /\ task'[s] = [task[s] EXCEPT !.stale = TRUE]
    <3>1. task[s] \in Task
      BY <2>3 DEF Typed, TypeOK
    <3>2. /\ task'[s].pc = task[s].pc /\ task'[s].id = task[s].id
          /\ task'[s].settings = task[s].settings
      BY <2>3, <3>1 DEF Task
    <3> QED
      BY <2>3, <3>2 DEF Rewriter, Publisher
  <2> QED
    BY <2>1, <2>2, <2>3 DEF Written
<1>2. NoNewRewriter
  BY <1>1 DEF NoNewRewriter
<1>3. NoNewPublisher
  BY <1>1 DEF NoNewPublisher
<1> QED
  BY <1>2, <1>3

(* The task t, which was going to, writes the links ids.                   *)
LEMMA WriteStep ==
    ASSUME IInv, NEW t \in Tasks, task[t] # None, NEW ids \in SUBSET Ids,
           NEW k \in Task \cup {None}, k # None => Shape(k) /\ k.pc \in Everyone,
           Written(ids, t, k),
           sharedfile' \in [Ids -> Row \cup {None}],
           \A id \in Ids \ ids : sharedfile'[id] = sharedfile[id],
           \A id \in ids : Rewriter(task[t], id),
           k # None => \A id \in Ids : Rewriter(task[t], id),
           file' \in [Ids -> Paths \cup {None}],
           UNCHANGED <<workload, caches, disk, now, up>>
    PROVE  IInv'
<1>1. task' \in [Tasks -> Task \cup {None}] /\ Shapes' /\ FreshReads'
  BY WrittenTasks DEF IInv
<1>2. NoNewRewriter /\ NoNewPublisher
  BY NothingNewWritten DEF IInv, Publisher, Everyone
<1>3. TypeOK'
  BY <1>1 DEF IInv, Typed, TypeOK, caches
<1>4. Listed' \subseteq Listed \/ \E id \in Ids : Rewriter(task[t], id)
  <2>1. CASE ids = {}
    BY <2>1 DEF Listed, Expired
  <2>2. CASE ids # {}
    BY <2>2
  <2> QED
    BY <2>1, <2>2
<1>5. SoundEntries' /\ SoundPages'
  BY <1>2, EntriesStaySound, PagesStaySound DEF IInv, Typed, Sound, caches
<1>6. SoundTotal'
  BY <1>2, <1>4, TotalStaysSound DEF IInv, Typed, Sound, caches
<1> QED
  BY <1>1, <1>3, <1>5, <1>6 DEF IInv, Typed, Sound

(* Create.                                                                 *)
LEMMA CreateStep ==
    ASSUME IInv, NEW t \in Tasks, Create(t)
    PROVE  IInv'
<1> DEFINE id == task[t].id
           row == [userid |-> task[t].user, path |-> task[t].path,
                   public |-> task[t].settings.public, expire |-> task[t].settings.expire]
<1>1. task[t] # None /\ task[t] \in Task /\ Shape(task[t]) /\ task[t].pc = "create"
  BY DEF Create, At, IInv, Typed, TypeOK, Shapes
<1>2. /\ id \in Ids /\ task[t].user \in Users /\ task[t].path \in Paths
      /\ task[t].settings \in Settings
  BY <1>1 DEF Shape
<1>3. CASE UNCHANGED vars
  BY <1>3, Again
<1>4. CASE /\ sharedfile[id] = None
           /\ sharedfile' = [sharedfile EXCEPT ![id] = row]
           /\ Written({id}, t, None)
           /\ file' = [file EXCEPT ![id] = IF \/ <<row.userid, row.path>> \notin disk
                                              \/ \E s \in Tasks : Moving(s)
                                           THEN None ELSE row.path]
           /\ UNCHANGED <<workload, caches, disk, now, up>>
  <2>1. row \in Row
    BY <1>2 DEF Row, Settings
  <2>2. sharedfile' \in [Ids -> Row \cup {None}]
    BY <1>2, <1>4, <2>1 DEF IInv, Typed, TypeOK
  <2>3. file' \in [Ids -> Paths \cup {None}]
    BY <1>2, <1>4 DEF IInv, Typed, TypeOK
  <2>4. \A i \in Ids \ {id} : sharedfile'[i] = sharedfile[i]
    BY <1>4 DEF IInv, Typed, TypeOK
  <2>5. task' \in [Tasks -> Task \cup {None}] /\ Shapes' /\ FreshReads'
    BY <1>2, <1>4, <2>4, WrittenTasks DEF IInv
  <2>6. NoNewRewriter /\ NoNewPublisher
    BY <1>1, <1>4, NothingNewWritten DEF IInv
  <2>7. TypeOK'
    BY <1>4, <2>2, <2>3, <2>5 DEF IInv, Typed, TypeOK, caches
  <2>8. SoundEntries' /\ SoundPages'
    BY <1>4, <2>4, <2>6, EntriesStaySound, PagesStaySound DEF IInv, Typed, Sound, caches
  <2>9. Listed' \subseteq Listed \/ Publisher(task[t])
    <3>1. CASE task[t].settings.public
      BY <1>1, <3>1 DEF Publisher
    <3>2. CASE ~task[t].settings.public
      <4>1. sharedfile'[id] = row /\ ~row.public
        BY <1>2, <1>4, <3>2 DEF IInv, Typed, TypeOK
      <4> HIDE DEF id, row
      <4> QED
        BY <1>4, <2>4, <4>1 DEF Listed, Expired
    <3> QED
      BY <3>1, <3>2
  <2>10. SoundTotal'
    BY <1>1, <1>2, <1>4, <2>6, <2>9, TotalStaysSound DEF IInv, Typed, Sound, caches
  <2> QED
    BY <2>5, <2>7, <2>8, <2>10 DEF IInv, Typed, Sound
<1> QED
  BY <1>3, <1>4 DEF Create

(* The end of the process.                                                 *)
LEMMA DieStep ==
    ASSUME IInv, Die
    PROVE  IInv'
<1>1. task' = [t \in Tasks |-> None] /\ UNCHANGED <<workload, sharedfile, disk, now>>
      /\ up' = FALSE /\ InvalidateAllCache
  BY DEF Die
<1>2. file' \in [Ids -> Paths \cup {None}]
  BY DEF Die, Lost, IInv, Typed, TypeOK
<1>3. TypeOK'
  BY <1>1, <1>2, EmptyIsSound DEF IInv, Typed, TypeOK
<1>4. Shapes' /\ FreshReads'
  BY <1>1 DEF Shapes, FreshReads
<1> QED
  BY <1>1, <1>3, <1>4, EmptyIsSound DEF IInv, Typed

(* Remove.                                                                 *)
LEMMA RemoveStep ==
    ASSUME IInv, NEW t \in Tasks, Remove(t)
    PROVE  IInv'
<1> DEFINE id == task[t].id
<1>1. task[t] # None /\ task[t] \in Task /\ Shape(task[t]) /\ task[t].pc = "remove"
  BY DEF Remove, At, IInv, Typed, TypeOK, Shapes
<1>2. id \in Ids
  BY <1>1 DEF Shape
<1>3. CASE /\ sharedfile' = [sharedfile EXCEPT ![id] = None]
           /\ file' = Lost({id})
           /\ Written({id}, t, None)
           /\ UNCHANGED <<workload, caches, disk, now, up>>
  <2>1. /\ sharedfile' \in [Ids -> Row \cup {None}]
        /\ \A i \in Ids \ {id} : sharedfile'[i] = sharedfile[i]
    BY <1>3 DEF IInv, Typed, TypeOK
  <2>2. file' \in [Ids -> Paths \cup {None}]
    BY <1>3 DEF Lost, IInv, Typed, TypeOK
  <2>3. Rewriter(task[t], id)
    BY <1>1 DEF Rewriter
  <2> QED
    BY <1>1, <1>2, <1>3, <2>1, <2>2, <2>3, WriteStep
<1>4. CASE End(t) /\ UNCHANGED <<workload, sharedfile, caches, disk, now, up, file>>
  BY <1>4, QuietStep DEF End
<1>5. CASE Die
  BY <1>5, DieStep
<1> QED
  BY <1>3, <1>4, <1>5 DEF Remove

(* Update.                                                                 *)
LEMMA UpdateStep ==
    ASSUME IInv, NEW t \in Tasks, Update(t)
    PROVE  IInv'
<1> DEFINE id == task[t].id
<1>1. task[t] # None /\ task[t] \in Task /\ Shape(task[t]) /\ task[t].pc = "update"
  BY DEF Update, At, IInv, Typed, TypeOK, Shapes
<1>2. id \in Ids /\ task[t].settings \in Settings
  BY <1>1 DEF Shape
<1>3. CASE UNCHANGED vars
  BY <1>3, Again
<1>4. CASE /\ sharedfile[id] # None
           /\ sharedfile' = [sharedfile EXCEPT ![id].public = task[t].settings.public,
                                               ![id].expire = task[t].settings.expire]
           /\ Written({id}, t, None)
           /\ UNCHANGED <<workload, caches, disk, now, up, file>>
  <2>1. sharedfile[id] \in Row
    BY <1>2, <1>4 DEF IInv, Typed, TypeOK
  <2>2. /\ sharedfile' \in [Ids -> Row \cup {None}]
        /\ \A i \in Ids \ {id} : sharedfile'[i] = sharedfile[i]
    BY <1>2, <1>4, <2>1 DEF IInv, Typed, TypeOK, Row, Settings
  <2>3. Rewriter(task[t], id)
    BY <1>1 DEF Rewriter
  <2>4. file' \in [Ids -> Paths \cup {None}]
    BY <1>4 DEF IInv, Typed, TypeOK
  <2> QED
    BY <1>1, <1>2, <1>4, <2>2, <2>3, <2>4, WriteStep
<1> QED
  BY <1>3, <1>4 DEF Update

(* DeleteMany.                                                             *)
LEMMA DeleteManyStep ==
    ASSUME IInv, NEW t \in Tasks, DeleteMany(t)
    PROVE  IInv'
<1> DEFINE gone == {id \in Ids : /\ sharedfile[id] # None
                                 /\ sharedfile[id].path = task[t].path
                                 /\ sharedfile[id].userid = task[t].user}
<1>1. task[t] # None /\ task[t].pc = "deleteMany"
  BY DEF DeleteMany, At
<1>2. /\ sharedfile' = [id \in Ids |-> IF id \in gone THEN None ELSE sharedfile[id]]
      /\ file' = Lost(gone)
      /\ Written(gone, t, None)
      /\ UNCHANGED <<workload, caches, disk, now, up>>
  BY DEF DeleteMany
<1>3. gone \in SUBSET Ids
  OBVIOUS
<1> HIDE DEF gone
<1>4. /\ sharedfile' \in [Ids -> Row \cup {None}]
      /\ \A i \in Ids \ gone : sharedfile'[i] = sharedfile[i]
  BY <1>2 DEF IInv, Typed, TypeOK
<1>5. file' \in [Ids -> Paths \cup {None}]
  BY <1>2 DEF Lost, IInv, Typed, TypeOK
<1>6. \A id \in gone : Rewriter(task[t], id)
  BY <1>1 DEF Rewriter, Everyone
<1> QED
  BY <1>1, <1>2, <1>3, <1>4, <1>5, <1>6, WriteStep

(* UpdateMany.                                                             *)
LEMMA UpdateManyStep ==
    ASSUME IInv, NEW t \in Tasks, UpdateMany(t)
    PROVE  IInv'
<1> SUFFICES ASSUME ~QueryFails(t)
             PROVE  IInv'
  BY QueryFailsStep
<1> DEFINE ids == {id \in Ids : sharedfile[id] # None /\ sharedfile[id].path = task[t].path}
           k == [task[t] EXCEPT !.pc = "findStarts"]
<1>1. task[t] # None /\ task[t] \in Task /\ Shape(task[t]) /\ task[t].pc = "updateMany"
  BY DEF UpdateMany, At, IInv, Typed, TypeOK, Shapes
<1>2. task[t].op = "move" /\ task[t].user \in Users /\ task[t].path \in Paths /\ task[t].to \in Paths
  BY <1>1 DEF Shape
<1>3. /\ sharedfile' = [id \in Ids |-> IF id \in ids
                           THEN [sharedfile[id] EXCEPT !.path = task[t].to] ELSE sharedfile[id]]
      /\ Written(ids, t, k)
      /\ UNCHANGED <<workload, caches, disk, now, up>>
  BY DEF UpdateMany
<1>4. file' \in [Ids -> Paths \cup {None}]
  BY DEF UpdateMany, Lost, IInv, Typed, TypeOK
<1>5. ids \in SUBSET Ids
  OBVIOUS
<1>6. \A id \in ids : sharedfile[id] \in Row
  BY DEF IInv, Typed, TypeOK
<1> HIDE DEF ids
<1>7. /\ sharedfile' \in [Ids -> Row \cup {None}]
      /\ \A i \in Ids \ ids : sharedfile'[i] = sharedfile[i]
  BY <1>2, <1>3, <1>6 DEF IInv, Typed, TypeOK, Row
<1>8. k \in Task /\ k.pc = "findStarts" /\ k.op = "move" /\ k.user = task[t].user
      /\ k.path = task[t].path /\ k.to = task[t].to
  BY <1>1, <1>2 DEF Task
<1> HIDE DEF k
<1>9. Shape(k) /\ k.pc \in Everyone
  BY <1>2, <1>8 DEF Shape, Everyone
<1>10. \A id : Rewriter(task[t], id)
  BY <1>1 DEF Rewriter, Everyone
<1> QED
  BY <1>1, <1>3, <1>4, <1>5, <1>7, <1>8, <1>9, <1>10, WriteStep

(* UpdateEach.                                                             *)
LEMMA UpdateEachStep ==
    ASSUME IInv, NEW t \in Tasks, UpdateEach(t)
    PROVE  IInv'
<1>1. task[t] # None /\ task[t] \in Task /\ Shape(task[t]) /\ task[t].pc = "updateEach"
  BY DEF UpdateEach, At, IInv, Typed, TypeOK, Shapes
<1>2. /\ task[t].op = "move" /\ task[t].user \in Users /\ task[t].path \in Paths /\ task[t].to \in Paths
      /\ task[t].todo \in SUBSET (Ids \X Paths)
  BY <1>1 DEF Shape, Task
<1>3. PICK do \in task[t].todo :
          \/ UNCHANGED vars
          \/ /\ sharedfile[do[1]] # None
             /\ sharedfile' = [sharedfile EXCEPT ![do[1]].path = do[2]]
             /\ Written({do[1]}, t, IF task[t].todo \ {do} = {} THEN None
                                    ELSE [task[t] EXCEPT !.todo = task[t].todo \ {do}])
             /\ UNCHANGED <<workload, caches, disk, now, up, file>>
  BY DEF UpdateEach
<1>4. CASE UNCHANGED vars
  BY <1>4, Again
<1>5. CASE /\ sharedfile[do[1]] # None
           /\ sharedfile' = [sharedfile EXCEPT ![do[1]].path = do[2]]
           /\ Written({do[1]}, t, IF task[t].todo \ {do} = {} THEN None
                                  ELSE [task[t] EXCEPT !.todo = task[t].todo \ {do}])
           /\ UNCHANGED <<workload, caches, disk, now, up, file>>
  <2> DEFINE rest == task[t].todo \ {do}
             go == [task[t] EXCEPT !.todo = rest]
             k == IF rest = {} THEN None ELSE go
  <2>1. do[1] \in Ids /\ do[2] \in Paths
    BY <1>2
  <2>2. sharedfile[do[1]] \in Row
    BY <1>5, <2>1 DEF IInv, Typed, TypeOK
  <2>3. /\ sharedfile' \in [Ids -> Row \cup {None}]
        /\ \A i \in Ids \ {do[1]} : sharedfile'[i] = sharedfile[i]
    BY <1>5, <2>1, <2>2 DEF IInv, Typed, TypeOK, Row
  <2>4. rest \in SUBSET (Ids \X Paths)
    BY <1>2
  <2>5. Written({do[1]}, t, k) /\ UNCHANGED <<workload, caches, disk, now, up, file>>
    BY <1>5
  <2> HIDE DEF rest
  <2>6. go \in Task /\ go.pc = "updateEach" /\ go.op = "move" /\ go.user = task[t].user
        /\ go.path = task[t].path /\ go.to = task[t].to
    BY <1>1, <1>2, <2>4 DEF Task
  <2> HIDE DEF go
  <2>7. Shape(go) /\ go.pc \in Everyone
    BY <1>2, <2>6 DEF Shape, Everyone
  <2>8. k \in Task \cup {None} /\ (k # None => Shape(k) /\ k.pc \in Everyone)
    BY <2>6, <2>7
  <2>9. \A id : Rewriter(task[t], id)
    BY <1>1 DEF Rewriter, Everyone
  <2>10. file' \in [Ids -> Paths \cup {None}]
    BY <2>5 DEF IInv, Typed, TypeOK
  <2> HIDE DEF k
  <2> QED
    BY <1>1, <2>1, <2>3, <2>5, <2>8, <2>9, <2>10, WriteStep
<1> QED
  BY <1>3, <1>4, <1>5

-----------------------------------------------------------------------------
(* The disk, the clock and the process.                                    *)

(* Rm: what was gone is gone.                                              *)
LEMMA RmStep ==
    ASSUME IInv, NEW t \in Tasks, Rm(t)
    PROVE  IInv'
<1> DEFINE go == [task[t] EXCEPT !.pc = "deleteMany"]
           folder == <<task[t].user, task[t].path>> \in disk /\ task[t].path \in Folders
           k == IF folder THEN go ELSE None
<1>1. task[t] # None /\ task[t] \in Task /\ Shape(task[t]) /\ task[t].pc = "rm"
  BY DEF Rm, At, IInv, Typed, TypeOK, Shapes
<1>2. task[t].op = "deleteFile" /\ task[t].user \in Users /\ task[t].path \in Paths
  BY <1>1 DEF Shape
<1>3. /\ Goes(t, k) /\ disk' \subseteq disk
      /\ UNCHANGED <<workload, sharedfile, now, up>>
      /\ IF folder THEN InvalidateAllCache ELSE UNCHANGED caches
  BY DEF Rm, Continue, End
<1>4. file' \in [Ids -> Paths \cup {None}]
  BY DEF Rm, Lost, IInv, Typed, TypeOK
<1>5. go \in Task /\ go.pc = "deleteMany" /\ go.op = "deleteFile" /\ go.user = task[t].user
      /\ go.path = task[t].path
  BY <1>1, <1>2 DEF Task
<1> HIDE DEF go, folder
<1>6. k # None => Shape(k) /\ k.pc = "deleteMany"
  BY <1>2, <1>5 DEF Shape
<1>7. task' \in [Tasks -> Task \cup {None}]
  BY <1>3, <1>5 DEF Goes, IInv, Typed, TypeOK
<1>8. ASSUME NEW s \in Tasks
      PROVE  task'[s] = IF s = t THEN k ELSE task[s]
  BY <1>3 DEF Goes, IInv, Typed, TypeOK
<1>9. Shapes'
  BY <1>6, <1>8 DEF Shapes, IInv, Typed
<1>10. Listed' = Listed
  BY <1>3 DEF Listed, Expired
<1>11. FreshReads'
  <2> SUFFICES ASSUME NEW s \in Tasks, task'[s] # None
               PROVE  Fresh(task[s])'
    BY DEF FreshReads, Fresh
  <2>1. CASE s = t
    BY <1>6, <1>8, <2>1 DEF Fresh, Holding
  <2>2. CASE s # t
    <3>1. task'[s] = task[s] /\ Fresh(task[s])
      BY <1>8, <2>2 DEF IInv, FreshReads
    <3> QED
      BY <1>3, <1>10, <3>1 DEF Fresh
  <2> QED
    BY <2>1, <2>2
<1>12. CASE folder
  <2>1. Sound' /\ TypeOK'
    BY <1>3, <1>4, <1>7, <1>12, EmptyIsSound DEF IInv, Typed, TypeOK
  <2> QED
    BY <1>9, <1>11, <2>1 DEF IInv, Typed
<1>13. CASE ~folder
  <2>1. Goes(t, None) /\ UNCHANGED caches
    BY <1>3, <1>13
  <2>2. NoNewRewriter /\ NoNewPublisher
    BY <2>1, NothingNew DEF IInv, Typed
  <2>3. TypeOK'
    BY <1>3, <1>4, <1>7, <2>1 DEF IInv, Typed, TypeOK, caches
  <2>4. Sound'
    BY <1>3, <1>10, <2>1, <2>2, EntriesStaySound, PagesStaySound, TotalStaysSound
       DEF IInv, Typed, Sound, caches
  <2> QED
    BY <1>9, <1>11, <2>3, <2>4 DEF IInv, Typed
<1> QED
  BY <1>12, <1>13

(* Rename, when it succeeds: who misses a file of the mover is marked.     *)
LEMMA MovedStep ==
    ASSUME IInv, NEW t \in Tasks, Rename(t), Movable(task[t].user, task[t].path, task[t].to)
    PROVE  IInv'
<1> DEFINE u == task[t].user
           go == [task[t] EXCEPT !.pc = "updateMany"]
           k == IF task[t].op = "move" THEN go ELSE None
           moved == {q \in Inside[task[t].path] : <<u, q>> \in disk}
           Missing(s) == (At(s, "exists") \/ At(s, "remove")) /\ task[s].row # None
                         /\ task[s].row.userid = u
<1>1. task[t] # None /\ task[t] \in Task /\ Shape(task[t]) /\ task[t].pc = "rename"
  BY DEF Rename, At, IInv, Typed, TypeOK, Shapes
<1>2. task[t].op \in {"move", "rename"} /\ u \in Users /\ task[t].path \in Paths /\ task[t].to \in Paths
  BY <1>1 DEF Shape
<1>3. /\ disk' = (disk \ ({u} \X moved)) \cup
                 {<<u, Replaced[q, task[t].path, task[t].to]>> : q \in moved}
      /\ task' = [s \in Tasks |-> IF s = t THEN k
                                  ELSE IF Missing(s) THEN [task[s] EXCEPT !.stale = TRUE] ELSE task[s]]
      /\ IF task[t].op = "move" THEN InvalidateAllCache ELSE UNCHANGED caches
      /\ UNCHANGED <<workload, sharedfile, now, up>>
  BY DEF Rename
<1>4. moved \subseteq Paths
  BY <1>2, SharedTokensAssumption
<1>5. \A q \in Paths : Replaced[q, task[t].path, task[t].to] \in Paths
  BY <1>2, SharedTokensAssumption
<1>6. ASSUME NEW pair \in disk', pair \notin disk
      PROVE  \E q \in Paths : pair = <<u, q>>
  <2>1. PICK q \in moved : pair = <<u, Replaced[q, task[t].path, task[t].to]>>
    BY <1>3, <1>6
  <2> QED
    BY <1>4, <1>5, <2>1
<1>7. disk' \subseteq Users \X Paths
  BY <1>2, <1>6 DEF IInv, Typed, TypeOK
<1>8. file' \in [Ids -> Paths \cup {None}]
  <2>1. \A id \in LinksTo(u, moved) : file[id] \in Paths
    BY <1>4 DEF LinksTo
  <2>2. \A id \in LinksTo(u, moved) : Replaced[file[id], task[t].path, task[t].to] \in Paths
    BY <1>5, <2>1
  <2>3. file' = IF \E s \in Tasks \ {t} : Moving(s) THEN Lost(Ids)
                ELSE IF task[t].op = "rename"
                     THEN Lost(LinksTo(u, moved) \cup LinksTo(u, {task[t].to}))
                ELSE [id \in Ids |->
                        CASE id \in LinksTo(u, {task[t].to}) -> None
                          [] id \in LinksTo(u, moved) ->
                                 Replaced[file[id], task[t].path, task[t].to]
                          [] OTHER -> file[id]]
    BY DEF Rename
  <2> HIDE DEF moved
  <2> QED
    BY <2>2, <2>3 DEF Lost, IInv, Typed, TypeOK
<1> HIDE DEF moved
<1>9. go \in Task /\ go.pc = "updateMany" /\ go.op = task[t].op /\ go.user = task[t].user
      /\ go.path = task[t].path /\ go.to = task[t].to
  BY <1>1 DEF Task
<1> HIDE DEF go
<1>10. k \in Task \cup {None} /\ (k # None => Shape(k) /\ k.pc = "updateMany")
  BY <1>2, <1>9 DEF Shape
<1> HIDE DEF k
<1>11. Listed' = Listed
  BY <1>3 DEF Listed, Expired
<1>12. ASSUME NEW s \in Tasks
       PROVE  /\ task'[s] \in Task \cup {None}
              /\ task'[s] # None => Shape(task'[s]) /\ Fresh(task[s])'
              /\ task'[s] # None /\ s # t =>
                    /\ task[s] # None
                    /\ \A id : Rewriter(task'[s], id) <=> Rewriter(task[s], id)
                    /\ Publisher(task'[s]) <=> Publisher(task[s])
  <2>1. CASE s = t
    BY <1>3, <1>10, <2>1 DEF Fresh, Holding
  <2>2. CASE s # t /\ Missing(s)
    <3>1. task[s] # None /\ task[s] \in Task /\ Shape(task[s])
      BY <2>2 DEF At, IInv, Typed, TypeOK, Shapes
    <3>2. task'[s] = [task[s] EXCEPT !.stale = TRUE]
      BY <1>3, <2>2
    <3>3. task'[s] \in Task
      BY <3>1, <3>2 DEF Task
    <3>4. Shape(task'[s])
      BY <3>1, <3>2 DEF Task, Shape
    <3>5. task'[s].stale /\ task'[s].pc = task[s].pc /\ task'[s].id = task[s].id
          /\ task'[s].settings = task[s].settings
      BY <3>1, <3>2 DEF Task
    <3> QED
      BY <3>1, <3>3, <3>4, <3>5 DEF Fresh, Rewriter, Publisher
  <2>3. CASE s # t /\ ~Missing(s)
    <3>1. task'[s] = task[s]
      BY <1>3, <2>3
    <3>2. task[s] # None => task[s] \in Task /\ Shape(task[s]) /\ Fresh(task[s])
      BY DEF IInv, Typed, TypeOK, Shapes, FreshReads
    <3>3. ASSUME task[s] # None, task[s].pc = "remove", task[s].op = "info",
                 <<task[s].row.userid, task[s].row.path>> \notin disk
          PROVE  <<task[s].row.userid, task[s].row.path>> \notin disk'
      <4>1. task[s].row # None
        BY <3>2, <3>3, NoneAssumption DEF Shape
      <4>2. task[s].row.userid # u
        BY <2>3, <3>3, <4>1 DEF At
      <4> QED
        BY <1>6, <3>3, <4>2
    <3>4. task[s] # None => Fresh(task[s])'
      <4> SUFFICES ASSUME task[s] # None
                   PROVE  Fresh(task[s])'
        OBVIOUS
      <4> QED
        BY <1>3, <1>11, <3>1, <3>2, <3>3 DEF Fresh
    <3> QED
      BY <3>1, <3>2, <3>4 DEF IInv, Typed, TypeOK
  <2> QED
    BY <2>1, <2>2, <2>3
<1>13. task' \in [Tasks -> Task \cup {None}]
  BY <1>3, <1>12
<1>14. Shapes' /\ FreshReads'
  BY <1>12 DEF Shapes, FreshReads, Fresh
<1>15. CASE task[t].op = "move"
  <2>1. Sound' /\ TypeOK'
    BY <1>3, <1>7, <1>8, <1>13, <1>15, EmptyIsSound DEF IInv, Typed, TypeOK
  <2> QED
    BY <1>14, <2>1 DEF IInv, Typed
<1>16. CASE task[t].op = "rename"
  <2>1. task'[t] = None /\ UNCHANGED caches
    BY <1>3, <1>16 DEF k
  <2>2. NoNewRewriter /\ NoNewPublisher
    BY <1>12, <2>1 DEF NoNewRewriter, NoNewPublisher
  <2>3. TypeOK'
    BY <1>3, <1>7, <1>8, <1>13, <2>1 DEF IInv, Typed, TypeOK, caches
  <2>4. Sound'
    BY <1>3, <1>11, <2>1, <2>2, EntriesStaySound, PagesStaySound, TotalStaysSound
       DEF IInv, Typed, Sound, caches
  <2> QED
    BY <1>14, <2>3, <2>4 DEF IInv, Typed
<1> QED
  BY <1>2, <1>15, <1>16

(* Rename.                                                                 *)
LEMMA RenameStep ==
    ASSUME IInv, NEW t \in Tasks, Rename(t)
    PROVE  IInv'
<1>1. CASE Movable(task[t].user, task[t].path, task[t].to)
  BY <1>1, MovedStep
<1>2. CASE ~Movable(task[t].user, task[t].path, task[t].to)
  <2>1. Goes(t, None) /\ UNCHANGED <<workload, sharedfile, caches, disk, now, up, file>>
    BY <1>2 DEF Rename, End
  <2> QED
    BY <2>1, QuietStep
<1> QED
  BY <1>1, <1>2

(* Tick: links expire and entries are dropped.                             *)
LEMMA TickStep ==
    ASSUME IInv, Tick
    PROVE  IInv'
<1>1. /\ now' = now + 1 /\ now < workload.until
      /\ UNCHANGED <<workload, sharedfile, tokensTotalPagesCache, disk, task, up, file>>
      /\ cacheTokens' \in [Ids -> Entry \cup {None}]
      /\ tokensPagesCache' \in [Pages -> Page \cup {None}]
      /\ \A id \in Ids : cacheTokens'[id] \in {cacheTokens[id], None}
      /\ \A p \in Pages : tokensPagesCache'[p] \in {tokensPagesCache[p], None}
  BY DEF Tick, IInv, Typed, TypeOK
<1>2. now' \in 0 .. MaxTime /\ now \in Nat
  BY <1>1, WorkloadType, SharedTokensAssumption DEF IInv, Typed, TypeOK
<1>3. Listed' \subseteq Listed
  <2> SUFFICES ASSUME NEW id \in Ids, sharedfile[id] # None, now > sharedfile[id].expire
               PROVE  id \notin Listed'
    BY <1>1 DEF Listed, Expired
  <2>1. sharedfile[id].expire \in Int
    BY SharedTokensAssumption DEF IInv, Typed, TypeOK, Row
  <2> QED
    BY <1>1, <1>2, <2>1 DEF Listed, Expired
<1>4. TypeOK'
  BY <1>1, <1>2 DEF IInv, Typed, TypeOK
<1>5. Shapes'
  BY <1>1 DEF IInv, Typed, Shapes
<1>6. FreshReads'
  <2> SUFFICES ASSUME NEW t \in Tasks, task[t] # None
               PROVE  Fresh(task[t])'
    BY <1>1 DEF FreshReads, Fresh
  <2>1. Fresh(task[t])
    BY DEF IInv, FreshReads
  <2> QED
    BY <1>1, <1>3, <2>1 DEF Fresh
<1>7. NoNewRewriter /\ NoNewPublisher
  BY <1>1 DEF NoNewRewriter, NoNewPublisher
<1>8. SoundTotal'
  BY <1>1, <1>3, <1>7, TotalStaysSound DEF IInv, Typed, Sound
<1>9. SoundEntries' /\ SoundPages'
  BY <1>1 DEF IInv, Sound, SoundEntries, SoundPages
<1> QED
  BY <1>4, <1>5, <1>6, <1>8, <1>9 DEF IInv, Typed, Sound

(* Restart.                                                                *)
LEMMA RestartStep ==
    ASSUME IInv, Restart
    PROVE  IInv'
<1>1. UNCHANGED <<workload, sharedfile, caches, disk, task, now, file>> /\ up' = TRUE
  BY DEF Restart
<1>2. Listed' = Listed
  BY <1>1 DEF Listed, Expired
<1> QED
  BY <1>1, <1>2 DEF caches, IInv, Typed, TypeOK, Shapes, FreshReads, Fresh, Sound, SoundEntries,
                    SoundPages, SoundTotal

-----------------------------------------------------------------------------
(* Theorems.                                                               *)

(* The server starts with empty caches and no requests.                    *)
LEMMA InitIInv ==
    ASSUME Init
    PROVE  IInv
<1>1. EmptyCaches /\ task = [t \in Tasks |-> None]
  BY DEF Init
<1>2. TypeOK
  BY <1>1, SharedTokensAssumption DEF Init, EmptyCaches, TypeOK
<1>3. Shapes /\ FreshReads
  BY <1>1 DEF Shapes, FreshReads
<1>4. Sound
  BY <1>1 DEF EmptyCaches, Sound, SoundEntries, SoundPages, SoundTotal
<1> QED
  BY <1>2, <1>3, <1>4 DEF IInv, Typed

(* What clients may send preserves the invariant.                          *)
LEMMA RequestIInv ==
    ASSUME IInv, NEW t \in Tasks, Request(t)
    PROVE  IInv'
<1>0. workload.users \subseteq Users /\ workload.ids \subseteq Ids
      /\ workload.settings \subseteq Settings
  BY WorkloadType DEF IInv, Typed
<1>1. ASSUME NEW u \in workload.users, NEW id \in workload.ids, Lookup(t, "delete", u, id, None)
      PROVE  IInv'
  BY <1>0, <1>1, LookupStep DEF Looking
<1>2. ASSUME NEW u \in workload.users, NEW id \in workload.ids, NEW settings \in workload.settings,
             Lookup(t, "update", u, id, settings)
      PROVE  IInv'
  BY <1>0, <1>2, LookupStep DEF Looking
<1>3. ASSUME NEW id \in workload.ids, NEW op \in {"info", "content"}, Lookup(t, op, None, id, None)
      PROVE  IInv'
  BY <1>0, <1>3, LookupStep DEF Looking
<1>4. 0 \in Pages
  BY FirstPage
<1> QED
  BY <1>1, <1>2, <1>3, <1>4, ShareStep, UnshareStep, DeleteFileStep, MoveStep, ListStep DEF Request

(* So does every step.                                                     *)
LEMMA NextIInv ==
    ASSUME IInv, [Next]_vars
    PROVE  IInv'
<1>1. ASSUME NEW t \in Tasks, Answer(t)
      PROVE  IInv'
  BY <1>1, CountStep, CreateStep, FindUniqueStep, FillStep, ExistsStep, RemoveStep, UpdateStep,
     DeleteManyStep, RmStep, RenameStep, UpdateManyStep, FindStartsStep, UpdateEachStep,
     FindManyStep, FillPageStep DEF Answer
<1> QED
  BY <1>1, RequestIInv, RestartStep, TickStep, Again DEF Next

(* The inductive invariant holds throughout.                               *)
THEOREM Invariance == Spec => []IInv
<1>1. Init => IInv
  BY InitIInv
<1>2. IInv /\ [Next]_vars => IInv'
  BY NextIInv
<1> QED
  BY <1>1, <1>2, PTL DEF Spec

(* All variables keep their types, whatever clients send.                  *)
THEOREM TypeCorrect == Spec => []TypeOK
<1>1. IInv => TypeOK
  BY DEF IInv, Typed
<1> QED
  BY <1>1, Invariance, PTL

(* A cached link is the link of the table, unless its fill overlapped a    *)
(* write (getSharedFileByID, invalidateAllCache).                          *)
THEOREM CachedLinks == Spec => []CachedTokenCurrent
<1>1. IInv => CachedTokenCurrent
  BY DEF IInv, Sound, SoundEntries, CachedTokenCurrent
<1> QED
  BY <1>1, Invariance, PTL

(* A cached list has public links only, unless its fill overlapped a write *)
(* (getSharedFiles).                                                       *)
THEOREM CachedLists == Spec => []ListedIsPublic
<1>1. IInv => ListedIsPublic
  BY DEF IInv, Sound, SoundPages, ListedIsPublic
<1> QED
  BY <1>1, Invariance, PTL

(* The cached number of pages is never too small for the public links      *)
(* (getCountSharedPages).                                                  *)
THEOREM CachedPages == Spec => []PagesReachAll
<1>1. IInv => PagesReachAll
  BY DEF IInv, Sound, SoundTotal, PagesReachAll
<1> QED
  BY <1>1, Invariance, PTL

(* Only a removal for a visitor ends the process.                          *)
LEMMA WhoDies ==
    ASSUME Next, up, ~up'
    PROVE  \E t \in Tasks : At(t, "remove") /\ Unheard(task[t].op)
<1>1. ASSUME NEW t \in Tasks, Request(t)
      PROVE  up' = up
  BY <1>1 DEF Request, Share, Lookup, Unshare, DeleteFile, Move, List
<1>2. ASSUME NEW t \in Tasks, Answer(t), ~Remove(t)
      PROVE  up' = up
  BY <1>2 DEF Answer, Count, Create, FindUnique, Fill, Exists, Update, DeleteMany, Rm, Rename,
              UpdateMany, FindStarts, QueryFails, UpdateEach, FindMany, FillPage, vars
<1>3. PICK t \in Tasks : Remove(t)
  BY <1>1, <1>2 DEF Next, Restart, Tick
<1> QED
  BY <1>3 DEF Remove

(* The process ends only at the removal of a link for a visitor whose file *)
(* is not there, or was not when the visitor looked (getSFInfo).           *)
THEOREM VisitsEndTheProcess == Spec => OnlyVisitorsRemovalsEndTheProcess
<1> DEFINE Visit(t) ==
        /\ At(t, "remove")
        /\ task[t].op = "info"
        /\ task[t].stale \/ <<task[t].row.userid, task[t].row.path>> \notin disk
<1>1. ASSUME IInv, Next, up, ~up'
      PROVE  \E t \in Tasks : Visit(t)
  <2>1. PICK t \in Tasks : At(t, "remove") /\ Unheard(task[t].op)
    BY <1>1, WhoDies
  <2>2. Fresh(task[t])
    BY <1>1, <2>1 DEF At, IInv, FreshReads
  <2>3. task[t].stale \/ <<task[t].row.userid, task[t].row.path>> \notin disk
    BY <2>1, <2>2 DEF At, Unheard, Fresh
  <2> QED
    BY <2>1, <2>3 DEF Unheard
<1>2. IInv /\ [Next]_vars => [up /\ ~up' => \E t \in Tasks : Visit(t)]_vars
  BY <1>1
<1> QED
  BY <1>2, Invariance, PTL DEF Spec, OnlyVisitorsRemovalsEndTheProcess

(* What becomes of a link in a step.                                       *)
Ends(id) ==
    \/ sharedfile'[id] = None
    \/ sharedfile'[id].userid # sharedfile[id].userid
    \/ sharedfile'[id].public # sharedfile[id].public

(* A link that only moves does not end.                                    *)
LEMMA NewPath ==
    ASSUME NEW id \in Ids, sharedfile[id] \in Row, NEW path \in Paths,
           sharedfile'[id] = [sharedfile[id] EXCEPT !.path = path]
    PROVE  ~Ends(id)
<1>1. sharedfile'[id] \in Row
  BY DEF Row
<1>2. /\ sharedfile'[id].userid = sharedfile[id].userid
      /\ sharedfile'[id].public = sharedfile[id].public
  BY DEF Row
<1> QED
  BY <1>1, <1>2, NoneAssumption DEF Ends

(* Only three actions take a link away or give it other settings.          *)
LEMMA WhoEnds ==
    ASSUME IInv, Next, NEW id \in Ids, sharedfile[id] # None, Ends(id)
    PROVE  \E t \in Tasks :
              \/ (Remove(t) \/ Update(t)) /\ task[t].id = id /\ task'[t] = None
              \/ DeleteMany(t) /\ task'[t] = None /\ task[t].user = sharedfile[id].userid
<1>0. sharedfile[id] \in Row
  BY DEF IInv, Typed, TypeOK
<1>1. sharedfile'[id] # sharedfile[id]
  BY DEF Ends
<1>2. ASSUME NEW t \in Tasks, Request(t)
      PROVE  FALSE
  BY <1>1, <1>2 DEF Request, Share, Lookup, Unshare, DeleteFile, Move, List
<1>3. ASSUME NEW t \in Tasks,
             \/ Count(t) \/ FindUnique(t) \/ Fill(t) \/ Exists(t) \/ Rm(t) \/ Rename(t)
             \/ FindStarts(t) \/ FindMany(t) \/ FillPage(t)
      PROVE  FALSE
  BY <1>1, <1>3 DEF Count, FindUnique, Fill, Exists, Rm, Rename, FindStarts, QueryFails, FindMany,
                   FillPage
<1>4. ASSUME NEW t \in Tasks, Create(t)
      PROVE  FALSE
  BY <1>1, <1>4 DEF Create, vars, IInv, Typed, TypeOK
<1>5. ASSUME NEW t \in Tasks, UpdateMany(t)
      PROVE  FALSE
  <2>1. sharedfile'[id] \in {sharedfile[id], [sharedfile[id] EXCEPT !.path = task[t].to]}
    BY <1>5 DEF UpdateMany, QueryFails
  <2>2. task[t].to \in Paths
    BY <1>5 DEF UpdateMany, At, Shape, IInv, Typed, Shapes
  <2> QED
    BY <1>0, <1>1, <2>1, <2>2, NewPath
<1>6. ASSUME NEW t \in Tasks, UpdateEach(t)
      PROVE  FALSE
  <2>1. PICK do \in task[t].todo : sharedfile' = [sharedfile EXCEPT ![do[1]].path = do[2]]
    BY <1>1, <1>6 DEF UpdateEach, vars
  <2>2. sharedfile'[id] \in {sharedfile[id], [sharedfile[id] EXCEPT !.path = do[2]]}
    BY <2>1 DEF IInv, Typed, TypeOK
  <2>3. do[2] \in Paths
    <3>1. task[t].todo \in SUBSET (Ids \X Paths)
      BY <1>6 DEF UpdateEach, At, IInv, Typed, TypeOK, Task
    <3> QED
      BY <3>1
  <2> QED
    BY <1>0, <1>1, <2>2, <2>3, NewPath
<1>7. ASSUME NEW t \in Tasks, Remove(t)
      PROVE  task[t].id = id /\ task'[t] = None
  <2>1. Written({task[t].id}, t, None) /\ sharedfile' = [sharedfile EXCEPT ![task[t].id] = None]
    BY <1>1, <1>7 DEF Remove, Die
  <2> QED
    BY <1>1, <2>1 DEF Written, IInv, Typed, TypeOK
<1>8. ASSUME NEW t \in Tasks, Update(t)
      PROVE  task[t].id = id /\ task'[t] = None
  <2>1. /\ Written({task[t].id}, t, None)
        /\ \A i \in Ids \ {task[t].id} : sharedfile'[i] = sharedfile[i]
    BY <1>1, <1>8 DEF Update, vars, IInv, Typed, TypeOK
  <2> QED
    BY <1>1, <2>1 DEF Written
<1>9. ASSUME NEW t \in Tasks, DeleteMany(t)
      PROVE  task'[t] = None /\ task[t].user = sharedfile[id].userid
  BY <1>1, <1>9 DEF DeleteMany, Written
<1>10. PICK t \in Tasks : Answer(t)
  BY <1>1, <1>2 DEF Next, Restart, Tick
<1> QED
  BY <1>3, <1>4, <1>5, <1>6, <1>7, <1>8, <1>9, <1>10 DEF Answer

(* The request with which a link ends knew the owner, or was mistaken.     *)
LEMMA LinkEndsStep ==
    ASSUME IInv, Next, NEW id \in Ids, sharedfile[id] # None, Ends(id),
           <<sharedfile[id].userid, sharedfile[id].path>> \in disk
    PROVE  \E t \in Tasks :
              /\ task[t] # None /\ task'[t] = None
              /\ task[t].stale \/ task[t].user = sharedfile[id].userid
<1>1. PICK t \in Tasks :
          \/ (Remove(t) \/ Update(t)) /\ task[t].id = id /\ task'[t] = None
          \/ DeleteMany(t) /\ task'[t] = None /\ task[t].user = sharedfile[id].userid
  BY WhoEnds
<1>2. task[t] # None /\ Shape(task[t]) /\ Fresh(task[t])
  BY <1>1 DEF Remove, Update, DeleteMany, At, IInv, Typed, Shapes, FreshReads
<1>3. CASE (Remove(t) \/ Update(t)) /\ task[t].id = id /\ task'[t] = None
  <2>1. task[t].pc \in {"remove", "update"}
    BY <1>3 DEF Remove, Update, At
  <2>2. ~task[t].stale => task[t].row = sharedfile[id]
    BY <1>2, <1>3, <2>1 DEF Fresh, Holding
  <2>3. ~task[t].stale => task[t].op # "info" \/ task[t].pc # "remove"
    BY <1>2, <2>2 DEF Fresh
  <2>4. ~task[t].stale => task[t].user = sharedfile[id].userid
    BY <1>2, <2>1, <2>2, <2>3 DEF Shape
  <2> QED
    BY <1>2, <1>3, <2>4
<1> QED
  BY <1>1, <1>2, <1>3

(* A link whose file is there is taken from its owner, or given other      *)
(* settings, only by the owner, or through a request that went by what     *)
(* somebody had changed (ExpireGuard, OwnerShipGuard, getSFInfo).          *)
THEOREM LinksEnd == Spec => LinksEndForAReason
<1>1. IInv /\ [Next]_vars =>
          [\A id \in Ids :
              LET row == sharedfile[id]
                  changed == sharedfile'[id] = None \/ sharedfile'[id].userid # row.userid
                             \/ sharedfile'[id].public # row.public
              IN  /\ row # None
                  /\ changed
                  /\ <<row.userid, row.path>> \in disk
                  => \E t \in Tasks :
                        /\ task[t] # None /\ task'[t] = None
                        /\ task[t].stale \/ task[t].user = row.userid]_vars
  <2> SUFFICES ASSUME IInv, Next, NEW id \in Ids, sharedfile[id] # None,
                      \/ sharedfile'[id] = None
                      \/ sharedfile'[id].userid # sharedfile[id].userid
                      \/ sharedfile'[id].public # sharedfile[id].public,
                      <<sharedfile[id].userid, sharedfile[id].path>> \in disk
               PROVE  \E t \in Tasks :
                         /\ task[t] # None /\ task'[t] = None
                         /\ task[t].stale \/ task[t].user = sharedfile[id].userid
    OBVIOUS
  <2>1. Ends(id)
    BY DEF Ends
  <2> QED
    BY <2>1, LinkEndsStep
<1> QED
  BY <1>1, Invariance, PTL DEF Spec, LinksEndForAReason

-----------------------------------------------------------------------------
(* Moves.                                                                  *)

(* The inductive invariant of LinksFollowFiles: what is known of a link    *)
(* between the move of its file on the disk and its update.                *)

(* The move of k has happened on the disk, and links are being updated.    *)
Following(k) == k.pc \in {"updateMany", "findStarts", "updateEach"}

(* A link that the server has not lost, where links that were lost count   *)
(* for nothing (file).                                                     *)
Linked(id) == sharedfile[id] # None /\ file[id] # None

(* What a link was made for is there.                                      *)
FilesThere == \A id \in Ids : Linked(id) => <<sharedfile[id].userid, file[id]>> \in disk

(* Links that are not lost know of one move at most.                       *)
OneMove ==
    \A id \in Ids, s, t \in Tasks :
        Linked(id) /\ task[s] # None /\ task[t] # None /\ Following(task[s]) /\ Following(task[t])
        => s = t

(* While nothing is on the move, links are right.                          *)
AtRest ==
    \A id \in Ids :
        Linked(id) /\ (\A t \in Tasks : task[t] # None => ~Following(task[t]))
        => sharedfile[id].path = file[id]

(* While k is at work, a link of the mover that still names what was moved *)
(* is to be updated, and every other link is right.                        *)
Carried(k, row) == row.userid = k.user /\ row.path \in Inside[k.path]

Behind(k, id, row, place) ==
    IF k.pc = "updateEach"
    THEN /\ \A do \in k.todo : do[1] = id => do[2] = place
         /\ row.path = place \/ \E do \in k.todo : do[1] = id
    ELSE place = IF Carried(k, row) THEN Replaced[<<row.path, k.path, k.to>>] ELSE row.path

Overtaken ==
    \A t \in Tasks, id \in Ids :
        Linked(id) /\ task[t] # None /\ Following(task[t]) =>
            Behind(task[t], id, sharedfile[id], file[id])

(* A folder is moved as a client asked for, and never into itself.         *)
Asked(k) ==
    /\ k.pc = "rename" \/ Following(k) => <<k.path, k.to>> \in Moves
    /\ Following(k) => k.to \notin Inside[k.path]

AskedFor == \A t \in Tasks : task[t] # None => Asked(task[t])

LinksIInv == AskedFor /\ FilesThere /\ OneMove /\ AtRest /\ Overtaken

(* The moves at work go on as before, and no other begins to change links. *)
SameMove(k, next) ==
    /\ next.pc = k.pc /\ next.user = k.user
    /\ next.path = k.path /\ next.to = k.to /\ next.todo = k.todo

GoesOn(t) ==
    /\ task'[t] # None => Asked(task'[t])
    /\ task'[t] # None /\ Following(task'[t]) => task[t] # None /\ Following(task[t])
    /\ task[t] # None /\ Following(task[t]) => task'[t] # None /\ SameMove(task[t], task'[t])

MovesGoOn == \A t \in Tasks : GoesOn(t)

(* Links that are still there have not changed, and their files neither.   *)
LinkKept(id) ==
    /\ Linked(id) /\ file'[id] = file[id]
    /\ sharedfile'[id].userid = sharedfile[id].userid
    /\ sharedfile'[id].path = sharedfile[id].path
    /\ <<sharedfile[id].userid, file[id]>> \in disk'

(* A link is made for a file that is there, while nothing moves.           *)
LinkMade(id) ==
    /\ sharedfile'[id].path = file'[id]
    /\ <<sharedfile'[id].userid, file'[id]>> \in disk'
    /\ \A t \in Tasks : task[t] # None => ~Following(task[t])

(* Links stay right when they are kept, made or lost.                      *)
LEMMA LinksKept ==
    ASSUME LinksIInv, MovesGoOn,
           \A id \in Ids : Linked(id)' => LinkKept(id) \/ LinkMade(id)
    PROVE  LinksIInv'
<1>1. AskedFor'
  BY DEF MovesGoOn, GoesOn, AskedFor, Asked, Following
<1>2. FilesThere'
  BY DEF FilesThere, LinkKept, LinkMade
<1>3. OneMove'
  BY DEF LinksIInv, OneMove, MovesGoOn, GoesOn, LinkKept, LinkMade, Following, Linked
<1>4. AtRest'
  <2> SUFFICES ASSUME NEW id \in Ids, Linked(id)',
                      \A t \in Tasks : task'[t] # None => ~Following(task'[t])
               PROVE  sharedfile'[id].path = file'[id]
    BY DEF AtRest, Following
  <2>1. CASE LinkMade(id)
    BY <2>1 DEF LinkMade
  <2>2. CASE LinkKept(id)
    <3>1. \A t \in Tasks : task[t] # None => ~Following(task[t])
      BY DEF MovesGoOn, GoesOn, SameMove, Following
    <3> QED
      BY <2>2, <3>1 DEF LinksIInv, AtRest, LinkKept
  <2> QED
    BY <2>1, <2>2
<1>5. Overtaken'
  <2> SUFFICES ASSUME NEW t \in Tasks, NEW id \in Ids, Linked(id)', task'[t] # None,
                      Following(task[t])'
               PROVE  Behind(task'[t], id, sharedfile'[id], file'[id])
    BY DEF Overtaken
  <2>1. task[t] # None /\ Following(task[t]) /\ SameMove(task[t], task'[t])
    BY DEF MovesGoOn, GoesOn, Following
  <2>2. LinkKept(id)
    BY <2>1 DEF LinkMade
  <2>3. Behind(task[t], id, sharedfile[id], file[id])
    BY <2>1, <2>2 DEF LinksIInv, Overtaken, LinkKept
  <2> QED
    BY <2>1, <2>2, <2>3 DEF SameMove, LinkKept, Behind, Carried
<1> QED
  BY <1>1, <1>2, <1>3, <1>4, <1>5 DEF LinksIInv

(* When all are lost, nothing is promised.                                 *)
LEMMA LinksLost ==
    ASSUME \A t \in Tasks : task'[t] # None => Asked(task'[t]),
           \A id \in Ids : ~Linked(id)'
    PROVE  LinksIInv'
BY DEF LinksIInv, AskedFor, Asked, Following, FilesThere, OneMove, AtRest, Overtaken

(* One task goes on that does not follow a move.                           *)
LEMMA OneGoesOn ==
    ASSUME Typed, LinksIInv, NEW t \in Tasks, NEW k, Goes(t, k),
           task[t] # None => ~Following(task[t]),
           k # None => Asked(k) /\ ~Following(k)
    PROVE  MovesGoOn
<1>1. \A s \in Tasks : task'[s] = IF s = t THEN k ELSE task[s]
  BY DEF Goes, Typed, TypeOK
<1> QED
  BY <1>1 DEF MovesGoOn, GoesOn, LinksIInv, AskedFor, SameMove

(* The others only learn that what they go by has been written.            *)
LEMMA OthersGoOn ==
    ASSUME Typed, LinksIInv, NEW s \in Tasks,
           task'[s] = task[s] \/ (task[s] # None /\ task'[s] = [task[s] EXCEPT !.stale = TRUE])
    PROVE  GoesOn(s)
<1>1. task[s] # None => task[s] \in Task /\ Asked(task[s])
  BY DEF Typed, TypeOK, LinksIInv, AskedFor
<1>2. CASE task'[s] = task[s]
  BY <1>1, <1>2 DEF GoesOn, SameMove
<1>3. CASE task[s] # None /\ task'[s] = [task[s] EXCEPT !.stale = TRUE]
  <2>1. /\ task'[s].pc = task[s].pc /\ task'[s].user = task[s].user
        /\ task'[s].path = task[s].path /\ task'[s].to = task[s].to /\ task'[s].todo = task[s].todo
    BY <1>1, <1>3 DEF Task
  <2>2. task'[s] # None
    <3>1. task'[s] \in Task
      BY <1>1, <1>3 DEF Task
    <3> QED
      BY <3>1, NoneAssumption
  <2> QED
    BY <1>1, <1>3, <2>1, <2>2 DEF GoesOn, SameMove, Asked, Following
<1> QED
  BY <1>2, <1>3

(* One task writes and ends that does not follow a move.                   *)
LEMMA OneWrites ==
    ASSUME Typed, LinksIInv, NEW t \in Tasks, NEW ids, Written(ids, t, None),
           task[t] # None => ~Following(task[t])
    PROVE  MovesGoOn
<1>1. \A s \in Tasks \ {t} : GoesOn(s)
  BY OthersGoOn DEF Written
<1>2. GoesOn(t)
  BY DEF Written, GoesOn
<1> QED
  BY <1>1, <1>2 DEF MovesGoOn

(* One task follows a move, or ends doing so, and no other knows of links  *)
(* that are not lost.                                                      *)
LEMMA OneAtWork ==
    ASSUME NEW t \in Tasks, \A s \in Tasks \ {t} : GoesOn(s),
           \A s \in Tasks \ {t}, id \in Ids :
              Linked(id)' => ~(task[s] # None /\ Following(task[s])),
           task'[t] # None => Asked(task'[t]),
           \A id \in Ids : Linked(id)' =>
              /\ <<sharedfile'[id].userid, file'[id]>> \in disk'
              /\ IF task'[t] # None /\ Following(task'[t])
                 THEN Behind(task'[t], id, sharedfile'[id], file'[id])
                 ELSE sharedfile'[id].path = file'[id]
    PROVE  LinksIInv'
<1>1. \A s \in Tasks : task'[s] # None => Asked(task'[s])
  BY DEF GoesOn
<1>2. \A s \in Tasks \ {t}, id \in Ids :
         Linked(id)' => ~(task'[s] # None /\ Following(task'[s]))
  BY DEF GoesOn
<1>3. AskedFor'
  BY <1>1 DEF AskedFor, Asked, Following
<1>4. FilesThere'
  BY DEF FilesThere
<1>5. OneMove'
  BY <1>2 DEF OneMove, Following
<1>6. AtRest'
  BY <1>2 DEF AtRest, Following
<1>7. Overtaken'
  <2> SUFFICES ASSUME NEW s \in Tasks, NEW id \in Ids, Linked(id)', task'[s] # None,
                      Following(task'[s])
               PROVE  Behind(task'[s], id, sharedfile'[id], file'[id])
    BY DEF Overtaken, Following, Behind, Carried
  <2> QED
    BY <1>2
<1> QED
  BY <1>3, <1>4, <1>5, <1>6, <1>7 DEF LinksIInv

(* One task goes on, and no link and no file is touched.                   *)
LEMMA NothingMoves ==
    ASSUME Typed, LinksIInv, NEW t \in Tasks, NEW k, Goes(t, k),
           task[t] # None => ~Following(task[t]),
           k # None => Asked(k) /\ ~Following(k),
           UNCHANGED <<sharedfile, disk, file>>
    PROVE  LinksIInv'
<1>1. MovesGoOn
  BY OneGoesOn
<1>2. \A id \in Ids : Linked(id)' => LinkKept(id)
  BY DEF Linked, LinkKept, LinksIInv, FilesThere
<1> QED
  BY <1>1, <1>2, LinksKept

(* The steps that only ask, fill or end.                                   *)
LEMMA AskingSteps ==
    ASSUME IInv, LinksIInv, NEW t \in Tasks,
           \/ Count(t) \/ FindUnique(t) \/ Fill(t) \/ Exists(t) \/ FindMany(t) \/ FillPage(t)
    PROVE  LinksIInv'
<1>1. task[t] # None /\ task[t] \in Task /\ Shape(task[t])
      /\ task[t].pc \in {"count", "findUnique", "fill", "exists", "findMany", "fillPage"}
  BY DEF Count, FindUnique, Fill, Exists, FindMany, FillPage, At, IInv, Typed, TypeOK, Shapes
<1>2. ~Following(task[t])
  BY <1>1 DEF Following
<1>3. UNCHANGED <<sharedfile, disk, file>>
  BY DEF Count, FindUnique, Fill, Exists, FindMany, FillPage
<1>4. PICK k : Goes(t, k) /\ (k # None =>
                  k.pc \in {"create", "fill", "exists", "update", "remove", "fillPage"})
  <2>1. CASE Count(t)
    <3> DEFINE k == [task[t] EXCEPT !.pc = "create",
                               !.id = IF sharedfile[@] = None THEN @ ELSE OwnId[@]]
    <3>1. k.pc = "create"
      BY <1>1 DEF Task
    <3>2. Goes(t, k)
      BY <2>1 DEF Count
    <3> QED
      BY <3>1, <3>2
  <2>2. CASE FindUnique(t)
    <3> DEFINE k == [task[t] EXCEPT !.pc = "fill", !.row = sharedfile[task[t].id]]
    <3>1. k.pc = "fill"
      BY <1>1 DEF Task
    <3>2. Goes(t, k)
      BY <2>2 DEF FindUnique
    <3> QED
      BY <3>1, <3>2
  <2>3. CASE Fill(t)
    <3> DEFINE entry == [data |-> task[t].row, lastUsed |-> now,
                         overlapped |-> task[t].stale \/ Writing(task[t].id)]
               k == [task[t] EXCEPT !.pc = HandlerPc(task[t].op), !.row = entry.data,
                                    !.stale = entry.overlapped]
    <3>1. k.pc \in {"exists", "update", "remove"}
      BY <1>1 DEF Task, HandlerPc
    <3>2. Goes(t, k) \/ Goes(t, None)
      BY <2>3 DEF Fill, WithToken
    <3> QED
      BY <3>1, <3>2
  <2>4. CASE Exists(t)
    <3> DEFINE k == [task[t] EXCEPT !.pc = "remove"]
    <3>1. k.pc = "remove"
      BY <1>1 DEF Task
    <3>2. Goes(t, k) \/ Goes(t, None)
      BY <2>4 DEF Exists, Continue, End
    <3> QED
      BY <3>1, <3>2
  <2>5. CASE FindMany(t)
    <3>1. PICK tokens \in SUBSET Listed :
             Goes(t, [task[t] EXCEPT !.pc = "fillPage", !.tokens = tokens])
      BY <2>5 DEF FindMany
    <3>2. [task[t] EXCEPT !.pc = "fillPage", !.tokens = tokens].pc = "fillPage"
      BY <1>1 DEF Task
    <3> QED
      BY <3>1, <3>2
  <2>6. CASE FillPage(t)
    <3>1. Goes(t, None)
      BY <2>6 DEF FillPage, End
    <3> QED
      BY <3>1
  <2> QED
    BY <2>1, <2>2, <2>3, <2>4, <2>5, <2>6
<1>5. k # None => Asked(k) /\ ~Following(k)
  BY <1>4 DEF Asked, Following
<1> QED
  BY <1>2, <1>3, <1>4, <1>5, NothingMoves DEF IInv

(* Requests; those that move name folders that clients ask for.            *)
LEMMA RequestLinks ==
    ASSUME IInv, LinksIInv, NEW t \in Tasks, Request(t)
    PROVE  LinksIInv'
<1>1. UNCHANGED <<sharedfile, disk, file>>
  BY DEF Request, Share, Lookup, Unshare, DeleteFile, Move, List
<1>2. workload.kinds \subseteq Kinds /\ workload.moves \subseteq Moves
  BY WorkloadType DEF IInv, Typed
<1>3. ASSUME NEW op \in Kinds, NEW u, NEW id, NEW settings, Lookup(t, op, u, id, settings)
      PROVE  \E k : Goes(t, k) /\ (k # None => Asked(k) /\ ~Following(k))
  <2> DEFINE new == [NewTask(op, "findUnique") EXCEPT !.user = u, !.id = id, !.settings = settings]
             k == [new EXCEPT !.pc = HandlerPc(new.op), !.row = cacheTokens[id].data,
                              !.stale = cacheTokens[id].overlapped]
  <2>1. new.pc = "findUnique" /\ k.pc \in {"exists", "update", "remove"}
    BY DEF NewTask, HandlerPc
  <2>2. Goes(t, new) \/ Goes(t, k) \/ Goes(t, None)
    BY <1>3 DEF Lookup, WithToken
  <2>3. Asked(new) /\ ~Following(new) /\ Asked(k) /\ ~Following(k)
    BY <2>1 DEF Asked, Following
  <2> QED
    BY <2>2, <2>3
<1>4. ASSUME NEW u, NEW id, NEW path, NEW settings, Share(t, u, id, path, settings)
      PROVE  \E k : Goes(t, k) /\ (k # None => Asked(k) /\ ~Following(k))
  <2> DEFINE k == [NewTask("share", "count") EXCEPT !.user = u, !.id = id, !.path = path,
                                                    !.settings = settings]
  <2>1. k.pc = "count"
    BY DEF NewTask
  <2>2. Goes(t, k)
    BY <1>4 DEF Share
  <2> QED
    BY <2>1, <2>2 DEF Asked, Following
<1>5. ASSUME NEW u, NEW path, Unshare(t, u, path) \/ DeleteFile(t, u, path)
      PROVE  \E k : Goes(t, k) /\ (k # None => Asked(k) /\ ~Following(k))
  <2> DEFINE k == [NewTask("unshare", "deleteMany") EXCEPT !.user = u, !.path = path]
             j == [NewTask("deleteFile", "rm") EXCEPT !.user = u, !.path = path]
  <2>1. k.pc = "deleteMany" /\ j.pc = "rm"
    BY DEF NewTask
  <2>2. Goes(t, k) \/ Goes(t, j)
    BY <1>5 DEF Unshare, DeleteFile
  <2> QED
    BY <2>1, <2>2 DEF Asked, Following
<1>6. ASSUME NEW op, NEW u, NEW m \in Moves, Move(t, op, u, m[1], m[2])
      PROVE  \E k : Goes(t, k) /\ (k # None => Asked(k) /\ ~Following(k))
  <2> DEFINE k == [NewTask(op, "rename") EXCEPT !.user = u, !.path = m[1], !.to = m[2]]
  <2>1. k.pc = "rename" /\ k.path = m[1] /\ k.to = m[2]
    BY DEF NewTask
  <2>2. Goes(t, k)
    BY <1>6 DEF Move
  <2>3. m = <<m[1], m[2]>>
    BY SharedTokensAssumption
  <2> QED
    BY <2>1, <2>2, <2>3 DEF Asked, Following
<1>7. ASSUME NEW op, NEW page, List(t, op, page)
      PROVE  task' = task \/ \E k : Goes(t, k) /\ (k # None => Asked(k) /\ ~Following(k))
  <2> DEFINE k == [NewTask(op, "findMany") EXCEPT !.page = page]
  <2>1. k.pc = "findMany"
    BY DEF NewTask
  <2>2. task' = task \/ Goes(t, k)
    BY <1>7 DEF List
  <2> QED
    BY <2>1, <2>2 DEF Asked, Following
<1>8. task' = task \/ \E k : Goes(t, k) /\ (k # None => Asked(k) /\ ~Following(k))
  BY <1>2, <1>3, <1>4, <1>5, <1>6, <1>7 DEF Request, Kinds
<1>9. CASE task' = task
  <2>1. MovesGoOn
    BY <1>9 DEF MovesGoOn, GoesOn, SameMove, LinksIInv, AskedFor
  <2>2. \A id \in Ids : Linked(id)' => LinkKept(id)
    BY <1>1 DEF Linked, LinkKept, LinksIInv, FilesThere
  <2> QED
    BY <2>1, <2>2, LinksKept
<1>10. CASE task' # task
  <2>1. PICK k : Goes(t, k) /\ (k # None => Asked(k) /\ ~Following(k))
    BY <1>8, <1>10
  <2>2. task[t] = None
    BY <1>10 DEF Request, Share, Lookup, Unshare, DeleteFile, Move, List, Free
  <2> QED
    BY <1>1, <2>1, <2>2, NothingMoves DEF IInv
<1> QED
  BY <1>9, <1>10

(* Ticks and restarts.                                                     *)
LEMMA RestingLinks ==
    ASSUME LinksIInv, Tick \/ Restart \/ UNCHANGED vars
    PROVE  LinksIInv'
<1>1. UNCHANGED <<task, sharedfile, disk, file>>
  BY DEF Tick, Restart, vars
<1>2. MovesGoOn
  BY <1>1 DEF MovesGoOn, GoesOn, SameMove, LinksIInv, AskedFor
<1>3. \A id \in Ids : Linked(id)' => LinkKept(id)
  BY <1>1 DEF Linked, LinkKept, LinksIInv, FilesThere
<1> QED
  BY <1>2, <1>3, LinksKept

(* A new link knows where its file is only if nothing is on the move.      *)
LEMMA CreateLinks ==
    ASSUME IInv, LinksIInv, NEW t \in Tasks, Create(t)
    PROVE  LinksIInv'
<1> DEFINE row == [userid |-> task[t].user, path |-> task[t].path,
                   public |-> task[t].settings.public, expire |-> task[t].settings.expire]
           place == IF \/ <<row.userid, row.path>> \notin disk
                       \/ \E s \in Tasks : Moving(s)
                    THEN None ELSE row.path
<1>1. task[t] # None /\ Shape(task[t]) /\ task[t].pc = "create"
  BY DEF Create, At, IInv, Typed, Shapes
<1>2. task[t].id \in Ids /\ ~Following(task[t])
  BY <1>1 DEF Shape, Following
<1>3. CASE UNCHANGED vars
  BY <1>3, RestingLinks
<1>4. CASE /\ sharedfile' = [sharedfile EXCEPT ![task[t].id] = row]
           /\ Written({task[t].id}, t, None)
           /\ file' = [file EXCEPT ![task[t].id] = place]
           /\ UNCHANGED disk
  <2>1. MovesGoOn
    BY <1>2, <1>4, OneWrites DEF IInv
  <2>2. ASSUME NEW id \in Ids, Linked(id)', id # task[t].id
        PROVE  LinkKept(id)
    <3>1. sharedfile'[id] = sharedfile[id] /\ file'[id] = file[id]
      BY <1>4, <2>2 DEF IInv, Typed, TypeOK
    <3> QED
      BY <1>4, <2>2, <3>1 DEF Linked, LinkKept, LinksIInv, FilesThere
  <2>3. ASSUME NEW id \in Ids, Linked(id)', id = task[t].id
        PROVE  LinkMade(id)
    <3>1. sharedfile'[id] = row /\ file'[id] = place /\ place # None
      <4> HIDE DEF row, place
      <4> QED
        BY <1>2, <1>4, <2>3 DEF IInv, Typed, TypeOK, Linked
    <3>2. <<row.userid, row.path>> \in disk /\ place = row.path
      BY <3>1
    <3>3. ASSUME NEW s \in Tasks, task[s] # None, Following(task[s])
          PROVE  FALSE
      <4>1. task[s].op = "move"
        BY <3>3 DEF IInv, Typed, Shapes, Shape, Following
      <4> QED
        BY <3>1, <3>3, <4>1 DEF Moving
    <3> QED
      BY <1>4, <3>1, <3>2, <3>3 DEF LinkMade
  <2>4. \A id \in Ids : Linked(id)' => LinkKept(id) \/ LinkMade(id)
    <3> SUFFICES ASSUME NEW id \in Ids, Linked(id)'
                 PROVE  LinkKept(id) \/ LinkMade(id)
      OBVIOUS
    <3>1. CASE id = task[t].id
      BY <2>3, <3>1
    <3>2. CASE id # task[t].id
      BY <2>2, <3>2
    <3> QED
      BY <3>1, <3>2
  <2> HIDE DEF row, place
  <2> QED
    BY <2>1, <2>4, LinksKept
<1> QED
  BY <1>3, <1>4 DEF Create

(* The end of the process: no move is finished, and its links are lost.    *)
LEMMA DieLinks ==
    ASSUME IInv, LinksIInv, Die
    PROVE  LinksIInv'
<1>1. \A t \in Tasks : task'[t] = None
  BY DEF Die
<1>2. CASE \E s \in Tasks : Moving(s)
  <2>1. \A id \in Ids : ~Linked(id)'
    BY <1>2 DEF Die, Lost, Linked
  <2> QED
    BY <1>1, <2>1, LinksLost
<1>3. CASE \A s \in Tasks : ~Moving(s)
  <2>1. \A s \in Tasks : task[s] # None => ~Following(task[s])
    BY <1>3 DEF Moving, IInv, Typed, Shapes, Shape, Following
  <2>2. MovesGoOn
    BY <1>1, <2>1 DEF MovesGoOn, GoesOn
  <2>3. \A id \in Ids : Linked(id)' => LinkKept(id)
    BY <1>3 DEF Die, Linked, LinkKept, LinksIInv, FilesThere
  <2> QED
    BY <2>2, <2>3, LinksKept
<1> QED
  BY <1>2, <1>3

(* The removals and the change of settings.                                *)
LEMMA WritingLinks ==
    ASSUME IInv, LinksIInv, NEW t \in Tasks, Remove(t) \/ Update(t) \/ DeleteMany(t)
    PROVE  LinksIInv'
<1>1. task[t] # None /\ Shape(task[t]) /\ task[t].pc \in {"remove", "update", "deleteMany"}
  BY DEF Remove, Update, DeleteMany, At, IInv, Typed, Shapes
<1>2. ~Following(task[t])
  BY <1>1 DEF Following
<1>3. CASE Die
  BY <1>3, DieLinks
<1>4. CASE UNCHANGED vars
  BY <1>4, RestingLinks
<1>5. CASE End(t) /\ UNCHANGED <<sharedfile, disk, file>>
  BY <1>2, <1>5, NothingMoves DEF End, IInv
<1>6. CASE Remove(t) /\ Written({task[t].id}, t, None)
           /\ sharedfile' = [sharedfile EXCEPT ![task[t].id] = None] /\ file' = Lost({task[t].id})
           /\ UNCHANGED disk
  <2>1. MovesGoOn
    BY <1>2, <1>6, OneWrites DEF IInv
  <2>2. ASSUME NEW id \in Ids, Linked(id)'
        PROVE  LinkKept(id)
    <3>1. id # task[t].id /\ file'[id] = file[id]
      BY <1>6, <2>2 DEF Lost, Linked
    <3>2. sharedfile'[id] = sharedfile[id]
      BY <1>6, <3>1 DEF IInv, Typed, TypeOK
    <3> QED
      BY <1>6, <2>2, <3>1, <3>2 DEF Linked, LinkKept, LinksIInv, FilesThere
  <2> QED
    BY <2>1, <2>2, LinksKept
<1>7. CASE Update(t) /\ Written({task[t].id}, t, None) /\ sharedfile[task[t].id] # None
           /\ sharedfile' = [sharedfile EXCEPT ![task[t].id].public = task[t].settings.public,
                                               ![task[t].id].expire = task[t].settings.expire]
           /\ UNCHANGED <<disk, file>>
  <2>1. MovesGoOn
    BY <1>2, <1>7, OneWrites DEF IInv
  <2>2. ASSUME NEW id \in Ids, Linked(id)'
        PROVE  LinkKept(id)
    <3>1. CASE id # task[t].id
      <4>1. sharedfile'[id] = sharedfile[id]
        BY <1>7, <3>1 DEF IInv, Typed, TypeOK
      <4> QED
        BY <1>7, <2>2, <4>1 DEF Linked, LinkKept, LinksIInv, FilesThere
    <3>2. CASE id = task[t].id
      <4>1. sharedfile[id] \in Row /\ sharedfile[id] # None
        BY <1>7, <3>2 DEF IInv, Typed, TypeOK
      <4>2. sharedfile'[id].userid = sharedfile[id].userid /\ sharedfile'[id].path = sharedfile[id].path
        BY <1>7, <3>2, <4>1 DEF Row, IInv, Typed, TypeOK
      <4> QED
        BY <1>7, <2>2, <4>1, <4>2 DEF Linked, LinkKept, LinksIInv, FilesThere
    <3> QED
      BY <3>1, <3>2
  <2> QED
    BY <2>1, <2>2, LinksKept
<1>8. CASE DeleteMany(t)
  <2> DEFINE gone == {id \in Ids : /\ sharedfile[id] # None
                                   /\ sharedfile[id].path = task[t].path
                                   /\ sharedfile[id].userid = task[t].user}
  <2>1. /\ sharedfile' = [id \in Ids |-> IF id \in gone THEN None ELSE sharedfile[id]]
        /\ file' = Lost(gone) /\ Written(gone, t, None) /\ UNCHANGED disk
    BY <1>8 DEF DeleteMany
  <2> HIDE DEF gone
  <2>2. MovesGoOn
    BY <1>2, <2>1, OneWrites DEF IInv
  <2>3. \A id \in Ids : Linked(id)' => LinkKept(id)
    BY <2>1 DEF Lost, Linked, LinkKept, LinksIInv, FilesThere
  <2> QED
    BY <2>2, <2>3, LinksKept
<1> QED
  BY <1>3, <1>4, <1>5, <1>6, <1>7, <1>8 DEF Remove, Update

(* A removal of files loses the links to what is gone.                     *)
LEMMA RmLinks ==
    ASSUME IInv, LinksIInv, NEW t \in Tasks, Rm(t)
    PROVE  LinksIInv'
<1>1. task[t] # None /\ task[t] \in Task /\ task[t].pc = "rm" /\ ~Following(task[t])
  BY DEF Rm, At, IInv, Typed, TypeOK, Following
<1>2. MovesGoOn
  <2> DEFINE k == [task[t] EXCEPT !.pc = "deleteMany"]
  <2>1. k.pc = "deleteMany"
    BY <1>1 DEF Task
  <2>2. Goes(t, k) \/ Goes(t, None)
    BY DEF Rm, Continue, End
  <2>3. Asked(k) /\ ~Following(k)
    BY <2>1 DEF Asked, Following
  <2> QED
    BY <1>1, <2>2, <2>3, OneGoesOn DEF IInv
<1>3. ASSUME NEW id \in Ids, Linked(id)'
      PROVE  LinkKept(id)
  <2>1. sharedfile'[id] = sharedfile[id] /\ file'[id] = file[id] /\ Linked(id)
        /\ id \notin LinksTo(task[t].user, Inside[task[t].path])
    BY <1>3 DEF Rm, Linked, Lost
  <2>2. sharedfile[id].userid # task[t].user \/ file[id] \notin Inside[task[t].path]
    BY <2>1 DEF LinksTo, Linked
  <2>3. <<sharedfile[id].userid, file[id]>> \in disk
    BY <2>1 DEF LinksIInv, FilesThere
  <2>4. <<sharedfile[id].userid, file[id]>> \in disk'
    BY <2>2, <2>3 DEF Rm
  <2> QED
    BY <2>1, <2>4 DEF LinkKept
<1> QED
  BY <1>2, <1>3, LinksKept

(* Who follows a move asked for it.                                        *)
LEMMA FollowerType ==
    ASSUME IInv, LinksIInv, NEW t \in Tasks, task[t] # None, Following(task[t])
    PROVE  /\ task[t] \in Task /\ task[t].op = "move"
           /\ task[t].path \in Paths /\ task[t].to \in Paths
           /\ task[t].to \notin Inside[task[t].path]
           /\ Replaced[<<task[t].path, task[t].path, task[t].to>>] = task[t].to
<1>1. task[t] \in Task /\ Shape(task[t]) /\ Asked(task[t])
  BY DEF IInv, Typed, TypeOK, Shapes, LinksIInv, AskedFor
<1>2. <<task[t].path, task[t].to>> \in Moves /\ task[t].to \notin Inside[task[t].path]
  BY <1>1 DEF Asked
<1>3. \A m \in Moves : Replaced[<<m[1], m[1], m[2]>>] = m[2]
  BY SharedTokensAssumption
<1>4. Replaced[<<task[t].path, task[t].path, task[t].to>>] = task[t].to
  BY <1>2, <1>3
<1> QED
  BY <1>1, <1>2, <1>4 DEF Shape, Following

(* A move that ends at a failing query leaves only lost links behind.      *)
LEMMA QueryFailsLinks ==
    ASSUME IInv, LinksIInv, NEW t \in Tasks, task[t] # None, Following(task[t]), QueryFails(t)
    PROVE  LinksIInv'
<1>1. /\ Goes(t, None)
      /\ file' = Lost({id \in Ids : sharedfile[id] # None /\ sharedfile[id].path # file[id]})
      /\ UNCHANGED <<sharedfile, disk>>
  BY DEF QueryFails, End
<1>2. task'[t] = None /\ \A s \in Tasks \ {t} : task'[s] = task[s]
  BY <1>1 DEF Goes, IInv, Typed, TypeOK
<1>3. \A s \in Tasks \ {t} : GoesOn(s)
  BY <1>2, OthersGoOn DEF IInv
<1>4. ASSUME NEW id \in Ids, Linked(id)'
      PROVE  /\ Linked(id) /\ file'[id] = file[id] /\ sharedfile'[id] = sharedfile[id]
             /\ sharedfile[id].path = file[id]
  BY <1>1, <1>4 DEF Lost, Linked
<1>5. \A id \in Ids : Linked(id)' => /\ <<sharedfile'[id].userid, file'[id]>> \in disk'
                                      /\ sharedfile'[id].path = file'[id]
  BY <1>1, <1>4 DEF LinksIInv, FilesThere
<1>6. \A s \in Tasks \ {t}, id \in Ids : Linked(id)' => ~(task[s] # None /\ Following(task[s]))
  BY <1>4 DEF LinksIInv, OneMove
<1> QED
  BY <1>2, <1>3, <1>5, <1>6, OneAtWork

(* The links to the path itself.                                           *)
LEMMA UpdateManyLinks ==
    ASSUME IInv, LinksIInv, NEW t \in Tasks, UpdateMany(t)
    PROVE  LinksIInv'
<1> SUFFICES ASSUME ~QueryFails(t)
             PROVE  LinksIInv'
  BY QueryFailsLinks DEF UpdateMany, At, Following
<1> DEFINE ids == {id \in Ids : sharedfile[id] # None /\ sharedfile[id].path = task[t].path}
           k == [task[t] EXCEPT !.pc = "findStarts"]
<1>1. task[t] # None /\ task[t].pc = "updateMany" /\ Following(task[t])
  BY DEF UpdateMany, At, Following
<1>2. /\ task[t] \in Task /\ task[t].path \in Paths /\ task[t].to \in Paths
      /\ task[t].to \notin Inside[task[t].path]
      /\ Replaced[<<task[t].path, task[t].path, task[t].to>>] = task[t].to
  BY <1>1, FollowerType
<1>3. /\ sharedfile' = [id \in Ids |-> IF id \in ids THEN [sharedfile[id] EXCEPT !.path = task[t].to]
                                                     ELSE sharedfile[id]]
      /\ Written(ids, t, k)
      /\ file' = Lost({id \in ids : sharedfile[id].userid # task[t].user})
      /\ UNCHANGED disk
  BY DEF UpdateMany
<1>4. /\ k.pc = "findStarts" /\ k.user = task[t].user /\ k.path = task[t].path /\ k.to = task[t].to
  BY <1>2 DEF Task
<1>5. k # None
  <2>1. k \in Task
    BY <1>2 DEF Task
  <2> QED
    BY <2>1, NoneAssumption
<1> HIDE DEF k
<1>6. task'[t] = k
  BY <1>3 DEF Written
<1>7. \A s \in Tasks \ {t} : GoesOn(s)
  BY <1>3, OthersGoOn DEF Written, IInv
<1>8. Asked(k) /\ Following(k)
  BY <1>1, <1>4 DEF Asked, Following, LinksIInv, AskedFor
<1>9. ASSUME NEW id \in Ids, Linked(id)'
      PROVE  /\ Linked(id) /\ file'[id] = file[id] /\ sharedfile'[id].userid = sharedfile[id].userid
             /\ id \in ids => sharedfile[id].userid = task[t].user /\ sharedfile'[id].path = task[t].to
             /\ id \notin ids => sharedfile'[id] = sharedfile[id]
  <2>1. sharedfile[id] # None /\ file'[id] = file[id] /\ file[id] # None
    BY <1>3, <1>9 DEF Lost, Linked
  <2>2. sharedfile[id] \in Row
    BY <2>1 DEF IInv, Typed, TypeOK
  <2>3. id \in ids => sharedfile[id].userid = task[t].user
    BY <1>3, <2>1 DEF Lost
  <2>4. id \in ids => sharedfile'[id] = [sharedfile[id] EXCEPT !.path = task[t].to]
    BY <1>3
  <2>5. id \in ids => sharedfile'[id].path = task[t].to /\ sharedfile'[id].userid = sharedfile[id].userid
    BY <2>2, <2>4 DEF Row
  <2> QED
    BY <1>3, <2>1, <2>3, <2>5 DEF Linked
<1>10. ASSUME NEW id \in Ids, Linked(id)'
       PROVE  Behind(k, id, sharedfile'[id], file'[id])
  <2>1. Behind(task[t], id, sharedfile[id], file[id])
    BY <1>1, <1>9, <1>10 DEF LinksIInv, Overtaken
  <2>2. file[id] = IF Carried(task[t], sharedfile[id])
                   THEN Replaced[<<sharedfile[id].path, task[t].path, task[t].to>>]
                   ELSE sharedfile[id].path
    BY <1>1, <2>1 DEF Behind
  <2>3. CASE id \in ids
    <3>1. sharedfile[id].path = task[t].path /\ sharedfile[id].userid = task[t].user
      BY <1>9, <1>10, <2>3
    <3>2. Carried(task[t], sharedfile[id])
      BY <1>2, <3>1, SharedTokensAssumption DEF Carried
    <3>3. file'[id] = sharedfile'[id].path
      BY <1>2, <1>9, <1>10, <2>2, <2>3, <3>1, <3>2
    <3>4. ~Carried(k, sharedfile'[id])
      BY <1>2, <1>4, <1>9, <1>10, <2>3 DEF Carried
    <3> QED
      BY <1>4, <3>3, <3>4 DEF Behind
  <2>4. CASE id \notin ids
    BY <1>4, <1>9, <1>10, <2>2, <2>4 DEF Behind, Carried
  <2> QED
    BY <2>3, <2>4
<1> HIDE DEF ids
<1>11. \A id \in Ids : Linked(id)' => <<sharedfile'[id].userid, file'[id]>> \in disk'
  <2>1. \A id \in Ids : Linked(id) => <<sharedfile[id].userid, file[id]>> \in disk
    BY DEF LinksIInv, FilesThere
  <2>2. disk' = disk
    BY <1>3
  <2> QED
    BY <1>9, <2>1, <2>2
<1>12. \A s \in Tasks \ {t}, id \in Ids : Linked(id)' => ~(task[s] # None /\ Following(task[s]))
  BY <1>1, <1>9 DEF LinksIInv, OneMove
<1>13. \A id \in Ids : Linked(id)' => Behind(task'[t], id, sharedfile'[id], file'[id])
  BY <1>6, <1>10
<1>14. task'[t] # None /\ Asked(task'[t]) /\ Following(task'[t])
  BY <1>5, <1>6, <1>8
<1> QED
  BY <1>7, <1>11, <1>12, <1>13, <1>14, OneAtWork

(* The links to be rewritten are looked for; those of others that are among*)
(* them are lost.                                                          *)
LEMMA FindStartsLinks ==
    ASSUME IInv, LinksIInv, NEW t \in Tasks, FindStarts(t)
    PROVE  LinksIInv'
<1> SUFFICES ASSUME ~QueryFails(t)
             PROVE  LinksIInv'
  BY QueryFailsLinks DEF FindStarts, At, Following
<1> DEFINE Target(id) == Replaced[<<sharedfile[id].path, task[t].path, task[t].to>>]
           todo == {<<id, Target(id)>> : id \in ToRewrite(t)}
           k == [task[t] EXCEPT !.pc = "updateEach", !.todo = todo]
<1>1. task[t] # None /\ task[t].pc = "findStarts" /\ Following(task[t])
  BY DEF FindStarts, At, Following
<1>2. /\ task[t] \in Task /\ task[t].path \in Paths /\ task[t].to \in Paths
      /\ task[t].to \notin Inside[task[t].path]
  BY <1>1, FollowerType
<1>3. /\ Goes(t, IF todo = {} THEN None ELSE k)
      /\ file' = Lost({id \in ToRewrite(t) : \/ sharedfile[id].userid # task[t].user
                                             \/ sharedfile[id].path \notin Inside[task[t].path]})
      /\ UNCHANGED <<sharedfile, disk>>
  BY DEF FindStarts
<1>4. k.pc = "updateEach" /\ k.todo = todo /\ k.path = task[t].path /\ k.to = task[t].to
  BY <1>2 DEF Task
<1>5. Following(k) /\ Asked(k)
  BY <1>1, <1>4 DEF Asked, Following, LinksIInv, AskedFor
<1>6. ASSUME NEW id \in Ids, NEW do \in todo, do[1] = id
      PROVE  id \in ToRewrite(t) /\ do[2] = Target(id)
  <2>1. PICK i \in ToRewrite(t) : do = <<i, Target(i)>>
    BY <1>6
  <2> HIDE DEF Target
  <2> QED
    BY <1>6, <2>1
<1>7. \A id \in ToRewrite(t) : <<id, Target(id)>> \in todo
  OBVIOUS
<1> HIDE DEF k, todo
<1>8. task'[t] = (IF todo = {} THEN None ELSE k) /\ \A s \in Tasks \ {t} : task'[s] = task[s]
  BY <1>3 DEF Goes, IInv, Typed, TypeOK
<1>9. \A s \in Tasks \ {t} : GoesOn(s)
  BY <1>8, OthersGoOn DEF IInv
<1>10. ASSUME NEW id \in Ids, Linked(id)'
       PROVE  /\ Linked(id) /\ file'[id] = file[id] /\ sharedfile' = sharedfile
              /\ id \in ToRewrite(t) => Carried(task[t], sharedfile[id])
  BY <1>3, <1>10 DEF Lost, Linked, Carried
<1>11. ASSUME NEW id \in Ids, Linked(id)'
       PROVE  IF todo = {} THEN sharedfile[id].path = file[id]
                           ELSE Behind(k, id, sharedfile[id], file[id])
  <2>1. Behind(task[t], id, sharedfile[id], file[id])
    BY <1>1, <1>10, <1>11 DEF LinksIInv, Overtaken
  <2>2. file[id] = IF Carried(task[t], sharedfile[id]) THEN Target(id) ELSE sharedfile[id].path
    BY <1>1, <2>1 DEF Behind
  <2>3. CASE id \in ToRewrite(t)
    <3>1. file[id] = Target(id)
      BY <1>10, <1>11, <2>2, <2>3
    <3>2. <<id, Target(id)>> \in todo
      BY <1>7, <2>3
    <3> HIDE DEF Target
    <3>3. \E do \in todo : do[1] = id
      BY <3>2
    <3>4. \A do \in todo : do[1] = id => do[2] = file[id]
      BY <1>6, <3>1
    <3> QED
      BY <1>4, <3>3, <3>4 DEF Behind
  <2>4. CASE id \notin ToRewrite(t)
    <3>1. sharedfile[id].path \notin Starts[task[t].path]
      BY <1>10, <1>11, <2>4 DEF ToRewrite, Linked
    <3>2. ~Carried(task[t], sharedfile[id])
      BY <1>2, <3>1, SharedTokensAssumption DEF Carried
    <3>3. sharedfile[id].path = file[id]
      BY <2>2, <3>2
    <3>4. \A do \in todo : do[1] # id
      BY <1>6, <2>4
    <3> QED
      BY <1>4, <3>3, <3>4 DEF Behind
  <2> QED
    BY <2>3, <2>4
<1>12. \A id \in Ids : Linked(id)' => <<sharedfile'[id].userid, file'[id]>> \in disk'
  <2>1. \A id \in Ids : Linked(id) => <<sharedfile[id].userid, file[id]>> \in disk
    BY DEF LinksIInv, FilesThere
  <2>2. disk' = disk
    BY <1>3
  <2> QED
    BY <1>10, <2>1, <2>2
<1>13. \A s \in Tasks \ {t}, id \in Ids : Linked(id)' => ~(task[s] # None /\ Following(task[s]))
  BY <1>1, <1>10 DEF LinksIInv, OneMove
<1>14. task'[t] # None => task'[t] = k /\ todo # {}
  BY <1>8
<1>15. task'[t] = None => todo = {}
  <2>1. k # None
    <3>1. k \in Task
      <4>1. todo \in SUBSET (Ids \X Paths)
        <5>1. \A id \in ToRewrite(t) : id \in Ids /\ Target(id) \in Paths
          <6> SUFFICES ASSUME NEW id \in ToRewrite(t)
                       PROVE  id \in Ids /\ Target(id) \in Paths
            OBVIOUS
          <6>1. id \in Ids /\ sharedfile[id] \in Row
            BY DEF ToRewrite, IInv, Typed, TypeOK
          <6>2. sharedfile[id].path \in Paths
            BY <6>1 DEF Row
          <6>3. <<sharedfile[id].path, task[t].path, task[t].to>> \in Paths \X Paths \X Paths
            BY <1>2, <6>2
          <6> QED
            BY <6>1, <6>3, SharedTokensAssumption
        <5> HIDE DEF Target
        <5> QED
          BY <5>1 DEF todo
      <4> QED
        BY <1>2, <4>1 DEF k, Task
    <3> QED
      BY <3>1, NoneAssumption
  <2> QED
    BY <1>8, <2>1
<1>16. ASSUME NEW id \in Ids, Linked(id)'
       PROVE  IF task'[t] # None /\ Following(task'[t])
              THEN Behind(task'[t], id, sharedfile'[id], file'[id])
              ELSE sharedfile'[id].path = file'[id]
  <2>1. sharedfile'[id] = sharedfile[id] /\ file'[id] = file[id]
    BY <1>10, <1>16
  <2> QED
    BY <1>5, <1>11, <1>14, <1>15, <1>16, <2>1
<1>17. task'[t] # None => Asked(task'[t])
  BY <1>5, <1>14
<1> QED
  BY <1>9, <1>12, <1>13, <1>16, <1>17, OneAtWork

(* One link is rewritten.                                                  *)
LEMMA UpdateEachLinks ==
    ASSUME IInv, LinksIInv, NEW t \in Tasks, UpdateEach(t)
    PROVE  LinksIInv'
<1>1. task[t] # None /\ task[t].pc = "updateEach" /\ Following(task[t])
  BY DEF UpdateEach, At, Following
<1>2. task[t] \in Task
  BY <1>1, FollowerType
<1>3. CASE UNCHANGED vars
  BY <1>3, RestingLinks
<1>4. ASSUME NEW do \in task[t].todo, sharedfile[do[1]] # None,
             sharedfile' = [sharedfile EXCEPT ![do[1]].path = do[2]],
             Written({do[1]}, t, IF task[t].todo \ {do} = {} THEN None
                                 ELSE [task[t] EXCEPT !.todo = task[t].todo \ {do}]),
             UNCHANGED <<disk, file>>
      PROVE  LinksIInv'
  <2> DEFINE rest == task[t].todo \ {do}
             k == [task[t] EXCEPT !.todo = rest]
  <2>1. task[t].todo \in SUBSET (Ids \X Paths)
    BY <1>2 DEF Task
  <2>2. do[1] \in Ids /\ do = <<do[1], do[2]>>
    BY <2>1
  <2>3. /\ k.pc = "updateEach" /\ k.todo = rest /\ k.path = task[t].path /\ k.to = task[t].to
        /\ k # None
    <3>1. k \in Task
      BY <1>2, <2>1 DEF Task
    <3>2. k # None
      BY <3>1, NoneAssumption
    <3> QED
      BY <1>1, <1>2, <3>2 DEF Task
  <2>4. Following(k) /\ Asked(k)
    BY <1>1, <2>3 DEF Asked, Following, LinksIInv, AskedFor
  <2>5. task'[t] = IF rest = {} THEN None ELSE k
    BY <1>4 DEF Written
  <2>6. \A s \in Tasks \ {t} : GoesOn(s)
    BY <1>4, OthersGoOn DEF Written, IInv
  <2> HIDE DEF k
  <2>7. ASSUME NEW id \in Ids, Linked(id)'
        PROVE  /\ Linked(id) /\ file'[id] = file[id] /\ sharedfile'[id].userid = sharedfile[id].userid
               /\ id = do[1] => sharedfile'[id].path = do[2]
               /\ id # do[1] => sharedfile'[id].path = sharedfile[id].path
    <3>1. CASE id # do[1]
      <4>1. sharedfile'[id] = sharedfile[id]
        BY <1>4, <2>2, <3>1 DEF IInv, Typed, TypeOK
      <4> QED
        BY <1>4, <2>7, <3>1, <4>1 DEF Linked
    <3>2. CASE id = do[1]
      <4>1. sharedfile[id] \in Row /\ sharedfile[id] # None
        BY <1>4, <2>2, <3>2 DEF IInv, Typed, TypeOK
      <4>2. sharedfile'[id] = [sharedfile[id] EXCEPT !.path = do[2]]
        BY <1>4, <2>2, <3>2 DEF IInv, Typed, TypeOK
      <4>3. sharedfile'[id].userid = sharedfile[id].userid /\ sharedfile'[id].path = do[2]
        BY <4>1, <4>2 DEF Row
      <4> QED
        BY <1>4, <2>7, <3>2, <4>1, <4>3 DEF Linked
    <3> QED
      BY <3>1, <3>2
  <2>8. ASSUME NEW id \in Ids, Linked(id)'
        PROVE  IF rest = {} THEN sharedfile'[id].path = file'[id]
                            ELSE Behind(k, id, sharedfile'[id], file'[id])
    <3>1. Behind(task[t], id, sharedfile[id], file[id])
      BY <1>1, <2>7, <2>8 DEF LinksIInv, Overtaken
    <3>2. /\ \A d \in task[t].todo : d[1] = id => d[2] = file[id]
          /\ sharedfile[id].path = file[id] \/ \E d \in task[t].todo : d[1] = id
      BY <1>1, <3>1 DEF Behind
    <3>3. CASE id = do[1]
      <4>1. sharedfile'[id].path = file'[id]
        BY <2>7, <2>8, <3>2, <3>3
      <4>2. \A d \in rest : d[1] = id => d[2] = file'[id]
        BY <2>7, <2>8, <3>2
      <4> QED
        BY <2>3, <4>1, <4>2 DEF Behind
    <3>4. CASE id # do[1]
      <4>1. /\ \A d \in rest : d[1] = id => d[2] = file'[id]
            /\ sharedfile'[id].path = file'[id] \/ \E d \in rest : d[1] = id
        BY <2>7, <2>8, <3>2, <3>4
      <4> QED
        BY <2>3, <4>1 DEF Behind
    <3> QED
      BY <3>3, <3>4
  <2> HIDE DEF rest
  <2>9. \A id \in Ids : Linked(id)' => <<sharedfile'[id].userid, file'[id]>> \in disk'
    <3>1. \A id \in Ids : Linked(id) => <<sharedfile[id].userid, file[id]>> \in disk
      BY DEF LinksIInv, FilesThere
    <3> QED
      BY <1>4, <2>7, <3>1
  <2>10. \A s \in Tasks \ {t}, id \in Ids : Linked(id)' => ~(task[s] # None /\ Following(task[s]))
    BY <1>1, <2>7 DEF LinksIInv, OneMove
  <2>11. \A id \in Ids : Linked(id)' =>
            IF task'[t] # None /\ Following(task'[t])
            THEN Behind(task'[t], id, sharedfile'[id], file'[id])
            ELSE sharedfile'[id].path = file'[id]
    BY <2>3, <2>4, <2>5, <2>8
  <2>12. task'[t] # None => Asked(task'[t])
    BY <2>4, <2>5
  <2> QED
    BY <2>6, <2>9, <2>10, <2>11, <2>12, OneAtWork
<1> QED
  BY <1>3, <1>4 DEF UpdateEach

(* A move on the disk takes the links of the mover along, and makes the    *)
(* server lose those to a file it overwrites, and all if another move is   *)
(* under way.                                                              *)
LEMMA RenameLinks ==
    ASSUME IInv, LinksIInv, NEW t \in Tasks, Rename(t)
    PROVE  LinksIInv'
<1> DEFINE u == task[t].user
           path == task[t].path
           to == task[t].to
           moved == {q \in Inside[path] : <<u, q>> \in disk}
           over == LinksTo(u, {to})
           go == [task[t] EXCEPT !.pc = "updateMany"]
           k == IF task[t].op = "move" THEN go ELSE None
           Missing(s) == (At(s, "exists") \/ At(s, "remove")) /\ task[s].row # None
                         /\ task[s].row.userid = u
<1>1. task[t] # None /\ task[t] \in Task /\ Shape(task[t]) /\ task[t].pc = "rename" /\ Asked(task[t])
  BY DEF Rename, At, IInv, Typed, TypeOK, Shapes, LinksIInv, AskedFor
<1>2. path \in Paths /\ to \in Paths /\ task[t].op \in {"move", "rename"} /\ ~Following(task[t])
  BY <1>1 DEF Shape, Following
<1>3. CASE End(t) /\ UNCHANGED <<sharedfile, disk, file>>
  BY <1>2, <1>3, NothingMoves DEF End, IInv
<1>4. CASE /\ to \notin Inside[path]
           /\ <<u, path>> \in disk
           /\ disk' = (disk \ ({u} \X moved)) \cup {<<u, Replaced[<<q, path, to>>]>> : q \in moved}
           /\ task' = [s \in Tasks |->
                  IF s = t THEN k
                  ELSE IF Missing(s) THEN [task[s] EXCEPT !.stale = TRUE] ELSE task[s]]
           /\ file' = IF \E s \in Tasks \ {t} : Moving(s) THEN Lost(Ids)
                      ELSE IF task[t].op = "rename" THEN Lost(LinksTo(u, moved) \cup over)
                      ELSE [id \in Ids |->
                              CASE id \in over -> None
                                [] id \in LinksTo(u, moved) -> Replaced[<<file[id], path, to>>]
                                [] OTHER -> file[id]]
           /\ UNCHANGED sharedfile
  <2>1. /\ go \in Task /\ go.pc = "updateMany" /\ go.user = u /\ go.path = path /\ go.to = to
    BY <1>1 DEF Task
  <2>2. go # None
    BY <2>1, NoneAssumption
  <2> HIDE DEF go
  <2>3. Asked(go) /\ Following(go)
    BY <1>1, <1>4, <2>1 DEF Asked, Following
  <2>4. task'[t] = k
    BY <1>4
  <2>5. \A s \in Tasks \ {t} : GoesOn(s)
    <3> SUFFICES ASSUME NEW s \in Tasks, s # t
                 PROVE  GoesOn(s)
      OBVIOUS
    <3>1. task'[s] = IF Missing(s) THEN [task[s] EXCEPT !.stale = TRUE] ELSE task[s]
      BY <1>4
    <3>2. Missing(s) => task[s] # None
      BY DEF At
    <3> HIDE DEF Missing
    <3> QED
      BY <3>1, <3>2, OthersGoOn DEF IInv
  <2>6. task'[t] # None => Asked(task'[t])
    BY <2>3, <2>4
  <2>7. CASE \E s \in Tasks \ {t} : Moving(s)
    <3>1. \A id \in Ids : ~Linked(id)'
      BY <1>4, <2>7 DEF Lost, Linked
    <3>2. \A s \in Tasks : task'[s] # None => Asked(task'[s])
      BY <2>5, <2>6 DEF GoesOn
    <3> QED
      BY <3>1, <3>2, LinksLost
  <2>8. CASE \A s \in Tasks \ {t} : ~Moving(s)
    <3>1. \A s \in Tasks : task[s] # None => ~Following(task[s])
      BY <1>2, <2>8 DEF Moving, IInv, Typed, Shapes, Shape, Following
    <3>2. \A id \in Ids : Linked(id) => /\ sharedfile[id].path = file[id]
                                        /\ <<sharedfile[id].userid, file[id]>> \in disk
      BY <3>1 DEF LinksIInv, AtRest, FilesThere
    <3>3. \A id \in Ids : Linked(id)' => Linked(id) /\ sharedfile'[id] = sharedfile[id]
      <4>1. \A id \in Ids : file'[id] # None => file[id] # None
        <5>1. \A id \in LinksTo(u, moved) : file[id] \in Paths
          BY <1>2, SharedTokensAssumption DEF LinksTo
        <5>2. \A id \in LinksTo(u, moved) : file[id] # None
          BY <5>1, NoneAssumption
        <5> HIDE DEF moved
        <5> QED
          BY <1>4, <2>8, <5>2 DEF Lost
      <4> QED
        BY <1>4, <4>1 DEF Linked
    <3>4. \A id \in Ids : Linked(id) /\ id \notin LinksTo(u, moved) =>
             ~(sharedfile[id].userid = u /\ file[id] \in Inside[path])
      BY <3>2 DEF LinksTo, Linked
    <3>5. ASSUME NEW id \in Ids, Linked(id), id \notin LinksTo(u, moved)
          PROVE  <<sharedfile[id].userid, file[id]>> \in disk'
      BY <1>4, <3>2, <3>4, <3>5
    <3>6. CASE task[t].op = "rename"
      <4>1. task'[t] = None
        BY <2>4, <3>6
      <4>2. ASSUME NEW id \in Ids, Linked(id)'
            PROVE  /\ <<sharedfile'[id].userid, file'[id]>> \in disk'
                   /\ sharedfile'[id].path = file'[id]
        <5> HIDE DEF moved
        <5>1. file' = Lost(LinksTo(u, moved) \cup over)
          BY <1>4, <2>8, <3>6
        <5>2. id \notin LinksTo(u, moved) /\ file'[id] = file[id]
          BY <4>2, <5>1 DEF Lost, Linked
        <5> QED
          BY <3>2, <3>3, <3>5, <4>2, <5>2
      <4> QED
        BY <2>5, <2>6, <3>1, <4>1, <4>2, OneAtWork
    <3>7. CASE task[t].op = "move"
      <4>1. task'[t] = go
        BY <2>4, <3>7
      <4>2. ASSUME NEW id \in Ids, Linked(id)'
            PROVE  /\ <<sharedfile'[id].userid, file'[id]>> \in disk'
                   /\ Behind(go, id, sharedfile'[id], file'[id])
        <5>1. Linked(id) /\ sharedfile'[id] = sharedfile[id] /\ sharedfile[id].path = file[id]
          BY <3>2, <3>3, <4>2
        <5>2. file'[id] = IF id \in LinksTo(u, moved) THEN Replaced[<<file[id], path, to>>] ELSE file[id]
          <6>1. file' = [i \in Ids |->
                            CASE i \in over -> None
                              [] i \in LinksTo(u, moved) -> Replaced[<<file[i], path, to>>]
                              [] OTHER -> file[i]]
            BY <1>4, <2>8, <3>7
          <6>2. file'[id] # None
            BY <4>2 DEF Linked
          <6>3. id \in over => id \notin LinksTo(u, moved)
            BY <1>4 DEF LinksTo
          <6> HIDE DEF moved, over
          <6>4. id \notin over
            BY <6>1, <6>2, <6>3
          <6> QED
            BY <6>1, <6>4
        <5>3. CASE id \in LinksTo(u, moved)
          <6>1. sharedfile[id].userid = u /\ file[id] \in moved
            BY <5>3 DEF LinksTo
          <6>2. <<u, Replaced[<<file[id], path, to>>]>> \in disk'
            BY <1>4, <6>1
          <6>3. Carried(go, sharedfile[id])
            BY <2>1, <5>1, <6>1 DEF Carried
          <6>4. go.pc # "updateEach"
            BY <2>1
          <6> HIDE DEF moved
          <6> QED
            BY <2>1, <5>1, <5>2, <5>3, <6>1, <6>2, <6>3, <6>4 DEF Behind
        <5>4. CASE id \notin LinksTo(u, moved)
          <6>1. ~Carried(go, sharedfile[id])
            BY <2>1, <3>4, <5>1, <5>4 DEF Carried
          <6>2. go.pc # "updateEach" /\ file'[id] = file[id]
            BY <2>1, <5>2, <5>4
          <6>3. Behind(go, id, sharedfile'[id], file'[id])
            BY <5>1, <6>1, <6>2 DEF Behind
          <6> QED
            BY <3>5, <5>1, <5>4, <6>2, <6>3
        <5> QED
          BY <5>3, <5>4
      <4>3. \A s \in Tasks \ {t}, id \in Ids : Linked(id)' => ~(task[s] # None /\ Following(task[s]))
        BY <3>1
      <4> QED
        BY <2>2, <2>3, <2>5, <4>1, <4>2, <4>3, OneAtWork
    <3> QED
      BY <1>2, <3>6, <3>7
  <2> QED
    BY <2>7, <2>8
<1> QED
  BY <1>3, <1>4 DEF Rename, Movable

(* No link is there at first.                                              *)
LEMMA InitLinks == Init => LinksIInv
BY DEF Init, LinksIInv, AskedFor, FilesThere, OneMove, AtRest, Overtaken, Linked

(* The invariant of the links is kept.                                     *)
LEMMA NextLinks ==
    ASSUME IInv, LinksIInv, [Next]_vars
    PROVE  LinksIInv'
<1>1. ASSUME NEW t \in Tasks, Answer(t)
      PROVE  LinksIInv'
  BY <1>1, AskingSteps, CreateLinks, WritingLinks, RmLinks, RenameLinks, UpdateManyLinks,
     FindStartsLinks, UpdateEachLinks DEF Answer
<1> QED
  BY <1>1, RequestLinks, RestingLinks DEF Next

(* Once no move is under way, every link of the mover leads to the file it *)
(* was made for, unless the server lost it (moveFileFolder,                *)
(* updatePathTokens, and the shares, removals and crashes that come in     *)
(* between).                                                               *)
THEOREM LinksFollow == Spec => []LinksFollowFiles
<1>1. IInv /\ LinksIInv => LinksFollowFiles
  <2> SUFFICES ASSUME IInv, LinksIInv, NEW id \in Ids, sharedfile[id] # None, file[id] # None,
                      \A t \in Tasks : ~Moving(t)
               PROVE  sharedfile[id].path = file[id]
    BY DEF LinksFollowFiles
  <2>1. \A t \in Tasks : task[t] # None => ~Following(task[t])
    BY DEF Moving, IInv, Typed, Shapes, Shape, Following
  <2> QED
    BY <2>1 DEF LinksIInv, AtRest, Linked
<1>2. IInv /\ LinksIInv /\ [Next]_vars => LinksIInv'
  BY NextLinks
<1> QED
  BY <1>1, <1>2, InitLinks, Invariance, PTL DEF Spec
=============================================================================
