---------------------------- MODULE SessionsProofs ----------------------------
(* Theorems about Sessions: the types, and what a cached session promises. *)
EXTENDS Sessions, TLAPS

Creating == {"createSession", "createApiKey"}
Retrieving == {"retrieve", "validate", "edit"}

(* What a task holds at each of its awaits.                                *)
Shape(k) ==
    \/ k.pc \in {"findUser", "create"} /\ k.op \in Creating /\ k.id \in Ids /\ k.userid \in Users
    \/ k.pc \in {"findUser", "update", "invalidate"} /\ k.op = "setAdmin" /\ k.userid \in Users /\ k.id = None
    \/ k.pc = "findUnique" /\ k.op \in Retrieving /\ k.id \in Ids
    \/ k.pc \in {"findOne", "fill"} /\ k.op \in Retrieving /\ k.id \in Ids /\ k.row \in Row
    \/ k.pc = "extend" /\ k.op = "validate" /\ k.id \in Ids /\ k.row \in Row
    \/ k.pc \in {"update", "invalidate"} /\ k.op = "edit" /\ k.id \in Ids
    \/ k.pc \in {"count", "delete"} /\ k.op \in {"revoke", "expire"} /\ k.id \in Ids

Shapes == \A t \in Tasks : task[t] # None => Shape(task[t])

Typed == TypeOK /\ Shapes

-----------------------------------------------------------------------------
(* Types.                                                                  *)

(* A new task is a task.                                                   *)
LEMMA NewTaskType ==
    ASSUME NEW op \in {"createSession", "createApiKey", "retrieve", "validate", "edit",
                       "revoke", "expire", "setAdmin"},
           NEW pc \in {"findUser", "create", "findUnique", "findOne", "fill", "extend",
                       "update", "invalidate", "count", "delete"}
    PROVE  /\ NewTask(op, pc) \in Task
           /\ NewTask(op, pc).op = op
           /\ NewTask(op, pc).pc = pc
           /\ NewTask(op, pc).id = None
           /\ NewTask(op, pc).userid = None
BY SessionsAssumption DEF NewTask, Task

(* Starting or continuing a task, or ending it, is enough to say of one.   *)
LEMMA OneTask ==
    ASSUME Typed, NEW t \in Tasks, NEW k \in Task \cup {None},
           k # None => Shape(k),
           task' = [task EXCEPT ![t] = k]
    PROVE  task' \in [Tasks -> Task \cup {None}] /\ Shapes'
<1>1. task' \in [Tasks -> Task \cup {None}]
  BY DEF Typed, TypeOK
<1>2. ASSUME NEW s \in Tasks, task'[s] # None
      PROVE  Shape(task'[s])
  BY <1>2 DEF Typed, TypeOK, Shapes
<1>3. Shapes'
  BY <1>2 DEF Shapes
<1> QED
  BY <1>1, <1>3

(* Marking a task stale does not change what it holds.                     *)
LEMMA StaleShape ==
    ASSUME NEW k \in Task, Shape(k)
    PROVE  /\ [k EXCEPT !.stale = TRUE] \in Task
           /\ Shape([k EXCEPT !.stale = TRUE])
<1>1. [k EXCEPT !.stale = TRUE] \in Task
  BY DEF Task
<1>2. Shape([k EXCEPT !.stale = TRUE])
  BY DEF Task, Shape
<1> QED
  BY <1>1, <1>2

(* The writers mark other tasks stale.                                     *)
LEMMA RowWrittenType ==
    ASSUME Typed, NEW id, NEW t, NEW next \in Task \cup {None}, next # None => Shape(next),
           RowWritten(id, t, next)
    PROVE  /\ task' \in [Tasks -> Task \cup {None}] /\ Shapes'
           /\ \A s \in Tasks : s = t => task'[s] = next
           /\ \A s \in Tasks : s # t =>
                 \/ task'[s] = task[s]
                 \/ task[s] # None /\ task'[s] = [task[s] EXCEPT !.stale = TRUE]
<1>1. ASSUME NEW s \in Tasks
      PROVE  /\ s = t => task'[s] = next
             /\ s # t => \/ task'[s] = task[s]
                         \/ task[s] # None /\ task'[s] = [task[s] EXCEPT !.stale = TRUE]
  BY DEF RowWritten, At
<1>2. ASSUME NEW s \in Tasks
      PROVE  task'[s] \in Task \cup {None} /\ (task'[s] # None => Shape(task'[s]))
  <2>1. CASE s = t \/ task'[s] = task[s]
    BY <1>1, <2>1 DEF Typed, TypeOK, Shapes
  <2>2. CASE s # t /\ task[s] # None /\ task'[s] = [task[s] EXCEPT !.stale = TRUE]
    <3>1. task[s] \in Task /\ Shape(task[s])
      BY <2>2 DEF Typed, TypeOK, Shapes
    <3> QED
      BY <2>2, <3>1, StaleShape
  <2> QED
    BY <1>1, <2>1, <2>2
<1>3. task' \in [Tasks -> Task \cup {None}]
  BY <1>2 DEF RowWritten
<1> QED
  BY <1>1, <1>2, <1>3 DEF Shapes

(* The same of the writers of a user's row.                                *)
LEMMA UserWrittenType ==
    ASSUME Typed, NEW u, NEW t, NEW next \in Task \cup {None}, next # None => Shape(next),
           UserWritten(u, t, next)
    PROVE  /\ task' \in [Tasks -> Task \cup {None}] /\ Shapes'
           /\ \A s \in Tasks : s = t => task'[s] = next
           /\ \A s \in Tasks : s # t =>
                 \/ task'[s] = task[s]
                 \/ task[s] # None /\ task'[s] = [task[s] EXCEPT !.stale = TRUE]
<1>1. ASSUME NEW s \in Tasks
      PROVE  /\ s = t => task'[s] = next
             /\ s # t => \/ task'[s] = task[s]
                         \/ task[s] # None /\ task'[s] = [task[s] EXCEPT !.stale = TRUE]
  BY DEF UserWritten, At
<1>2. ASSUME NEW s \in Tasks
      PROVE  task'[s] \in Task \cup {None} /\ (task'[s] # None => Shape(task'[s]))
  <2>1. CASE s = t \/ task'[s] = task[s]
    BY <1>1, <2>1 DEF Typed, TypeOK, Shapes
  <2>2. CASE s # t /\ task[s] # None /\ task'[s] = [task[s] EXCEPT !.stale = TRUE]
    <3>1. task[s] \in Task /\ Shape(task[s])
      BY <2>2 DEF Typed, TypeOK, Shapes
    <3> QED
      BY <2>2, <3>1, StaleShape
  <2> QED
    BY <1>1, <2>1, <2>2
<1>3. task' \in [Tasks -> Task \cup {None}]
  BY <1>2 DEF UserWritten
<1> QED
  BY <1>1, <1>2, <1>3 DEF Shapes

(* e is the entry f as far as requests are checked against it.             *)
SameSession(e, f) ==
    /\ e.type = f.type /\ e.userid = f.userid /\ e.scopes = f.scopes
    /\ e.isadmin = f.isadmin /\ e.overlapped = f.overlapped

(* What a caller of retrieveSession does with the session: as one task k   *)
(* it ends or goes on, and it leaves e for the entry f, with an expiry     *)
(* that is not lower.                                                      *)
GoesOn(k, e, f, id) ==
    /\ k # None => /\ Shape(k)
                   /\ k.pc \in {"update", "count", "extend"}
                   /\ k.id = id
                   /\ k.pc = "update" => k.op = "edit"
    /\ e # None => /\ SameSession(e, f)
                   /\ e.expire >= f.expire
                   /\ k # None => k.pc # "count"
                   /\ k # None /\ k.pc = "extend" => k.row.expire = e.expire

(* WithSession is such a step, whatever the caller.                        *)
LEMMA WithSessionEffect ==
    ASSUME Typed, NEW t \in Tasks, NEW cur \in Task, cur.op \in Retrieving, cur.id \in Ids,
           NEW cache \in [Ids -> Entry \cup {None}], cache[cur.id] # None,
           WithSession(t, cur, cache)
    PROVE  \E k \in Task \cup {None}, e \in Entry \cup {None} :
              /\ task' = [task EXCEPT ![t] = k]
              /\ sessionsCache' = [cache EXCEPT ![cur.id] = e]
              /\ GoesOn(k, e, cache[cur.id], cur.id)
<1> DEFINE id == cur.id
           entry == cache[id]
           next(pc) == [cur EXCEPT !.pc = pc, !.row = None, !.stale = FALSE]
           used == [entry EXCEPT !.lastUsed = now]
           row == [type |-> entry.type, userid |-> entry.userid,
                   scopes |-> entry.scopes, expire |-> entry.expire + ExpireIn]
<1>1. entry \in Entry /\ now \in Int /\ None \notin Entry
  BY NothingAssumption DEF Typed, TypeOK
<1>2. used \in Entry /\ SameSession(used, entry) /\ used.expire = entry.expire
  BY <1>1 DEF Entry, SameSession
<1>3. row \in Row /\ row.expire \in Int /\ row.expire >= entry.expire
  BY <1>1, SessionsAssumption DEF Entry, Row
<1>4. /\ next("update") \in Task /\ next("update").pc = "update" /\ next("update").id = id
      /\ next("update").op = cur.op
  BY DEF Task
<1>5. CASE cur.op = "retrieve"
  <2>1. task' = [task EXCEPT ![t] = None] /\ sessionsCache' = [cache EXCEPT ![id] = entry]
    BY <1>5 DEF WithSession, End
  <2>2. GoesOn(None, entry, entry, id)
    BY <1>1 DEF GoesOn, SameSession, Entry
  <2> QED
    BY <1>1, <2>1, <2>2
<1>6. CASE cur.op = "edit"
  <2>1. PICK k \in {next("update"), None} :
             task' = [task EXCEPT ![t] = k] /\ sessionsCache' = [cache EXCEPT ![id] = entry]
    BY <1>6 DEF WithSession
  <2>2. Shape(next("update"))
    BY <1>4, <1>6 DEF Shape
  <2>3. GoesOn(None, entry, entry, id)
    BY <1>1 DEF GoesOn, SameSession, Entry
  <2>4. GoesOn(next("update"), entry, entry, id)
    BY <1>1, <1>4, <1>6, <2>2 DEF GoesOn, SameSession, Entry
  <2> QED
    BY <1>1, <1>4, <2>1, <2>3, <2>4
<1>7. CASE cur.op = "validate"
  <2>1. CASE Expired(entry)
    <3> DEFINE k == [next("count") EXCEPT !.op = "expire"]
    <3>1. task' = [task EXCEPT ![t] = k] /\ sessionsCache' = [cache EXCEPT ![id] = None]
      BY <1>7, <2>1 DEF WithSession
    <3>2. k \in Task /\ k.pc = "count" /\ k.id = id /\ k.op = "expire"
      BY DEF Task
    <3>3. GoesOn(k, None, entry, id)
      BY <3>2 DEF GoesOn, Shape
    <3> QED
      BY <3>1, <3>2, <3>3
  <2>2. CASE ~Expired(entry) /\ entry.expire - now < Margin
    <3> DEFINE k == [next("extend") EXCEPT !.row = row]
               e == [used EXCEPT !.expire = row.expire]
    <3>1. /\ task' = [task EXCEPT ![t] = k]
          /\ sessionsCache' = ExtendEntry(id, entry.expire + ExpireIn,
                                          [cache EXCEPT ![id] = used])
      BY <1>7, <2>2 DEF WithSession
    <3>2. [cache EXCEPT ![id] = used][id] = used /\ used # None
      BY <1>1, <1>2
    <3>3. sessionsCache' = [cache EXCEPT ![id] = e]
      BY <3>1, <3>2 DEF ExtendEntry
    <3>4. k \in Task /\ k.pc = "extend" /\ k.id = id /\ k.op = "validate" /\ k.row = row
      BY <1>3, <1>7 DEF Task
    <3>5. e \in Entry /\ SameSession(e, entry) /\ e.expire = row.expire
      BY <1>2, <1>3 DEF Entry, SameSession
    <3>6. GoesOn(k, e, entry, id)
      BY <1>3, <3>4, <3>5 DEF GoesOn, Shape
    <3> QED
      BY <3>1, <3>3, <3>4, <3>5, <3>6
  <2>3. CASE ~Expired(entry) /\ ~(entry.expire - now < Margin)
    <3>1. task' = [task EXCEPT ![t] = None] /\ sessionsCache' = [cache EXCEPT ![id] = used]
      BY <1>7, <2>3 DEF WithSession, End
    <3>2. GoesOn(None, used, entry, id)
      BY <1>1, <1>2 DEF GoesOn, Entry
    <3> QED
      BY <1>2, <3>1, <3>2
  <2> QED
    BY <2>1, <2>2, <2>3
<1> QED
  BY <1>5, <1>6, <1>7 DEF Retrieving
-----------------------------------------------------------------------------
(* The inductive invariant.                                                *)

(* A row has been handed out; a new session's id is its task's alone.      *)
KnownTask(s, k) ==
    /\ k.op \in Creating => /\ k.id \notin created
                            /\ \A r \in Tasks : r # s /\ task[r] # None => task[r].id # k.id
    /\ k.op \notin Creating => k.id \in created \cup {None}

Known ==
    /\ \A id \in Ids : sessions[id] # None => id \in created
    /\ \A s \in Tasks : task[s] # None => KnownTask(s, task[s])

(* What a task has read is what the tables say, unless it is stale.        *)
FreshRead(k) ==
    k.pc \in {"findOne", "fill"} /\ ~k.stale =>
        /\ sessions[k.id] = k.row
        /\ k.pc = "fill" => users[k.row.userid] = k.isadmin

FreshReads == \A s \in Tasks : task[s] # None => FreshRead(task[s])

(* No task is about to revoke the session of e, or to let it last longer.  *)
Undisputed(id, e) ==
    \A s \in Tasks : task[s] # None /\ task[s].id = id =>
        /\ task[s].pc \notin {"count", "delete"}
        /\ task[s].pc = "extend" => task[s].row.expire <= e.expire

Editing(id) ==
    \E s \in Tasks : /\ task[s] # None /\ task[s].pc = "invalidate"
                     /\ task[s].op = "edit" /\ task[s].id = id

Promoting(u) ==
    \E s \in Tasks : /\ task[s] # None /\ task[s].pc = "invalidate"
                     /\ task[s].op = "setAdmin" /\ task[s].userid = u

(* What the cache promises of an entry that was filled undisturbed.        *)
SoundEntry(id, e) ==
    ~e.overlapped =>
        /\ sessions[id] # None
        /\ sessions[id].userid = e.userid
        /\ e.expire >= sessions[id].expire
        /\ Undisputed(id, e)
        /\ Editing(id) \/ sessions[id].scopes = e.scopes
        /\ Promoting(e.userid) \/ users[e.userid] = e.isadmin

SoundCache == \A id \in Ids : sessionsCache[id] # None => SoundEntry(id, sessionsCache[id])

IInv == Typed /\ Known /\ FreshReads /\ SoundCache

(* It says what the four properties say.                                   *)
LEMMA IInvGivesProperties ==
    IInv => /\ CachedSessionExists
            /\ CachedScopesCurrent
            /\ CachedRoleCurrent
            /\ CachedExpiryNotEarlier
<1> SUFFICES ASSUME IInv, NEW id \in Ids, Cached(id), ~sessionsCache[id].overlapped
             PROVE  /\ sessions[id] # None
                    /\ sessionsCache[id].expire >= sessions[id].expire
                    /\ Editing(id) \/ sessionsCache[id].scopes = sessions[id].scopes
                    /\ \/ Promoting(sessionsCache[id].userid)
                       \/ sessionsCache[id].isadmin = users[sessionsCache[id].userid]
  BY DEF CachedSessionExists, CachedScopesCurrent, CachedRoleCurrent, CachedExpiryNotEarlier,
         Editing, Promoting, At, Handles
<1> QED
  BY DEF IInv, SoundCache, SoundEntry, Cached

(* Nothing is created, cached or under way at first.                       *)
LEMMA InitIInv == Init => IInv
<1> SUFFICES ASSUME Init PROVE IInv
  OBVIOUS
<1>1. TypeOK
  BY DEF Init, TypeOK
<1> QED
  BY <1>1 DEF Init, IInv, Typed, Shapes, Known, FreshReads, SoundCache

-----------------------------------------------------------------------------
(* Steps.                                                                  *)

(* A sound entry stays sound if its rows do and the tasks do not dispute   *)
(* it.                                                                     *)
LEMMA SoundKept ==
    ASSUME NEW id \in Ids, NEW e \in Entry, NEW f \in Entry, Typed, Typed',
           SoundEntry(id, f), SameSession(e, f), e.expire >= f.expire,
           sessions'[id] = sessions[id],
           Promoting(f.userid)' \/ users'[f.userid] = users[f.userid],
           \A s \in Tasks : task[s] # None /\ task[s].pc = "invalidate" => task'[s] = task[s],
           \A s \in Tasks : task'[s] # None /\ task'[s].id = id =>
               \/ task'[s].pc \notin {"count", "delete", "extend"}
               \/ task'[s].pc = "extend" /\ task'[s].row.expire = e.expire
               \/ task[s] # None /\ task[s].id = id /\ task[s].pc \in {"count", "delete"}
               \/ task[s] # None /\ task'[s] = task[s]
    PROVE  SoundEntry(id, e)'
<1> SUFFICES ASSUME ~e.overlapped
             PROVE  /\ sessions[id] # None
                    /\ sessions[id].userid = e.userid
                    /\ e.expire >= sessions[id].expire
                    /\ Undisputed(id, e)'
                    /\ Editing(id)' \/ sessions[id].scopes = e.scopes
                    /\ Promoting(f.userid)' \/ users[f.userid] = e.isadmin
  BY DEF SoundEntry, SameSession
<1>1. /\ sessions[id] # None
      /\ sessions[id].userid = f.userid
      /\ f.expire >= sessions[id].expire
      /\ Undisputed(id, f)
      /\ Editing(id) \/ sessions[id].scopes = f.scopes
      /\ Promoting(f.userid) \/ users[f.userid] = f.isadmin
  BY DEF SoundEntry, SameSession
<1>2. e.expire \in Int /\ f.expire \in Int /\ sessions[id].expire \in Int
  BY <1>1 DEF Entry, Typed, TypeOK, Row
<1>3. Editing(id) => Editing(id)'
  BY DEF Editing
<1>4. Promoting(f.userid) => Promoting(f.userid)'
  BY DEF Promoting
<1>5. Undisputed(id, e)'
  <2> SUFFICES ASSUME NEW s \in Tasks, task'[s] # None, task'[s].id = id
               PROVE  /\ task'[s].pc \notin {"count", "delete"}
                      /\ task'[s].pc = "extend" => task'[s].row.expire <= e.expire
    BY DEF Undisputed
  <2>1. CASE task'[s].pc \notin {"count", "delete", "extend"}
    BY <2>1
  <2>2. CASE task'[s].pc = "extend" /\ task'[s].row.expire = e.expire
    BY <1>2, <2>2
  <2>3. CASE task[s] # None /\ task[s].id = id /\ task[s].pc \in {"count", "delete"}
    BY <1>1, <2>3 DEF Undisputed
  <2>4. CASE task[s] # None /\ task'[s] = task[s]
    <3>1. task[s].pc = "extend" => task[s].row.expire \in Int
      BY <2>4 DEF Typed, Shapes, Shape, Row
    <3> QED
      BY <1>1, <1>2, <2>4, <3>1 DEF Undisputed
  <2> QED
    BY <2>1, <2>2, <2>3, <2>4
<1> QED
  BY <1>1, <1>2, <1>3, <1>4, <1>5 DEF SameSession

(* Task t goes on as k, and no other task becomes another request.         *)
OnlyMoves(t, k) ==
    \A s \in Tasks :
        /\ s = t => task'[s] = k
        /\ s # t /\ task'[s] # None =>
              task[s] # None /\ task'[s].op = task[s].op /\ task'[s].id = task[s].id

(* Only a creating task may have an id that is not handed out.             *)
LEMMA KnownStep ==
    ASSUME IInv, Typed', NEW t, NEW k \in Task \cup {None},
           OnlyMoves(t, k),
           k # None => KnownTask(t, k),
           \A id \in Ids : sessions'[id] # None => sessions[id] # None,
           created' = created
    PROVE  Known'
<1>1. ASSUME NEW s \in Tasks, task'[s] # None
      PROVE  KnownTask(s, task[s])'
  <2>1. CASE s = t
    BY <1>1, <2>1 DEF KnownTask, OnlyMoves
  <2>2. CASE s # t
    <3>1. task[s] # None /\ KnownTask(s, task[s]) /\ Shape(task[s])
      BY <1>1, <2>2 DEF IInv, Typed, Known, Shapes, OnlyMoves
    <3>2. task'[s].op = task[s].op /\ task'[s].id = task[s].id
      BY <1>1, <2>2 DEF OnlyMoves
    <3>3. CASE task[s].op \notin Creating
      BY <3>1, <3>2, <3>3 DEF KnownTask
    <3>4. CASE task[s].op \in Creating
      <4>1. task[s].id \in Ids /\ task[s].id \notin created
        BY <3>1, <3>4 DEF KnownTask, Shape, Creating, Retrieving
      <4>2. ASSUME NEW r \in Tasks, r # s, task'[r] # None
            PROVE  task'[r].id # task[s].id
        <5>1. CASE r = t
          BY <2>2, <3>1, <4>1, <4>2, <5>1, NothingAssumption DEF KnownTask, OnlyMoves
        <5>2. CASE r # t
          BY <3>1, <3>4, <4>2, <5>2 DEF KnownTask, OnlyMoves
        <5> QED
          BY <5>1, <5>2
      <4> QED
        BY <3>2, <3>4, <4>1, <4>2 DEF KnownTask
    <3> QED
      BY <3>3, <3>4
  <2> QED
    BY <2>1, <2>2
<1>2. \A id \in Ids : sessions'[id] # None => id \in created'
  BY DEF IInv, Known
<1> QED
  BY <1>1, <1>2 DEF Known

(* One task goes on, and the tables and the cache stay.                    *)
LEMMA TaskStep ==
    ASSUME IInv, NEW t \in Tasks, NEW k \in Task \cup {None},
           task' = [task EXCEPT ![t] = k],
           UNCHANGED <<sessions, users, sessionsCache, created, now, up>>,
           task[t] # None => task[t].pc # "invalidate",
           k # None => /\ Shape(k) /\ KnownTask(t, k) /\ FreshRead(k)
                       /\ k.pc # "extend"
                       /\ k.pc \in {"count", "delete"} =>
                             task[t] # None /\ task[t].id = k.id /\ task[t].pc \in {"count", "delete"}
    PROVE  IInv'
<1>1. Typed'
  <2>1. task' \in [Tasks -> Task \cup {None}] /\ Shapes'
    BY OneTask DEF IInv
  <2> QED
    BY <2>1 DEF IInv, Typed, TypeOK
<1>2. Known'
  <2>1. OnlyMoves(t, k)
    BY DEF IInv, Typed, TypeOK, OnlyMoves
  <2> QED
    BY <1>1, <2>1, KnownStep
<1>3. FreshReads'
  BY DEF IInv, Typed, TypeOK, FreshReads, FreshRead
<1>4. ASSUME NEW id \in Ids, sessionsCache[id] # None
      PROVE  SoundEntry(id, sessionsCache[id])'
  <2>0. PICK f \in Entry : f = sessionsCache[id]
    BY <1>4 DEF IInv, Typed, TypeOK
  <2>1. f.expire >= f.expire /\ SoundEntry(id, f)
    BY <1>4, <2>0 DEF IInv, SoundCache, Entry
  <2>2. \A s \in Tasks : task[s] # None /\ task[s].pc = "invalidate" => task'[s] = task[s]
    BY DEF IInv, Typed, TypeOK
  <2>3. \A s \in Tasks : task'[s] # None /\ task'[s].id = id =>
               \/ task'[s].pc \notin {"count", "delete", "extend"}
               \/ task'[s].pc = "extend" /\ task'[s].row.expire = f.expire
               \/ task[s] # None /\ task[s].id = id /\ task[s].pc \in {"count", "delete"}
               \/ task[s] # None /\ task'[s] = task[s]
    BY DEF IInv, Typed, TypeOK
  <2>4. SameSession(f, f)
    BY DEF SameSession
  <2>5. Typed /\ sessions'[id] = sessions[id] /\ users'[f.userid] = users[f.userid] /\ sessionsCache'[id] = f
    BY <2>0 DEF IInv
  <2>6. SoundEntry(id, f)'
    BY <1>1, <2>1, <2>2, <2>3, <2>4, <2>5, SoundKept
  <2> QED
    BY <2>5, <2>6 DEF SoundEntry, Undisputed
<1> QED
  BY <1>1, <1>2, <1>3, <1>4 DEF IInv, SoundCache

(* A caller of retrieveSession goes on with f, and leaves e in the cache.  *)
LEMMA SessionStep ==
    ASSUME IInv, NEW t \in Tasks, NEW k \in Task \cup {None}, NEW id \in Ids,
           NEW e \in Entry \cup {None}, NEW f \in Entry,
           task' = [task EXCEPT ![t] = k],
           sessionsCache' = [sessionsCache EXCEPT ![id] = e],
           UNCHANGED <<sessions, users, created, now, up>>,
           task[t] # None => task[t].pc # "invalidate",
           id \in created, SoundEntry(id, f), GoesOn(k, e, f, id)
    PROVE  IInv'
<1>1. Typed'
  <2>1. task' \in [Tasks -> Task \cup {None}] /\ Shapes'
    BY OneTask DEF IInv, GoesOn
  <2> QED
    BY <2>1 DEF IInv, Typed, TypeOK
<1>2. /\ \A s \in Tasks : s = t => task'[s] = k
      /\ \A s \in Tasks : s # t => task'[s] = task[s]
  BY DEF IInv, Typed, TypeOK
<1>3. k # None => KnownTask(t, k)
  BY DEF KnownTask, GoesOn, Shape, Creating
<1>4. Known'
  <2>1. OnlyMoves(t, k)
    BY <1>2 DEF OnlyMoves
  <2> QED
    BY <1>1, <1>3, <2>1, KnownStep
<1>5. FreshReads'
  BY <1>2 DEF IInv, FreshReads, FreshRead, GoesOn
<1>6. ASSUME NEW i \in Ids, sessionsCache'[i] # None
      PROVE  SoundEntry(i, sessionsCache[i])'
  <2>1. \A s \in Tasks : task[s] # None /\ task[s].pc = "invalidate" => task'[s] = task[s]
    BY <1>2
  <2>2. CASE i = id
    <3>1. sessionsCache'[i] = e /\ e \in Entry
      BY <1>6, <2>2 DEF IInv, Typed, TypeOK
    <3>2. SameSession(e, f) /\ e.expire >= f.expire
      BY <1>6, <3>1, NothingAssumption DEF GoesOn
    <3>3. \A s \in Tasks : task'[s] # None /\ task'[s].id = id =>
               \/ task'[s].pc \notin {"count", "delete", "extend"}
               \/ task'[s].pc = "extend" /\ task'[s].row.expire = e.expire
               \/ task[s] # None /\ task[s].id = id /\ task[s].pc \in {"count", "delete"}
               \/ task[s] # None /\ task'[s] = task[s]
      BY <1>2, <1>6, <3>1 DEF GoesOn
    <3>4. Typed /\ sessions'[id] = sessions[id] /\ users'[f.userid] = users[f.userid]
      BY DEF IInv
    <3>5. SoundEntry(id, e)'
      BY <1>1, <2>1, <3>1, <3>2, <3>3, <3>4, SoundKept
    <3> QED
      BY <2>2, <3>1, <3>5 DEF SoundEntry, Undisputed
  <2>3. CASE i # id
    <3>1. PICK g \in Entry : g = sessionsCache[i] /\ g = sessionsCache'[i]
      BY <1>6, <2>3 DEF IInv, Typed, TypeOK
    <3>2. SoundEntry(i, g) /\ g.expire >= g.expire /\ SameSession(g, g)
      <4>1. g # None
        BY NothingAssumption
      <4>2. SoundEntry(i, g)
        BY <3>1, <4>1 DEF IInv, SoundCache
      <4>3. g.expire \in Int
        BY DEF Entry
      <4> QED
        BY <4>2, <4>3 DEF SameSession
    <3>3. \A s \in Tasks : task'[s] # None /\ task'[s].id = i =>
               task[s] # None /\ task'[s] = task[s]
      BY <1>2, <2>3 DEF GoesOn
    <3>4. Typed /\ sessions'[i] = sessions[i] /\ users'[g.userid] = users[g.userid]
      BY DEF IInv
    <3>5. SoundEntry(i, g)'
      BY <1>1, <2>1, <3>2, <3>3, <3>4, SoundKept
    <3> QED
      BY <3>1, <3>5 DEF SoundEntry, Undisputed
  <2> QED
    BY <2>2, <2>3
<1> QED
  BY <1>1, <1>4, <1>5, <1>6 DEF IInv, SoundCache

-----------------------------------------------------------------------------
(* The steps that leave the tables alone.                                  *)

(* The new request's id is nobody else's.                                  *)
LEMMA BeginCreateIInv ==
    ASSUME IInv, NEW t \in Tasks, NEW op \in Creating, NEW id \in Ids, NEW u \in Users,
           NEW scopes \in Scopes, BeginCreate(t, op, id, u, scopes)
    PROVE  IInv'
<1> DEFINE k == [NewTask(op, "findUser") EXCEPT !.id = id, !.userid = u, !.scopes = scopes]
<1>1. k \in Task /\ k.pc = "findUser" /\ k.op = op /\ k.id = id /\ k.userid = u
  <2>1. NewTask(op, "findUser") \in Task /\ NewTask(op, "findUser").op = op
        /\ NewTask(op, "findUser").pc = "findUser"
    BY NewTaskType DEF Creating
  <2> QED
    BY <2>1 DEF Task
<1>2. Shape(k) /\ KnownTask(t, k) /\ FreshRead(k)
  BY <1>1 DEF Shape, KnownTask, FreshRead, BeginCreate
<1>3. task[t] = None /\ task' = [task EXCEPT ![t] = k]
  BY DEF BeginCreate, Start
<1> QED
  BY <1>1, <1>2, <1>3, TaskStep DEF BeginCreate

(* setAdmin has written nothing yet.                                       *)
LEMMA SetAdminIInv ==
    ASSUME IInv, NEW t \in Tasks, NEW u \in Users, NEW isadmin \in BOOLEAN,
           SetAdmin(t, u, isadmin)
    PROVE  IInv'
<1> DEFINE k == [NewTask("setAdmin", "findUser") EXCEPT !.userid = u, !.isadmin = isadmin]
<1>1. k \in Task /\ k.pc = "findUser" /\ k.op = "setAdmin" /\ k.id = None /\ k.userid = u
  <2>1. /\ NewTask("setAdmin", "findUser") \in Task
        /\ NewTask("setAdmin", "findUser").op = "setAdmin"
        /\ NewTask("setAdmin", "findUser").pc = "findUser"
        /\ NewTask("setAdmin", "findUser").id = None
    BY NewTaskType
  <2> QED
    BY <2>1 DEF Task
<1>2. Shape(k) /\ KnownTask(t, k) /\ FreshRead(k)
  BY <1>1 DEF Shape, KnownTask, FreshRead, Creating
<1>3. task[t] = None /\ task' = [task EXCEPT ![t] = k]
  BY DEF SetAdmin, Start
<1> QED
  BY <1>1, <1>2, <1>3, TaskStep DEF SetAdmin

(* A task that ends, or goes on at pc, without an answer to remember.      *)
LEMMA GoOnIInv ==
    ASSUME IInv, NEW t \in Tasks, task[t] # None, task[t].pc # "invalidate",
           NEW k \in Task \cup {None}, task' = [task EXCEPT ![t] = k],
           UNCHANGED <<sessions, users, sessionsCache, created, now, up>>,
           k # None => /\ Shape(k) /\ FreshRead(k) /\ k.pc # "extend"
                       /\ k.id = task[t].id /\ k.op = task[t].op
                       /\ k.pc \in {"count", "delete"} => task[t].pc \in {"count", "delete"}
    PROVE  IInv'
<1>1. KnownTask(t, task[t])
  BY DEF IInv, Known
<1>2. k # None => KnownTask(t, k)
  BY <1>1 DEF KnownTask
<1> QED
  BY <1>2, TaskStep

(* A request that is answered leaves the rest alone.                       *)
LEMMA EndIInv ==
    ASSUME IInv, NEW t \in Tasks, task[t] # None, task[t].pc # "invalidate", End(t),
           UNCHANGED <<sessions, users, sessionsCache, created, now, up>>
    PROVE  IInv'
BY GoOnIInv DEF End

(* The user's row is looked up and not remembered.                         *)
LEMMA FindUserIInv ==
    ASSUME IInv, NEW t \in Tasks, FindUser(t)
    PROVE  IInv'
<1>1. /\ task[t] # None /\ task[t].pc = "findUser"
      /\ UNCHANGED <<sessions, users, sessionsCache, created, now, up>>
  BY DEF FindUser, At
<1>2. CASE End(t)
  BY <1>1, <1>2, EndIInv
<1>3. CASE Continue(t, IF task[t].op = "setAdmin" THEN "update" ELSE "create")
  <2> DEFINE pc == IF task[t].op = "setAdmin" THEN "update" ELSE "create"
             k == [task[t] EXCEPT !.pc = pc]
  <2>1. task[t] \in Task /\ Shape(task[t])
    BY <1>1 DEF IInv, Typed, TypeOK, Shapes
  <2>2. k \in Task /\ k.pc = pc /\ k.op = task[t].op /\ k.id = task[t].id
        /\ k.userid = task[t].userid
    BY <2>1 DEF Task
  <2>3. Shape(k)
    BY <1>1, <2>1, <2>2 DEF Shape, Creating
  <2>4. FreshRead(k)
    BY <2>2 DEF FreshRead
  <2>5. task' = [task EXCEPT ![t] = k]
    BY <1>3 DEF Continue
  <2>6. k.pc # "extend" /\ k.pc \notin {"count", "delete"}
    BY <2>2
  <2> HIDE DEF k, pc
  <2> QED
    BY <1>1, <2>2, <2>3, <2>4, <2>5, <2>6, GoOnIInv
<1> QED
  BY <1>2, <1>3 DEF FindUser

(* A revocation goes on, or finds nothing to delete.                       *)
LEMMA CountIInv ==
    ASSUME IInv, NEW t \in Tasks, Count(t)
    PROVE  IInv'
<1>1. /\ task[t] # None /\ task[t].pc = "count"
      /\ UNCHANGED <<sessions, users, sessionsCache, created, now, up>>
  BY DEF Count, At
<1>2. CASE End(t)
  BY <1>1, <1>2, EndIInv
<1>3. CASE Continue(t, "delete")
  <2> DEFINE k == [task[t] EXCEPT !.pc = "delete"]
  <2>1. task[t] \in Task /\ Shape(task[t])
    BY <1>1 DEF IInv, Typed, TypeOK, Shapes
  <2>2. k \in Task /\ k.pc = "delete" /\ k.op = task[t].op /\ k.id = task[t].id
    BY <2>1 DEF Task
  <2>3. Shape(k) /\ FreshRead(k)
    BY <1>1, <2>1, <2>2 DEF Shape, FreshRead
  <2>4. task' = [task EXCEPT ![t] = k]
    BY <1>3 DEF Continue
  <2> HIDE DEF k
  <2> QED
    BY <1>1, <2>2, <2>3, <2>4, GoOnIInv
<1> QED
  BY <1>2, <1>3 DEF Count

(* A retrieval that starts again forgets what it has read.                 *)
LEMMA RetrieveAgainIInv ==
    ASSUME IInv, NEW t \in Tasks, At(t, "findOne"), RetrieveAgain(t),
           UNCHANGED <<sessions, users, sessionsCache, created, now, up>>
    PROVE  IInv'
<1> DEFINE k == [task[t] EXCEPT !.pc = "findUnique", !.row = None, !.stale = FALSE]
<1>1. task[t] # None /\ task[t].pc = "findOne" /\ task[t] \in Task /\ Shape(task[t])
  BY DEF At, IInv, Typed, TypeOK, Shapes
<1>2. k \in Task /\ k.pc = "findUnique" /\ k.op = task[t].op /\ k.id = task[t].id
  BY <1>1 DEF Task
<1>3. Shape(k) /\ FreshRead(k)
  BY <1>1, <1>2 DEF Shape, FreshRead
<1>4. task' = [task EXCEPT ![t] = k]
  BY <1>1 DEF RetrieveAgain, IInv, Typed, TypeOK
<1> HIDE DEF k
<1> QED
  BY <1>1, <1>2, <1>3, <1>4, GoOnIInv

(* The role that is read is the role of the table.                         *)
LEMMA FindOneIInv ==
    ASSUME IInv, NEW t \in Tasks, FindOne(t)
    PROVE  IInv'
<1> DEFINE u == task[t].row.userid
<1>1. /\ At(t, "findOne")
      /\ UNCHANGED <<sessions, users, sessionsCache, created, now, up>>
  BY DEF FindOne
<1>2. CASE RetrieveAgain(t)
  BY <1>1, <1>2, RetrieveAgainIInv
<1>3. CASE users[u] # None /\ task' = [task EXCEPT ![t].pc = "fill", ![t].isadmin = users[u]]
  <2> DEFINE k == [task[t] EXCEPT !.pc = "fill", !.isadmin = users[u]]
  <2>1. task[t] # None /\ task[t].pc = "findOne" /\ task[t] \in Task /\ Shape(task[t])
        /\ FreshRead(task[t])
    BY <1>1 DEF At, IInv, Typed, TypeOK, Shapes, FreshReads
  <2>2. task[t].row \in Row
    BY <2>1 DEF Shape
  <2>3. users[u] \in BOOLEAN
    BY <1>3, <2>2 DEF Row, IInv, Typed, TypeOK
  <2>4. k \in Task /\ k.pc = "fill" /\ k.op = task[t].op /\ k.id = task[t].id
        /\ k.row = task[t].row /\ k.isadmin = users[u] /\ k.stale = task[t].stale
    BY <2>1, <2>3 DEF Task
  <2>5. Shape(k)
    BY <2>1, <2>4 DEF Shape
  <2>6. FreshRead(k)
    BY <2>1, <2>4 DEF FreshRead
  <2>7. task' = [task EXCEPT ![t] = k]
    BY <1>3, <2>1 DEF IInv, Typed, TypeOK
  <2> HIDE DEF k
  <2> QED
    BY <1>1, <2>1, <2>4, <2>5, <2>6, <2>7, GoOnIInv
<1> QED
  BY <1>2, <1>3 DEF FindOne

(* The session is in the cache.                                            *)
LEMMA FromCacheIInv ==
    ASSUME IInv, NEW t \in Tasks, NEW cur \in Task, cur.op \in Retrieving, cur.id \in Ids,
           cur.id \in created, sessionsCache[cur.id] # None,
           task[t] # None => task[t].pc # "invalidate",
           WithSession(t, cur, sessionsCache),
           UNCHANGED <<sessions, users, created, now, up>>
    PROVE  IInv'
<1>1. Typed /\ sessionsCache \in [Ids -> Entry \cup {None}]
  BY DEF IInv, Typed, TypeOK
<1>2. PICK k \in Task \cup {None}, e \in Entry \cup {None} :
         /\ task' = [task EXCEPT ![t] = k]
         /\ sessionsCache' = [sessionsCache EXCEPT ![cur.id] = e]
         /\ GoesOn(k, e, sessionsCache[cur.id], cur.id)
  BY <1>1, WithSessionEffect
<1>3. PICK f \in Entry : f = sessionsCache[cur.id]
  BY <1>1
<1>4. SoundEntry(cur.id, f) /\ GoesOn(k, e, f, cur.id)
  BY <1>2, <1>3 DEF IInv, SoundCache
<1> QED
  BY <1>2, <1>4, SessionStep

(* A retrieval answers from the cache, or asks the database.               *)
LEMMA RetrieveIInv ==
    ASSUME IInv, NEW t \in Tasks, NEW op \in Retrieving, NEW id \in Ids,
           NEW u \in Users \cup {None}, NEW scopes \in Scopes, Retrieve(t, op, id, u, scopes)
    PROVE  IInv'
<1> DEFINE k == [NewTask(op, "findUnique") EXCEPT !.id = id, !.userid = u, !.scopes = scopes]
<1>1. k \in Task /\ k.pc = "findUnique" /\ k.op = op /\ k.id = id
  <2>1. NewTask(op, "findUnique") \in Task /\ NewTask(op, "findUnique").op = op
        /\ NewTask(op, "findUnique").pc = "findUnique"
    BY NewTaskType DEF Retrieving
  <2> QED
    BY <2>1 DEF Task
<1>2. task[t] = None /\ id \in created /\ UNCHANGED <<sessions, users, created, now, up>>
  BY DEF Retrieve
<1>3. CASE sessionsCache[id] # None
  <2>1. WithSession(t, k, sessionsCache)
    BY <1>3 DEF Retrieve
  <2> HIDE DEF k
  <2> QED
    BY <1>1, <1>2, <1>3, <2>1, FromCacheIInv
<1>4. CASE sessionsCache[id] = None
  <2>1. task' = [task EXCEPT ![t] = k] /\ UNCHANGED sessionsCache
    BY <1>4 DEF Retrieve, Start
  <2>2. Shape(k) /\ FreshRead(k) /\ KnownTask(t, k)
    BY <1>1, <1>2 DEF Shape, FreshRead, KnownTask, Retrieving, Creating
  <2> HIDE DEF k
  <2> QED
    BY <1>1, <1>2, <2>1, <2>2, TaskStep
<1> QED
  BY <1>3, <1>4

(* The row that is read is the row of the table.                           *)
LEMMA FindUniqueIInv ==
    ASSUME IInv, NEW t \in Tasks, FindUnique(t)
    PROVE  IInv'
<1> DEFINE row == sessions[task[t].id]
<1>1. /\ task[t] # None /\ task[t].pc = "findUnique"
      /\ UNCHANGED <<sessions, users, created, now, up>>
  BY DEF FindUnique, At
<1>2. task[t] \in Task /\ task[t].op \in Retrieving /\ task[t].id \in Ids /\ task[t].id \in created
  <2>1. Shape(task[t]) /\ KnownTask(t, task[t]) /\ task[t] \in Task
    BY <1>1 DEF IInv, Typed, TypeOK, Shapes, Known
  <2>2. task[t].op \in Retrieving /\ task[t].id \in Ids
    BY <1>1, <2>1 DEF Shape
  <2> QED
    BY <2>1, <2>2, NothingAssumption DEF KnownTask, Retrieving, Creating
<1>3. CASE End(t) /\ UNCHANGED sessionsCache
  BY <1>1, <1>3, EndIInv
<1>4. CASE sessionsCache[task[t].id] # None /\ WithSession(t, task[t], sessionsCache)
  BY <1>1, <1>2, <1>4, FromCacheIInv
<1>5. CASE /\ row # None
           /\ task' = [task EXCEPT ![t].pc = "findOne", ![t].row = row]
           /\ UNCHANGED sessionsCache
  <2> DEFINE k == [task[t] EXCEPT !.pc = "findOne", !.row = row]
  <2>1. row \in Row
    BY <1>2, <1>5 DEF IInv, Typed, TypeOK
  <2>2. k \in Task /\ k.pc = "findOne" /\ k.op = task[t].op /\ k.id = task[t].id /\ k.row = row
    BY <1>2, <2>1 DEF Task
  <2>3. Shape(k) /\ FreshRead(k)
    BY <1>2, <2>1, <2>2 DEF Shape, FreshRead
  <2>4. task' = [task EXCEPT ![t] = k]
    BY <1>1, <1>5 DEF IInv, Typed, TypeOK
  <2> HIDE DEF k
  <2> QED
    BY <1>1, <1>5, <2>2, <2>3, <2>4, GoOnIInv
<1> QED
  BY <1>3, <1>4, <1>5 DEF FindUnique

(* An entry filled undisturbed is sound.                                   *)
LEMMA FillIInv ==
    ASSUME IInv, NEW t \in Tasks, Fill(t)
    PROVE  IInv'
<1> DEFINE id == task[t].id
           row == task[t].row
           disputed == \E s \in Tasks : /\ task[s] # None
                                        /\ task[s].id = task[t].id
                                        /\ task[s].pc \in {"count", "delete", "extend"}
           entry == [type |-> row.type, userid |-> row.userid, scopes |-> row.scopes,
                     expire |-> row.expire, isadmin |-> task[t].isadmin, lastUsed |-> now,
                     overlapped |-> task[t].stale \/ disputed]
           cur == [task[t] EXCEPT !.isadmin = FALSE]
           cache == [sessionsCache EXCEPT ![id] = entry]
<1>1. /\ task[t] # None /\ task[t].pc = "fill"
      /\ WithSession(t, cur, cache)
      /\ UNCHANGED <<sessions, users, created, now, up>>
  BY DEF Fill, At
<1>2. task[t] \in Task /\ Shape(task[t]) /\ KnownTask(t, task[t]) /\ FreshRead(task[t])
  BY <1>1 DEF IInv, Typed, TypeOK, Shapes, Known, FreshReads
<1>3. id \in Ids /\ row \in Row /\ task[t].op \in Retrieving
  BY <1>1, <1>2 DEF Shape
<1>4. id \in created
  BY <1>2, <1>3, NothingAssumption DEF KnownTask, Retrieving, Creating
<1>5. cur \in Task /\ cur.id = id /\ cur.op = task[t].op
  BY <1>2 DEF Task
<1>6. entry \in Entry
  <2>1. task[t].isadmin \in BOOLEAN /\ (task[t].stale \/ disputed) \in BOOLEAN
    BY <1>2 DEF Task
  <2>2. now \in Int
    BY DEF IInv, Typed, TypeOK
  <2>3. row.type \in {"session", "api"} /\ row.userid \in Users /\ row.scopes \in Scopes
        /\ row.expire \in Int
    BY <1>3 DEF Row
  <2> HIDE DEF disputed, row
  <2> QED
    BY <2>1, <2>2, <2>3 DEF Entry
<1>7. Typed /\ cache \in [Ids -> Entry \cup {None}] /\ cache[id] = entry
  BY <1>3, <1>6 DEF IInv, Typed, TypeOK
<1>8. PICK f \in Entry : f = entry
  BY <1>6
<1>9. cache[id] # None
  BY <1>6, <1>7, NothingAssumption
<1> HIDE DEF cur, cache
<1>10. PICK k \in Task \cup {None}, e \in Entry \cup {None} :
          /\ task' = [task EXCEPT ![t] = k]
          /\ sessionsCache' = [cache EXCEPT ![id] = e]
          /\ GoesOn(k, e, f, id)
  BY <1>1, <1>3, <1>5, <1>7, <1>8, <1>9, WithSessionEffect
<1>11. sessionsCache' = [sessionsCache EXCEPT ![id] = e]
  BY <1>3, <1>10 DEF cache, IInv, Typed, TypeOK
<1>12. SoundEntry(id, f)
  <2> SUFFICES ASSUME ~f.overlapped
               PROVE  SoundEntry(id, f)
    BY DEF SoundEntry
  <2>1. ~task[t].stale /\ ~disputed
    BY <1>8
  <2>2. sessions[id] = row /\ users[row.userid] = task[t].isadmin
    BY <1>1, <1>2, <2>1 DEF FreshRead
  <2>3. /\ f.userid = row.userid /\ f.scopes = row.scopes /\ f.expire = row.expire
        /\ f.isadmin = task[t].isadmin
    BY <1>8
  <2>4. row # None /\ row.expire \in Int
    BY <1>3, NothingAssumption DEF Row
  <2>5. Undisputed(id, f)
    BY <2>1 DEF Undisputed
  <2>6. row.expire >= row.expire
    BY <2>4
  <2> QED
    BY <2>2, <2>3, <2>4, <2>5, <2>6 DEF SoundEntry
<1> QED
  BY <1>1, <1>3, <1>4, <1>10, <1>11, <1>12, SessionStep

-----------------------------------------------------------------------------
(* The steps that write a table.                                           *)

(* An entry of id that was filled undisturbed agrees with the row that is  *)
(* to be written, but for the scopes where the writer goes on as k to drop *)
(* the entry.                                                              *)
Agrees(id, row, k) ==
    \A f \in Entry : f = sessionsCache[id] /\ ~f.overlapped =>
        /\ row # None
        /\ row.userid = f.userid
        /\ f.expire >= row.expire
        /\ k # None \/ row.scopes = sessions[id].scopes

(* The row of id is written, and those that have read it are stale.        *)
LEMMA RowStep ==
    ASSUME IInv, NEW t \in Tasks, NEW id \in Ids, NEW k \in Task \cup {None},
           NEW row \in Row \cup {None},
           task[t] # None, task[t].id = id, task[t].pc # "invalidate",
           k # None => Shape(k) /\ KnownTask(t, k) /\ k.pc = "invalidate" /\ k.op = "edit" /\ k.id = id,
           RowWritten(id, t, k),
           sessions' = [sessions EXCEPT ![id] = row],
           row # None => sessions[id] # None,
           UNCHANGED <<users, sessionsCache, created, now, up>>,
           Agrees(id, row, k)
    PROVE  IInv'
<1>1. /\ task' \in [Tasks -> Task \cup {None}] /\ Shapes'
      /\ \A s \in Tasks : s = t => task'[s] = k
      /\ \A s \in Tasks : s # t =>
            \/ task'[s] = task[s]
            \/ task[s] # None /\ task'[s] = [task[s] EXCEPT !.stale = TRUE]
  BY RowWrittenType DEF IInv
<1>2. Typed'
  BY <1>1 DEF IInv, Typed, TypeOK
<1>3. \A s \in Tasks : s # t /\ task'[s] # None =>
         /\ task[s] # None /\ task'[s].op = task[s].op /\ task'[s].id = task[s].id
         /\ task'[s].pc = task[s].pc /\ task'[s].row = task[s].row
         /\ task'[s].userid = task[s].userid /\ task'[s].isadmin = task[s].isadmin
  BY <1>1 DEF IInv, Typed, TypeOK, Task
<1>4. Known'
  <2>1. \A i \in Ids : sessions'[i] # None => sessions[i] # None
    BY DEF IInv, Typed, TypeOK
  <2>2. OnlyMoves(t, k)
    BY <1>1, <1>3 DEF OnlyMoves
  <2> QED
    BY <1>2, <2>1, <2>2, KnownStep
<1>5. FreshReads'
  <2> SUFFICES ASSUME NEW s \in Tasks, task'[s] # None,
                      task'[s].pc \in {"findOne", "fill"}, ~task'[s].stale
               PROVE  /\ sessions'[task'[s].id] = task'[s].row
                      /\ task'[s].pc = "fill" => users'[task'[s].row.userid] = task'[s].isadmin
    BY DEF FreshReads, FreshRead
  <2>1. s # t
    BY <1>1
  <2>2. task'[s] = task[s] /\ task[s].id # id
    <3>1. task[s] # None /\ task[s] \in Task
      BY <1>3, <2>1 DEF IInv, Typed, TypeOK
    <3>2. ([task[s] EXCEPT !.stale = TRUE]).stale
      BY <3>1 DEF Task
    <3> QED
      BY <1>1, <1>3, <2>1, <3>1, <3>2 DEF RowWritten, At
  <2>3. sessions'[task[s].id] = sessions[task[s].id]
    BY <2>2 DEF IInv, Typed, TypeOK
  <2> QED
    BY <2>2, <2>3 DEF IInv, FreshReads, FreshRead
<1>6. \A s \in Tasks : task[s] # None /\ task[s].pc = "invalidate" => task'[s] = task[s]
  BY <1>1 DEF RowWritten, At
<1>7. ASSUME NEW i \in Ids, sessionsCache[i] # None
      PROVE  SoundEntry(i, sessionsCache[i])'
  <2>1. PICK f \in Entry : f = sessionsCache[i] /\ f = sessionsCache'[i]
    BY <1>7 DEF IInv, Typed, TypeOK
  <2>2. SoundEntry(i, f)
    BY <1>7, <2>1 DEF IInv, SoundCache
  <2>3. \A s \in Tasks : s # t /\ task'[s] # None /\ task'[s].id = i =>
           \/ task'[s].pc \notin {"count", "delete", "extend"}
           \/ task[s] # None /\ task'[s] = task[s]
    BY <1>1, <1>3 DEF RowWritten, At
  <2>4. CASE i # id
    <3>1. SameSession(f, f) /\ f.expire >= f.expire
      <4>1. f.expire \in Int
        BY DEF Entry
      <4> QED
        BY <4>1 DEF SameSession
    <3>2. Typed /\ sessions'[i] = sessions[i] /\ users'[f.userid] = users[f.userid]
      BY <2>4 DEF IInv, Typed, TypeOK
    <3>3. \A s \in Tasks : task'[s] # None /\ task'[s].id = i => s # t
      BY <1>1, <2>4
    <3>4. SoundEntry(i, f)'
      BY <1>2, <1>6, <2>2, <2>3, <3>1, <3>2, <3>3, SoundKept
    <3> QED
      BY <2>1, <3>4 DEF SoundEntry, Undisputed
  <2>5. CASE i = id
    <3> SUFFICES ASSUME ~f.overlapped
                 PROVE  SoundEntry(id, f)'
      BY <2>1, <2>5 DEF SoundEntry, Undisputed
    <3>1. /\ row # None /\ row.userid = f.userid /\ f.expire >= row.expire
          /\ k # None \/ row.scopes = sessions[id].scopes
      BY <2>1, <2>5 DEF Agrees
    <3>2. sessions'[id] = row
      BY DEF IInv, Typed, TypeOK
    <3>3. Undisputed(id, f)'
      <4> SUFFICES ASSUME NEW s \in Tasks, task'[s] # None, task'[s].id = id
                   PROVE  /\ task'[s].pc \notin {"count", "delete"}
                          /\ task'[s].pc = "extend" => task'[s].row.expire <= f.expire
        BY DEF Undisputed
      <4>1. CASE s = t
        BY <1>1, <4>1
      <4>2. CASE s # t
        BY <1>3, <2>2, <2>5, <4>2 DEF SoundEntry, Undisputed
      <4> QED
        BY <4>1, <4>2
    <3>4. Editing(id)' \/ sessions'[id].scopes = f.scopes
      <4>1. k # None => Editing(id)'
        BY <1>1 DEF Editing
      <4>2. Editing(id) => Editing(id)'
        BY <1>6 DEF Editing
      <4>3. Editing(id) \/ sessions[id].scopes = f.scopes
        BY <2>2, <2>5 DEF SoundEntry
      <4> QED
        BY <3>1, <3>2, <4>1, <4>2, <4>3
    <3>5. Promoting(f.userid)' \/ users[f.userid] = f.isadmin
      <4>1. Promoting(f.userid) => Promoting(f.userid)'
        BY <1>6 DEF Promoting
      <4> QED
        BY <2>2, <4>1 DEF SoundEntry
    <3> QED
      BY <3>1, <3>2, <3>3, <3>4, <3>5 DEF SoundEntry
  <2> QED
    BY <2>4, <2>5
<1> QED
  BY <1>2, <1>4, <1>5, <1>7 DEF IInv, SoundCache

(* An extension ends no later than a sound entry.                          *)
LEMMA ExtendIInv ==
    ASSUME IInv, NEW t \in Tasks, Extend(t)
    PROVE  IInv'
<1>1. task[t] # None /\ task[t].pc = "extend" /\ Shape(task[t])
  BY DEF Extend, At, IInv, Typed, Shapes
<1>2. PICK id \in Ids : id = task[t].id
  BY <1>1 DEF Shape
<1>3. task[t].row \in Row /\ task[t].row.expire \in Int
  BY <1>1 DEF Shape, Row
<1>4. sessions \in [Ids -> Row \cup {None}]
  BY DEF IInv, Typed, TypeOK
<1>5. PICK row \in Row \cup {None} :
         row = IF sessions[id] = None THEN None
               ELSE [sessions[id] EXCEPT !.expire = task[t].row.expire]
  BY <1>3, <1>4 DEF Row
<1>6. sessions' = [sessions EXCEPT ![id] = row]
  BY <1>2, <1>4, <1>5 DEF Extend
<1>7. ASSUME NEW f \in Entry, f = sessionsCache[id], ~f.overlapped
      PROVE  row # None /\ row.userid = f.userid /\ f.expire >= row.expire
             /\ row.scopes = sessions[id].scopes
  <2>1. SoundEntry(id, f)
    BY <1>7, NothingAssumption DEF IInv, SoundCache
  <2>2. sessions[id] # None /\ sessions[id].userid = f.userid /\ task[t].row.expire <= f.expire
    BY <1>1, <1>2, <1>7, <2>1 DEF SoundEntry, Undisputed
  <2>3. sessions[id] \in Row /\ f.expire \in Int
    BY <1>4, <2>2 DEF Entry
  <2>4. row = [sessions[id] EXCEPT !.expire = task[t].row.expire] /\ row \in Row
    BY <1>3, <1>5, <2>2, <2>3 DEF Row
  <2>5. row.userid = sessions[id].userid /\ row.expire = task[t].row.expire
        /\ row.scopes = sessions[id].scopes
    BY <2>3, <2>4 DEF Row
  <2>6. row # None
    BY <2>4, NothingAssumption
  <2> QED
    BY <1>3, <2>2, <2>3, <2>5, <2>6
<1>8. row # None => sessions[id] # None
  BY <1>5
<1>9. RowWritten(id, t, None) /\ UNCHANGED <<users, sessionsCache, created, now, up>>
  BY <1>2 DEF Extend
<1>10. task[t].id = id /\ task[t].pc # "invalidate"
  BY <1>1, <1>2
<1>11. Agrees(id, row, None)
  BY <1>7 DEF Agrees
<1> QED
  BY <1>1, <1>6, <1>8, <1>9, <1>10, <1>11, RowStep

(* No sound entry is left of a row that is deleted.                        *)
LEMMA DeleteIInv ==
    ASSUME IInv, NEW t \in Tasks, Delete(t), ~Die
    PROVE  IInv'
<1>1. task[t] # None /\ task[t].pc = "delete" /\ Shape(task[t])
  BY DEF Delete, At, IInv, Typed, Shapes
<1>2. PICK id \in Ids : id = task[t].id
  BY <1>1 DEF Shape
<1>3. CASE sessions[id] # None
  <2>1. /\ sessions' = [sessions EXCEPT ![id] = None] /\ RowWritten(id, t, None)
        /\ UNCHANGED <<users, sessionsCache, created, now, up>>
    BY <1>2, <1>3 DEF Delete
  <2>2. ASSUME NEW f \in Entry, f = sessionsCache[id], ~f.overlapped
        PROVE  FALSE
    <3>1. SoundEntry(id, f)
      BY <2>2, NothingAssumption DEF IInv, SoundCache
    <3> QED
      BY <1>1, <1>2, <2>2, <3>1 DEF SoundEntry, Undisputed
  <2>3. task[t].id = id /\ task[t].pc # "invalidate"
    BY <1>1, <1>2
  <2>4. Agrees(id, None, None)
    BY <2>2 DEF Agrees
  <2> QED
    BY <1>1, <2>1, <2>3, <2>4, RowStep
<1>4. CASE sessions[id] = None
  BY <1>1, <1>2, <1>4, EndIInv DEF Delete
<1> QED
  BY <1>3, <1>4

(* A user's row is written: those that have read it are stale, and either  *)
(* the writer goes on to drop the user's entries or the user has none.     *)
LEMMA UserStep ==
    ASSUME IInv, NEW t \in Tasks \cup {None}, NEW u \in Users, NEW k \in Task \cup {None},
           NEW b \in BOOLEAN \cup {None},
           t # None => task[t] # None /\ task[t].pc # "invalidate",
           k # None => /\ t # None /\ Shape(k) /\ KnownTask(t, k)
                       /\ k.pc = "invalidate" /\ k.op = "setAdmin" /\ k.userid = u,
           k = None => \A id \in Ids : sessions[id] # None => sessions[id].userid # u,
           UserWritten(u, t, k),
           users' = [users EXCEPT ![u] = b],
           UNCHANGED <<sessions, sessionsCache, created, now, up>>
    PROVE  IInv'
<1>1. /\ task' \in [Tasks -> Task \cup {None}] /\ Shapes'
      /\ \A s \in Tasks : s = t => task'[s] = k
      /\ \A s \in Tasks : s # t =>
            \/ task'[s] = task[s]
            \/ task[s] # None /\ task'[s] = [task[s] EXCEPT !.stale = TRUE]
  BY UserWrittenType DEF IInv
<1>2. Typed'
  BY <1>1 DEF IInv, Typed, TypeOK
<1>3. \A s \in Tasks : s # t /\ task'[s] # None =>
         /\ task[s] # None /\ task'[s].op = task[s].op /\ task'[s].id = task[s].id
  BY <1>1 DEF IInv, Typed, TypeOK, Task
<1>4. Known'
  <2>1. \A i \in Ids : sessions'[i] # None => sessions[i] # None
    OBVIOUS
  <2>2. OnlyMoves(t, k)
    BY <1>1, <1>3 DEF OnlyMoves
  <2> QED
    BY <1>2, <2>1, <2>2, KnownStep
<1>5. FreshReads'
  <2> SUFFICES ASSUME NEW s \in Tasks, task'[s] # None,
                      task'[s].pc \in {"findOne", "fill"}, ~task'[s].stale
               PROVE  /\ sessions'[task'[s].id] = task'[s].row
                      /\ task'[s].pc = "fill" => users'[task'[s].row.userid] = task'[s].isadmin
    BY DEF FreshReads, FreshRead
  <2>1. s # t
    BY <1>1
  <2>2. task'[s] = task[s] /\ (task[s].pc = "fill" => task[s].row.userid # u)
    <3>1. task[s] # None /\ task[s] \in Task
      BY <1>3, <2>1 DEF IInv, Typed, TypeOK
    <3>2. ([task[s] EXCEPT !.stale = TRUE]).stale
      BY <3>1 DEF Task
    <3> QED
      BY <1>1, <2>1, <3>1, <3>2 DEF UserWritten, At
  <2>3. task[s].pc = "fill" => users'[task[s].row.userid] = users[task[s].row.userid]
    <3>1. task[s].pc = "fill" => task[s].row.userid \in Users
      BY <2>2 DEF IInv, Typed, Shapes, Shape, Row
    <3> QED
      BY <2>2, <3>1 DEF IInv, Typed, TypeOK
  <2> QED
    BY <2>2, <2>3 DEF IInv, FreshReads, FreshRead
<1>6. \A s \in Tasks : task[s] # None /\ task[s].pc = "invalidate" => task'[s] = task[s]
  BY <1>1, NothingAssumption DEF UserWritten, At
<1>7. ASSUME NEW i \in Ids, sessionsCache[i] # None
      PROVE  SoundEntry(i, sessionsCache[i])'
  <2>1. PICK f \in Entry : f = sessionsCache[i] /\ f = sessionsCache'[i]
    BY <1>7 DEF IInv, Typed, TypeOK
  <2>2. SoundEntry(i, f)
    BY <1>7, <2>1 DEF IInv, SoundCache
  <2> SUFFICES ASSUME ~f.overlapped
               PROVE  SoundEntry(i, f)'
    BY <2>1 DEF SoundEntry, Undisputed
  <2>3. SameSession(f, f) /\ f.expire >= f.expire
    <3>1. f.expire \in Int
      BY DEF Entry
    <3> QED
      BY <3>1 DEF SameSession
  <2>4. Promoting(f.userid)' \/ users'[f.userid] = users[f.userid]
    <3>1. CASE f.userid # u
      BY <3>1 DEF IInv, Typed, TypeOK, Entry
    <3>2. CASE f.userid = u
      <4>1. k # None
        BY <2>2, <3>2 DEF SoundEntry
      <4>2. t \in Tasks /\ task'[t] = k
        BY <1>1, <4>1
      <4> QED
        BY <3>2, <4>1, <4>2 DEF Promoting
    <3> QED
      BY <3>1, <3>2
  <2>5. \A s \in Tasks : task'[s] # None /\ task'[s].id = i =>
           \/ task'[s].pc \notin {"count", "delete", "extend"}
           \/ task[s] # None /\ task'[s] = task[s]
    BY <1>1 DEF UserWritten, At
  <2> QED
    BY <1>2, <1>6, <2>2, <2>3, <2>4, <2>5, SoundKept DEF IInv
<1> QED
  BY <1>2, <1>4, <1>5, <1>7 DEF IInv, SoundCache

(* Whoever writes scopes or a role goes on to drop the entries.            *)
LEMMA UpdateIInv ==
    ASSUME IInv, NEW t \in Tasks, Update(t)
    PROVE  IInv'
<1>1. /\ task[t] # None /\ task[t].pc = "update" /\ task[t] \in Task /\ Shape(task[t])
      /\ KnownTask(t, task[t])
  BY DEF Update, At, IInv, Typed, TypeOK, Shapes, Known
<1>2. task[t].pc # "invalidate" /\ UNCHANGED <<sessionsCache, created, now, up>>
  BY <1>1 DEF Update
<1>3. PICK k \in Task : k = [task[t] EXCEPT !.pc = "invalidate"]
  BY <1>1 DEF Task
<1>4. /\ k.pc = "invalidate" /\ k.op = task[t].op /\ k.id = task[t].id
      /\ k.userid = task[t].userid
  BY <1>1, <1>3 DEF Task
<1>5. Shape(k) /\ KnownTask(t, k)
  BY <1>1, <1>4 DEF Shape, KnownTask
<1>6. CASE End(t) /\ UNCHANGED <<sessions, users>>
  BY <1>1, <1>2, <1>6, EndIInv
<1>7. CASE /\ task[t].op = "edit" /\ sessions[task[t].id] # None /\ UNCHANGED users
           /\ sessions' = [sessions EXCEPT ![task[t].id].scopes = task[t].scopes]
           /\ RowWritten(task[t].id, t, [task[t] EXCEPT !.pc = "invalidate"])
  <2>1. PICK id \in Ids : id = task[t].id
    BY <1>1, <1>7 DEF Shape
  <2>2. sessions[id] \in Row /\ task[t].scopes \in Scopes
    BY <1>1, <1>7, <2>1 DEF IInv, Typed, TypeOK, Task
  <2>3. PICK row \in Row : row = [sessions[id] EXCEPT !.scopes = task[t].scopes]
    BY <2>2 DEF Row
  <2>4. row # None /\ row.userid = sessions[id].userid /\ row.expire = sessions[id].expire
    BY <2>2, <2>3, NothingAssumption DEF Row
  <2>5. sessions' = [sessions EXCEPT ![id] = row]
    BY <1>7, <2>1, <2>3 DEF IInv, Typed, TypeOK
  <2>6. Agrees(id, row, k)
    <3> SUFFICES ASSUME NEW f \in Entry, f = sessionsCache[id], ~f.overlapped
                 PROVE  row.userid = f.userid /\ f.expire >= row.expire
      BY <2>4, NothingAssumption DEF Agrees
    <3>1. SoundEntry(id, f)
      BY NothingAssumption DEF IInv, SoundCache
    <3> QED
      BY <2>4, <3>1 DEF SoundEntry
  <2>7. RowWritten(id, t, k) /\ UNCHANGED <<users, sessionsCache, created, now, up>>
    BY <1>2, <1>3, <1>7, <2>1
  <2>8. k.op = "edit" /\ k.id = id /\ sessions[id] # None
    BY <1>4, <1>7, <2>1
  <2> QED
    BY <1>1, <1>2, <1>4, <1>5, <2>1, <2>4, <2>5, <2>6, <2>7, <2>8, RowStep
<1>8. CASE /\ task[t].op = "setAdmin" /\ UNCHANGED sessions
           /\ users' = [users EXCEPT ![task[t].userid] = task[t].isadmin]
           /\ UserWritten(task[t].userid, t, [task[t] EXCEPT !.pc = "invalidate"])
  <2>1. PICK u \in Users : u = task[t].userid
    BY <1>1, <1>8 DEF Shape
  <2>2. PICK b \in BOOLEAN : b = task[t].isadmin
    BY <1>1 DEF Task
  <2>3. users' = [users EXCEPT ![u] = b] /\ UserWritten(u, t, k)
    BY <1>3, <1>8, <2>1, <2>2
  <2>4. k # None /\ t # None /\ k.op = "setAdmin" /\ k.userid = u
    BY <1>4, <1>8, <2>1, NothingAssumption
  <2> QED
    BY <1>1, <1>2, <1>4, <1>5, <1>8, <2>3, <2>4, UserStep
<1> QED
  BY <1>6, <1>7, <1>8 DEF Update

(* The foreign key keeps a user whose sessions may be cached.              *)
LEMMA DeleteUserIInv ==
    ASSUME IInv, NEW u \in Users, DeleteUser(u), ~Die
    PROVE  IInv'
<1>1. /\ \A id \in Ids : sessions[id] # None => sessions[id].userid # u
      /\ users' = [users EXCEPT ![u] = None]
      /\ UserWritten(u, None, None)
      /\ UNCHANGED <<sessions, sessionsCache, created, now, up>>
  BY DEF DeleteUser
<1> QED
  BY <1>1, UserStep

(* The id of a new row is in no other task's hands; an entry under it, if  *)
(* there is one, was not filled undisturbed.                               *)
LEMMA CreateRowIInv ==
    ASSUME IInv, NEW t \in Tasks, CreateRow(t)
    PROVE  IInv'
<1>1. /\ task[t] # None /\ task[t].pc = "create" /\ task[t] \in Task /\ Shape(task[t])
      /\ KnownTask(t, task[t])
  BY DEF CreateRow, At, IInv, Typed, TypeOK, Shapes, Known
<1>2. UNCHANGED <<users, sessionsCache, now, up>>
  BY DEF CreateRow
<1>3. CASE UNCHANGED <<sessions, created>> /\ End(t)
  BY <1>1, <1>2, <1>3, EndIInv
<1>4. CASE UNCHANGED <<sessions, created>> /\ UNCHANGED task
  BY <1>2, <1>4 DEF IInv, Typed, TypeOK, Shapes, Known, KnownTask, FreshReads, FreshRead,
                    SoundCache, SoundEntry, Undisputed, Editing, Promoting
<1>5. ASSUME OwnerExists(task[t].userid),
             sessions' = [sessions EXCEPT ![task[t].id] =
                [type   |-> IF task[t].op = "createApiKey" THEN "api" ELSE "session",
                 userid |-> task[t].userid,
                 scopes |-> task[t].scopes,
                 expire |-> IF task[t].op = "createApiKey" THEN now ELSE now + ExpireIn]],
             created' = created \cup {task[t].id},
             End(t)
      PROVE  IInv'
  <2>1. PICK id \in Ids : id = task[t].id
    BY <1>1 DEF Shape
  <2>2. /\ id \notin created /\ sessions[id] = None
        /\ \A s \in Tasks : s # t /\ task[s] # None => task[s].id # id
    BY <1>1, <2>1 DEF Shape, KnownTask, Creating, IInv, Known
  <2>3. PICK row \in Row : sessions' = [sessions EXCEPT ![id] = row]
    <3>1. task[t].userid \in Users /\ task[t].scopes \in Scopes
      BY <1>1 DEF Shape, Task
    <3>2. now \in Int /\ now + ExpireIn \in Int
      BY SessionsAssumption DEF IInv, Typed, TypeOK
    <3> DEFINE r == [type   |-> IF task[t].op = "createApiKey" THEN "api" ELSE "session",
                     userid |-> task[t].userid,
                     scopes |-> task[t].scopes,
                     expire |-> IF task[t].op = "createApiKey" THEN now ELSE now + ExpireIn]
    <3>3. r \in Row
      BY <3>1, <3>2 DEF Row
    <3>4. sessions' = [sessions EXCEPT ![id] = r]
      BY <1>5, <2>1
    <3> HIDE DEF r
    <3> QED
      BY <3>3, <3>4
  <2>4. \A s \in Tasks : task'[s] = IF s = t THEN None ELSE task[s]
    BY <1>5 DEF End, IInv, Typed, TypeOK
  <2>5. \A i \in Ids : i # id => sessions'[i] = sessions[i]
    BY <2>3 DEF IInv, Typed, TypeOK
  <2>6. Typed'
    <3>1. task' = [task EXCEPT ![t] = None]
      BY <1>5 DEF End
    <3>2. task' \in [Tasks -> Task \cup {None}] /\ Shapes'
      BY <3>1, OneTask DEF IInv
    <3> QED
      BY <1>2, <1>5, <2>1, <2>3, <3>2 DEF IInv, Typed, TypeOK
  <2>7. Known'
    <3>1. \A i \in Ids : sessions'[i] # None => i \in created'
      BY <1>5, <2>1, <2>5 DEF IInv, Known
    <3>2. ASSUME NEW s \in Tasks, task'[s] # None
          PROVE  KnownTask(s, task[s])'
      <4>1. s # t /\ task'[s] = task[s] /\ KnownTask(s, task[s]) /\ task[s].id # id
        BY <2>2, <2>4, <3>2 DEF IInv, Known
      <4> QED
        BY <1>5, <2>1, <2>4, <4>1 DEF KnownTask
    <3> QED
      BY <3>1, <3>2 DEF Known
  <2>8. FreshReads'
    <3> SUFFICES ASSUME NEW s \in Tasks, task'[s] # None
                 PROVE  FreshRead(task[s])'
      BY DEF FreshReads
    <3>1. task'[s] = task[s] /\ FreshRead(task[s]) /\ Shape(task[s]) /\ task[s].id # id
      BY <2>2, <2>4 DEF IInv, FreshReads, Typed, Shapes
    <3>2. task[s].pc \in {"findOne", "fill"} => sessions'[task[s].id] = sessions[task[s].id]
      BY <2>5, <3>1 DEF Shape
    <3> QED
      BY <1>2, <3>1, <3>2 DEF FreshRead
  <2>9. ASSUME NEW i \in Ids, sessionsCache[i] # None
        PROVE  SoundEntry(i, sessionsCache[i])'
    <3>1. PICK f \in Entry : f = sessionsCache[i] /\ f = sessionsCache'[i]
      BY <1>2, <2>9 DEF IInv, Typed, TypeOK
    <3>2. SoundEntry(i, f)
      BY <2>9, <3>1 DEF IInv, SoundCache
    <3> SUFFICES ASSUME ~f.overlapped
                 PROVE  SoundEntry(i, f)'
      BY <3>1 DEF SoundEntry, Undisputed
    <3>3. i # id
      BY <2>2, <3>2 DEF SoundEntry
    <3>4. f.expire \in Int /\ SameSession(f, f)
      BY DEF Entry, SameSession
    <3>5. \A s \in Tasks : task[s] # None /\ task[s].pc = "invalidate" => task'[s] = task[s]
      BY <1>1, <2>4
    <3>6. \A s \in Tasks : task'[s] # None => task[s] # None /\ task'[s] = task[s]
      BY <2>4
    <3>7. sessions'[i] = sessions[i] /\ users'[f.userid] = users[f.userid] /\ f.expire >= f.expire
      BY <1>2, <2>5, <3>3, <3>4
    <3> QED
      BY <2>6, <3>2, <3>4, <3>5, <3>6, <3>7, SoundKept DEF IInv
  <2> QED
    BY <1>2, <2>6, <2>7, <2>8, <2>9 DEF IInv, SoundCache
<1> QED
  BY <1>3, <1>4, <1>5 DEF CreateRow

-----------------------------------------------------------------------------
(* The steps that drop entries.                                            *)

(* The entries that remain are not those of this writer.                   *)
LEMMA InvalidateIInv ==
    ASSUME IInv, NEW t \in Tasks, Invalidate(t)
    PROVE  IInv'
<1>1. /\ task[t] # None /\ task[t].pc = "invalidate"
      /\ sessionsCache' = [id \in Ids |-> IF id \in Invalidated(t) THEN None ELSE sessionsCache[id]]
      /\ task' = [task EXCEPT ![t] = None]
      /\ UNCHANGED <<sessions, users, created, now, up>>
  BY DEF Invalidate, At, End
<1>2. \A s \in Tasks : task'[s] = IF s = t THEN None ELSE task[s]
  BY <1>1 DEF IInv, Typed, TypeOK
<1>3. Typed'
  <2>1. task' \in [Tasks -> Task \cup {None}] /\ Shapes'
    BY <1>1, OneTask DEF IInv
  <2> QED
    BY <1>1, <2>1 DEF IInv, Typed, TypeOK
<1>4. Known'
  <2>1. OnlyMoves(t, None)
    BY <1>2 DEF OnlyMoves
  <2> QED
    BY <1>1, <1>3, <2>1, KnownStep
<1>5. FreshReads'
  BY <1>1, <1>2 DEF IInv, FreshReads, FreshRead
<1>6. ASSUME NEW i \in Ids, sessionsCache'[i] # None
      PROVE  SoundEntry(i, sessionsCache[i])'
  <2>1. i \notin Invalidated(t) /\ sessionsCache'[i] = sessionsCache[i]
    BY <1>1, <1>6
  <2>2. PICK f \in Entry : f = sessionsCache[i] /\ f = sessionsCache'[i]
    BY <1>6, <2>1 DEF IInv, Typed, TypeOK
  <2>3. SoundEntry(i, f)
    BY <1>6, <2>1, <2>2 DEF IInv, SoundCache
  <2>4. Editing(i) => Editing(i)'
    <3> SUFFICES ASSUME NEW s \in Tasks, task[s] # None, task[s].pc = "invalidate",
                        task[s].op = "edit", task[s].id = i
                 PROVE  Editing(i)'
      BY DEF Editing
    <3>1. s # t
      BY <2>1 DEF Invalidated
    <3> QED
      BY <1>2, <3>1 DEF Editing
  <2>5. Promoting(f.userid) => Promoting(f.userid)'
    <3> SUFFICES ASSUME NEW s \in Tasks, task[s] # None, task[s].pc = "invalidate",
                        task[s].op = "setAdmin", task[s].userid = f.userid
                 PROVE  Promoting(f.userid)'
      BY DEF Promoting
    <3>1. s # t
      BY <1>6, <2>1, <2>2 DEF Invalidated
    <3> QED
      BY <1>2, <3>1 DEF Promoting
  <2>6. Undisputed(i, f) => Undisputed(i, f)'
    BY <1>2 DEF Undisputed
  <2>7. SoundEntry(i, f)'
    BY <1>1, <2>3, <2>4, <2>5, <2>6 DEF SoundEntry
  <2> QED
    BY <2>2, <2>7 DEF SoundEntry, Undisputed
<1> QED
  BY <1>3, <1>4, <1>5, <1>6 DEF IInv, SoundCache

(* The entry goes first, so none is left to dispute.                       *)
LEMMA RevokeSessionIInv ==
    ASSUME IInv, NEW t \in Tasks, NEW id \in Ids, RevokeSession(t, id)
    PROVE  IInv'
<1>1. PICK k \in Task : /\ k = [NewTask("revoke", "count") EXCEPT !.id = id]
                        /\ k.op = "revoke" /\ k.pc = "count" /\ k.id = id
  <2>1. /\ NewTask("revoke", "count") \in Task /\ NewTask("revoke", "count").op = "revoke"
        /\ NewTask("revoke", "count").pc = "count"
    BY NewTaskType
  <2> DEFINE r == [NewTask("revoke", "count") EXCEPT !.id = id]
  <2>2. r \in Task /\ r.op = "revoke" /\ r.pc = "count" /\ r.id = id
    BY <2>1 DEF Task
  <2> HIDE DEF r
  <2>3. \E k \in Task : k = r /\ k.op = "revoke" /\ k.pc = "count" /\ k.id = id
    BY <2>2
  <2> QED
    BY <2>3 DEF r
<1>2. /\ task[t] = None /\ task' = [task EXCEPT ![t] = k] /\ id \in created
      /\ sessionsCache' = [sessionsCache EXCEPT ![id] = None]
      /\ UNCHANGED <<sessions, users, created, now, up>>
  BY <1>1 DEF RevokeSession, Start
<1>3. Shape(k) /\ KnownTask(t, k)
  BY <1>1, <1>2 DEF Shape, KnownTask, Creating
<1>4. \A s \in Tasks : task'[s] = IF s = t THEN k ELSE task[s]
  BY <1>2 DEF IInv, Typed, TypeOK
<1>5. Typed'
  <2>1. task' \in [Tasks -> Task \cup {None}] /\ Shapes'
    BY <1>2, <1>3, OneTask DEF IInv
  <2> QED
    BY <1>2, <2>1 DEF IInv, Typed, TypeOK
<1>6. Known'
  <2>1. OnlyMoves(t, k)
    BY <1>4 DEF OnlyMoves
  <2> QED
    BY <1>2, <1>3, <1>5, <2>1, KnownStep
<1>7. FreshReads'
  BY <1>1, <1>2, <1>4 DEF IInv, FreshReads, FreshRead
<1>8. ASSUME NEW i \in Ids, sessionsCache'[i] # None
      PROVE  SoundEntry(i, sessionsCache[i])'
  <2>1. i # id /\ sessionsCache'[i] = sessionsCache[i]
    BY <1>2, <1>8 DEF IInv, Typed, TypeOK
  <2>2. PICK f \in Entry : f = sessionsCache[i] /\ f = sessionsCache'[i]
    BY <1>8, <2>1 DEF IInv, Typed, TypeOK
  <2>3. SoundEntry(i, f)
    BY <1>8, <2>1, <2>2 DEF IInv, SoundCache
  <2>4. (Editing(i) => Editing(i)') /\ (Promoting(f.userid) => Promoting(f.userid)')
    BY <1>2, <1>4 DEF Editing, Promoting
  <2>5. Undisputed(i, f) => Undisputed(i, f)'
    BY <1>1, <1>4, <2>1 DEF Undisputed
  <2>6. SoundEntry(i, f)'
    BY <1>2, <2>3, <2>4, <2>5 DEF SoundEntry
  <2> QED
    BY <2>2, <2>6 DEF SoundEntry, Undisputed
<1> QED
  BY <1>5, <1>6, <1>7, <1>8 DEF IInv, SoundCache

(* Entries go, the clock moves, and nothing else happens.                  *)
LEMMA EntriesGoIInv ==
    ASSUME IInv, now' \in Nat, up' \in BOOLEAN,
           UNCHANGED <<sessions, users, task, created>>,
           sessionsCache' \in [Ids -> Entry \cup {None}],
           \A id \in Ids : sessionsCache'[id] # None => sessionsCache'[id] = sessionsCache[id]
    PROVE  IInv'
<1>1. Typed' /\ Known' /\ FreshReads'
  BY DEF IInv, Typed, TypeOK, Shapes, Known, KnownTask, FreshReads, FreshRead
<1>2. ASSUME NEW i \in Ids, sessionsCache'[i] # None
      PROVE  SoundEntry(i, sessionsCache[i])'
  <2>1. PICK f \in Entry : f = sessionsCache[i] /\ f = sessionsCache'[i]
    BY <1>2
  <2>2. SoundEntry(i, f)
    BY <1>2, <2>1 DEF IInv, SoundCache
  <2>3. SoundEntry(i, f)'
    BY <2>2 DEF SoundEntry, Undisputed, Editing, Promoting
  <2> QED
    BY <2>1, <2>3 DEF SoundEntry, Undisputed
<1> QED
  BY <1>1, <1>2 DEF IInv, SoundCache

(* cleanSessionsCache only drops entries.                                  *)
LEMMA TickIInv ==
    ASSUME IInv, Tick
    PROVE  IInv'
<1>1. now' \in Nat /\ up' \in BOOLEAN
  BY DEF Tick, IInv, Typed, TypeOK
<1>2. /\ sessionsCache' \in [Ids -> Entry \cup {None}]
      /\ \A id \in Ids : sessionsCache'[id] # None => sessionsCache'[id] = sessionsCache[id]
  BY DEF Tick, IInv, Typed, TypeOK
<1> QED
  BY <1>1, <1>2, EntriesGoIInv DEF Tick

(* With the process go the cache and the requests.                         *)
LEMMA DieIInv ==
    ASSUME IInv, Die
    PROVE  IInv'
BY DEF Die, IInv, Typed, TypeOK, Shapes, Known, FreshReads, SoundCache

(* The process starts with what Die has left.                              *)
LEMMA RestartIInv ==
    ASSUME IInv, Restart
    PROVE  IInv'
<1>1. up' \in BOOLEAN /\ UNCHANGED <<sessions, users, sessionsCache, task, created, now>>
  BY DEF Restart
<1>2. now' \in Nat /\ sessionsCache' \in [Ids -> Entry \cup {None}]
  BY <1>1 DEF IInv, Typed, TypeOK
<1> QED
  BY <1>1, <1>2, EntriesGoIInv

(* A failure ends the request, its read, or the process.                   *)
LEMMA DatabaseFailsIInv ==
    ASSUME IInv, NEW t \in Tasks, DatabaseFails(t)
    PROVE  IInv'
<1>1. CASE Die
  BY <1>1, DieIInv
<1>2. CASE /\ At(t, "findOne") /\ RetrieveAgain(t)
           /\ UNCHANGED <<sessions, users, sessionsCache, created, now, up>>
  BY <1>2, RetrieveAgainIInv
<1>3. CASE /\ task[t] # None
           /\ \/ task[t].pc \in {"findUser", "extend", "update"}
              \/ At(t, "create") \/ At(t, "delete")
           /\ End(t)
           /\ UNCHANGED <<sessions, users, sessionsCache, created, now, up>>
  <2>1. task[t].pc # "invalidate"
    BY <1>3 DEF At
  <2> QED
    BY <1>3, <2>1, EndIInv
<1> QED
  BY <1>1, <1>2, <1>3 DEF DatabaseFails

-----------------------------------------------------------------------------
(* Every step.                                                             *)

(* Every answer of the database.                                           *)
LEMMA AnswerIInv ==
    ASSUME IInv, NEW t \in Tasks, Answer(t)
    PROVE  IInv'
<1>1. CASE FindUser(t)
  BY <1>1, FindUserIInv
<1>2. CASE CreateRow(t)
  BY <1>2, CreateRowIInv
<1>3. CASE FindUnique(t)
  BY <1>3, FindUniqueIInv
<1>4. CASE FindOne(t)
  BY <1>4, FindOneIInv
<1>5. CASE Fill(t)
  BY <1>5, FillIInv
<1>6. CASE Extend(t)
  BY <1>6, ExtendIInv
<1>7. CASE Update(t)
  BY <1>7, UpdateIInv
<1>8. CASE Invalidate(t)
  BY <1>8, InvalidateIInv
<1>9. CASE Count(t)
  BY <1>9, CountIInv
<1>10. CASE Delete(t)
  BY <1>10, DeleteIInv, DieIInv
<1> QED
  BY <1>1, <1>2, <1>3, <1>4, <1>5, <1>6, <1>7, <1>8, <1>9, <1>10 DEF Answer

(* Every new request.                                                      *)
LEMMA RequestIInv ==
    ASSUME IInv, NEW t \in Tasks, Request(t)
    PROVE  IInv'
<1>1. ASSUME NEW id \in Ids, NEW u \in Users, BeginCreate(t, "createSession", id, u, NoScopes)
      PROVE  IInv'
  BY <1>1, BeginCreateIInv, SessionsAssumption DEF Creating
<1>2. ASSUME NEW id \in Ids, NEW u \in Users, NEW scopes \in Scopes,
             BeginCreate(t, "createApiKey", id, u, scopes)
      PROVE  IInv'
  BY <1>2, BeginCreateIInv DEF Creating
<1>3. ASSUME NEW id \in Ids, NEW u \in Users, NEW scopes \in Scopes,
             Retrieve(t, "edit", id, u, scopes)
      PROVE  IInv'
  BY <1>3, RetrieveIInv DEF Retrieving
<1>4. ASSUME NEW id \in Ids, NEW op \in {"retrieve", "validate"},
             Retrieve(t, op, id, None, NoScopes)
      PROVE  IInv'
  BY <1>4, RetrieveIInv, SessionsAssumption DEF Retrieving
<1>5. ASSUME NEW id \in Ids, RevokeSession(t, id)
      PROVE  IInv'
  BY <1>5, RevokeSessionIInv
<1>6. ASSUME NEW u \in Users, NEW isadmin \in BOOLEAN, SetAdmin(t, u, isadmin)
      PROVE  IInv'
  BY <1>6, SetAdminIInv
<1> QED
  BY <1>1, <1>2, <1>3, <1>4, <1>5, <1>6 DEF Request

(* Every step of the program, and none.                                    *)
LEMMA StepIInv == IInv /\ [Next]_vars => IInv'
<1> SUFFICES ASSUME IInv, [Next]_vars
             PROVE  IInv'
  OBVIOUS
<1>1. CASE Restart
  BY <1>1, RestartIInv
<1>2. CASE Tick
  BY <1>2, TickIInv
<1>3. ASSUME NEW u \in Users, DeleteUser(u)
      PROVE  IInv'
  BY <1>3, DeleteUserIInv, DieIInv
<1>4. ASSUME NEW t \in Tasks, Request(t) \/ Answer(t) \/ DatabaseFails(t)
      PROVE  IInv'
  BY <1>4, RequestIInv, AnswerIInv, DatabaseFailsIInv
<1>5. CASE UNCHANGED vars
  <2>1. now' \in Nat /\ up' \in BOOLEAN /\ sessionsCache' \in [Ids -> Entry \cup {None}]
    BY <1>5 DEF vars, IInv, Typed, TypeOK
  <2> QED
    BY <1>5, <2>1, EntriesGoIInv DEF vars
<1> QED
  BY <1>1, <1>2, <1>3, <1>4, <1>5 DEF Next

-----------------------------------------------------------------------------
(* Theorems.                                                               *)

(* In every state a run of the program reaches.                            *)
THEOREM Invariance == Spec => []IInv
BY InitIInv, StepIInv, PTL DEF Spec

(* The tables, the cache and the requests have their types, and a request  *)
(* holds at each await what it needs after it.                             *)
THEOREM TypeCorrect == Spec => []TypeOK
<1>1. IInv => TypeOK
  BY DEF IInv, Typed
<1> QED
  BY <1>1, Invariance, PTL

(* The cache lets no revoked or expired session in, for any number of ids, *)
(* users and requests at work at a time, but by a fill that overlaps the   *)
(* revocation.                                                             *)
THEOREM CachedExists == Spec => []CachedSessionExists
BY IInvGivesProperties, Invariance, PTL

(* invalidateSessionById comes after the write in time for every edit of   *)
(* an api key's scopes.                                                    *)
THEOREM CachedScopes == Spec => []CachedScopesCurrent
BY IInvGivesProperties, Invariance, PTL

(* invalidateSessionsByUserId does the same for every entry that copies    *)
(* isadmin from the user's row.                                            *)
THEOREM CachedRole == Spec => []CachedRoleCurrent
BY IInvGivesProperties, Invariance, PTL

(* revenueSession's two writes, the entry now and the row later, keep the  *)
(* entry's end at or after the row's.                                      *)
THEOREM CachedExpiry == Spec => []CachedExpiryNotEarlier
BY IInvGivesProperties, Invariance, PTL
=============================================================================
