------------------------------- MODULE Sessions -------------------------------
(***************************************************************************)
(* Sessions and api keys: the table of SessionsService and the users it    *)
(* refers to, the cache sessionsCache in front of them, and the requests   *)
(* that read, extend, edit and revoke a session or change its user.        *)
(*                                                                         *)
(* A request is a task.  At each of its awaits it has asked the database   *)
(* something; the action named after the question is the database's answer,*)
(* in which the question takes effect.  Where the code goes on from an     *)
(* answer straight to the next question, one action stands for both; where *)
(* it first changes the cache, that is an action of its own, so that other *)
(* tasks come between the database's answer and the change.                *)
(***************************************************************************)
EXTENDS Integers

CONSTANTS
    Ids,         \* session ids
    Users,       \* user ids
    Scopes,      \* the lists of scopes an api key may have
    NoScopes,    \* the empty list, '[]'
    Tasks,       \* slots for the requests at work at a time (a bound)
    None,        \* no row, no entry, no task
    ExpireIn,    \* SESSION_EXPIRE
    ExpireCache, \* SESSION_EXPIRE_CACHE
    Margin,      \* a session with less than this left is extended
    MaxTime      \* bound on the clock

ASSUME SessionsAssumption ==
    /\ NoScopes \in Scopes
    /\ ExpireIn \in Nat \ {0}
    /\ ExpireCache \in Nat
    /\ Margin \in Nat
    /\ MaxTime \in Nat

VARIABLES
    sessions,       \* the table of sessions and api keys
    users,          \* the table of users: is the user an admin?
    sessionsCache,  \* the cache, in memory
    task,           \* the requests that stand at an await
    created,        \* the ids that were given out with a row
    now,
    up              \* is the process up?

vars == <<sessions, users, sessionsCache, task, created, now, up>>

(* doesexpire is true exactly of the type "session".                       *)
Row == [type : {"session", "api"}, userid : Users, scopes : Scopes, expire : Int]

(* isadmin comes from the user's row.  overlapped is no part of the code:  *)
(* it says that the row was written, or about to be revoked or extended,   *)
(* while the entry was being filled.                                       *)
Entry == [type : {"session", "api"}, userid : Users, scopes : Scopes, expire : Int,
          isadmin : BOOLEAN, lastUsed : Int, overlapped : BOOLEAN]

(* row and isadmin are what a task has read, or is to write; stale is no   *)
(* part of the code: what the task has read has been written since.        *)
Task == [op : {"createSession", "createApiKey", "retrieve", "validate", "edit",
               "revoke", "expire", "setAdmin"},
         pc : {"findUser", "create", "findUnique", "findOne", "fill", "extend",
               "update", "invalidate", "count", "delete"},
         id : Ids \cup {None}, userid : Users \cup {None},
         row : Row \cup {None}, scopes : Scopes, isadmin : BOOLEAN, stale : BOOLEAN]

ASSUME NothingAssumption ==
    /\ None \notin Row /\ None \notin Entry /\ None \notin Task
    /\ None \notin Ids /\ None \notin Users /\ None \notin Tasks /\ None \notin BOOLEAN

TypeOK ==
    /\ sessions \in [Ids -> Row \cup {None}]
    /\ users \in [Users -> BOOLEAN \cup {None}]
    /\ sessionsCache \in [Ids -> Entry \cup {None}]
    /\ task \in [Tasks -> Task \cup {None}]
    /\ created \subseteq Ids
    /\ now \in Nat
    /\ up \in BOOLEAN

Init ==
    /\ sessions = [id \in Ids |-> None]
    /\ users \in [Users -> BOOLEAN]
    /\ sessionsCache = [id \in Ids |-> None]
    /\ task = [t \in Tasks |-> None]
    /\ created = {}
    /\ now = 0
    /\ up = TRUE

-----------------------------------------------------------------------------
(* Tasks.                                                                  *)

At(t, pc) == task[t] # None /\ task[t].pc = pc

Handles(t, op) == task[t] # None /\ task[t].op = op

NewTask(op, pc) ==
    [op |-> op, pc |-> pc, id |-> None, userid |-> None, row |-> None,
     scopes |-> NoScopes, isadmin |-> FALSE, stale |-> FALSE]

Start(t, new) ==
    /\ up
    /\ task[t] = None
    /\ task' = [task EXCEPT ![t] = new]

Continue(t, pc) == task' = [task EXCEPT ![t].pc = pc]

(* The request is answered.                                                *)
End(t) == task' = [task EXCEPT ![t] = None]

(* The tasks that have read the row of id, which is now written, while t   *)
(* goes on as next; and those that have read the user's row.               *)
RowWritten(id, t, next) ==
    task' = [s \in Tasks |->
        IF s = t THEN next
        ELSE IF /\ At(s, "findOne") \/ At(s, "fill")
                /\ task[s].id = id
             THEN [task[s] EXCEPT !.stale = TRUE]
             ELSE task[s]]

UserWritten(u, t, next) ==
    task' = [s \in Tasks |->
        IF s = t THEN next
        ELSE IF At(s, "fill") /\ task[s].row.userid = u
             THEN [task[s] EXCEPT !.stale = TRUE]
             ELSE task[s]]

(* A rejection nobody handles ends the process.  The tables are kept.      *)
Die ==
    /\ up' = FALSE
    /\ sessionsCache' = [id \in Ids |-> None]
    /\ task' = [t \in Tasks |-> None]
    /\ UNCHANGED <<sessions, users, created, now>>

Restart ==
    /\ ~up
    /\ up' = TRUE
    /\ UNCHANGED <<sessions, users, sessionsCache, task, created, now>>

-----------------------------------------------------------------------------
(* createSession and createApiKey, with an id nobody else has.             *)

BeginCreate(t, op, id, u, scopes) ==
    /\ id \notin created
    /\ \A s \in Tasks : task[s] # None => task[s].id # id
    /\ users[u] # None
    /\ Start(t, [NewTask(op, "findUser") EXCEPT !.id = id, !.userid = u, !.scopes = scopes])
    /\ UNCHANGED <<sessions, users, sessionsCache, created, now, up>>

(* The user's name is read outside the loop: without the user it throws.   *)
FindUser(t) ==
    /\ At(t, "findUser")
    /\ \/ users[task[t].userid] = None /\ End(t)
       \/ /\ users[task[t].userid] # None
          /\ Continue(t, IF task[t].op = "setAdmin" THEN "update" ELSE "create")
    /\ UNCHANGED <<sessions, users, sessionsCache, created, now, up>>

(* The owner of a session is a foreign key.                                *)
OwnerExists(u) == users[u] # None

(* Mutant: the loop awaits the row and does not return it, so it tries to  *)
(* create the same row again.                                              *)
CreateRowForEver(t) ==
    /\ At(t, "create")
    /\ \/ /\ OwnerExists(task[t].userid)
          /\ task[t].id \notin created
          /\ sessions' = [sessions EXCEPT ![task[t].id] =
                [type   |-> IF task[t].op = "createApiKey" THEN "api" ELSE "session",
                 userid |-> task[t].userid,
                 scopes |-> task[t].scopes,
                 expire |-> IF task[t].op = "createApiKey" THEN now ELSE now + ExpireIn]]
          /\ created' = created \cup {task[t].id}
          /\ IF task[t].op = "createApiKey" THEN End(t) ELSE UNCHANGED task
       \/ /\ ~OwnerExists(task[t].userid) \/ task[t].id \in created
          /\ IF task[t].op = "createApiKey" THEN End(t) ELSE UNCHANGED task
          /\ UNCHANGED <<sessions, created>>
    /\ UNCHANGED <<users, sessionsCache, now, up>>

(* Without the user, createSession tries again, for ever.                  *)
CreateRow(t) ==
    /\ At(t, "create")
    /\ \/ /\ OwnerExists(task[t].userid)
          /\ sessions' = [sessions EXCEPT ![task[t].id] =
                [type   |-> IF task[t].op = "createApiKey" THEN "api" ELSE "session",
                 userid |-> task[t].userid,
                 scopes |-> task[t].scopes,
                 expire |-> IF task[t].op = "createApiKey" THEN now ELSE now + ExpireIn]]
          /\ created' = created \cup {task[t].id}
          /\ End(t)
       \/ /\ ~OwnerExists(task[t].userid)
          /\ IF task[t].op = "createApiKey" THEN End(t) ELSE UNCHANGED task
          /\ UNCHANGED <<sessions, created>>
    /\ UNCHANGED <<users, sessionsCache, now, up>>

-----------------------------------------------------------------------------
(* validateSession and editApiKeyScopes once retrieveSession has answered. *)

(* Mutant: only the row is extended.                                       *)
ExtendRowOnly(id, expire, cache) == cache

(* revenueSession, up to its await.                                        *)
ExtendEntry(id, expire, cache) ==
    IF cache[id] # None THEN [cache EXCEPT ![id].expire = expire] ELSE cache

Expired(entry) == entry.type = "session" /\ now > entry.expire

(* Task t, at cur, goes on with the session it has retrieved, which is the *)
(* entry of the cache.  An expired one is revoked while the client has its *)
(* answer: the task goes on and nobody waits for it.                       *)
WithSession(t, cur, cache) ==
    LET entry == cache[cur.id]
        near == entry.expire - now < Margin
        used == [cache EXCEPT ![cur.id].lastUsed = now]
        next(pc) == [cur EXCEPT !.pc = pc, !.row = None, !.stale = FALSE]
    IN  \/ /\ cur.op = "retrieve"
           /\ End(t)
           /\ sessionsCache' = cache
        \/ /\ cur.op = "edit"
           /\ task' = [task EXCEPT ![t] = IF entry.userid = cur.userid THEN next("update")
                                                                       ELSE None]
           /\ sessionsCache' = cache
        \/ /\ cur.op = "validate"
           /\ Expired(entry)
           /\ task' = [task EXCEPT ![t] = [next("count") EXCEPT !.op = "expire"]]
           /\ sessionsCache' = [cache EXCEPT ![cur.id] = None]
        \/ /\ cur.op = "validate"
           /\ ~Expired(entry)
           /\ IF near
              THEN /\ task' = [task EXCEPT ![t] = [next("extend") EXCEPT
                         !.row = [type |-> entry.type, userid |-> entry.userid,
                                  scopes |-> entry.scopes, expire |-> entry.expire + ExpireIn]]]
                   /\ sessionsCache' = ExtendEntry(cur.id, entry.expire + ExpireIn, used)
              ELSE End(t) /\ sessionsCache' = used

(* retrieveSession: from the cache, or from the database.                  *)
Retrieve(t, op, id, u, scopes) ==
    LET new == [NewTask(op, "findUnique") EXCEPT !.id = id, !.userid = u, !.scopes = scopes]
    IN  /\ up
        /\ task[t] = None
        /\ id \in created
        /\ IF sessionsCache[id] # None THEN WithSession(t, new, sessionsCache)
                                       ELSE Start(t, new) /\ UNCHANGED sessionsCache
        /\ UNCHANGED <<sessions, users, created, now, up>>

FindUnique(t) ==
    LET row == sessions[task[t].id]
    IN  /\ At(t, "findUnique")
        /\ \/ row = None /\ sessionsCache[task[t].id] = None /\ End(t) /\ UNCHANGED sessionsCache
           \/ /\ row = None
              /\ sessionsCache[task[t].id] # None  \* another task has filled it
              /\ WithSession(t, task[t], sessionsCache)
           \/ /\ row # None
              /\ task' = [task EXCEPT ![t].pc = "findOne", ![t].row = row]
              /\ UNCHANGED sessionsCache
        /\ UNCHANGED <<sessions, users, created, now, up>>

(* The catch block of retrieveSession is empty, and the loop goes on.      *)
RetrieveAgain(t) ==
    task' = [task EXCEPT ![t].pc = "findUnique", ![t].row = None, ![t].stale = FALSE]

(* Mutant: the user's fields are read through ?. and no error is thrown.   *)
FindOneUnchecked(t) ==
    /\ At(t, "findOne")
    /\ task' = [task EXCEPT ![t].pc = "fill", ![t].isadmin = users[task[t].row.userid]]
    /\ UNCHANGED <<sessions, users, sessionsCache, created, now, up>>

(* Without the user the name cannot be read: the loop starts again.        *)
FindOne(t) ==
    LET u == task[t].row.userid
    IN  /\ At(t, "findOne")
        /\ \/ users[u] = None /\ RetrieveAgain(t)
           \/ users[u] # None /\ task' = [task EXCEPT ![t].pc = "fill", ![t].isadmin = users[u]]
        /\ UNCHANGED <<sessions, users, sessionsCache, created, now, up>>

Fill(t) ==
    LET row == task[t].row
        entry == [type |-> row.type, userid |-> row.userid, scopes |-> row.scopes,
                  expire |-> row.expire, isadmin |-> task[t].isadmin, lastUsed |-> now,
                  overlapped |-> \/ task[t].stale
                                 \/ \E s \in Tasks : /\ task[s] # None
                                                     /\ task[s].id = task[t].id
                                                     /\ task[s].pc \in {"count", "delete", "extend"}]
    IN  /\ At(t, "fill")
        /\ WithSession(t, [task[t] EXCEPT !.isadmin = FALSE],
                       [sessionsCache EXCEPT ![task[t].id] = entry])
        /\ UNCHANGED <<sessions, users, created, now, up>>

-----------------------------------------------------------------------------
(* The writers.                                                            *)

(* revenueSession: a row that is gone makes the update, and the request,   *)
(* fail.                                                                   *)
Extend(t) ==
    LET id == task[t].id
    IN  /\ At(t, "extend")
        /\ sessions' = IF sessions[id] = None THEN sessions
                       ELSE [sessions EXCEPT ![id].expire = task[t].row.expire]
        /\ RowWritten(id, t, None)
        /\ UNCHANGED <<users, sessionsCache, created, now, up>>

(* The updates of editApiKeyScopes and of setAdmin.                        *)
Update(t) ==
    LET id == task[t].id
        u == task[t].userid
    IN  /\ At(t, "update")
        /\ \/ /\ task[t].op = "edit"
              /\ IF sessions[id] = None
                 THEN End(t) /\ UNCHANGED sessions
                 ELSE /\ sessions' = [sessions EXCEPT ![id].scopes = task[t].scopes]
                      /\ RowWritten(id, t, [task[t] EXCEPT !.pc = "invalidate"])
              /\ UNCHANGED users
           \/ /\ task[t].op = "setAdmin"
              /\ IF users[u] = None
                 THEN End(t) /\ UNCHANGED users
                 ELSE /\ users' = [users EXCEPT ![u] = task[t].isadmin]
                      /\ UserWritten(u, t, [task[t] EXCEPT !.pc = "invalidate"])
              /\ UNCHANGED sessions
        /\ UNCHANGED <<sessionsCache, created, now, up>>

(* Mutants: an edit drops the entries of nobody, setAdmin those of nobody. *)
InvalidatedByRole(t) ==
    IF task[t].op = "edit" THEN {}
    ELSE {id \in Ids : sessionsCache[id] # None /\ sessionsCache[id].userid = task[t].userid}

InvalidatedByEdit(t) == IF task[t].op = "edit" THEN {task[t].id} ELSE {}

(* invalidateSessionById and invalidateSessionsByUserId.                   *)
Invalidated(t) ==
    IF task[t].op = "edit" THEN {task[t].id}
    ELSE {id \in Ids : sessionsCache[id] # None /\ sessionsCache[id].userid = task[t].userid}

Invalidate(t) ==
    /\ At(t, "invalidate")
    /\ sessionsCache' = [id \in Ids |-> IF id \in Invalidated(t) THEN None ELSE sessionsCache[id]]
    /\ End(t)
    /\ UNCHANGED <<sessions, users, created, now, up>>

SetAdmin(t, u, isadmin) ==
    /\ Start(t, [NewTask("setAdmin", "findUser") EXCEPT !.userid = u, !.isadmin = isadmin])
    /\ UNCHANGED <<sessions, users, sessionsCache, created, now, up>>

(* Mutant: the entry is left to expire.                                    *)
RevokeRow(t, id) ==
    /\ id \in created
    /\ Start(t, [NewTask("revoke", "count") EXCEPT !.id = id])
    /\ UNCHANGED <<sessions, users, sessionsCache, created, now, up>>

(* revokeSession, for logout and for revoke/:sessionId: the cache first.   *)
RevokeSession(t, id) ==
    /\ id \in created
    /\ Start(t, [NewTask("revoke", "count") EXCEPT !.id = id])
    /\ sessionsCache' = [sessionsCache EXCEPT ![id] = None]
    /\ UNCHANGED <<sessions, users, created, now, up>>

Count(t) ==
    /\ At(t, "count")
    /\ IF sessions[task[t].id] = None THEN End(t) ELSE Continue(t, "delete")
    /\ UNCHANGED <<sessions, users, sessionsCache, created, now, up>>

(* Somebody else may have deleted the row after the count: then delete     *)
(* rejects, and validateSession has left nobody to handle that.            *)
Delete(t) ==
    LET id == task[t].id
    IN  /\ At(t, "delete")
        /\ \/ /\ sessions[id] # None
              /\ sessions' = [sessions EXCEPT ![id] = None]
              /\ RowWritten(id, t, None)
              /\ UNCHANGED <<users, sessionsCache, created, now, up>>
           \/ /\ sessions[id] = None
              /\ task[t].op = "revoke"
              /\ End(t)
              /\ UNCHANGED <<sessions, users, sessionsCache, created, now, up>>
           \/ /\ sessions[id] = None
              /\ task[t].op = "expire"
              /\ Die

(* deleteUser: the foreign key keeps a user that has sessions.  Its lookup *)
(* of the user is not awaited, and a failure of that reaches nobody.       *)
DeleteUser(u) ==
    /\ up
    /\ \/ /\ users[u] # None
          /\ \A id \in Ids : sessions[id] # None => sessions[id].userid # u
          /\ users' = [users EXCEPT ![u] = None]
          /\ UserWritten(u, None, None)
          /\ UNCHANGED <<sessions, sessionsCache, created, now, up>>
       \/ Die

(* The database fails to answer.  The loops try again where they await the *)
(* answer inside the try block (the failure then changes nothing, or the   *)
(* retrieval starts again); where they return the promise, the rejection   *)
(* goes to the request, and for an expired session to nobody.              *)
DatabaseFails(t) ==
    \/ /\ At(t, "findOne")
       /\ RetrieveAgain(t)
       /\ UNCHANGED <<sessions, users, sessionsCache, created, now, up>>
    \/ /\ task[t] # None
       /\ \/ task[t].pc \in {"findUser", "extend", "update"}
          \/ At(t, "create") /\ Handles(t, "createApiKey")
          \/ At(t, "delete") /\ Handles(t, "revoke")
       /\ End(t)
       /\ UNCHANGED <<sessions, users, sessionsCache, created, now, up>>
    \/ At(t, "delete") /\ Handles(t, "expire") /\ Die

-----------------------------------------------------------------------------
(* Time.  cleanSessionsCache runs every ten minutes, that is several times *)
(* in the unit of the clock, which is an hour or more.                     *)
Tick ==
    /\ up
    /\ now < MaxTime
    /\ now' = now + 1
    /\ sessionsCache' = [id \in Ids |->
          IF sessionsCache[id] # None /\ now' > sessionsCache[id].lastUsed + ExpireCache
          THEN None ELSE sessionsCache[id]]
    /\ UNCHANGED <<sessions, users, task, created, up>>

Answer(t) ==
    \/ FindUser(t) \/ CreateRow(t)
    \/ FindUnique(t) \/ FindOne(t) \/ Fill(t)
    \/ Extend(t) \/ Update(t) \/ Invalidate(t)
    \/ Count(t) \/ Delete(t)

Request(t) ==
    \/ \E id \in Ids, u \in Users :
          \/ BeginCreate(t, "createSession", id, u, NoScopes)
          \/ \E scopes \in Scopes : BeginCreate(t, "createApiKey", id, u, scopes)
          \/ \E scopes \in Scopes : Retrieve(t, "edit", id, u, scopes)
    \/ \E id \in Ids, op \in {"retrieve", "validate"} : Retrieve(t, op, id, None, NoScopes)
    \/ \E id \in Ids : RevokeSession(t, id)
    \/ \E u \in Users, isadmin \in BOOLEAN : SetAdmin(t, u, isadmin)

Next ==
    \/ Restart
    \/ Tick
    \/ \E u \in Users : DeleteUser(u)
    \/ \E t \in Tasks : Request(t) \/ Answer(t) \/ DatabaseFails(t)

Spec == Init /\ [][Next]_vars

(* The database answers, and not always with a failure.                    *)
FairSpec == Spec /\ \A t \in Tasks : SF_vars(Answer(t))

-----------------------------------------------------------------------------
(* Properties.                                                             *)

Cached(id) == sessionsCache[id] # None

(* revokeSession drops the entry before it deletes the row, so a fill can  *)
(* bring the entry back.  That takes a fill that overlaps the revocation:  *)
(* every other entry has a row, also of a session found expired.           *)
CachedSessionExists ==
    \A id \in Ids : Cached(id) /\ ~sessionsCache[id].overlapped => sessions[id] # None

(* Once an edit of the scopes has been answered, a request is checked      *)
(* against the new ones, unless its fill overlapped the edit: the entry is *)
(* dropped after the write, whatever was cached before it.                 *)
CachedScopesCurrent ==
    \A id \in Ids :
        /\ Cached(id)
        /\ ~sessionsCache[id].overlapped
        /\ ~\E t \in Tasks : At(t, "invalidate") /\ Handles(t, "edit") /\ task[t].id = id
        => sessionsCache[id].scopes = sessions[id].scopes

(* The same of isadmin, which the entry of every session of the user       *)
(* copies from another table.                                              *)
CachedRoleCurrent ==
    \A id \in Ids :
        /\ Cached(id)
        /\ ~sessionsCache[id].overlapped
        /\ ~\E t \in Tasks : /\ At(t, "invalidate")
                             /\ Handles(t, "setAdmin")
                             /\ task[t].userid = sessionsCache[id].userid
        => sessionsCache[id].isadmin = users[sessionsCache[id].userid]

(* An entry never says that a session ends before its row does, however    *)
(* extensions, refills and failed updates follow each other: a session is  *)
(* not revoked as expired while its row is good.                           *)
CachedExpiryNotEarlier ==
    \A id \in Ids : Cached(id) /\ ~sessionsCache[id].overlapped =>
        sessionsCache[id].expire >= sessions[id].expire

(* The user u logs in, and the session will have the id.                   *)
LoginOf(id, u) ==
    \E t \in Tasks : Handles(t, "createSession") /\ task[t].id = id /\ task[t].userid = u

(* The loop of createSession catches every error and has no other exit     *)
(* than success.  It ends, or the user was deleted under it, or the        *)
(* process went down.                                                      *)
LoginEnds ==
    \A id \in Ids, u \in Users :
        LoginOf(id, u) ~> (~LoginOf(id, u) \/ users[u] = None)

(* What a comment of the source says.                                      *)

(* 'Logout de un usuario': the session is not accepted once the request    *)
(* that revoked it has been answered.                                      *)
LogoutIsFinal ==
    \A id \in created :
        /\ sessions[id] = None
        /\ \A t \in Tasks : task[t] # None /\ task[t].id = id =>
              task[t].op \notin {"revoke", "expire"}
        => ~Cached(id)
=============================================================================
