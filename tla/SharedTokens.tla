------------------------------ MODULE SharedTokens ------------------------------
(***************************************************************************)
(* The links (tokens) under which users share files: the table Sharedfile, *)
(* the caches of TokenFilesService in front of it, the requests of visitors*)
(* and owners, and the moves and removals of files that change links.      *)
(*                                                                         *)
(* A request is a task.  At each of its awaits it has asked the database   *)
(* or the disk something; the action named after the question is the answer*)
(* in which it takes effect.  Where the answer goes into a cache, that is  *)
(* an action of its own: other tasks come in between.                      *)
(***************************************************************************)
EXTENDS Integers, FiniteSets

CONSTANTS
    Ids,        \* ids of links: a client may choose one
    Users,
    Paths,      \* what a user calls a file or folder of theirs
    Folders,
    Files,      \* the paths every user has on the disk at first
    Starts,     \* [Paths -> SUBSET Paths]: the strings that start with this one
    Inside,     \* [Paths -> SUBSET Paths]: the path and what is in that folder
    Replaced,   \* [Paths \X Paths \X Paths -> Paths]: q.replace(old, new)
    OwnId,      \* [Ids -> Ids]: the user's name in front of an id
    Moves,      \* the pairs <<old, new>> clients ask for, both folders or neither
    Workloads,  \* what the clients of a run send, and until when (a bound)
    Group,      \* links on a page
    CacheLife,  \* TOKEN_CACHE_EXPIRE
    MaxTime,    \* bound on the clock; a link that expires then does not expire
    Tasks,      \* slots for the requests at work at a time (a bound)
    None

ASSUME SharedTokensAssumption ==
    /\ IsFiniteSet(Ids) /\ Ids # {}
    /\ Folders \subseteq Paths /\ Files \subseteq Paths
    /\ Starts \in [Paths -> SUBSET Paths] /\ Inside \in [Paths -> SUBSET Paths]
    /\ Replaced \in [Paths \X Paths \X Paths -> Paths]
    /\ OwnId \in [Ids -> Ids]
    /\ \A p \in Paths : p \in Inside[p] /\ Inside[p] \subseteq Starts[p]
    /\ Moves \subseteq Paths \X Paths
    /\ \A m \in Moves : /\ m[1] \in Folders <=> m[2] \in Folders
                      /\ Replaced[<<m[1], m[1], m[2]>>] = m[2]
    /\ Group \in Nat \ {0} /\ CacheLife \in Nat /\ MaxTime \in Nat

(* deleteToken, behind a guard, and deleteTokens, which compares the owner *)
(* itself, are the same here, and both are "delete".                       *)
Kinds == {"share", "info", "content", "delete", "update", "list", "pages", "unshare",
          "deleteFile", "move", "rename"}

Settings == [public : BOOLEAN, expire : 0 .. MaxTime]

ASSUME WorkloadsAssumption ==
    Workloads \subseteq [kinds : SUBSET Kinds, users : SUBSET Users, movers : SUBSET Users,
                         moves : SUBSET Moves, ids : SUBSET Ids, paths : SUBSET Files,
                         settings : SUBSET Settings, until : 0 .. MaxTime]

Pages == 0 .. Cardinality(Ids) - 1

VARIABLES
    workload,
    sharedfile,           \* the table
    cacheTokens, tokensPagesCache, tokensTotalPagesCache,
    disk,                 \* the pairs <<user, path>> that exist
    task,
    now,
    up,
    file                  \* where the file of a link is; None if the server lost it

(* file is no part of the code.                                            *)
caches == <<cacheTokens, tokensPagesCache, tokensTotalPagesCache>>
vars == <<workload, sharedfile, caches, disk, task, now, up, file>>

Row == [userid : Users, path : Paths, public : BOOLEAN, expire : 0 .. MaxTime]

(* overlapped is no part of the code: what the entry holds was written, or *)
(* about to be, while the entry was being filled.                          *)
Entry == [data : Row \cup {None}, lastUsed : Nat, overlapped : BOOLEAN]
Page == [tokens : SUBSET Ids, lastUsed : Nat, overlapped : BOOLEAN]
Total == [pages : Nat, overlapped : BOOLEAN]

(* row is what the task has read, settings what it is to write, page the   *)
(* page it asks for, tokens what it has read for that, to the target of a  *)
(* move and todo the links it still has to update.  stale is no part of the*)
(* code: what the task goes by has been written since.                     *)
Task == [op : Kinds,
         pc : {"count", "create", "findUnique", "fill", "exists", "remove", "update",
               "findMany", "fillPage", "deleteMany", "rm", "rename", "updateMany",
               "findStarts", "updateEach"},
         user : Users \cup {None}, id : Ids \cup {None}, row : Row \cup {None},
         settings : Settings \cup {None}, path : Paths \cup {None}, to : Paths \cup {None},
         page : Pages, tokens : SUBSET Ids, todo : SUBSET (Ids \X Paths), stale : BOOLEAN]

ASSUME NoneAssumption ==
    None \notin Row \cup Entry \cup Page \cup Total \cup Task \cup Ids \cup Users \cup Paths

TypeOK ==
    /\ workload \in Workloads
    /\ sharedfile \in [Ids -> Row \cup {None}]
    /\ cacheTokens \in [Ids -> Entry \cup {None}]
    /\ tokensPagesCache \in [Pages -> Page \cup {None}]
    /\ tokensTotalPagesCache \in Total \cup {None}
    /\ disk \subseteq Users \X Paths
    /\ task \in [Tasks -> Task \cup {None}]
    /\ now \in 0 .. MaxTime
    /\ up \in BOOLEAN
    /\ file \in [Ids -> Paths \cup {None}]

EmptyCaches ==
    /\ cacheTokens = [id \in Ids |-> None]
    /\ tokensPagesCache = [p \in Pages |-> None]
    /\ tokensTotalPagesCache = None

Init ==
    /\ workload \in Workloads
    /\ sharedfile = [id \in Ids |-> None]
    /\ EmptyCaches
    /\ disk = Users \X Files
    /\ task = [t \in Tasks |-> None]
    /\ now = 0
    /\ up = TRUE
    /\ file = [id \in Ids |-> None]

-----------------------------------------------------------------------------
(* Tasks.                                                                  *)

At(t, pc) == task[t] # None /\ task[t].pc = pc

NewTask(op, pc) ==
    [op |-> op, pc |-> pc, user |-> None, id |-> None, row |-> None, settings |-> None,
     path |-> None, to |-> None, page |-> 0, tokens |-> {}, todo |-> {}, stale |-> FALSE]

Free(t, op) == up /\ op \in workload.kinds /\ task[t] = None

Goes(t, next) == task' = [task EXCEPT ![t] = next]
Continue(t, pc) == Goes(t, [task[t] EXCEPT !.pc = pc])
End(t) == Goes(t, None)

(* The rows of ids are written, while t goes on as next.                   *)
Written(ids, t, next) ==
    task' = [s \in Tasks |->
        IF s = t THEN next
        ELSE IF /\ task[s] # None
                /\ \/ task[s].id \in ids /\ task[s].pc \in {"fill", "exists", "remove", "update"}
                   \/ task[s].pc = "fillPage" /\ ids # {}
             THEN [task[s] EXCEPT !.stale = TRUE]
             ELSE task[s]]

(* Somebody has dropped the caches and not yet written the link, or a link.*)
WritesAll(s) ==
    task[s] # None /\ task[s].pc \in {"deleteMany", "updateMany", "findStarts", "updateEach"}

Writing(id) ==
    \E s \in Tasks : \/ WritesAll(s)
                     \/ /\ task[s] # None
                        /\ task[s].id = id
                        /\ task[s].pc \in {"create", "remove", "update"}

(* The moves that the links of u do not all follow yet.                    *)
Moving(s) == task[s] # None /\ task[s].op \in {"move", "rename"}

(* invalidateAllCache and invalidatePagesCache.                            *)
InvalidatePagesCache ==
    /\ tokensPagesCache' = [p \in Pages |-> None]
    /\ tokensTotalPagesCache' = None

(* Mutants: invalidateAllCache forgets the lists, or the links.            *)
InvalidateTokens ==
    /\ cacheTokens' = [id \in Ids |-> None]
    /\ UNCHANGED <<tokensPagesCache, tokensTotalPagesCache>>

InvalidateLists == InvalidatePagesCache /\ UNCHANGED cacheTokens

InvalidateAllCache ==
    /\ cacheTokens' = [id \in Ids |-> None]
    /\ InvalidatePagesCache

Lost(ids) == [id \in Ids |-> IF id \in ids THEN None ELSE file[id]]

(* A rejection nobody handles ends the process: a move that is half done is*)
(* never finished.                                                         *)
Die ==
    /\ up' = FALSE
    /\ InvalidateAllCache
    /\ task' = [t \in Tasks |-> None]
    /\ file' = IF \E s \in Tasks : Moving(s) THEN Lost(Ids) ELSE file
    /\ UNCHANGED <<workload, sharedfile, disk, now>>

Restart ==
    /\ ~up
    /\ up' = TRUE
    /\ UNCHANGED <<workload, sharedfile, caches, disk, task, now, file>>

-----------------------------------------------------------------------------
(* share and shareFiles, once the disk has said that the file is there.    *)

Share(t, u, id, path, settings) ==
    /\ Free(t, "share")
    /\ <<u, path>> \in disk
    /\ Goes(t, [NewTask("share", "count") EXCEPT !.user = u, !.id = id, !.path = path,
                                                !.settings = settings])
    /\ UNCHANGED <<workload, sharedfile, caches, disk, now, up, file>>

(* Mutant: the lists are left as they are.                                 *)
ListsKept(settings) == UNCHANGED caches

(* addSharedFile, up to its await.                                         *)
ListsDropped(settings) ==
    /\ IF settings.public THEN InvalidatePagesCache
                          ELSE UNCHANGED <<tokensPagesCache, tokensTotalPagesCache>>
    /\ UNCHANGED cacheTokens

(* existsTokenById: an id that is taken gets the user's name in front.     *)
Count(t) ==
    /\ At(t, "count")
    /\ Goes(t, [task[t] EXCEPT !.pc = "create",
                               !.id = IF sharedfile[@] = None THEN @ ELSE OwnId[@]])
    /\ ListsDropped(task[t].settings)
    /\ UNCHANGED <<workload, sharedfile, disk, now, up, file>>

(* The loops of addSharedFile, updateSF and updatePathTokens have no exit  *)
(* but success: a write that fails is tried again.                         *)
Create(t) ==
    LET id == task[t].id
        row == [userid |-> task[t].user, path |-> task[t].path,
                public |-> task[t].settings.public, expire |-> task[t].settings.expire]
    IN  /\ At(t, "create")
        /\ \/ sharedfile[id] # None /\ UNCHANGED vars
           \/ /\ sharedfile[id] = None
              /\ sharedfile' = [sharedfile EXCEPT ![id] = row]
              /\ Written({id}, t, None)
              /\ file' = [file EXCEPT ![id] =
                     IF \/ <<row.userid, row.path>> \notin disk
                        \/ \E s \in Tasks : Moving(s)
                     THEN None ELSE row.path]
              /\ UNCHANGED <<workload, caches, disk, now, up>>

-----------------------------------------------------------------------------
(* getSharedFileByID and what its callers do with the answer.              *)

Expired(row) == now > row.expire

ForOwner == {"delete", "update"}

(* Mutant: nobody looks who owns the link.                                 *)
AdmittedWithoutOwner(op, u, row) ==
    row # None /\ (op \notin ForOwner => ~Expired(row))

(* ExpireGuard and OwnerShipGuard.                                         *)
Admitted(op, u, row) ==
    row # None /\ IF op \in ForOwner THEN row.userid = u ELSE ~Expired(row)

HandlerPc(op) ==
    CASE op = "info" -> "exists"
      [] op = "update" -> "update"
      [] OTHER -> "remove"

(* Task t, at cur, has got entry, and cache is cacheTokens with it.  Behind*)
(* a guard the handler asks again, and has the same entry in the same turn.*)
(* The removal and the update drop all caches, and write afterwards.       *)
WithToken(t, cur, entry, cache) ==
    LET goesOn == Admitted(cur.op, cur.user, entry.data) /\ cur.op # "content"
    IN  /\ Goes(t, IF goesOn
                   THEN [cur EXCEPT !.pc = HandlerPc(cur.op), !.row = entry.data,
                            !.stale = entry.overlapped]
                   ELSE None)
        /\ IF goesOn /\ cur.op \in ForOwner
           THEN InvalidateAllCache
           ELSE cacheTokens' = cache /\ UNCHANGED <<tokensPagesCache, tokensTotalPagesCache>>

Lookup(t, op, u, id, settings) ==
    LET new == [NewTask(op, "findUnique") EXCEPT !.user = u, !.id = id, !.settings = settings]
    IN  /\ Free(t, op)
        /\ IF cacheTokens[id] # None
           THEN WithToken(t, new, cacheTokens[id], [cacheTokens EXCEPT ![id].lastUsed = now])
           ELSE Goes(t, new) /\ UNCHANGED caches
        /\ UNCHANGED <<workload, sharedfile, disk, now, up, file>>

FindUnique(t) ==
    /\ At(t, "findUnique")
    /\ Goes(t, [task[t] EXCEPT !.pc = "fill", !.row = sharedfile[task[t].id]])
    /\ UNCHANGED <<workload, sharedfile, caches, disk, now, up, file>>

(* The answer goes into the cache, also when there is no such link.        *)
Fill(t) ==
    LET entry == [data |-> task[t].row, lastUsed |-> now,
                  overlapped |-> task[t].stale \/ Writing(task[t].id)]
    IN  /\ At(t, "fill")
        /\ WithToken(t, task[t], entry, [cacheTokens EXCEPT ![task[t].id] = entry])
        /\ UNCHANGED <<workload, sharedfile, disk, now, up, file>>

-----------------------------------------------------------------------------
(* The removals and updates of one link.                                   *)

(* getSFInfo: a link without its file is removed, for the visitor to whom  *)
(* it is then answered that it is not found.                               *)
Exists(t) ==
    /\ At(t, "exists")
    /\ IF <<task[t].row.userid, task[t].row.path>> \notin disk
       THEN Continue(t, "remove") /\ InvalidateAllCache
       ELSE End(t) /\ UNCHANGED caches
    /\ UNCHANGED <<workload, sharedfile, disk, now, up, file>>

(* Mutant: deleteToken does not await the removal either.                  *)
UnheardRemoval(op) == op \in {"info", "delete"}

(* The promise of delete leaves the try block before it rejects, because   *)
(* the link is gone or for any reason the database has, so the loop and the*)
(* catch of P2025 are never reached; getSFInfo does not await it either.   *)
Unheard(op) == op = "info"

Remove(t) ==
    LET id == task[t].id
    IN  /\ At(t, "remove")
        /\ \/ /\ sharedfile[id] # None
              /\ sharedfile' = [sharedfile EXCEPT ![id] = None]
              /\ file' = Lost({id})
              /\ Written({id}, t, None)
              /\ UNCHANGED <<workload, caches, disk, now, up>>
           \/ /\ ~Unheard(task[t].op)
              /\ End(t)
              /\ UNCHANGED <<workload, sharedfile, caches, disk, now, up, file>>
           \/ Unheard(task[t].op) /\ Die

Update(t) ==
    LET id == task[t].id
    IN  /\ At(t, "update")
        /\ \/ sharedfile[id] = None /\ UNCHANGED vars
           \/ /\ sharedfile[id] # None
              /\ sharedfile' = [sharedfile EXCEPT ![id].public = task[t].settings.public,
                                                  ![id].expire = task[t].settings.expire]
              /\ Written({id}, t, None)
              /\ UNCHANGED <<workload, caches, disk, now, up, file>>

(* removeTokensByPath, and the end of deleteFile for a folder, which nobody*)
(* waits for: the links to the path itself, not those to what was in it.   *)
Unshare(t, u, path) ==
    /\ Free(t, "unshare")
    /\ Goes(t, [NewTask("unshare", "deleteMany") EXCEPT !.user = u, !.path = path])
    /\ InvalidateAllCache
    /\ UNCHANGED <<workload, sharedfile, disk, now, up, file>>

DeleteMany(t) ==
    LET gone == {id \in Ids : /\ sharedfile[id] # None
                              /\ sharedfile[id].path = task[t].path
                              /\ sharedfile[id].userid = task[t].user}
    IN  /\ At(t, "deleteMany")
        /\ sharedfile' = [id \in Ids |-> IF id \in gone THEN None ELSE sharedfile[id]]
        /\ file' = Lost(gone)
        /\ Written(gone, t, None)
        /\ UNCHANGED <<workload, caches, disk, now, up>>

-----------------------------------------------------------------------------
(* The disk.                                                               *)

(* The links to the files of u at paths: of those that are not gone.       *)
LinksTo(u, paths) ==
    {id \in Ids : sharedfile[id] # None /\ sharedfile[id].userid = u /\ file[id] \in paths}

(* deleteFile.  The links to a file that is not a folder are left.         *)
DeleteFile(t, u, path) ==
    /\ Free(t, "deleteFile")
    /\ <<u, path>> \in disk
    /\ Goes(t, [NewTask("deleteFile", "rm") EXCEPT !.user = u, !.path = path])
    /\ UNCHANGED <<workload, sharedfile, caches, disk, now, up, file>>

Rm(t) ==
    LET u == task[t].user
        path == task[t].path
    IN  /\ At(t, "rm")
        /\ disk' = disk \ ({u} \X Inside[path])
        /\ IF <<u, path>> \in disk /\ path \in Folders
           THEN Continue(t, "deleteMany") /\ InvalidateAllCache
           ELSE End(t) /\ UNCHANGED caches
        /\ file' = Lost(LinksTo(u, Inside[path]))
        /\ UNCHANGED <<workload, sharedfile, now, up>>

(* moveFileFolder, once the disk has said that the new path is free, and   *)
(* renameFile, which does not ask.                                         *)
Move(t, op, u, path, to) ==
    /\ Free(t, op)
    /\ op = "move" => <<u, to>> \notin disk
    /\ Goes(t, [NewTask(op, "rename") EXCEPT !.user = u, !.path = path, !.to = to])
    /\ UNCHANGED <<workload, sharedfile, caches, disk, now, up, file>>

(* The disk moves no folder into itself or over one that is not empty; it  *)
(* moves a file over another, and the links to that one lead to this one.  *)
Movable(u, path, to) ==
    /\ <<u, path>> \in disk
    /\ to \notin Inside[path]
    /\ \A q \in Inside[to] \ {to} : <<u, q>> \notin disk

(* renameFile leaves the links behind; and two moves at a time confuse each*)
(* other's links.  A visitor that looks for a file of u may miss it.       *)
Rename(t) ==
    LET u == task[t].user
        path == task[t].path
        to == task[t].to
        moved == {q \in Inside[path] : <<u, q>> \in disk}
        links == LinksTo(u, moved)
        next == IF task[t].op = "move" THEN [task[t] EXCEPT !.pc = "updateMany"] ELSE None
    IN  /\ At(t, "rename")
        /\ \/ /\ Movable(u, path, to)
              /\ disk' = (disk \ ({u} \X moved)) \cup
                         {<<u, Replaced[q, path, to]>> : q \in moved}
              /\ task' = [s \in Tasks |->
                     IF s = t THEN next
                     ELSE IF (At(s, "exists") \/ At(s, "remove")) /\ task[s].row # None
                             /\ task[s].row.userid = u
                          THEN [task[s] EXCEPT !.stale = TRUE] ELSE task[s]]
              /\ IF task[t].op = "move" THEN InvalidateAllCache ELSE UNCHANGED caches
              /\ file' = IF \E s \in Tasks \ {t} : Moving(s) THEN Lost(Ids)
                         ELSE IF task[t].op = "rename" THEN Lost(links \cup LinksTo(u, {to}))
                         ELSE [id \in Ids |->
                                 CASE id \in LinksTo(u, {to}) -> None
                                   [] id \in links -> Replaced[file[id], path, to]
                                   [] OTHER -> file[id]]
           \/ /\ ~Movable(u, path, to)
              /\ End(t)
              /\ UNCHANGED <<caches, disk, file>>
        /\ UNCHANGED <<workload, sharedfile, now, up>>

(* A query of updatePathTokens rejects: the request ends there, with the   *)
(* links it has not updated left behind.                                   *)
QueryFails(t) ==
    /\ End(t)
    /\ file' = Lost({id \in Ids : sharedfile[id] # None /\ sharedfile[id].path # file[id]})
    /\ UNCHANGED <<workload, sharedfile, caches, disk, now, up>>

(* updatePathTokens: first the links to the path, whoever's they are.      *)
UpdateMany(t) ==
    LET ids == {id \in Ids : sharedfile[id] # None /\ sharedfile[id].path = task[t].path}
    IN  /\ At(t, "updateMany")
        /\ \/ QueryFails(t)
           \/ /\ sharedfile' = [id \in Ids |->
                     IF id \in ids THEN [sharedfile[id] EXCEPT !.path = task[t].to]
                                   ELSE sharedfile[id]]
              /\ Written(ids, t, [task[t] EXCEPT !.pc = "findStarts"])
              /\ file' = Lost({id \in ids : sharedfile[id].userid # task[t].user})
              /\ UNCHANGED <<workload, caches, disk, now, up>>

(* Mutant: the links to what is in the folder are left.                    *)
ToRewriteExact(t) ==
    {id \in Ids : sharedfile[id] # None /\ sharedfile[id].path = task[t].path}

(* Then those whose path starts with the old one as a string: those of     *)
(* other users too, those to another file whose name goes on after it, and,*)
(* if the new path starts with the old one, those that were just updated.  *)
ToRewrite(t) ==
    {id \in Ids : sharedfile[id] # None /\ sharedfile[id].path \in Starts[task[t].path]}

FindStarts(t) ==
    LET ids == ToRewrite(t)
        todo == {<<id, Replaced[sharedfile[id].path, task[t].path, task[t].to]>> : id \in ids}
    IN  /\ At(t, "findStarts")
        /\ \/ QueryFails(t)
           \/ /\ Goes(t, IF todo = {} THEN None
                         ELSE [task[t] EXCEPT !.pc = "updateEach", !.todo = todo])
              /\ file' = Lost({id \in ids : \/ sharedfile[id].userid # task[t].user
                                            \/ sharedfile[id].path \notin Inside[task[t].path]})
              /\ UNCHANGED <<workload, sharedfile, caches, disk, now, up>>

(* Each update is on its own, and is tried again while the link is gone.   *)
UpdateEach(t) ==
    /\ At(t, "updateEach")
    /\ \E do \in task[t].todo :
          LET id == do[1]
              rest == task[t].todo \ {do}
          IN  \/ sharedfile[id] = None /\ UNCHANGED vars
              \/ /\ sharedfile[id] # None
                 /\ sharedfile' = [sharedfile EXCEPT ![id].path = do[2]]
                 /\ Written({id}, t, IF rest = {} THEN None ELSE [task[t] EXCEPT !.todo = rest])
                 /\ UNCHANGED <<workload, caches, disk, now, up, file>>

-----------------------------------------------------------------------------
(* getSharedFiles and getCountSharedPages: the lists of public links.      *)

Listed == {id \in Ids : /\ sharedfile[id] # None
                        /\ sharedfile[id].public
                        /\ ~Expired(sharedfile[id])}

List(t, op, page) ==
    /\ Free(t, op)
    /\ \/ /\ op = "list" /\ tokensPagesCache[page] # None
          /\ tokensPagesCache' = [tokensPagesCache EXCEPT ![page].lastUsed = now]
          /\ UNCHANGED <<cacheTokens, tokensTotalPagesCache, task>>
       \/ /\ IF op = "list" THEN tokensPagesCache[page] = None ELSE tokensTotalPagesCache = None
          /\ Goes(t, [NewTask(op, "findMany") EXCEPT !.page = page])
          /\ UNCHANGED caches
    /\ UNCHANGED <<workload, sharedfile, disk, now, up, file>>

(* Nothing says in which order the database lists the links, so a page is  *)
(* any of them.                                                            *)
FindMany(t) ==
    LET left == Cardinality(Listed) - task[t].page * Group
        size == IF left < 0 THEN 0 ELSE IF left < Group THEN left ELSE Group
    IN  /\ At(t, "findMany")
        /\ \E tokens \in SUBSET Listed :
              /\ IF task[t].op = "pages" THEN tokens = Listed ELSE Cardinality(tokens) = size
              /\ Goes(t, [task[t] EXCEPT !.pc = "fillPage", !.tokens = tokens])
        /\ UNCHANGED <<workload, sharedfile, caches, disk, now, up, file>>

(* Mutant: the last page is not counted.                                   *)
FullPages(a, b) == (a - b) \div b

Ceil(a, b) == (a + b - 1) \div b

FillPage(t) ==
    LET overlapped == task[t].stale \/ \E id \in Ids : Writing(id)
    IN  /\ At(t, "fillPage")
        /\ IF task[t].op = "pages"
           THEN /\ tokensTotalPagesCache' =
                      [pages |-> Ceil(Cardinality(task[t].tokens), Group), overlapped |-> overlapped]
                /\ UNCHANGED tokensPagesCache
           ELSE /\ tokensPagesCache' = [tokensPagesCache EXCEPT ![task[t].page] =
                      [tokens |-> task[t].tokens, lastUsed |-> now, overlapped |-> overlapped]]
                /\ UNCHANGED tokensTotalPagesCache
        /\ End(t)
        /\ UNCHANGED <<workload, sharedfile, cacheTokens, disk, now, up, file>>

-----------------------------------------------------------------------------
(* cleanCache runs every ten minutes, several times in the unit of the     *)
(* clock; it never drops the number of pages.  The lists ask for the time  *)
(* when they ask the database, which answers within the unit.              *)
Tick ==
    LET Kept(entry) == entry # None /\ now + 1 <= entry.lastUsed + CacheLife
    IN  /\ up /\ now < workload.until
        /\ \A t \in Tasks : ~At(t, "findMany")
        /\ now' = now + 1
        /\ cacheTokens' = [id \in Ids |-> IF Kept(cacheTokens[id]) THEN cacheTokens[id] ELSE None]
        /\ tokensPagesCache' = [p \in Pages |-> IF Kept(tokensPagesCache[p])
                                                 THEN tokensPagesCache[p] ELSE None]
        /\ UNCHANGED <<workload, sharedfile, tokensTotalPagesCache, disk, task, up, file>>

Answer(t) ==
    \/ Count(t) \/ Create(t) \/ FindUnique(t) \/ Fill(t) \/ Exists(t) \/ Remove(t) \/ Update(t)
    \/ DeleteMany(t) \/ Rm(t) \/ Rename(t) \/ UpdateMany(t) \/ FindStarts(t) \/ UpdateEach(t)
    \/ FindMany(t) \/ FillPage(t)

Request(t) ==
    \/ \E u \in workload.users, id \in workload.ids :
          \/ Lookup(t, "delete", u, id, None)
          \/ \E settings \in workload.settings :
                \/ \E path \in workload.paths : Share(t, u, id, path, settings)
                \/ Lookup(t, "update", u, id, settings)
    \/ \E id \in workload.ids, op \in {"info", "content"} : Lookup(t, op, None, id, None)
    \/ \E u \in workload.users, path \in workload.paths : Unshare(t, u, path)
    \/ \E u \in workload.movers, path \in workload.paths : DeleteFile(t, u, path)
    \/ \E u \in workload.movers, m \in workload.moves, op \in {"move", "rename"} :
          Move(t, op, u, m[1], m[2])
    \/ \E page \in Pages : List(t, "list", page)
    \/ List(t, "pages", 0)

Next ==
    \/ Restart
    \/ Tick
    \/ \E t \in Tasks : Request(t) \/ Answer(t)

Spec == Init /\ [][Next]_vars

-----------------------------------------------------------------------------
(* Properties.                                                             *)

(* The caches are dropped before a write, so a fill can bring back what is *)
(* being written.  Every other cached link is the link of the table: the   *)
(* guards do not let a visitor in by settings, or an owner by a name, that *)
(* have been changed.                                                      *)
CachedTokenCurrent ==
    \A id \in Ids :
        LET entry == cacheTokens[id]
        IN  entry # None /\ ~entry.overlapped /\ entry.data # None => sharedfile[id] = entry.data

(* A link that was removed or made private is not listed any more, unless  *)
(* the list was filled during the write.                                   *)
ListedIsPublic ==
    \A p \in Pages :
        LET list == tokensPagesCache[p]
        IN  list # None /\ ~list.overlapped =>
                \A id \in list.tokens : sharedfile[id] # None /\ sharedfile[id].public

(* The number of pages is kept until the next write, however long that is: *)
(* it may count links that have expired, but no public link is out of the  *)
(* reach of somebody who goes through all the pages.                       *)
PagesReachAll ==
    LET total == tokensTotalPagesCache
    IN  total # None /\ ~total.overlapped => total.pages * Group >= Cardinality(Listed)

(* A link changes hands or settings, or goes while its file is there, only *)
(* because its owner asked for it; or through a request that had found a   *)
(* link or file which was changed under it, or whose fill overlapped a     *)
(* write: a visitor during a move, or an id that was given out again.      *)
LinksEndForAReason ==
    [][\A id \in Ids :
        LET row == sharedfile[id]
            changed == sharedfile'[id] = None \/ sharedfile'[id].userid # row.userid
                       \/ sharedfile'[id].public # row.public
        IN  /\ row # None
            /\ changed
            /\ <<row.userid, row.path>> \in disk
            => \E t \in Tasks :
                  /\ task[t] # None /\ task'[t] = None
                  /\ task[t].stale \/ task[t].user = row.userid]_vars

(* The removal for a visitor whose file is not there is not awaited: if it *)
(* rejects, as for the second of two visitors, or because the database does*)
(* not answer, the process ends.  No request of an owner ends it, whatever *)
(* others did to the link meanwhile, and no visit of a link that nobody    *)
(* touches and whose file is there.                                        *)
OnlyVisitorsRemovalsEndTheProcess ==
    [][up /\ ~up' => \E t \in Tasks :
          /\ At(t, "remove")
          /\ task[t].op = "info"
          /\ task[t].stale \/ <<task[t].row.userid, task[t].row.path>> \notin disk]_vars

(* After a move every link of the mover leads to the file it was made for, *)
(* in the folder too, unless the file was overwritten by another, or the   *)
(* link was left out by renameFile or after a failing query, taken along by*)
(* another user's move, or by that of a name its own name starts with, or  *)
(* made or moved during a move.                                            *)
LinksFollowFiles ==
    \A id \in Ids :
        /\ sharedfile[id] # None
        /\ file[id] # None
        /\ \A t \in Tasks : ~Moving(t)
        => sharedfile[id].path = file[id]
=============================================================================
