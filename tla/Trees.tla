-------------------------------- MODULE Trees --------------------------------
(***************************************************************************)
(* The stored tree of each user: the walks of the disk that refresh it, the*)
(* schedule of the users whose tree is due, and the ways a refresh fails.  *)
(*                                                                         *)
(* A tree is a version number: that of the user's files when the walk read *)
(* them.  A walk reads file by file; what is said here of the tree is said *)
(* of each file in it.  Compressing a tree takes an await and changes      *)
(* nothing.                                                                *)
(***************************************************************************)
EXTENDS Integers

CONSTANTS
    Users,
    MaxVersion,  \* [Users -> Nat], a bound on the changes of a user's files
    Tasks,       \* slots for refreshes at work (a bound)
    Database, None

VARIABLES
    files,      \* [Users -> Nat \cup {None}]: the version; None: no directory
    tree,       \* the table Tree
    userIndexUpdateScheduled,
    updating,   \* of AdminService: updateAllTrees is at work
    refresh,
    alive,
    culprit,    \* the refresh that ended the process, or Database if it refused
    failed      \* users whose scheduled refresh failed since they were scheduled

(* culprit and failed are no part of the code.                             *)
treeVars == <<files, tree, userIndexUpdateScheduled, updating, refresh, alive, culprit, failed>>

(* Versions of the files of any user.                                     *)
Versions == UNION {0 .. MaxVersion[u] : u \in Users}

(* Who refreshes: the cron job updateIndexes, updateUsersTrees, createFolder*)
(* after a new folder, PATCH /files/tree, or a GetTreeC that found none.   *)
Kinds == {"indexes", "all", "folder", "patch", "get"}

(* left are the users updateAllTrees has still to go to, version is what   *)
(* the walk has read, torn says that files vanished during the walk.  first*)
(* is no part of the code: the user had no stored tree, or no directory,   *)
(* when the refresh began.                                                 *)
Refresh == [kind : Kinds, pc : {"walk", "findUnique", "update", "create"}, user : Users,
            left : SUBSET Users, version : Versions, torn : BOOLEAN, first : BOOLEAN]

ASSUME TreesAssumption ==
    /\ MaxVersion \in [Users -> Nat]
    /\ None \notin Nat /\ None \notin Users /\ {None, Database} \cap Refresh = {}
    /\ None # Database

TypeOK ==
    /\ files \in [Users -> Versions \cup {None}]
    /\ tree \in [Users -> Versions \cup {None}]
    /\ userIndexUpdateScheduled \subseteq Users
    /\ updating \in BOOLEAN
    /\ refresh \in [Tasks -> Refresh \cup {None}]
    /\ alive \in BOOLEAN
    /\ culprit \in Refresh \cup {Database, None}
    /\ failed \subseteq Users

Init ==
    /\ files = [u \in Users |-> None]
    /\ tree = [u \in Users |-> None]
    /\ userIndexUpdateScheduled = {}
    /\ updating = FALSE
    /\ refresh = [t \in Tasks |-> None]
    /\ alive = TRUE
    /\ culprit = None
    /\ failed = {}

NewRefresh(kind, u, left) ==
    [kind |-> kind, pc |-> "walk", user |-> u, left |-> left, version |-> 0, torn |-> FALSE,
     first |-> tree[u] = None \/ files[u] = None]

At(t, pc) == refresh[t] # None /\ refresh[t].pc = pc

Free(t) == alive /\ refresh[t] = None

-----------------------------------------------------------------------------
(* Changes of the files.                                                   *)

(* createFolder, also of the user's directory when the user registers.     *)
CreateFolder(t, u) ==
    /\ Free(t)
    /\ files[u] # None => files[u] < MaxVersion[u]
    /\ files' = [files EXCEPT ![u] = IF @ = None THEN 0 ELSE @ + 1]
    /\ refresh' = [refresh EXCEPT ![t] = NewRefresh("folder", u, {})]
    /\ UNCHANGED <<tree, userIndexUpdateScheduled, updating, alive, culprit, failed>>

(* createFile, moves, renames and the end of an upload put the user on the *)
(* schedule; deleteFile and the first bytes of an upload do not.  Moves,   *)
(* renames and deleteFile take files away under a walk.                    *)
ChangeFile(u, schedules, removes) ==
    /\ alive
    /\ files[u] # None
    /\ files[u] < MaxVersion[u]
    /\ files' = [files EXCEPT ![u] = @ + 1]
    /\ userIndexUpdateScheduled' =
           IF schedules THEN userIndexUpdateScheduled \cup {u} ELSE userIndexUpdateScheduled
    /\ failed' = IF schedules THEN failed \ {u} ELSE failed
    /\ refresh' = [t \in Tasks |->
           IF removes /\ At(t, "walk") /\ refresh[t].user = u
           THEN [refresh[t] EXCEPT !.torn = TRUE] ELSE refresh[t]]
    /\ UNCHANGED <<tree, updating, alive, culprit>>

-----------------------------------------------------------------------------
(* Refreshes.                                                              *)

(* The cron job takes one user after the other.  A job that is still at    *)
(* work does not keep the next from starting.                              *)
Pop(t, u) ==
    /\ u \in userIndexUpdateScheduled
    /\ userIndexUpdateScheduled' = userIndexUpdateScheduled \ {u}
    /\ refresh' = [refresh EXCEPT ![t] = NewRefresh("indexes", u, {})]

UpdateIndexes(t) ==
    /\ Free(t)
    /\ \E u \in Users : Pop(t, u)
    /\ UNCHANGED <<files, tree, updating, alive, culprit, failed>>

(* If the database does not list the users, updating stays, here too.      *)
UpdateUsersTrees(t) ==
    /\ Free(t)
    /\ ~updating
    /\ updating' = TRUE
    /\ \/ \E u \in Users : refresh' = [refresh EXCEPT ![t] = NewRefresh("all", u, Users \ {u})]
       \/ UNCHANGED refresh
    /\ UNCHANGED <<files, tree, userIndexUpdateScheduled, alive, culprit, failed>>

(* PATCH /files/tree, and a GetTreeC that found no tree.                   *)
RefreshOne(t, kind, u) ==
    /\ Free(t)
    /\ kind = "get" => tree[u] = None
    /\ refresh' = [refresh EXCEPT ![t] = NewRefresh(kind, u, {})]
    /\ UNCHANGED <<files, tree, userIndexUpdateScheduled, updating, alive, culprit, failed>>

(* Refresh t is done with its user; the two loops go on to the next.       *)
Ends(t) ==
    LET cur == refresh[t]
    IN  \/ /\ cur.kind = "indexes" /\ userIndexUpdateScheduled # {}
           /\ \E u \in Users : Pop(t, u)
           /\ UNCHANGED updating
        \/ /\ cur.kind = "all" /\ cur.left # {}
           /\ \E u \in cur.left :
                 refresh' = [refresh EXCEPT ![t] = NewRefresh("all", u, cur.left \ {u})]
           /\ UNCHANGED <<userIndexUpdateScheduled, updating>>
        \/ /\ cur.kind = "indexes" => userIndexUpdateScheduled = {}
           /\ cur.kind = "all" => cur.left = {}
           /\ refresh' = [refresh EXCEPT ![t] = None]
           /\ updating' = (updating /\ cur.kind # "all")
           /\ UNCHANGED userIndexUpdateScheduled

(* Nobody awaits these, and nobody catches: createFolder's then has no     *)
(* catch; setTreeCache is on its own in GetTreeC, the walk before it is not.*)
Unheard(kind, walked) == kind \in {"folder", "patch"} \/ (kind = "get" /\ walked)

(* Refresh t rejects, with cause, before or after it has walked.  The user *)
(* is off the schedule by then.  updateAllTrees passes it on, and updating *)
(* stays.                                                                  *)
Fails(t, cause, walked) ==
    LET cur == refresh[t]
    IN  /\ \/ /\ Unheard(cur.kind, walked)
              /\ alive' = FALSE
              /\ culprit' = cause
              /\ userIndexUpdateScheduled' = {}
              /\ updating' = FALSE
              /\ refresh' = [s \in Tasks |-> None]
              /\ UNCHANGED failed
           \/ /\ cur.kind = "indexes"
              /\ failed' = failed \cup {cur.user}
              /\ Ends(t)
              /\ UNCHANGED <<alive, culprit>>
           \/ /\ cur.kind \in {"all", "get"} /\ ~Unheard(cur.kind, walked)
              /\ refresh' = [refresh EXCEPT ![t] = None]
              /\ UNCHANGED <<userIndexUpdateScheduled, updating, alive, culprit, failed>>
        /\ UNCHANGED <<files, tree>>

(* Mutant: the directory is taken to be there.                             *)
GenerateTreeAnyway(t) ==
    /\ At(t, "walk")
    /\ refresh' = [refresh EXCEPT ![t].pc = "findUnique", ![t].version = files[refresh[t].user]]
    /\ UNCHANGED <<files, tree, userIndexUpdateScheduled, updating, alive, culprit, failed>>

(* GenerateTree: a directory that is not there rejects; a file that is not *)
(* there any more is null in the tree, on which createIndex throws.        *)
GenerateTree(t) ==
    LET dir == files[refresh[t].user]
    IN  /\ At(t, "walk")
        /\ \/ /\ dir # None
              /\ refresh' = [refresh EXCEPT ![t].pc = "findUnique", ![t].version = dir]
              /\ UNCHANGED <<files, tree, userIndexUpdateScheduled, updating, alive, culprit,
                             failed>>
           \/ dir # None /\ refresh[t].torn /\ Fails(t, refresh[t], TRUE)
           \/ dir = None /\ Fails(t, refresh[t], FALSE)

(* Mutant: the row is not looked for.                                      *)
NotFound(t) ==
    /\ At(t, "findUnique")
    /\ refresh' = [refresh EXCEPT ![t].pc = "create"]
    /\ UNCHANGED <<files, tree, userIndexUpdateScheduled, updating, alive, culprit, failed>>

(* setTreeCache: whether there is a row decides how it is written.         *)
FindUnique(t) ==
    /\ At(t, "findUnique")
    /\ refresh' = [refresh EXCEPT ![t].pc =
                      IF tree[refresh[t].user] # None THEN "update" ELSE "create"]
    /\ UNCHANGED <<files, tree, userIndexUpdateScheduled, updating, alive, culprit, failed>>

Stored(t) ==
    /\ tree' = [tree EXCEPT ![refresh[t].user] = refresh[t].version]
    /\ Ends(t)
    /\ UNCHANGED <<files, alive, culprit, failed>>

(* Mutant: the query is built and not sent.                                *)
UpdateUnsent(t) ==
    At(t, "update") /\ Ends(t) /\ UNCHANGED <<files, tree, alive, culprit, failed>>

UpdateTree(t) == At(t, "update") /\ Stored(t)

(* The row is the user's only one: the second creation rejects.            *)
SaveTree(t) ==
    /\ At(t, "create")
    /\ \/ tree[refresh[t].user] = None /\ Stored(t)
       \/ tree[refresh[t].user] # None /\ Fails(t, refresh[t], TRUE)

(* The database refuses a query.  The loops of updateTree and saveTree     *)
(* return the promise without awaiting it, so they catch nothing.          *)
Refused(t) ==
    /\ refresh[t] # None /\ ~At(t, "walk")
    /\ Fails(t, Database, TRUE)

Start ==
    /\ ~alive
    /\ alive' = TRUE
    /\ culprit' = None
    /\ UNCHANGED <<files, tree, userIndexUpdateScheduled, updating, refresh, failed>>

Continue(t) == GenerateTree(t) \/ FindUnique(t) \/ UpdateTree(t) \/ SaveTree(t)

Next ==
    \/ \E u \in Users, schedules, removes \in BOOLEAN : ChangeFile(u, schedules, removes)
    \/ \E t \in Tasks :
          \/ UpdateIndexes(t) \/ UpdateUsersTrees(t) \/ Continue(t) \/ Refused(t)
          \/ \E u \in Users :
                CreateFolder(t, u) \/ RefreshOne(t, "patch", u) \/ RefreshOne(t, "get", u)
    \/ Start

Spec == Init /\ [][Next]_treeVars

-----------------------------------------------------------------------------
(* Properties.                                                             *)

Reaches(u, v) == alive => tree[u] # None /\ tree[u] >= v

(* What a scheduled user changed gets into the stored tree sooner or later,*)
(* however the refreshes overlap, unless the process ends first or the job *)
(* fails for this user.  It may be taken out again by an older walk that is*)
(* stored later, and the first tree of a user is not promised even that:   *)
(* two creations race, and the one with the newer walk may be refused.     *)
ScheduledChangesAreStored ==
    \A u \in Users : \A v \in 1 .. MaxVersion[u] :
        (u \in userIndexUpdateScheduled /\ files[u] = v /\ tree[u] # None)
            ~> (Reaches(u, v) \/ u \in failed)

(* Unless the database refuses a query, a refresh ends the process only if *)
(* it began when the user had no stored tree, or no directory, or if a file*)
(* was taken away during its walk; and never one of a cron job or of an    *)
(* administrator.  Otherwise refreshes of all kinds may overlap.           *)
OnlyBrokenRefreshesEndTheProcess ==
    culprit \in Refresh =>
        /\ culprit.kind \in {"folder", "patch", "get"}
        /\ culprit.first \/ culprit.torn
=============================================================================
