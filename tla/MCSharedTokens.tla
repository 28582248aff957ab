---------------------------- MODULE MCSharedTokens ----------------------------
(* Instances of SharedTokens for TLC.  The paths stand for docs, docs/f,   *)
(* docs2, docs2/f, docs22, e, e/f and e2, and for the files f, g and h.    *)
EXTENDS SharedTokens, TLC

MCPaths == {"d", "df", "d2", "d2f", "d22", "e", "ef", "e2", "f", "g", "h"}
MCFolders == {"d", "d2", "e"}
MCFiles == {"d", "df", "f", "g"}
FolderMoves == {<<"d", "e">>, <<"d", "d2">>}
FileMoves == {<<"f", "h">>, <<"g", "h">>}
MCMoves == FolderMoves \cup FileMoves

MCStarts == [p \in MCPaths |-> CASE p = "d" -> {"d", "df", "d2", "d2f", "d22"}
                                 [] p = "d2" -> {"d2", "d2f", "d22"}
                                 [] p = "e" -> {"e", "ef", "e2"}
                                 [] OTHER -> {p}]

MCInside == [p \in MCPaths |-> CASE p = "d" -> {"d", "df"}
                                 [] p = "d2" -> {"d2", "d2f"}
                                 [] p = "e" -> {"e", "ef"}
                                 [] OTHER -> {p}]

MCReplaced == [m \in MCPaths \X MCPaths \X MCPaths |->
    CASE m[2] = "d" /\ m[3] = "e" /\ m[1] \in {"d", "df", "d2"} ->
              ("d" :> "e" @@ "df" :> "ef" @@ "d2" :> "e2")[m[1]]
      [] m[2] = "d" /\ m[3] = "d2" /\ m[1] \in {"d", "df", "d2"} ->
              ("d" :> "d2" @@ "df" :> "d2f" @@ "d2" :> "d22")[m[1]]
      [] m[1] = m[2] -> m[3]
      [] OTHER -> m[1]]

(* One id that clients choose, and the one they get if it is taken.        *)
MCOwnId == [id \in Ids |-> CHOOSE own \in Ids : own # id \/ Ids = {id}]

Open == [public |-> TRUE, expire |-> MaxTime]
Secret == [public |-> FALSE, expire |-> 0]
OneUser == {CHOOSE u \in Users : TRUE}
OneId == {CHOOSE id \in Ids : TRUE}

(* Visitors and owners; the lists; moves and removals of a folder, and of  *)
(* two files over one another.                                             *)
Visits ==
    [kinds |-> {"share", "content", "delete", "update"}, users |-> Users, movers |-> {},
     moves |-> {}, ids |-> OneId, paths |-> {"d"}, settings |-> {Open, Secret}, until |-> 1]
Lists ==
    [kinds |-> {"share", "update", "list", "pages", "unshare"}, users |-> OneUser, movers |-> {},
     moves |-> {}, ids |-> OneId, paths |-> {"d"}, settings |-> {Open, Secret}, until |-> 1]
FoldersMove ==
    [kinds |-> {"share", "info", "deleteFile", "move", "rename"}, users |-> Users,
     movers |-> OneUser, moves |-> FolderMoves, ids |-> OneId, paths |-> {"d", "df"},
     settings |-> {Open}, until |-> 0]
FilesMove ==
    [kinds |-> {"share", "info", "delete", "deleteFile", "move", "rename"}, users |-> OneUser,
     movers |-> OneUser, moves |-> FileMoves, ids |-> OneId, paths |-> {"f", "g"},
     settings |-> {Open}, until |-> 0]

MCWorkloads == {Visits, Lists, FoldersMove, FilesMove}

Symmetry == Permutations(Tasks) \cup Permutations(Users) \cup Permutations(Ids)
=============================================================================
