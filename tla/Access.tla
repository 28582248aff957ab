-------------------------------- MODULE Access --------------------------------
(***************************************************************************)
(* Who may do what over HTTP: the routes of the controllers with the guards*)
(* and scopes they ask for, and what their handlers change; and the guards.*)
(***************************************************************************)
CONSTANT None

Scopes ==
    {"files:create", "files:delete", "files:rename", "files:move", "files:read",
     "tokens:create", "tokens:delete", "tokens:update", "tokens:read",
     "admin:users", "admin:activity-read", "admin:memory-usage", "admin:manage-options",
     "admin:stats", "auth:read-api-keys", "auth:create-api-keys", "auth:read-sessions",
     "auth:delete-sessions", "auth:edit-api-keys"}

(* login is how the caller presents himself: not at all, with the token of *)
(* a session, or with an api key.  user, owner and target (a userid in the *)
(* path) are people; link is the owner of the link in the path, and expired*)
(* says whether that link has.                                             *)
People == {"caller", "somebody"}

Caller == [login : {"none", "login", "api"}, scopes : SUBSET Scopes, isadmin : BOOLEAN,
           owner : People \cup {None}, target : People, admins : BOOLEAN,
           link : People \cup {None}, expired : BOOLEAN]

User == "caller"

Route(path, guards, scopes, admin, does) ==
    [path |-> path, guards |-> guards, scopes |-> scopes, admin |-> admin, does |-> does]

-----------------------------------------------------------------------------
(* The routes.                                                             *)

(* FilesController: a route for files of the caller.                       *)
FileRoute(path, scope, does) == Route(path, {"JwtAuth"}, {scope}, FALSE, does)

ReadFiles ==
    {FileRoute(path, "files:read", {}) : path \in
        {"GET/stats/type", "GET/list", "GET/list/path", "GET/properties/path"}}

ReadTrees ==
    {FileRoute(path, "files:read", {}) : path \in
        {"GET/status/path", "GET/exists/path", "GET/index", "GET/tree/path", "GET/zip/path"}}
    \cup {FileRoute(path, "files:read", {"ownTree"}) : path \in {"GET/tree", "PATCH/tree"}}

CreateFiles ==
    {FileRoute(path, "files:create", {"ownFiles", "ownTree"}) : path \in
        {"POST/folder/path", "POST/upload/path", "POST/upload"}}
    \cup {Route("POST/initialize/path", {"JwtAuth", "Space"}, {"files:create"}, FALSE,
                {"ownFiles", "ownUploads"})}
    \cup {FileRoute("POST/write/path", "files:create", {"ownUploads", "ownFiles", "ownTree", "usedSpace"}),
          FileRoute("POST/close/path", "files:create", {"ownUploads"})}

DeleteFiles ==
    {FileRoute(path, "files:delete", {"ownFiles", "ownUploads", "ownLinks"}) : path \in
        {"DELETE/path", "PATCH/deletemp/path"}}

(* A move rewrites the links to paths that start like the old one.         *)
MoveFiles ==
    {FileRoute("POST/rename/path", "files:rename", {"ownFiles", "ownTree"}),
     FileRoute("POST/move/file/path", "files:move", {"ownFiles", "ownTree", "linkPaths"}),
     FileRoute("POST/move/files/path", "files:move", {"ownFiles", "ownTree"})}

(* SharedFileController: the routes for the owner of links, those behind   *)
(* OwnerShipGuard for one link, and those for visitors.  Whoever asks for  *)
(* information on a link whose file is gone removes it.                    *)
ShareFiles ==
    {Route(path, {"JwtAuth"}, {"tokens:create"}, FALSE, {"ownLinks"}) : path \in
        {"POST/share/path", "POST/sharemf/path"}}

ChangeLinks ==
    {Route(path, {"JwtAuth"}, {"tokens:delete"}, FALSE, {"ownLinks"}) : path \in
        {"PATCH/token/delete", "DELETE/tokens/path"}}
    \cup {Route("DELETE/token/id", {"JwtAuth", "OwnerShip"}, {"tokens:delete"}, FALSE, {"link"}),
          Route("POST/tokens/user/id", {"JwtAuth", "OwnerShip"}, {"tokens:update"}, FALSE, {"link"})}

ReadLinks ==
    {Route(path, {"JwtAuth"}, {"tokens:read"}, FALSE, {}) : path \in
        {"GET/tokens/path", "GET/tokens/user/page", "GET/tokens/user/pages"}}
    \cup {Route(path, {"JwtAuth", "OwnerShip"}, {"tokens:read"}, FALSE, {}) : path \in
        {"GET/activity/id/time", "GET/tokens/user/content/id", "GET/tokens/user/content/id/path"}}
    \cup {Route("GET/tokens/user/info/id", {"JwtAuth", "OwnerShip"}, {"tokens:read"}, FALSE,
                {"deadLink"})}

VisitLinks ==
    {Route(path, {"Expire"}, {}, FALSE, {"activity"}) : path \in
        {"GET/content/id", "GET/content/id/path", "GET/zip/id", "GET/zip/id/path"}}
    \cup {Route("GET/info/id", {"Expire"}, {}, FALSE, {"deadLink"})}

ListLinks ==
    {Route(path, {}, {}, FALSE, {}) : path \in
        {"GET/tokens/list", "GET/tokens/pages", "GET/most-viewed", "GET/recent-viewed"}}

(* AdminController.                                                        *)
ForAdmin(path, guards, scope, does) ==
    Route(path, {"JwtAuth", "Admin"} \cup guards, {scope}, TRUE, does)

AdministerSpace ==
    {ForAdmin("POST/dedicated-space", {}, "admin:manage-options", {"capacity"}),
     ForAdmin("GET/dedicated-space", {}, "admin:manage-options", {}),
     ForAdmin("GET/used-space/update", {}, "admin:manage-options", {"usedSpace"}),
     ForAdmin("PATCH/update-users-trees", {}, "admin:manage-options", {"allTrees"})}
    \cup {ForAdmin(path, {}, "admin:stats", {}) : path \in
        {"GET/used-space", "GET/used-space/users", "GET/used-space/files"}}

AdministerUsers ==
    {ForAdmin("GET/users/list", {}, "admin:users", {}),
     ForAdmin("GET/users/owner", {}, "admin:users", {}),
     ForAdmin("POST/users/password/id", {"NotOwner"}, "admin:users", {"password"}),
     ForAdmin("POST/users/admin/id", {"NotOwner"}, "admin:users", {"role"}),
     ForAdmin("POST/users/create", {}, "admin:users", {"newUser"}),
     ForAdmin("DELETE/users/delete/id", {"FirstUser"}, "admin:users", {"account"}),
     Route("PATCH/users/owner/id", {"JwtAuth", "Admin", "Owner"}, {"admin:users"}, FALSE,
           {"role", "owner"})}

ReadStatistics ==
    {Route(path, {"JwtAuth", "Admin"}, {"admin:memory-usage"}, FALSE, {}) : path \in
        {"GET/memory/rss", "GET/memory/buffer", "GET/memory/stats/line", "GET/cpu-usage"}}
    \cup {Route(path, {"JwtAuth", "Admin"}, {"admin:activity-read"}, FALSE, {}) : path \in
        {"GET/logs/stats/group/line/time", "GET/logs/list", "GET/logs/pages"}}

(* AuthController and SetupController.                                     *)
Authenticate ==
    {Route("GET/auth", {"JwtAuth"}, {"npr"}, FALSE, {}),
     Route("GET/auth/scopes", {"JwtAuth"}, {"npr"}, FALSE, {}),
     Route("POST/login", {}, {}, FALSE, {"session"}),
     Route("POST/register", {}, {}, FALSE, {"newUser", "session"}),
     Route("POST/logout", {"JwtAuth", "ApiKey"}, {}, FALSE, {"endOfSession"}),
     Route("POST/revoke/sessionId", {"JwtAuth"}, {"auth:delete-sessions"}, FALSE, {"endOfSession"}),
     Route("POST/apikeys", {"JwtAuth", "ApiKey"}, {"auth:create-api-keys"}, FALSE, {"apiKey"}),
     Route("PATCH/apikeys/id", {"JwtAuth", "ApiKey"}, {"auth:edit-api-keys"}, FALSE, {"apiKey"}),
     Route("PUT/password", {"JwtAuth", "ApiKey"}, {}, FALSE, {"ownPassword"}),
     Route("GET/sessions", {"JwtAuth"}, {"auth:read-sessions"}, FALSE, {}),
     Route("GET/apikeys", {"JwtAuth"}, {"auth:read-api-keys"}, FALSE, {})}

Setup ==
    {Route("GET/setup/is-configured", {}, {}, FALSE, {}),
     Route("POST/setup/create-first-user", {"UserSetup"}, {}, FALSE, {"newUser", "newOwner"})}

Routes ==
    UNION {ReadFiles, ReadTrees, CreateFiles, DeleteFiles, MoveFiles, ShareFiles, ChangeLinks,
           ReadLinks, VisitLinks, ListLinks, AdministerSpace, AdministerUsers, ReadStatistics, Authenticate,
           Setup}

-----------------------------------------------------------------------------
(* The guards.                                                             *)

IsAllowedApiKey(apiScopes, requiredScopes) ==
    requiredScopes \cap ({"npr"} \cup apiScopes) # {}

(* Mutant: the key of anybody goes on where no administrator is asked for. *)
EvalAdminSwapped(requireAdmin, isUserAdmin) == requireAdmin /\ ~isUserAdmin

(* Whether the role does not make up for a missing scope.                  *)
EvalAdmin(requireAdmin, isUserAdmin) == requireAdmin => ~isUserAdmin

JwtAuth(route, c) ==
    /\ c.login # "none"
    /\ c.login = "api" =>
           IsAllowedApiKey(c.scopes, route.scopes) \/ ~EvalAdmin(route.admin, c.isadmin)

(* Mutant: a key with a scope for sessions is taken for a session.         *)
ApiKeyByScope(c) == c.login = "login" \/ "auth:create-api-keys" \in c.scopes

ApiKey(c) == c.login = "login"

Admin(route, c) == route.admin => c.isadmin \/ User = c.owner

(* Mutant: an administrator may do what the owner may.                     *)
OwnerOrAdmin(c) == c.owner \in {None, User} \/ c.isadmin

Owner(c) == c.owner \in {None, User}

NotOwner(c) == c.target # c.owner

FirstUser(c) == c.target # c.owner

OwnerShip(c) == c.link = User

Expire(c) == c.link # None /\ ~c.expired

IsConfigured(c) == c.admins /\ c.owner # None

(* SpaceGuard says nothing of the caller; it is in Quota.                  *)
Allowed(route, c) ==
    \A guard \in route.guards :
        CASE guard = "JwtAuth" -> JwtAuth(route, c)
          [] guard = "ApiKey" -> ApiKey(c)
          [] guard = "Admin" -> Admin(route, c)
          [] guard = "Owner" -> Owner(c)
          [] guard = "NotOwner" -> NotOwner(c)
          [] guard = "FirstUser" -> FirstUser(c)
          [] guard = "OwnerShip" -> OwnerShip(c)
          [] guard = "Expire" -> Expire(c)
          [] guard = "UserSetup" -> ~IsConfigured(c)
          [] guard = "Space" -> TRUE

Does(c) == UNION {route.does : route \in {r \in Routes : Allowed(r, c)}}

-----------------------------------------------------------------------------
ReadingScopes ==
    {"files:read", "tokens:read", "admin:stats", "admin:activity-read", "admin:memory-usage",
     "auth:read-sessions", "auth:read-api-keys"}

(* What anybody can do, without a token.                                   *)
InPublic(c) == Does([c EXCEPT !.login = "none"])

(* An api key that has reading scopes only changes nothing that its bearer *)
(* could not change without it, except a stored tree, which it refreshes,  *)
(* and a link whose file is gone; unless its user is an administrator, whom*)
(* it serves for all the routes of administrators whatever its scopes are. *)
ReadingKeysChangeNothing(c) ==
    c.login = "api" /\ c.scopes \subseteq ReadingScopes /\ ~c.isadmin
        => Does(c) \subseteq InPublic(c) \cup {"ownTree", "deadLink"}

(* No api key gets a new key or other scopes: what a key can do is fixed by*)
(* somebody who has logged in.  It does not get at its own user's password *)
(* either, unless that user is an administrator who is not the owner.      *)
KeysStayWhatTheyAre(c) ==
    c.login = "api" =>
        /\ Does(c) \cap {"apiKey", "ownPassword"} = {}
        /\ "password" \in Does(c) /\ c.target = User => c.isadmin /\ c.owner # User

(* The instance, and the accounts of others, are changed by administrators *)
(* and the owner only; and the owner's account by the owner, who cannot    *)
(* give up the role or the account without handing over first.  An instance*)
(* without an owner can be claimed by anybody who has a session.           *)
AccountsAreGuarded(c) ==
    LET told == c.isadmin \/ c.owner = User
    IN  /\ ~told => Does(c) \cap {"capacity", "allTrees", "password", "account"} = {}
        /\ ~told /\ c.owner # None => "role" \notin Does(c)
        /\ c.owner \notin {None, User} => "owner" \notin Does(c)
        /\ c.target = c.owner => Does(c) \cap {"password", "account"} = {}
        /\ c.admins /\ c.owner # None => "newOwner" \notin Does(c)
=============================================================================
