---------------------------- MODULE Administration ----------------------------
(***************************************************************************)
(* The owner of the instance and the administrators: the requests that make*)
(* and unmake them, between their guards and their answers, and the file   *)
(* settings.json, in which the owner is kept across a restart.             *)
(***************************************************************************)
EXTENDS Naturals

CONSTANTS
    Accounts,
    MaxUsed,    \* bound on the used space, as it shows in the file's length
    Requests,   \* slots for the requests at work (a bound)
    Saves,      \* slots for the saves at work (a bound)
    Nobody      \* no user, and nothing at all

VARIABLES
    users,     \* the table User: "none", "user" or "admin"
    config,    \* of AdminService
    settings,  \* settings.json: Nobody if there is none
    save,      \* streams that saveConfig has made
    request,
    up,
    sound      \* no part of the code: no two of the last saves overlapped, and
               \* no end of the process cut one short

adminVars == <<users, config, settings, save, request, up, sound>>

Config == [owner : Accounts \cup {Nobody}, used : 0 .. MaxUsed]

(* text is what the file parses to, Nobody if it does not parse.             *)
Settings == [text : Config \cup {Nobody}, size : Nat]

Save == [pc : {"open", "write"}, text : Config]

(* overtaken is no part of the code: another request has made an owner     *)
(* since the guard let this one in, or, of a setup, a request that was     *)
(* overtaken has changed somebody's role.  A request of "changeOwner" comes*)
(* from by; role is what setAdmin is to write.                             *)
Request == [op : {"setup", "register", "setAdmin", "delete", "changeOwner"},
            pc : {"guard", "findOne", "write"}, target : Accounts, by : Accounts \cup {Nobody},
            role : {"user", "admin"}, overtaken : BOOLEAN]

AdministrationAssumption ==
    MaxUsed \in Nat /\ Nobody \notin Accounts \cup Config \cup Settings \cup Save \cup Request

AdminTypeOK ==
    /\ users \in [Accounts -> {"none", "user", "admin"}]
    /\ config \in Config
    /\ settings \in Settings \cup {Nobody}
    /\ save \in [Saves -> Save \cup {Nobody}]
    /\ request \in [Requests -> Request \cup {Nobody}]
    /\ up \in BOOLEAN /\ sound \in BOOLEAN

Default == [owner |-> Nobody, used |-> 0]

AdminInit ==
    /\ users = [u \in Accounts |-> "none"]
    /\ config = Default
    /\ settings = Nobody
    /\ save = [s \in Saves |-> Nobody]
    /\ request = [r \in Requests |-> Nobody]
    /\ up = FALSE
    /\ sound = TRUE

Idle == \A s \in Saves : save[s] = Nobody

-----------------------------------------------------------------------------
(* settings.json.                                                          *)

(* null is shorter than an id, and all ids are as long.                    *)
Length(text) == 10 * (IF text.owner = Nobody THEN 1 ELSE 2) + text.used

(* saveConfig makes a stream; the file is opened and written later.        *)
SaveConfig(text) ==
    /\ \E s \in Saves : save[s] = Nobody /\ save' = [save EXCEPT ![s] = [pc |-> "open", text |-> text]]
    /\ sound' = Idle

OpenSettings(s) ==
    /\ save[s] # Nobody /\ save[s].pc = "open"
    /\ settings' = [text |-> Nobody, size |-> 0]
    /\ save' = [save EXCEPT ![s].pc = "write"]
    /\ UNCHANGED <<users, config, request, up, sound>>

(* From the start of the file: what another save has written meanwhile and *)
(* is longer shows after it.                                               *)
WriteSettings(s) ==
    /\ save[s] # Nobody /\ save[s].pc = "write"
    /\ settings' = IF settings.size <= Length(save[s].text)
                   THEN [text |-> save[s].text, size |-> Length(save[s].text)]
                   ELSE [settings EXCEPT !.text = Nobody]
    /\ save' = [save EXCEPT ![s] = Nobody]
    /\ UNCHANGED <<users, config, request, up, sound>>

(* Mutant: what is in the file is taken as it is.                          *)
LoadConfigTrusting ==
    /\ ~up
    /\ up' = TRUE
    /\ IF settings = Nobody
       THEN config' = Default /\ SaveConfig(Default)
       ELSE config' = settings.text /\ UNCHANGED <<save, sound>>
    /\ UNCHANGED <<users, settings, request>>

(* loadConfig: what does not parse leaves the defaults.                    *)
LoadConfig ==
    /\ ~up
    /\ up' = TRUE
    /\ IF settings = Nobody
       THEN config' = Default /\ SaveConfig(Default)
       ELSE /\ config' = IF settings.text = Nobody THEN Default ELSE settings.text
            /\ UNCHANGED <<save, sound>>
    /\ UNCHANGED <<users, settings, request>>

Crash ==
    /\ up
    /\ up' = FALSE
    /\ save' = [s \in Saves |-> Nobody]
    /\ request' = [r \in Requests |-> Nobody]
    /\ sound' = (sound /\ Idle)
    /\ UNCHANGED <<users, config, settings>>

(* updateUsedSpace, setDedicatedSpace: any change of the rest.             *)
ChangeSpace(used) ==
    /\ up
    /\ used # config.used
    /\ config' = [config EXCEPT !.used = used]
    /\ SaveConfig(config')
    /\ UNCHANGED <<users, settings, request, up>>

-----------------------------------------------------------------------------
(* Requests.                                                               *)

At(r, op, pc) == request[r] # Nobody /\ request[r].op = op /\ request[r].pc = pc

Begin(r, op, pc, u, by, role) ==
    /\ up /\ request[r] = Nobody
    /\ request' = [request EXCEPT ![r] = [op |-> op, pc |-> pc, target |-> u, by |-> by,
                                         role |-> role, overtaken |-> FALSE]]
    /\ UNCHANGED <<users, config, settings, save, up, sound>>

Goes(r, pc) == request' = [request EXCEPT ![r].pc = pc]
Ends(r) == request' = [request EXCEPT ![r] = Nobody]
Quiet == UNCHANGED <<users, config, settings, save, up, sound>>

(* Mutant: the role is written whoever's it is.                            *)
AnyTarget(u) == TRUE

(* NotOwnerGuard and FirstUserGuard.                                       *)
NotOwner(u) == u # config.owner

(* Mutant: an administrator may hand the instance over.                    *)
OwnerByRole(u) == config.owner \in {Nobody, u} \/ users[u] = "admin"

(* OwnerGuard.                                                             *)
Owner(u) == config.owner \in {Nobody, u}

(* The routes: setUserType, deleteUser, changeOwner, and register by anyone*)
BeginSetAdmin(r, u, role) == NotOwner(u) /\ Begin(r, "setAdmin", "findOne", u, Nobody, role)

BeginDelete(r, u) == NotOwner(u) /\ Begin(r, "delete", "write", u, Nobody, "user")

BeginChangeOwner(r, by, u) ==
    /\ users[by] # "none" /\ Owner(by)
    /\ Begin(r, "changeOwner", "findOne", u, by, "admin")

BeginRegister(r, u) == Begin(r, "register", "findOne", u, Nobody, "user")

BeginSetup(r, u) == Begin(r, "setup", "guard", u, Nobody, "admin")

IsConfigured == (\E u \in Accounts : users[u] = "admin") /\ config.owner # Nobody

(* UserSetupGuard, when the database has counted.                          *)
AnswerGuard(r) ==
    /\ At(r, "setup", "guard")
    /\ IF IsConfigured THEN Ends(r)
       ELSE request' = [request EXCEPT ![r].pc = "findOne", ![r].overtaken = FALSE]
    /\ Quiet

(* findOne: who registers must not be there, and everybody else must.      *)
FindAccount(r) ==
    /\ request[r] # Nobody /\ request[r].pc = "findOne"
    /\ IF (users[request[r].target] = "none") = (request[r].op \in {"setup", "register"})
       THEN Goes(r, "write") ELSE Ends(r)
    /\ Quiet

(* Mutant: the file keeps the old owner.                                   *)
NewOwnerUnsaved(r, u) ==
    /\ config' = [config EXCEPT !.owner = u]
    /\ request' = [s \in Requests |->
           IF s = r \/ request[s] = Nobody THEN Nobody ELSE [request[s] EXCEPT !.overtaken = TRUE]]
    /\ UNCHANGED <<save, sound>>

NewOwner(r, u) ==
    /\ config' = [config EXCEPT !.owner = u]
    /\ SaveConfig(config')
    /\ request' = [s \in Requests |->
           IF s = r \/ request[s] = Nobody THEN Nobody ELSE [request[s] EXCEPT !.overtaken = TRUE]]

(* create: the name is unique.  setFirstUser follows in the same turn.     *)
Create(r) ==
    LET u == request[r].target
    IN  /\ request[r] # Nobody /\ request[r].op \in {"setup", "register"} /\ request[r].pc = "write"
        /\ \/ /\ users[u] = "none"
              /\ users' = [users EXCEPT ![u] = request[r].role]
              /\ \/ request[r].op = "setup" /\ NewOwner(r, u)
                 \/ request[r].op = "register" /\ Ends(r) /\ UNCHANGED <<config, save, sound>>
           \/ users[u] # "none" /\ Ends(r) /\ UNCHANGED <<users, config, save, sound>>
        /\ UNCHANGED <<settings, up>>

(* The request r has changed a role and ends.                              *)
RoleChanged(r) ==
    [s \in Requests |->
        IF s = r \/ request[s] = Nobody THEN Nobody
        ELSE [request[s] EXCEPT !.overtaken = @ \/ (request[s].op = "setup" /\ request[r].overtaken)]]

(* setAdmin, for setUserType and for changeOwner.                          *)
SetAdmin(r) ==
    LET u == request[r].target
    IN  /\ request[r] # Nobody /\ request[r].op \in {"setAdmin", "changeOwner"}
        /\ request[r].pc = "write"
        /\ \/ /\ users[u] # "none"
              /\ users' = [users EXCEPT ![u] = request[r].role]
              /\ \/ request[r].op = "changeOwner" /\ NewOwner(r, u)
                 \/ /\ request[r].op = "setAdmin" /\ request' = RoleChanged(r)
                    /\ UNCHANGED <<config, save, sound>>
           \/ users[u] = "none" /\ Ends(r) /\ UNCHANGED <<users, config, save, sound>>
        /\ UNCHANGED <<settings, up>>

(* deleteUser.  Sessions, a tree or links of the user make it fail.        *)
DeleteUser(r) ==
    /\ At(r, "delete", "write")
    /\ \/ users' = [users EXCEPT ![request[r].target] = "none"]
       \/ UNCHANGED users
    /\ Ends(r)
    /\ UNCHANGED <<config, settings, save, up, sound>>

AdminNext ==
    \/ LoadConfig \/ Crash
    \/ \E s \in Saves : OpenSettings(s) \/ WriteSettings(s)
    \/ \E used \in 0 .. MaxUsed : ChangeSpace(used)
    \/ \E r \in Requests :
          \/ AnswerGuard(r) \/ FindAccount(r) \/ Create(r) \/ SetAdmin(r) \/ DeleteUser(r)
          \/ \E u \in Accounts :
                \/ BeginSetup(r, u) \/ BeginRegister(r, u) \/ BeginDelete(r, u)
                \/ \E role \in {"user", "admin"} : BeginSetAdmin(r, u, role)
                \/ \E by \in Accounts : BeginChangeOwner(r, by, u)

AdminSpec == AdminInit /\ [][AdminNext]_adminVars

-----------------------------------------------------------------------------
Overtaken == \E r \in Requests : /\ request[r] # Nobody /\ request[r].overtaken
                                 /\ request'[r] = Nobody

OwnerIsAdmin == config.owner # Nobody => users[config.owner] = "admin"

(* Whoever becomes the owner is an administrator, and stays one: the role  *)
(* or the account is lost only to a request that was let in before another *)
(* handed the instance over, or if the owner of an old file comes back.    *)
OwnerStaysAdmin == [][OwnerIsAdmin /\ ~OwnerIsAdmin' => Overtaken \/ ~up]_adminVars

(* The instance changes hands only if it was ownerless, if the owner says  *)
(* so, if no administrator was left when a setup asked, or by a request    *)
(* that was let in before the present owner was, or before another such    *)
(* request changed a role: the second of two first users takes it from the *)
(* first.                                                                  *)
OwnerChangesHands ==
    [][/\ up /\ up'
       /\ config'.owner # config.owner
       /\ config.owner # Nobody
       => \/ Overtaken
          \/ \E r \in Requests :
                /\ request[r] # Nobody /\ request'[r] = Nobody
                /\ \/ request[r].op = "changeOwner" /\ request[r].by = config.owner
                   \/ request[r].op = "setup" /\ ~OwnerIsAdmin]_adminVars

(* A restart finds the configuration as it was, unless the last saves      *)
(* overlapped or the end of the process cut one short: in those cases the  *)
(* file may be of an earlier time or not parse, and the owner be unknown.  *)
SettingsSurvive == [][~up /\ up' /\ sound => config' = config]_adminVars
=============================================================================
