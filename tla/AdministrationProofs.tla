-------------------------- MODULE AdministrationProofs --------------------------
(***************************************************************************)
(* Theorems about Administration, for all users, lengths of the settings   *)
(* and numbers of requests and saves at work.                              *)
(***************************************************************************)
EXTENDS Administration, TLAPS

(* Who is stopped does nothing, and a file is written when it was opened.  *)
Stopped == ~up => Idle /\ \A r \in Requests : request[r] = Nobody

Opened == \A s \in Saves : save[s] # Nobody /\ save[s].pc = "write" => settings # Nobody

(* The role a request is to write is that of its route.                    *)
RoleOfRoute(k) ==
    /\ k.op \in {"setup", "changeOwner"} => k.role = "admin"
    /\ k.op = "register" => k.role = "user"

(* What its guard has found is so until somebody overtakes it.             *)
LetIn(k) ==
    ~k.overtaken =>
        /\ k.op \in {"setAdmin", "delete"} => k.target # config.owner
        /\ k.op = "changeOwner" => config.owner \in {Nobody, k.by}
        /\ k.op = "setup" /\ k.pc # "guard" /\ config.owner # Nobody => ~OwnerIsAdmin

Guarded == \A r \in Requests : request[r] # Nobody => RoleOfRoute(request[r]) /\ LetIn(request[r])

(* Only s is being saved, and what is shorter can not be in the file.      *)
Saving(s) ==
    /\ save[s] # Nobody /\ save[s].text = config
    /\ \A z \in Saves \ {s} : save[z] = Nobody
    /\ save[s].pc = "write" => settings.size = 0

(* Before the first start, when all is saved, and during a save.           *)
Surviving ==
    sound =>
        \/ ~up /\ settings = Nobody /\ config = Default
        \/ Idle /\ settings # Nobody /\ settings.text = config
        \/ up /\ \E s \in Saves : Saving(s)

AdminIInv == AdminTypeOK /\ Stopped /\ Opened /\ Guarded /\ Surviving

-----------------------------------------------------------------------------
(* The defaults are a configuration, and the text of one has a length.     *)
LEMMA Texts ==
    ASSUME AdministrationAssumption
    PROVE  Default \in Config /\ \A text \in Config : Length(text) \in Nat /\ text # Nobody
BY DEF AdministrationAssumption, Default, Config, Length

(* A save begins.                                                          *)
LEMMA Save1 ==
    ASSUME AdministrationAssumption, AdminTypeOK, Opened, SaveConfig(config'), config' \in Config,
           UNCHANGED settings
    PROVE  /\ save' \in [Saves -> Save \cup {Nobody}] /\ sound' \in BOOLEAN
           /\ Opened'
           /\ sound' => \E s \in Saves : Saving(s)'
<1>1. PICK s \in Saves : /\ save[s] = Nobody
                         /\ save' = [save EXCEPT ![s] = [pc |-> "open", text |-> config']]
  BY DEF SaveConfig
<1>2. [pc |-> "open", text |-> config'] \in Save
  BY DEF Save
<1>3. save' \in [Saves -> Save \cup {Nobody}]
  BY <1>1, <1>2 DEF AdminTypeOK
<1>4. sound' = Idle
  BY DEF SaveConfig
<1>5. sound' \in BOOLEAN
  BY <1>4 DEF Idle
<1>6. save'[s] = [pc |-> "open", text |-> config'] /\ \A z \in Saves \ {s} : save'[z] = save[z]
  BY <1>1 DEF AdminTypeOK
<1>7. Opened'
  BY <1>6 DEF Opened
<1>8. save'[s] # Nobody
  BY <1>2, <1>6 DEF AdministrationAssumption
<1>9. ASSUME sound'
      PROVE  Saving(s)'
  <2>1. \A z \in Saves : save[z] = Nobody
    BY <1>4, <1>9 DEF Idle
  <2>2. save'[s].text = config' /\ save'[s].pc = "open"
    BY <1>6
  <2>3. \A z \in Saves \ {s} : save'[z] = Nobody
    BY <1>6, <2>1
  <2> QED
    BY <1>8, <2>2, <2>3 DEF Saving
<1> QED
  BY <1>3, <1>5, <1>7, <1>9

-----------------------------------------------------------------------------
(* Requests.                                                               *)

(* One request begins, goes on or ends, and changes nothing.               *)
LEMMA OneRequest ==
    ASSUME AdminIInv, up, Quiet, NEW r \in Requests, NEW k \in Request \cup {Nobody},
           k # Nobody => RoleOfRoute(k) /\ LetIn(k),
           request' = [request EXCEPT ![r] = k]
    PROVE  AdminIInv'
<1>1. request' \in [Requests -> Request \cup {Nobody}]
      /\ \A s \in Requests : request'[s] = IF s = r THEN k ELSE request[s]
  BY DEF AdminIInv, AdminTypeOK
<1>2. UNCHANGED <<users, config, settings, save, up, sound>>
  BY DEF Quiet
<1>3. AdminTypeOK'
  BY <1>1, <1>2 DEF AdminIInv, AdminTypeOK
<1>4. Stopped' /\ Opened' /\ Surviving'
  BY <1>2 DEF AdminIInv, Stopped, Opened, Surviving, Saving, Idle
<1>5. Guarded'
  BY <1>1, <1>2 DEF AdminIInv, Guarded, RoleOfRoute, LetIn, OwnerIsAdmin
<1> QED
  BY <1>3, <1>4, <1>5 DEF AdminIInv

(* A request that changes the users, and no owner, lets the others be, or  *)
(* overtakes the setups.                                                   *)
LEMMA UsersChange ==
    ASSUME AdminIInv, up, UNCHANGED <<config, settings, save, up, sound>>,
           users' \in [Accounts -> {"none", "user", "admin"}],
           request' \in [Requests -> Request \cup {Nobody}],
           \A s \in Requests : request'[s] # Nobody =>
               /\ request[s] # Nobody
               /\ \/ request'[s] = request[s]
                  \/ request'[s] = [request[s] EXCEPT !.overtaken = TRUE],
           \/ OwnerIsAdmin' => OwnerIsAdmin
           \/ \A s \in Requests :
                 request'[s] # Nobody /\ request'[s].op = "setup" => request'[s].overtaken
    PROVE  AdminIInv'
<1>1. AdminTypeOK'
  BY DEF AdminIInv, AdminTypeOK
<1>2. Stopped' /\ Opened' /\ Surviving'
  BY DEF AdminIInv, Stopped, Opened, Surviving, Saving, Idle
<1>3. ASSUME NEW s \in Requests, request'[s] # Nobody
      PROVE  RoleOfRoute(request[s])' /\ LetIn(request[s])'
  <2>1. request[s] \in Request /\ RoleOfRoute(request[s]) /\ LetIn(request[s])
    BY <1>3 DEF AdminIInv, AdminTypeOK, Guarded
  <2>2. CASE request'[s] = request[s]
    <3>1. RoleOfRoute(request[s])'
      BY <2>1, <2>2 DEF RoleOfRoute
    <3>2. request[s].op = "setup" /\ ~request[s].overtaken => (OwnerIsAdmin' => OwnerIsAdmin)
      BY <1>3, <2>2
    <3>3. LetIn(request[s])'
      BY <2>1, <2>2, <3>2 DEF LetIn
    <3> QED
      BY <3>1, <3>3
  <2>3. CASE request'[s] = [request[s] EXCEPT !.overtaken = TRUE]
    BY <2>1, <2>3 DEF Request, RoleOfRoute, LetIn
  <2> QED
    BY <1>3, <2>2, <2>3
<1>4. Guarded'
  BY <1>3 DEF Guarded
<1> QED
  BY <1>1, <1>2, <1>4 DEF AdminIInv

(* A new owner overtakes all.                                              *)
LEMMA NewOwnerStep ==
    ASSUME AdministrationAssumption, AdminIInv, up, NEW r \in Requests, NEW u \in Accounts,
           NewOwner(r, u), UNCHANGED <<settings, up>>,
           users' \in [Accounts -> {"none", "user", "admin"}]
    PROVE  AdminIInv'
<1>1. config' \in Config
  BY DEF NewOwner, AdminIInv, AdminTypeOK, Config
<1>2. /\ save' \in [Saves -> Save \cup {Nobody}] /\ sound' \in BOOLEAN
      /\ Opened'
      /\ sound' => \E s \in Saves : Saving(s)'
  BY <1>1, Save1 DEF AdminIInv, NewOwner
<1>3. ASSUME NEW s \in Requests
      PROVE  \/ request'[s] = Nobody
             \/ /\ request[s] \in Request /\ request'[s] = [request[s] EXCEPT !.overtaken = TRUE]
                /\ RoleOfRoute(request[s])
  BY DEF NewOwner, AdminIInv, AdminTypeOK, Guarded
<1>4. ASSUME NEW s \in Requests
      PROVE  request'[s] \in Request \cup {Nobody}
  BY <1>3 DEF Request
<1>5. request' \in [Requests -> Request \cup {Nobody}]
  BY <1>4 DEF NewOwner
<1>6. ASSUME NEW s \in Requests, request'[s] # Nobody
      PROVE  RoleOfRoute(request'[s]) /\ request'[s].overtaken
  BY <1>3, <1>6 DEF Request, RoleOfRoute
<1>7. Guarded'
  BY <1>6 DEF Guarded, LetIn, RoleOfRoute
<1>8. AdminTypeOK'
  BY <1>1, <1>2, <1>5 DEF AdminIInv, AdminTypeOK
<1>9. Stopped' /\ Surviving'
  BY <1>2 DEF Stopped, Surviving
<1> QED
  BY <1>2, <1>7, <1>8, <1>9 DEF AdminIInv

-----------------------------------------------------------------------------
(* The server and settings.json.                                           *)

(* LoadConfig: what was saved is found.                                         *)
LEMMA StartStep ==
    ASSUME AdministrationAssumption, AdminIInv, LoadConfig
    PROVE  AdminIInv' /\ (sound => config' = config)
<1>1. ~up /\ up' /\ Idle /\ \A r \in Requests : request'[r] = Nobody
  BY DEF LoadConfig, AdminIInv, Stopped
<1>2. UNCHANGED <<users, settings, request>> /\ up' = TRUE
  BY DEF LoadConfig
<1>3. Stopped' /\ Guarded'
  BY <1>1 DEF Stopped, Guarded
<1>4. CASE settings = Nobody
  <2>1. config' = Default /\ config' \in Config /\ SaveConfig(config')
    BY <1>4, Texts DEF LoadConfig
  <2>2. /\ save' \in [Saves -> Save \cup {Nobody}] /\ sound' \in BOOLEAN
        /\ Opened'
        /\ sound' => \E s \in Saves : Saving(s)'
    BY <1>2, <2>1, Save1 DEF AdminIInv
  <2>3. AdminTypeOK'
    BY <1>2, <2>1, <2>2 DEF AdminIInv, AdminTypeOK
  <2>4. Surviving'
    BY <1>1, <2>2 DEF Surviving
  <2>5. sound => config' = config
    BY <1>1, <1>4, <2>1 DEF AdminIInv, Surviving
  <2> QED
    BY <1>3, <2>2, <2>3, <2>4, <2>5 DEF AdminIInv
<1>5. CASE settings # Nobody
  <2>1. settings \in Settings /\ UNCHANGED <<save, sound>>
        /\ config' = IF settings.text = Nobody THEN Default ELSE settings.text
    BY <1>5 DEF LoadConfig, AdminIInv, AdminTypeOK
  <2>2. config' \in Config
    BY <2>1, Texts DEF Settings
  <2>3. sound => settings.text = config
    BY <1>1, <1>5 DEF AdminIInv, Surviving
  <2>4. sound => config' = config
    BY <2>1, <2>3, Texts DEF AdminIInv, AdminTypeOK
  <2>5. AdminTypeOK'
    BY <1>2, <2>1, <2>2 DEF AdminIInv, AdminTypeOK
  <2>6. Opened'
    BY <1>2, <2>1 DEF AdminIInv, Opened
  <2>7. Surviving'
    BY <1>1, <1>2, <1>5, <2>1, <2>3, <2>4 DEF Surviving, Idle
  <2> QED
    BY <1>3, <2>4, <2>5, <2>6, <2>7 DEF AdminIInv
<1> QED
  BY <1>4, <1>5

(* Crash.                                                                  *)
LEMMA CrashStep ==
    ASSUME AdminIInv, Crash
    PROVE  AdminIInv'
<1>1. /\ up /\ up' = FALSE /\ sound' = (sound /\ Idle)
      /\ \A s \in Saves : save'[s] = Nobody
      /\ \A r \in Requests : request'[r] = Nobody
      /\ UNCHANGED <<users, config, settings>>
  BY DEF Crash
<1>2. sound \in BOOLEAN /\ Idle \in BOOLEAN
  BY DEF AdminIInv, AdminTypeOK, Idle
<1>3. AdminTypeOK'
  BY <1>1, <1>2 DEF AdminIInv, AdminTypeOK, Crash
<1>4. Stopped' /\ Opened' /\ Guarded'
  BY <1>1 DEF Stopped, Opened, Guarded, Idle
<1>5. ASSUME sound'
      PROVE  Idle' /\ settings' # Nobody /\ settings'.text = config'
  <2>1. sound /\ Idle
    BY <1>1, <1>2, <1>5
  <2>2. \A s \in Saves : ~Saving(s)
    BY <2>1 DEF Idle, Saving
  <2> QED
    BY <1>1, <2>1, <2>2 DEF AdminIInv, Surviving, Idle
<1>6. Surviving'
  BY <1>5 DEF Surviving
<1> QED
  BY <1>3, <1>4, <1>6 DEF AdminIInv

(* OpenSettings.                                                           *)
LEMMA OpenSettingsStep ==
    ASSUME AdministrationAssumption, AdminIInv, NEW s \in Saves, OpenSettings(s)
    PROVE  AdminIInv'
<1>1. /\ save[s] \in Save /\ save[s] # Nobody
      /\ settings' = [text |-> Nobody, size |-> 0]
      /\ save' = [save EXCEPT ![s].pc = "write"]
      /\ UNCHANGED <<users, config, request, up, sound>>
  BY DEF OpenSettings, AdminIInv, AdminTypeOK
<1>2. /\ save'[s] = [save[s] EXCEPT !.pc = "write"]
      /\ \A z \in Saves \ {s} : save'[z] = save[z]
  BY <1>1 DEF AdminIInv, AdminTypeOK
<1>3. save'[s] \in Save /\ save'[s] # Nobody /\ save'[s].text = save[s].text
  BY <1>1, <1>2 DEF AdministrationAssumption, Save
<1>4. settings' \in Settings /\ settings' # Nobody /\ settings'.size = 0
  BY <1>1 DEF AdministrationAssumption, Settings
<1>5. save' \in [Saves -> Save \cup {Nobody}]
  BY <1>1, <1>3 DEF AdminIInv, AdminTypeOK
<1>6. AdminTypeOK'
  BY <1>1, <1>4, <1>5 DEF AdminIInv, AdminTypeOK
<1>7. up
  BY <1>1 DEF AdminIInv, Stopped, Idle
<1>8. Stopped' /\ Opened'
  BY <1>1, <1>4, <1>7 DEF Stopped, Opened
<1>9. Guarded'
  BY <1>1 DEF AdminIInv, Guarded, RoleOfRoute, LetIn, OwnerIsAdmin
<1>10. ASSUME sound'
       PROVE  Saving(s)'
  <2>1. PICK z \in Saves : Saving(z)
    BY <1>1, <1>7, <1>10 DEF AdminIInv, Surviving, Idle
  <2>2. z = s
    BY <1>1, <2>1 DEF Saving
  <2> QED
    BY <1>1, <1>2, <1>3, <1>4, <2>1, <2>2 DEF Saving
<1>11. Surviving'
  BY <1>1, <1>7, <1>10 DEF Surviving
<1> QED
  BY <1>6, <1>8, <1>9, <1>11 DEF AdminIInv

(* WriteSettings.                                                          *)
LEMMA WriteSettingsStep ==
    ASSUME AdministrationAssumption, AdminIInv, NEW s \in Saves, WriteSettings(s)
    PROVE  AdminIInv'
<1>1. /\ save[s] \in Save /\ save[s] # Nobody /\ save[s].pc = "write"
      /\ settings' = IF settings.size <= Length(save[s].text)
                     THEN [text |-> save[s].text, size |-> Length(save[s].text)]
                     ELSE [settings EXCEPT !.text = Nobody]
      /\ save' = [save EXCEPT ![s] = Nobody]
      /\ UNCHANGED <<users, config, request, up, sound>>
  BY DEF WriteSettings, AdminIInv, AdminTypeOK
<1>2. settings \in Settings
  BY <1>1 DEF AdminIInv, AdminTypeOK, Opened
<1>3. save[s].text \in Config /\ Length(save[s].text) \in Nat
  BY <1>1, Texts DEF Save
<1>4. settings' \in Settings /\ settings' # Nobody
  BY <1>1, <1>2, <1>3 DEF AdministrationAssumption, Settings
<1>5. \A z \in Saves : save'[z] = IF z = s THEN Nobody ELSE save[z]
  BY <1>1 DEF AdminIInv, AdminTypeOK
<1>6. AdminTypeOK'
  BY <1>1, <1>4 DEF AdminIInv, AdminTypeOK
<1>7. up
  BY <1>1 DEF AdminIInv, Stopped, Idle
<1>8. Stopped' /\ Opened'
  BY <1>1, <1>4, <1>7 DEF Stopped, Opened
<1>9. Guarded'
  BY <1>1 DEF AdminIInv, Guarded, RoleOfRoute, LetIn, OwnerIsAdmin
<1>10. ASSUME sound'
       PROVE  Idle' /\ settings'.text = config'
  <2>1. PICK z \in Saves : Saving(z)
    BY <1>1, <1>7, <1>10 DEF AdminIInv, Surviving, Idle
  <2>2. z = s
    BY <1>1, <2>1 DEF Saving
  <2>3. settings.size = 0 /\ save[s].text = config
    BY <1>1, <2>1, <2>2 DEF Saving
  <2>4. settings'.text = config'
    BY <1>1, <1>3, <2>3
  <2>5. Idle'
    BY <1>5, <2>1, <2>2 DEF Saving, Idle
  <2> QED
    BY <2>4, <2>5
<1>11. Surviving'
  BY <1>4, <1>10 DEF Surviving
<1> QED
  BY <1>6, <1>8, <1>9, <1>11 DEF AdminIInv

(* ChangeSpace.                                                            *)
LEMMA ChangeSpaceStep ==
    ASSUME AdministrationAssumption, AdminIInv, NEW used \in 0 .. MaxUsed, ChangeSpace(used)
    PROVE  AdminIInv' /\ config'.owner = config.owner
<1>1. /\ up /\ config' = [config EXCEPT !.used = used] /\ SaveConfig(config')
      /\ UNCHANGED <<users, settings, request, up>>
  BY DEF ChangeSpace
<1>2. config' \in Config /\ config'.owner = config.owner
  BY <1>1 DEF AdminIInv, AdminTypeOK, Config
<1>3. /\ save' \in [Saves -> Save \cup {Nobody}] /\ sound' \in BOOLEAN
      /\ Opened'
      /\ sound' => \E s \in Saves : Saving(s)'
  BY <1>1, <1>2, Save1 DEF AdminIInv
<1>4. AdminTypeOK'
  BY <1>1, <1>2, <1>3 DEF AdminIInv, AdminTypeOK
<1>5. Stopped' /\ Surviving'
  BY <1>1, <1>3 DEF Stopped, Surviving
<1>6. Guarded'
  BY <1>1, <1>2 DEF AdminIInv, Guarded, RoleOfRoute, LetIn, OwnerIsAdmin
<1> QED
  BY <1>2, <1>3, <1>4, <1>5, <1>6 DEF AdminIInv

-----------------------------------------------------------------------------
(* Requests begin, and go on.                                              *)

LEMMA BeginStep ==
    ASSUME AdministrationAssumption, AdminIInv, NEW r \in Requests, NEW op, NEW pc,
           NEW u \in Accounts, NEW by \in Accounts \cup {Nobody}, NEW role, Begin(r, op, pc, u, by, role),
           \/ op = "setup" /\ pc = "guard" /\ role = "admin"
           \/ op = "register" /\ pc = "findOne" /\ role = "user"
           \/ op = "setAdmin" /\ pc = "findOne" /\ role \in {"user", "admin"} /\ NotOwner(u)
           \/ op = "delete" /\ pc = "write" /\ role = "user" /\ NotOwner(u)
           \/ op = "changeOwner" /\ pc = "findOne" /\ role = "admin" /\ Owner(by)
    PROVE  AdminIInv'
<1> DEFINE k == [op |-> op, pc |-> pc, target |-> u, by |-> by, role |-> role, overtaken |-> FALSE]
<1>1. k \in Request
  BY DEF Request
<1>2. RoleOfRoute(k) /\ LetIn(k)
  BY DEF RoleOfRoute, LetIn, NotOwner, Owner
<1>3. up /\ Quiet /\ request' = [request EXCEPT ![r] = k]
  BY DEF Begin, Quiet
<1> HIDE DEF k
<1> QED
  BY <1>1, <1>2, <1>3, OneRequest

(* AnswerGuard: a setup goes on only if the instance is in nobody's hands. *)
LEMMA AnswerGuardStep ==
    ASSUME AdministrationAssumption, AdminIInv, NEW r \in Requests, AnswerGuard(r)
    PROVE  AdminIInv'
<1>1. up /\ request[r] \in Request /\ RoleOfRoute(request[r]) /\ request[r].op = "setup" /\ Quiet
  BY DEF AnswerGuard, At, AdminIInv, AdminTypeOK, Guarded, Stopped
<1>2. CASE IsConfigured
  BY <1>1, <1>2, OneRequest DEF AnswerGuard, Ends
<1>3. CASE ~IsConfigured
  <2> DEFINE k == [request[r] EXCEPT !.pc = "findOne", !.overtaken = FALSE]
  <2>1. k \in Request /\ k.op = "setup" /\ RoleOfRoute(k)
    BY <1>1 DEF Request, RoleOfRoute
  <2>2. config.owner # Nobody => ~OwnerIsAdmin
    BY <1>3 DEF IsConfigured, OwnerIsAdmin, AdminIInv, AdminTypeOK, Config
  <2>3. LetIn(k)
    BY <2>1, <2>2 DEF LetIn
  <2>4. request' = [request EXCEPT ![r] = k]
    BY <1>1, <1>3 DEF AnswerGuard, AdminIInv, AdminTypeOK
  <2> HIDE DEF k
  <2> QED
    BY <1>1, <2>1, <2>3, <2>4, OneRequest
<1> QED
  BY <1>2, <1>3

(* FindAccount.                                                                *)
LEMMA FindOneStep ==
    ASSUME AdministrationAssumption, AdminIInv, NEW r \in Requests, FindAccount(r)
    PROVE  AdminIInv'
<1>1. /\ up /\ request[r] \in Request /\ RoleOfRoute(request[r]) /\ LetIn(request[r])
      /\ request[r].pc = "findOne" /\ Quiet
  BY DEF FindAccount, AdminIInv, AdminTypeOK, Guarded, Stopped
<1>2. CASE Ends(r)
  BY <1>1, <1>2, OneRequest DEF Ends
<1>3. CASE Goes(r, "write")
  <2> DEFINE k == [request[r] EXCEPT !.pc = "write"]
  <2>1. k \in Request /\ RoleOfRoute(k) /\ LetIn(k)
    BY <1>1 DEF Request, RoleOfRoute, LetIn
  <2>2. request' = [request EXCEPT ![r] = k]
    BY <1>1, <1>3 DEF Goes, AdminIInv, AdminTypeOK
  <2> HIDE DEF k
  <2> QED
    BY <1>1, <2>1, <2>2, OneRequest
<1> QED
  BY <1>2, <1>3 DEF FindAccount

-----------------------------------------------------------------------------
(* Requests write.  The owner loses nothing to one that was not overtaken. *)

(* Create: the owner of an instance that has one is not made again.        *)
LEMMA CreateStep ==
    ASSUME AdministrationAssumption, AdminIInv, NEW r \in Requests, Create(r)
    PROVE  /\ AdminIInv'
           /\ OwnerIsAdmin => OwnerIsAdmin'
           /\ config'.owner # config.owner => request[r].op = "setup" /\ request'[r] = Nobody
<1> DEFINE u == request[r].target
<1>1. /\ up /\ request[r] \in Request /\ request[r] # Nobody /\ RoleOfRoute(request[r])
      /\ request[r].op \in {"setup", "register"} /\ UNCHANGED <<settings, up>>
  BY DEF Create, AdminIInv, AdminTypeOK, Guarded, Stopped
<1>2. u \in Accounts /\ u # Nobody
  BY <1>1 DEF Request, AdministrationAssumption
<1>3. CASE users[u] # "none" /\ Ends(r) /\ UNCHANGED <<users, config, save, sound>>
  BY <1>1, <1>3, OneRequest DEF Ends, Quiet, OwnerIsAdmin
<1>4. CASE /\ users[u] = "none" /\ users' = [users EXCEPT ![u] = request[r].role]
           /\ request[r].op = "setup" /\ NewOwner(r, u)
  <2>1. users' \in [Accounts -> {"none", "user", "admin"}]
    BY <1>1, <1>2, <1>4 DEF AdminIInv, AdminTypeOK, Request
  <2>2. AdminIInv'
    BY <1>1, <1>2, <1>4, <2>1, NewOwnerStep
  <2>3. config'.owner = u /\ users'[u] = "admin"
    BY <1>1, <1>2, <1>4 DEF NewOwner, RoleOfRoute, AdminIInv, AdminTypeOK, Config
  <2>4. request'[r] = Nobody
    BY <1>4 DEF NewOwner
  <2> QED
    BY <1>4, <2>2, <2>3, <2>4 DEF OwnerIsAdmin
<1>5. CASE /\ users[u] = "none" /\ users' = [users EXCEPT ![u] = request[r].role]
           /\ request[r].op = "register" /\ Ends(r) /\ UNCHANGED <<config, save, sound>>
  <2>1. request[r].role = "user"
    BY <1>1, <1>5 DEF RoleOfRoute
  <2>2. users' \in [Accounts -> {"none", "user", "admin"}]
    BY <1>2, <1>5, <2>1 DEF AdminIInv, AdminTypeOK
  <2>3. \A v \in Accounts : users'[v] = "admin" <=> users[v] = "admin"
    BY <1>2, <1>5, <2>1 DEF AdminIInv, AdminTypeOK
  <2>4. OwnerIsAdmin' <=> OwnerIsAdmin
    BY <1>5, <2>3 DEF OwnerIsAdmin, AdminIInv, AdminTypeOK, Config
  <2>5. request' \in [Requests -> Request \cup {Nobody}]
        /\ \A s \in Requests : request'[s] = IF s = r THEN Nobody ELSE request[s]
    BY <1>5 DEF Ends, AdminIInv, AdminTypeOK
  <2>6. AdminIInv'
    BY <1>1, <1>5, <2>2, <2>4, <2>5, UsersChange
  <2> QED
    BY <1>5, <2>4, <2>6
<1> QED
  BY <1>3, <1>4, <1>5 DEF Create

(* SetAdmin: only who was overtaken can take the owner's role, or give it  *)
(* to an owner that has lost it, and then the setups are overtaken too.    *)
LEMMA SetAdminStep ==
    ASSUME AdministrationAssumption, AdminIInv, NEW r \in Requests, SetAdmin(r)
    PROVE  /\ AdminIInv' /\ request[r] # Nobody /\ request'[r] = Nobody
           /\ OwnerIsAdmin => OwnerIsAdmin' \/ request[r].overtaken
           /\ config'.owner # config.owner => request[r].op = "changeOwner"
<1> DEFINE u == request[r].target
<1>1. /\ up /\ request[r] \in Request /\ request[r] # Nobody /\ RoleOfRoute(request[r])
      /\ LetIn(request[r]) /\ UNCHANGED <<settings, up>>
  BY DEF SetAdmin, AdminIInv, AdminTypeOK, Guarded, Stopped
<1>2. u \in Accounts /\ u # Nobody
  BY <1>1 DEF Request, AdministrationAssumption
<1>3. CASE users[u] = "none" /\ Ends(r) /\ UNCHANGED <<users, config, save, sound>>
  <2>1. AdminIInv'
    BY <1>1, <1>3, OneRequest DEF Ends, Quiet
  <2> QED
    BY <1>1, <1>3, <2>1 DEF Ends, OwnerIsAdmin, AdminIInv, AdminTypeOK
<1>4. CASE /\ users[u] # "none" /\ users' = [users EXCEPT ![u] = request[r].role]
           /\ request[r].op = "changeOwner" /\ NewOwner(r, u)
  <2>1. users' \in [Accounts -> {"none", "user", "admin"}]
    BY <1>1, <1>2, <1>4 DEF AdminIInv, AdminTypeOK, Request
  <2>2. AdminIInv'
    BY <1>1, <1>2, <1>4, <2>1, NewOwnerStep
  <2>3. config'.owner = u /\ users'[u] = "admin"
    BY <1>1, <1>2, <1>4 DEF NewOwner, RoleOfRoute, AdminIInv, AdminTypeOK, Config
  <2>4. request'[r] = Nobody
    BY <1>4 DEF NewOwner
  <2> QED
    BY <1>1, <1>4, <2>2, <2>3, <2>4 DEF OwnerIsAdmin
<1>5. CASE /\ users[u] # "none" /\ users' = [users EXCEPT ![u] = request[r].role]
           /\ request[r].op = "setAdmin" /\ request' = RoleChanged(r)
           /\ UNCHANGED <<config, save, sound>>
  <2>1. users' \in [Accounts -> {"none", "user", "admin"}]
    BY <1>1, <1>2, <1>5 DEF AdminIInv, AdminTypeOK, Request
  <2>2. /\ request'[r] = Nobody
        /\ \A s \in Requests : request'[s] # Nobody => s # r /\ request[s] # Nobody
    BY <1>5 DEF RoleChanged
  <2>3. ASSUME NEW s \in Requests, request'[s] # Nobody
        PROVE  /\ request[s] \in Request
               /\ IF request[s].op = "setup" /\ request[r].overtaken
                  THEN request'[s] = [request[s] EXCEPT !.overtaken = TRUE]
                  ELSE request'[s] = request[s]
    <3>1. request[s] \in Request /\ request[r].overtaken \in BOOLEAN /\ request[s].overtaken \in BOOLEAN
      BY <1>1, <2>2, <2>3 DEF AdminIInv, AdminTypeOK, Request
    <3>2. request'[s] = [request[s] EXCEPT !.overtaken =
                            request[s].overtaken \/ (request[s].op = "setup" /\ request[r].overtaken)]
      BY <1>5, <2>2, <2>3 DEF RoleChanged
    <3>3. [request[s] EXCEPT !.overtaken = request[s].overtaken] = request[s]
      BY <3>1 DEF Request
    <3>4. CASE request[s].op = "setup" /\ request[r].overtaken
      BY <3>1, <3>2, <3>4
    <3>5. CASE ~(request[s].op = "setup" /\ request[r].overtaken)
      <4>1. (request[s].overtaken \/ (request[s].op = "setup" /\ request[r].overtaken))
                = request[s].overtaken
        BY <3>1, <3>5
      <4> QED
        BY <3>1, <3>2, <3>3, <3>5, <4>1
    <3> QED
      BY <3>4, <3>5
  <2>4. request' \in [Requests -> Request \cup {Nobody}]
    <3>1. ASSUME NEW s \in Requests
          PROVE  request'[s] \in Request \cup {Nobody}
      BY <2>3 DEF Request
    <3> QED
      BY <1>5, <3>1 DEF RoleChanged
  <2>5. ~request[r].overtaken => (OwnerIsAdmin' <=> OwnerIsAdmin)
    <3>1. ~request[r].overtaken => u # config.owner
      BY <1>1, <1>5 DEF LetIn
    <3> QED
      BY <1>2, <1>5, <3>1 DEF OwnerIsAdmin, AdminIInv, AdminTypeOK, Config
  <2>6. request[r].overtaken =>
            \A s \in Requests : request'[s] # Nobody /\ request'[s].op = "setup" => request'[s].overtaken
    BY <2>3 DEF Request
  <2>7. \A s \in Requests : request'[s] # Nobody =>
            /\ request[s] # Nobody
            /\ \/ request'[s] = request[s]
               \/ request'[s] = [request[s] EXCEPT !.overtaken = TRUE]
    BY <2>2, <2>3
  <2>8. AdminIInv'
    BY <1>1, <1>5, <2>1, <2>4, <2>5, <2>6, <2>7, UsersChange
  <2> QED
    BY <1>1, <1>5, <2>2, <2>5, <2>8
<1> QED
  BY <1>3, <1>4, <1>5 DEF SetAdmin

(* DeleteUser.                                                             *)
LEMMA DeleteUserStep ==
    ASSUME AdministrationAssumption, AdminIInv, NEW r \in Requests, DeleteUser(r)
    PROVE  /\ AdminIInv' /\ request[r] # Nobody /\ request'[r] = Nobody
           /\ OwnerIsAdmin => OwnerIsAdmin' \/ request[r].overtaken
           /\ config' = config
<1>1. /\ up /\ request[r] \in Request /\ request[r] # Nobody /\ request[r].op = "delete"
      /\ LetIn(request[r]) /\ UNCHANGED <<config, settings, save, up, sound>> /\ Ends(r)
      /\ users' \in {users, [users EXCEPT ![request[r].target] = "none"]}
  BY DEF DeleteUser, At, AdminIInv, AdminTypeOK, Guarded, Stopped
<1>2. users' \in [Accounts -> {"none", "user", "admin"}]
  BY <1>1 DEF AdminIInv, AdminTypeOK, Request
<1>3. \A v \in Accounts : users'[v] = "admin" => users[v] = "admin"
  BY <1>1 DEF AdminIInv, AdminTypeOK, Request
<1>4. OwnerIsAdmin' => OwnerIsAdmin
  BY <1>1, <1>3 DEF OwnerIsAdmin, AdminIInv, AdminTypeOK, Config
<1>5. request' \in [Requests -> Request \cup {Nobody}]
      /\ \A s \in Requests : request'[s] = IF s = r THEN Nobody ELSE request[s]
  BY <1>1 DEF Ends, AdminIInv, AdminTypeOK
<1>6. AdminIInv'
  BY <1>1, <1>2, <1>4, <1>5, UsersChange
<1>7. ~request[r].overtaken => (OwnerIsAdmin => OwnerIsAdmin')
  <2>1. ~request[r].overtaken => request[r].target # config.owner
    BY <1>1 DEF LetIn
  <2> QED
    BY <1>1, <2>1 DEF OwnerIsAdmin, AdminIInv, AdminTypeOK, Config, Request
<1> QED
  BY <1>1, <1>5, <1>6, <1>7

-----------------------------------------------------------------------------
(* Theorems.                                                               *)

(* The server has never been started.                                      *)
LEMMA AdminInitIInv ==
    ASSUME AdministrationAssumption, AdminInit
    PROVE  AdminIInv
<1>1. AdminTypeOK
  BY Texts DEF AdminInit, AdminTypeOK
<1> QED
  BY <1>1 DEF AdminInit, AdminIInv, Stopped, Opened, Guarded, Surviving, Idle

(* What one of the requests does, with or without effect.                  *)
Requested(r) ==
    \/ AnswerGuard(r) \/ FindAccount(r)
    \/ \E u \in Accounts :
          \/ BeginSetup(r, u) \/ BeginRegister(r, u) \/ BeginDelete(r, u)
          \/ \E role \in {"user", "admin"} : BeginSetAdmin(r, u, role)
          \/ \E by \in Accounts : BeginChangeOwner(r, by, u)

(* Requests that have not come to their writes change nothing.             *)
LEMMA RequestedStep ==
    ASSUME AdministrationAssumption, AdminIInv, NEW r \in Requests, Requested(r)
    PROVE  AdminIInv' /\ Quiet
<1>1. CASE AnswerGuard(r)
  BY <1>1, AnswerGuardStep DEF AnswerGuard
<1>2. CASE FindAccount(r)
  BY <1>2, FindOneStep DEF FindAccount
<1>3. ASSUME NEW u \in Accounts, BeginSetup(r, u)
      PROVE  AdminIInv' /\ Quiet
  BY <1>3, BeginStep DEF BeginSetup, Begin, Quiet
<1>4. ASSUME NEW u \in Accounts, BeginRegister(r, u)
      PROVE  AdminIInv' /\ Quiet
  BY <1>4, BeginStep DEF BeginRegister, Begin, Quiet
<1>5. ASSUME NEW u \in Accounts, BeginDelete(r, u)
      PROVE  AdminIInv' /\ Quiet
  BY <1>5, BeginStep DEF BeginDelete, Begin, Quiet
<1>6. ASSUME NEW u \in Accounts, NEW role \in {"user", "admin"}, BeginSetAdmin(r, u, role)
      PROVE  AdminIInv' /\ Quiet
  BY <1>6, BeginStep DEF BeginSetAdmin, Begin, Quiet
<1>7. ASSUME NEW u \in Accounts, NEW by \in Accounts, BeginChangeOwner(r, by, u)
      PROVE  AdminIInv' /\ Quiet
  BY <1>7, BeginStep DEF BeginChangeOwner, Begin, Quiet
<1> QED
  BY <1>1, <1>2, <1>3, <1>4, <1>5, <1>6, <1>7 DEF Requested

(* Every step preserves the invariant, and what it may do to the owner.    *)
LEMMA AdminNextStep ==
    ASSUME AdministrationAssumption, AdminIInv, [AdminNext]_adminVars
    PROVE  /\ AdminIInv'
           /\ OwnerIsAdmin => OwnerIsAdmin' \/ Overtaken \/ ~up
           /\ up /\ up' /\ config'.owner # config.owner =>
                \E r \in Requests : /\ request[r] # Nobody /\ request'[r] = Nobody
                                    /\ request[r].op \in {"setup", "changeOwner"}
                                    /\ request[r].pc = "write"
           /\ ~up /\ up' /\ sound => config' = config
<1>1. CASE LoadConfig
  BY <1>1, StartStep DEF LoadConfig
<1>2. CASE Crash
  <2>1. AdminIInv'
    BY <1>2, CrashStep
  <2> QED
    BY <1>2, <2>1 DEF Crash, OwnerIsAdmin
<1>3. ASSUME NEW s \in Saves, OpenSettings(s) \/ WriteSettings(s)
      PROVE  AdminIInv' /\ UNCHANGED <<users, config, up>>
  <2>1. AdminIInv'
    BY <1>3, OpenSettingsStep, WriteSettingsStep
  <2> QED
    BY <1>3, <2>1 DEF OpenSettings, WriteSettings
<1>4. ASSUME NEW used \in 0 .. MaxUsed, ChangeSpace(used)
      PROVE  /\ AdminIInv' /\ up /\ up' = up /\ config'.owner = config.owner
             /\ OwnerIsAdmin => OwnerIsAdmin'
  <2>1. AdminIInv' /\ config'.owner = config.owner
    BY <1>4, ChangeSpaceStep
  <2> QED
    BY <1>4, <2>1 DEF ChangeSpace, OwnerIsAdmin
<1>5. ASSUME NEW r \in Requests, Requested(r)
      PROVE  AdminIInv' /\ UNCHANGED <<users, config, up>>
  BY <1>5, RequestedStep DEF Quiet
<1>6. ASSUME NEW r \in Requests, Create(r) \/ SetAdmin(r) \/ DeleteUser(r)
      PROVE  /\ AdminIInv' /\ up' = up /\ up
             /\ OwnerIsAdmin => OwnerIsAdmin' \/ Overtaken
             /\ config'.owner # config.owner =>
                  /\ request[r] # Nobody /\ request'[r] = Nobody
                  /\ request[r].op \in {"setup", "changeOwner"} /\ request[r].pc = "write"
  <2>1. up' = up /\ request[r] # Nobody /\ request[r].pc = "write"
    BY <1>6 DEF Create, SetAdmin, DeleteUser, At
  <2>2. up
    BY <2>1 DEF AdminIInv, Stopped
  <2>3. CASE Create(r)
    BY <2>1, <2>2, <2>3, CreateStep
  <2>4. CASE SetAdmin(r)
    BY <2>1, <2>2, <2>4, SetAdminStep DEF Overtaken
  <2>5. CASE DeleteUser(r)
    BY <2>1, <2>2, <2>5, DeleteUserStep DEF Overtaken
  <2> QED
    BY <1>6, <2>3, <2>4, <2>5
<1>7. CASE UNCHANGED adminVars
  <2>1. UNCHANGED <<users, config, settings, save, request, up, sound>>
    BY <1>7 DEF adminVars
  <2>2. AdminTypeOK' /\ Stopped' /\ Opened'
    BY <2>1 DEF AdminIInv, AdminTypeOK, Stopped, Opened, Idle
  <2>3. Guarded'
    BY <2>1 DEF AdminIInv, Guarded, RoleOfRoute, LetIn, OwnerIsAdmin
  <2>4. Surviving'
    BY <2>1 DEF AdminIInv, Surviving, Saving, Idle
  <2> QED
    BY <2>1, <2>2, <2>3, <2>4 DEF AdminIInv, OwnerIsAdmin
<1>8. ASSUME AdminIInv', UNCHANGED <<users, config, up>>
      PROVE  OwnerIsAdmin' <=> OwnerIsAdmin
  BY <1>8 DEF OwnerIsAdmin
<1>9. CASE \E s \in Saves : OpenSettings(s) \/ WriteSettings(s)
  BY <1>3, <1>8, <1>9
<1>10. CASE \E used \in 0 .. MaxUsed : ChangeSpace(used)
  BY <1>4, <1>10
<1>11. CASE \E r \in Requests : Requested(r)
  BY <1>5, <1>8, <1>11
<1>12. CASE \E r \in Requests : Create(r) \/ SetAdmin(r) \/ DeleteUser(r)
  BY <1>6, <1>12
<1> QED
  BY <1>1, <1>2, <1>7, <1>9, <1>10, <1>11, <1>12 DEF AdminNext, Requested

(* The inductive invariant holds throughout.                               *)
THEOREM AdminInvariance ==
    ASSUME AdministrationAssumption
    PROVE  AdminSpec => []AdminIInv
<1>1. AdminInit => AdminIInv
  BY AdminInitIInv
<1>2. AdminIInv /\ [AdminNext]_adminVars => AdminIInv'
  BY AdminNextStep
<1> QED
  BY <1>1, <1>2, PTL DEF AdminSpec

(* All variables keep their types.                                         *)
THEOREM AdminTypeCorrect ==
    ASSUME AdministrationAssumption
    PROVE  AdminSpec => []AdminTypeOK
<1>1. AdminIInv => AdminTypeOK
  BY DEF AdminIInv
<1> QED
  BY <1>1, AdminInvariance, PTL

(* An owner who is an administrator stays one, unless a request that was   *)
(* let in before takes that away (NotOwnerGuard, FirstUserGuard, setAdmin, *)
(* deleteUser).                                                            *)
THEOREM OwnersStay ==
    ASSUME AdministrationAssumption
    PROVE  AdminSpec => OwnerStaysAdmin
<1>1. AdminIInv /\ [AdminNext]_adminVars => [OwnerIsAdmin /\ ~OwnerIsAdmin' => Overtaken \/ ~up]_adminVars
  BY AdminNextStep
<1> QED
  BY <1>1, AdminInvariance, PTL DEF AdminSpec, OwnerStaysAdmin

(* The instance changes hands only by the owner, or if it has none who is  *)
(* an administrator, or by a request that was overtaken (OwnerGuard,       *)
(* UserSetupGuard, changeOwner, setFirstUser).                             *)
THEOREM HandsChange ==
    ASSUME AdministrationAssumption
    PROVE  AdminSpec => OwnerChangesHands
<1>1. ASSUME AdminIInv, AdminNext, up, up', config'.owner # config.owner, config.owner # Nobody, ~Overtaken
      PROVE  \E r \in Requests :
                /\ request[r] # Nobody /\ request'[r] = Nobody
                /\ \/ request[r].op = "changeOwner" /\ request[r].by = config.owner
                   \/ request[r].op = "setup" /\ ~OwnerIsAdmin
  <2>1. PICK r \in Requests : /\ request[r] # Nobody /\ request'[r] = Nobody
                              /\ request[r].op \in {"setup", "changeOwner"}
                              /\ request[r].pc = "write"
    BY <1>1, AdminNextStep
  <2>2. ~request[r].overtaken /\ LetIn(request[r])
    BY <1>1, <2>1 DEF Overtaken, AdminIInv, Guarded
  <2>3. CASE request[r].op = "changeOwner"
    BY <1>1, <2>1, <2>2, <2>3 DEF LetIn
  <2>4. CASE request[r].op = "setup"
    BY <1>1, <2>1, <2>2, <2>4 DEF LetIn
  <2> QED
    BY <1>1, <2>1, <2>3, <2>4
<1>2. AdminIInv /\ [AdminNext]_adminVars =>
          [/\ up /\ up'
           /\ config'.owner # config.owner
           /\ config.owner # Nobody
           => \/ Overtaken
              \/ \E r \in Requests :
                    /\ request[r] # Nobody /\ request'[r] = Nobody
                    /\ \/ request[r].op = "changeOwner" /\ request[r].by = config.owner
                       \/ request[r].op = "setup" /\ ~OwnerIsAdmin]_adminVars
  BY <1>1
<1> QED
  BY <1>2, AdminInvariance, PTL DEF AdminSpec, OwnerChangesHands

(* A restart finds the configuration as it was, unless saves overlapped or *)
(* one was cut short (saveConfig, loadConfig).                             *)
THEOREM SettingsAreFound ==
    ASSUME AdministrationAssumption
    PROVE  AdminSpec => SettingsSurvive
<1>1. AdminIInv /\ [AdminNext]_adminVars => [~up /\ up' /\ sound => config' = config]_adminVars
  BY AdminNextStep
<1> QED
  BY <1>1, AdminInvariance, PTL DEF AdminSpec, SettingsSurvive
=============================================================================
