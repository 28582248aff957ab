---------------------------- MODULE ServicesProofs ----------------------------
(***************************************************************************)
(* Theorems about the parts that share no state with the files: the        *)
(* throttle, which refuses only the locked users of Lockout for any users, *)
(* number of tries and window; Access, for every caller; Statistics, for   *)
(* every time and length of an hour; Search, for every index; and all the  *)
(* parts side by side.                                                     *)
(***************************************************************************)
EXTENDS MCServices, AdministrationProofs, ConnectionsProofs, Sums, SequenceTheorems, TLAPS

-----------------------------------------------------------------------------
(* The throttle of failed logins: its two objects and its clock.           *)

(* While the window is open the count is that of the last wrong passwords, *)
(* and none of them is older than the first failure.                       *)
CountsTheWindow(u) ==
    /\ tries[u] <= MaxTries
    /\ Len(recent[u]) = tries[u]
    /\ \A i \in 1 .. Len(recent[u]) : recent[u][i] >= lastTries[u]

(* Who has no failure on record has no tries, and no failure is of later.  *)
Recorded ==
    \A u \in Users :
        /\ lastTries[u] = Never => tries[u] = 0 /\ recent[u] = <<>>
        /\ lastTries[u] # Never => lastTries[u] <= minute
        /\ lastTries[u] # Never /\ InTimeout(u) => CountsTheWindow(u)

ThrottleIInv == ThrottleTypeOK /\ Recorded

(* The invariant holds at the start.                                       *)
LEMMA ThrottleInitIInv == ThrottleInit => ThrottleIInv
  BY LoginThrottleAssumption
  DEF ThrottleInit, ThrottleIInv, ThrottleTypeOK, Recorded

(* A wrong password keeps it: in the window it is one more of both.        *)
LEMMA WrongIInv ==
  ASSUME ThrottleIInv, NEW u \in Users, LoginWrong(u)
  PROVE  ThrottleIInv'
<1> USE LoginThrottleAssumption
<1> DEFINE longer == Append(recent[u], minute)
<1>1. /\ tries \in [Users -> Nat] /\ lastTries \in [Users -> 0 .. MaxTime \cup {Never}]
      /\ minute \in 0 .. MaxTime /\ recent \in [Users -> Seq(0 .. MaxTime)]
      /\ \A w \in Users : Len(recent[w]) <= MaxTries
  BY DEF ThrottleIInv, ThrottleTypeOK
<1>2. /\ tries' = [tries EXCEPT ![u] = TriesAfterReset(u) + 1]
      /\ lastTries' = [lastTries EXCEPT ![u] = FirstFailure(u)]
      /\ recent' = [recent EXCEPT ![u] = Promise!Latest(longer)]
      /\ answer' = "wrong" /\ minute' = minute /\ AllowLogin(u)
  BY DEF LoginWrong
<1>3. TriesAfterReset(u) \in Nat /\ FirstFailure(u) \in 0 .. MaxTime /\ FirstFailure(u) <= minute
  BY <1>1 DEF TriesAfterReset, FirstFailure, ThrottleIInv, Recorded
<1>4. /\ longer \in Seq(0 .. MaxTime) /\ Len(longer) = Len(recent[u]) + 1
      /\ \A i \in 1 .. Len(recent[u]) : longer[i] = recent[u][i]
      /\ longer[Len(recent[u]) + 1] = minute
  BY <1>1
<1>5. Promise!Latest(longer) \in Seq(0 .. MaxTime) /\ Len(Promise!Latest(longer)) <= MaxTries
  <2> HIDE DEF longer
  <2>1. CASE Len(longer) > MaxTries
    <3>1. longer # <<>>
      BY <1>1, <1>4, <2>1
    <3>2. Tail(longer) \in Seq(0 .. MaxTime) /\ Len(Tail(longer)) = Len(longer) - 1
      BY <1>4, <3>1
    <3> QED
      BY <1>1, <1>4, <2>1, <3>2 DEF Promise!Latest
  <2>2. CASE ~(Len(longer) > MaxTries)
    BY <1>1, <1>4, <2>2 DEF Promise!Latest
  <2> QED
    BY <2>1, <2>2
<1>6. ThrottleTypeOK'
  <2> HIDE DEF longer
  <2> QED
    BY <1>1, <1>2, <1>3, <1>5 DEF ThrottleTypeOK
<1>7. lastTries'[u] = FirstFailure(u) /\ lastTries'[u] # Never /\ lastTries'[u] <= minute'
  BY <1>1, <1>2, <1>3
<1>8. ASSUME InTimeout(u)' PROVE CountsTheWindow(u)'
  <2>1. InTimeout(u) /\ TriesAfterReset(u) = tries[u]
    BY <1>1, <1>2, <1>7, <1>8 DEF InTimeout, FirstFailure, TriesAfterReset
  <2>2. tries[u] < MaxTries /\ Len(recent[u]) = tries[u]
    BY <1>1, <1>2, <2>1 DEF AllowLogin, ThrottleIInv, Recorded, CountsTheWindow
  <2>3. tries'[u] = tries[u] + 1 /\ recent'[u] = longer
    <3> HIDE DEF longer
    <3> QED
      BY <1>1, <1>2, <1>4, <2>1, <2>2 DEF Promise!Latest
  <2>4. ASSUME NEW i \in 1 .. Len(longer) PROVE longer[i] >= FirstFailure(u)
    <3>1. CASE i = Len(recent[u]) + 1
      BY <1>1, <1>3, <1>4, <3>1
    <3>2. CASE i \in 1 .. Len(recent[u])
      <4>1. lastTries[u] # Never
        BY <3>2 DEF ThrottleIInv, Recorded
      <4>2. recent[u][i] >= lastTries[u]
        BY <2>1, <3>2, <4>1 DEF ThrottleIInv, Recorded, CountsTheWindow
      <4> QED
        BY <1>4, <3>2, <4>1, <4>2 DEF FirstFailure
    <3> QED
      BY <1>1, <1>4, <3>1, <3>2
  <2> HIDE DEF longer
  <2> QED
    BY <1>1, <1>4, <1>7, <2>2, <2>3, <2>4 DEF CountsTheWindow
<1>9. ASSUME NEW w \in Users, w # u
      PROVE  /\ tries'[w] = tries[w] /\ lastTries'[w] = lastTries[w] /\ recent'[w] = recent[w]
             /\ minute' = minute
  BY <1>1, <1>2, <1>9
<1>10. Recorded'
  <2> SUFFICES ASSUME NEW w \in Users
               PROVE  /\ lastTries'[w] = Never => tries'[w] = 0 /\ recent'[w] = <<>>
                      /\ lastTries'[w] # Never => lastTries'[w] <= minute'
                      /\ lastTries'[w] # Never /\ InTimeout(w)' => CountsTheWindow(w)'
    BY DEF Recorded
  <2>1. CASE w = u
    BY <1>7, <1>8, <2>1
  <2>2. CASE w # u
    BY <1>9, <2>2 DEF ThrottleIInv, Recorded, CountsTheWindow, InTimeout
  <2> QED
    BY <2>1, <2>2
<1> QED
  BY <1>6, <1>10 DEF ThrottleIInv

(* Every login, and the clock, keep it.                                    *)
LEMMA ThrottleNextIInv == ThrottleIInv /\ [ThrottleNext]_throttleVars => ThrottleIInv'
<1> SUFFICES ASSUME ThrottleIInv, [ThrottleNext]_throttleVars PROVE ThrottleIInv'
  OBVIOUS
<1> USE LoginThrottleAssumption DEF ThrottleIInv, ThrottleTypeOK, Recorded, InTimeout
<1>1. ASSUME NEW u \in Users, LoginRight(u) PROVE ThrottleIInv'
  <2>1. /\ tries' = [tries EXCEPT ![u] = TriesAfterReset(u)] /\ TriesAfterReset(u) \in Nat
        /\ UNCHANGED <<lastTries, minute, recent>> /\ answer' = "session"
        /\ TriesAfterReset(u) # tries[u] => ~InTimeout(u) /\ TriesAfterReset(u) = 0
    BY <1>1 DEF LoginRight, TriesAfterReset
  <2>2. ASSUME NEW w \in Users, lastTries[w] # Never, InTimeout(w)
        PROVE  tries'[w] = tries[w]
    BY <2>1, <2>2
  <2>3. \A w \in Users : lastTries[w] = Never => tries'[w] = 0
    BY <2>1
  <2>4. ThrottleTypeOK'
    BY <2>1
  <2>5. Recorded'
    BY <2>1, <2>2, <2>3 DEF CountsTheWindow
  <2> QED
    BY <2>4, <2>5
<1>2. ASSUME NEW u \in Users, LoginWrong(u) PROVE ThrottleIInv'
  BY <1>2, WrongIInv
<1>3. ASSUME NEW u \in Users, LoginRefused(u) PROVE ThrottleIInv'
  BY <1>3 DEF LoginRefused, CountsTheWindow
<1>4. ASSUME PassMinute PROVE ThrottleIInv'
  BY <1>4 DEF PassMinute, CountsTheWindow
<1>5. ASSUME ThrottleRestart PROVE ThrottleIInv'
  BY <1>5 DEF ThrottleRestart, TriesForgotten
<1>6. ASSUME UNCHANGED throttleVars PROVE ThrottleIInv'
  BY <1>6 DEF throttleVars, CountsTheWindow
<1> QED
  BY <1>1, <1>2, <1>3, <1>4, <1>5, <1>6 DEF ThrottleNext

(* What the throttle keeps is always of its type.                          *)
THEOREM ThrottleTypeCorrect == ThrottleSpec => []ThrottleTypeOK
<1>1. ThrottleSpec => []ThrottleIInv
  BY ThrottleInitIInv, ThrottleNextIInv, PTL DEF ThrottleSpec
<1> QED
  BY <1>1, PTL DEF ThrottleIInv

-----------------------------------------------------------------------------
(* The refinement.                                                         *)

(* Who is refused has had MaxTries wrong passwords since the first failure *)
(* of a window that is still open.                                         *)
LEMMA RefusedIsLocked ==
  ASSUME ThrottleIInv, NEW u \in Users, LoginRefused(u)
  PROVE  Promise!Refuse(u)
<1> USE LoginThrottleAssumption
<1>1. /\ tries \in [Users -> Nat] /\ lastTries \in [Users -> 0 .. MaxTime \cup {Never}]
      /\ minute \in 0 .. MaxTime /\ recent[u] \in Seq(0 .. MaxTime)
  BY DEF ThrottleIInv, ThrottleTypeOK
<1>2. InTimeout(u) /\ tries[u] >= MaxTries
  BY <1>1 DEF LoginRefused, AllowLogin, TriesAfterReset
<1>3. lastTries[u] # Never /\ CountsTheWindow(u)
  BY <1>1, <1>2 DEF ThrottleIInv, Recorded
<1>4. Len(recent[u]) = MaxTries /\ recent[u][1] >= lastTries[u]
  BY <1>1, <1>2, <1>3 DEF CountsTheWindow
<1>5. Head(recent[u]) = recent[u][1] /\ recent[u][1] \in 0 .. MaxTime
  BY <1>1, <1>4
<1>6. minute - Head(recent[u]) < Timeout
  BY <1>1, <1>2, <1>3, <1>4, <1>5 DEF InTimeout
<1> QED
  BY <1>4, <1>6 DEF Promise!Refuse, Promise!Locked, LoginRefused

(* Every step of the throttle is a step of the lenient promise, or none.   *)
LEMMA ThrottleStepIsStep ==
  ThrottleIInv /\ [ThrottleNext]_throttleVars => [Promise!LenientNext]_<<recent, minute, answer>>
<1> SUFFICES ASSUME ThrottleIInv, [ThrottleNext]_throttleVars
             PROVE  [Promise!LenientNext]_<<recent, minute, answer>>
  OBVIOUS
<1> USE DEF Promise!LenientNext
<1>1. ASSUME NEW u \in Users, LoginRight(u) PROVE Promise!LenientNext
  BY <1>1 DEF LoginRight, Promise!Accept
<1>2. ASSUME NEW u \in Users, LoginWrong(u) PROVE Promise!LenientNext
  BY <1>2 DEF LoginWrong, Promise!Reject
<1>3. ASSUME NEW u \in Users, LoginRefused(u) PROVE Promise!LenientNext
  BY <1>3, RefusedIsLocked
<1>4. ASSUME PassMinute PROVE Promise!LenientNext
  BY <1>4 DEF PassMinute, Promise!Pass
<1>5. ASSUME ThrottleRestart PROVE Promise!LenientNext
  BY <1>5 DEF ThrottleRestart, TriesForgotten, Promise!Restart
<1>6. ASSUME UNCHANGED throttleVars PROVE UNCHANGED <<recent, minute, answer>>
  BY <1>6 DEF throttleVars
<1> QED
  BY <1>1, <1>2, <1>3, <1>4, <1>5, <1>6 DEF ThrottleNext

(* The throttle implements the lenient promise: allowLogin refuses nobody  *)
(* but who has been given MaxTries wrong passwords of the last Timeout     *)
(* minutes (allowLogin, incrementTries).                                   *)
THEOREM ThrottleIsLenient == ThrottleSpec => RefusesOnlyTheLocked
<1>1. ThrottleSpec => []ThrottleIInv
  BY ThrottleInitIInv, ThrottleNextIInv, PTL DEF ThrottleSpec
<1>2. ThrottleInit => Promise!Init
  BY DEF ThrottleInit, Promise!Init
<1>3. ThrottleIInv /\ [ThrottleNext]_throttleVars => [Promise!LenientNext]_<<recent, minute, answer>>
  BY ThrottleStepIsStep
<1> QED
  BY <1>1, <1>2, <1>3, PTL DEF ThrottleSpec, RefusesOnlyTheLocked, Promise!LenientSpec

-----------------------------------------------------------------------------
(* Who may do what.                                                        *)

(* What the guards of a route have to do with what it does.                *)
WellGuarded(route) ==
    /\ "JwtAuth" \notin route.guards => route.guards \subseteq {"Expire", "UserSetup"}
    /\ "JwtAuth" \in route.guards /\ route.scopes \cap ({"npr"} \cup Acc!ReadingScopes) # {} =>
           route.does \subseteq {"ownTree", "deadLink"}
    /\ route.does \cap {"apiKey", "ownPassword"} # {} => "ApiKey" \in route.guards
    /\ route.does \cap {"capacity", "allTrees", "password", "account"} # {} =>
           "Admin" \in route.guards /\ route.admin
    /\ "role" \in route.does =>
           ("Admin" \in route.guards /\ route.admin) \/ "Owner" \in route.guards
    /\ "owner" \in route.does => "Owner" \in route.guards
    /\ "password" \in route.does => "NotOwner" \in route.guards
    /\ "account" \in route.does => "FirstUser" \in route.guards
    /\ "newOwner" \in route.does => "UserSetup" \in route.guards

(* The routes for files ...                                               *)
LEMMA FilesGuarded ==
    \A route \in Acc!ReadFiles \cup Acc!ReadTrees \cup Acc!CreateFiles
                  \cup Acc!DeleteFiles \cup Acc!MoveFiles : WellGuarded(route)
<1>1. \A route \in Acc!ReadFiles : WellGuarded(route)
  BY DEF Acc!ReadFiles, Acc!FileRoute, Acc!Route, WellGuarded, Acc!ReadingScopes
<1>2. \A route \in Acc!ReadTrees : WellGuarded(route)
  BY DEF Acc!ReadTrees, Acc!FileRoute, Acc!Route, WellGuarded, Acc!ReadingScopes
<1>3. \A route \in Acc!CreateFiles : WellGuarded(route)
  BY DEF Acc!CreateFiles, Acc!FileRoute, Acc!Route, WellGuarded, Acc!ReadingScopes
<1>4. \A route \in Acc!DeleteFiles : WellGuarded(route)
  BY DEF Acc!DeleteFiles, Acc!FileRoute, Acc!Route, WellGuarded, Acc!ReadingScopes
<1>5. \A route \in Acc!MoveFiles : WellGuarded(route)
  BY DEF Acc!MoveFiles, Acc!FileRoute, Acc!Route, WellGuarded, Acc!ReadingScopes
<1> QED
  BY <1>1, <1>2, <1>3, <1>4, <1>5

(* ... those for links ...                                                *)
LEMMA LinksGuarded ==
    \A route \in Acc!ShareFiles \cup Acc!ChangeLinks \cup Acc!ReadLinks
                  \cup Acc!VisitLinks \cup Acc!ListLinks : WellGuarded(route)
<1>1. \A route \in Acc!ShareFiles : WellGuarded(route)
  BY DEF Acc!ShareFiles, Acc!Route, WellGuarded, Acc!ReadingScopes
<1>2. \A route \in Acc!ChangeLinks : WellGuarded(route)
  BY DEF Acc!ChangeLinks, Acc!Route, WellGuarded, Acc!ReadingScopes
<1>3. \A route \in Acc!ReadLinks : WellGuarded(route)
  BY DEF Acc!ReadLinks, Acc!Route, WellGuarded, Acc!ReadingScopes
<1>4. \A route \in Acc!VisitLinks : WellGuarded(route)
  BY DEF Acc!VisitLinks, Acc!Route, WellGuarded, Acc!ReadingScopes
<1>5. \A route \in Acc!ListLinks : WellGuarded(route)
  BY DEF Acc!ListLinks, Acc!Route, WellGuarded, Acc!ReadingScopes
<1> QED
  BY <1>1, <1>2, <1>3, <1>4, <1>5

(* ... and those of administration are well guarded ...                   *)
LEMMA AdministrationGuarded ==
    \A route \in Acc!AdministerSpace \cup Acc!AdministerUsers \cup Acc!ReadStatistics
                  \cup Acc!Authenticate \cup Acc!Setup : WellGuarded(route)
<1>1. \A route \in Acc!AdministerSpace : WellGuarded(route)
  BY DEF Acc!AdministerSpace, Acc!ForAdmin, Acc!Route, WellGuarded, Acc!ReadingScopes
<1>2. \A route \in Acc!AdministerUsers : WellGuarded(route)
  BY DEF Acc!AdministerUsers, Acc!ForAdmin, Acc!Route, WellGuarded, Acc!ReadingScopes
<1>3. \A route \in Acc!ReadStatistics : WellGuarded(route)
  BY DEF Acc!ReadStatistics, Acc!Route, WellGuarded, Acc!ReadingScopes
<1>4. \A route \in Acc!Authenticate : WellGuarded(route)
  BY DEF Acc!Authenticate, Acc!Route, WellGuarded, Acc!ReadingScopes
<1>5. \A route \in Acc!Setup : WellGuarded(route)
  BY DEF Acc!Setup, Acc!Route, WellGuarded, Acc!ReadingScopes
<1> QED
  BY <1>1, <1>2, <1>3, <1>4, <1>5

(* ... and so are all.                                                    *)
LEMMA RoutesGuarded == \A route \in Acc!Routes : WellGuarded(route)
<1> SUFFICES ASSUME NEW route \in Acc!Routes PROVE WellGuarded(route)
  OBVIOUS
<1>1. \/ route \in Acc!ReadFiles \cup Acc!ReadTrees \cup Acc!CreateFiles
                   \cup Acc!DeleteFiles \cup Acc!MoveFiles
      \/ route \in Acc!ShareFiles \cup Acc!ChangeLinks \cup Acc!ReadLinks
                   \cup Acc!VisitLinks \cup Acc!ListLinks
      \/ route \in Acc!AdministerSpace \cup Acc!AdministerUsers \cup Acc!ReadStatistics
                   \cup Acc!Authenticate \cup Acc!Setup
  BY DEF Acc!Routes
<1> QED
  BY <1>1, FilesGuarded, LinksGuarded, AdministrationGuarded

(* What a caller does is done by a route that lets him through.           *)
LEMMA DoesWhatRoutesDo ==
    ASSUME NEW c, NEW effect \in Acc!Does(c)
    PROVE  \E route \in Acc!Routes : Acc!Allowed(route, c) /\ effect \in route.does
  BY DEF Acc!Does

(* What each guard lets through.                                           *)
LEMMA GuardsLetThrough ==
    ASSUME NEW c, NEW route, Acc!Allowed(route, c)
    PROVE  /\ "JwtAuth" \in route.guards => Acc!JwtAuth(route, c)
           /\ "ApiKey" \in route.guards => Acc!ApiKey(c)
           /\ "Admin" \in route.guards => Acc!Admin(route, c)
           /\ "Owner" \in route.guards => Acc!Owner(c)
           /\ "NotOwner" \in route.guards => Acc!NotOwner(c)
           /\ "FirstUser" \in route.guards => Acc!FirstUser(c)
           /\ "UserSetup" \in route.guards => ~Acc!IsConfigured(c)
  BY DEF Acc!Allowed

(* A key that may only read gets to routes of its scopes, or to those that *)
(* ask for no token, to which its bearer gets without it.                  *)
THEOREM ReadingKeysOnlyRead == \A c \in Acc!Caller : Acc!ReadingKeysChangeNothing(c)
<1> SUFFICES ASSUME NEW c \in Acc!Caller, c.login = "api", c.scopes \subseteq Acc!ReadingScopes, ~c.isadmin,
                    NEW effect \in Acc!Does(c), effect \notin {"ownTree", "deadLink"}
             PROVE  effect \in Acc!InPublic(c)
  BY DEF Acc!ReadingKeysChangeNothing
<1>1. PICK route \in Acc!Routes : Acc!Allowed(route, c) /\ effect \in route.does
  BY DoesWhatRoutesDo
<1>2. "JwtAuth" \notin route.guards
  <2>1. SUFFICES ASSUME "JwtAuth" \in route.guards PROVE FALSE
    OBVIOUS
  <2>2. Acc!JwtAuth(route, c)
    BY <1>1, <2>1, GuardsLetThrough
  <2>3. Acc!IsAllowedApiKey(c.scopes, route.scopes)
    BY <2>2 DEF Acc!JwtAuth, Acc!EvalAdmin
  <2>4. route.scopes \cap ({"npr"} \cup Acc!ReadingScopes) # {}
    BY <2>3 DEF Acc!IsAllowedApiKey
  <2> QED
    BY <1>1, <2>1, <2>4, RoutesGuarded DEF WellGuarded
<1>3. route.guards \subseteq {"Expire", "UserSetup"}
  BY <1>2, RoutesGuarded DEF WellGuarded
<1> DEFINE public == [c EXCEPT !.login = "none"]
<1>4. Acc!Allowed(route, public)
  <2>1. /\ Acc!Expire(public) <=> Acc!Expire(c)
        /\ Acc!IsConfigured(public) <=> Acc!IsConfigured(c)
    BY DEF Acc!Caller, Acc!Expire, Acc!IsConfigured
  <2>2. /\ "Expire" \in route.guards => Acc!Expire(c)
        /\ "UserSetup" \in route.guards => ~Acc!IsConfigured(c)
    BY <1>1 DEF Acc!Allowed
  <2> HIDE DEF public
  <2> QED
    BY <1>3, <2>1, <2>2 DEF Acc!Allowed
<1>5. effect \in Acc!Does(public)
  <2> HIDE DEF public
  <2> QED
    BY <1>1, <1>4 DEF Acc!Does
<1> QED
  BY <1>5 DEF Acc!InPublic

(* Every route that makes or changes a key, or the own password, asks for *)
(* a session; the password of others cannot be the owner's.               *)
THEOREM KeysNeverGrow == \A c \in Acc!Caller : Acc!KeysStayWhatTheyAre(c)
<1> SUFFICES ASSUME NEW c \in Acc!Caller, c.login = "api"
             PROVE  /\ Acc!Does(c) \cap {"apiKey", "ownPassword"} = {}
                    /\ "password" \in Acc!Does(c) /\ c.target = Acc!User => c.isadmin /\ c.owner # Acc!User
  BY DEF Acc!KeysStayWhatTheyAre
<1>1. ASSUME NEW effect \in Acc!Does(c), effect \in {"apiKey", "ownPassword"} PROVE FALSE
  <2>1. PICK route \in Acc!Routes : Acc!Allowed(route, c) /\ effect \in route.does
    BY DoesWhatRoutesDo
  <2>2. "ApiKey" \in route.guards
    BY <1>1, <2>1, RoutesGuarded DEF WellGuarded
  <2>3. Acc!ApiKey(c)
    BY <2>1, <2>2, GuardsLetThrough
  <2> QED
    BY <2>3 DEF Acc!ApiKey
<1>2. ASSUME "password" \in Acc!Does(c), c.target = Acc!User PROVE c.isadmin /\ c.owner # Acc!User
  <2>1. PICK route \in Acc!Routes : Acc!Allowed(route, c) /\ "password" \in route.does
    BY <1>2, DoesWhatRoutesDo
  <2>2. {"NotOwner", "Admin"} \subseteq route.guards /\ route.admin
    BY <2>1, RoutesGuarded DEF WellGuarded
  <2>3. Acc!NotOwner(c) /\ Acc!Admin(route, c)
    BY <2>1, <2>2, GuardsLetThrough
  <2> QED
    BY <1>2, <2>2, <2>3 DEF Acc!NotOwner, Acc!Admin
<1> QED
  BY <1>1, <1>2

(* What changes the instance or an account has a guard for each of those  *)
(* it must keep out.                                                      *)
THEOREM AccountsKeepTheirGuards == \A c \in Acc!Caller : Acc!AccountsAreGuarded(c)
<1> SUFFICES ASSUME NEW c \in Acc!Caller PROVE Acc!AccountsAreGuarded(c)
  OBVIOUS
<1> DEFINE told == c.isadmin \/ c.owner = Acc!User
<1>1. ASSUME NEW effect \in Acc!Does(c), effect \in {"capacity", "allTrees", "password", "account"}
      PROVE  told
  <2>1. PICK route \in Acc!Routes : Acc!Allowed(route, c) /\ effect \in route.does
    BY DoesWhatRoutesDo
  <2>2. "Admin" \in route.guards /\ route.admin
    BY <1>1, <2>1, RoutesGuarded DEF WellGuarded
  <2>3. Acc!Admin(route, c)
    BY <2>1, <2>2, GuardsLetThrough
  <2> QED
    BY <2>2, <2>3 DEF Acc!Admin
<1>2. ASSUME "role" \in Acc!Does(c), c.owner # None PROVE told
  <2>1. PICK route \in Acc!Routes : Acc!Allowed(route, c) /\ "role" \in route.does
    BY <1>2, DoesWhatRoutesDo
  <2>2. ("Admin" \in route.guards /\ route.admin) \/ "Owner" \in route.guards
    BY <2>1, RoutesGuarded DEF WellGuarded
  <2>3. (route.admin /\ Acc!Admin(route, c)) \/ Acc!Owner(c)
    BY <2>1, <2>2, GuardsLetThrough
  <2> QED
    BY <1>2, <2>3 DEF Acc!Admin, Acc!Owner
<1>3. ASSUME "owner" \in Acc!Does(c) PROVE c.owner \in {None, Acc!User}
  <2>1. PICK route \in Acc!Routes : Acc!Allowed(route, c) /\ "owner" \in route.does
    BY <1>3, DoesWhatRoutesDo
  <2>2. "Owner" \in route.guards
    BY <2>1, RoutesGuarded DEF WellGuarded
  <2>3. Acc!Owner(c)
    BY <2>1, <2>2, GuardsLetThrough
  <2> QED
    BY <2>3 DEF Acc!Owner
<1>4. ASSUME NEW effect \in Acc!Does(c), effect \in {"password", "account"} PROVE c.target # c.owner
  <2>1. PICK route \in Acc!Routes : Acc!Allowed(route, c) /\ effect \in route.does
    BY DoesWhatRoutesDo
  <2>2. "NotOwner" \in route.guards \/ "FirstUser" \in route.guards
    BY <1>4, <2>1, RoutesGuarded DEF WellGuarded
  <2>3. Acc!NotOwner(c) \/ Acc!FirstUser(c)
    BY <2>1, <2>2, GuardsLetThrough
  <2> QED
    BY <2>3 DEF Acc!NotOwner, Acc!FirstUser
<1>5. ASSUME "newOwner" \in Acc!Does(c) PROVE ~(c.admins /\ c.owner # None)
  <2>1. PICK route \in Acc!Routes : Acc!Allowed(route, c) /\ "newOwner" \in route.does
    BY <1>5, DoesWhatRoutesDo
  <2>2. "UserSetup" \in route.guards
    BY <2>1, RoutesGuarded DEF WellGuarded
  <2>3. ~Acc!IsConfigured(c)
    BY <2>1, <2>2, GuardsLetThrough
  <2> QED
    BY <2>3 DEF Acc!IsConfigured
<1> QED
  BY <1>1, <1>2, <1>3, <1>4, <1>5 DEF Acc!AccountsAreGuarded

-----------------------------------------------------------------------------
(* The charts.                                                             *)

(* Multiples are a unit apart.                                            *)
LEMMA NextMultiple ==
    ASSUME NEW unit \in Nat \ {0}, NEW a \in Int, NEW b \in Int, a < b
    PROVE  a * unit + unit <= b * unit
<1>1. (a + 1) * unit <= b * unit
  <2>1. b - (a + 1) \in Nat
    OBVIOUS
  <2>2. (b - (a + 1)) * unit \in Nat
    BY <2>1
  <2>3. (b - (a + 1)) * unit = b * unit - (a + 1) * unit
    OBVIOUS
  <2>4. b * unit \in Int /\ (a + 1) * unit \in Int
    OBVIOUS
  <2> QED
    BY <2>2, <2>3, <2>4
<1>2. (a + 1) * unit = a * unit + unit
  OBVIOUS
<1> QED
  BY <1>1, <1>2

(* What division does.                                                    *)
LEMMA Division ==
    ASSUME NEW unit \in Nat \ {0}, NEW t \in Int
    PROVE  /\ t \div unit \in Int /\ t % unit \in 0 .. unit - 1
           /\ t = (t \div unit) * unit + (t % unit)
           /\ StartOf(unit, t) \in Int
           /\ StartOf(unit, t) <= t /\ t < StartOf(unit, t) + unit
<1>1. t \div unit \in Int /\ t % unit \in 0 .. unit - 1
  OBVIOUS
<1>2. t = (t \div unit) * unit + (t % unit)
  OBVIOUS
<1> QED
  BY <1>1, <1>2 DEF StartOf

(* The quotient is the only multiple so close.                             *)
LEMMA DivisionIs ==
    ASSUME NEW unit \in Nat \ {0}, NEW t \in Int, NEW q \in Int,
           q * unit <= t, t < q * unit + unit
    PROVE  t \div unit = q
<1> DEFINE p == t \div unit
<1>1. p \in Int /\ p * unit <= t /\ t < p * unit + unit
  BY Division DEF StartOf
<1>2. q * unit \in Int /\ p * unit \in Int
  BY <1>1
<1> HIDE DEF p
<1>3. ~(p < q)
  <2>1. p < q => p * unit + unit <= q * unit
    BY <1>1, NextMultiple
  <2> QED
    BY <1>1, <1>2, <2>1
<1>4. ~(q < p)
  <2>1. q < p => q * unit + unit <= p * unit
    BY <1>1, NextMultiple
  <2> QED
    BY <1>1, <1>2, <2>1
<1>5. p = q
  BY <1>1, <1>3, <1>4
<1> QED
  BY <1>5 DEF p

(* It keeps the order ...                                                 *)
LEMMA DivisionGrows ==
    ASSUME NEW unit \in Nat \ {0}, NEW s \in Int, NEW t \in Int, s <= t
    PROVE  s \div unit <= t \div unit
<1> DEFINE p == s \div unit
           q == t \div unit
<1>1. /\ p \in Int /\ p * unit <= s /\ q \in Int /\ t < q * unit + unit
      /\ p * unit \in Int /\ q * unit \in Int
  BY Division DEF StartOf
<1> HIDE DEF p, q
<1>2. q < p => q * unit + unit <= p * unit
  BY <1>1, NextMultiple
<1>3. p <= q
  BY <1>1, <1>2
<1> QED
  BY <1>3 DEF p, q

(* ... and moves with multiples.                                          *)
LEMMA DivisionMoves ==
    ASSUME NEW unit \in Nat \ {0}, NEW t \in Int, NEW k \in Int
    PROVE  (t + k * unit) \div unit = t \div unit + k
<1> DEFINE p == t \div unit
<1>1. p \in Int /\ p * unit <= t /\ t < p * unit + unit
  BY Division DEF StartOf
<1> HIDE DEF p
<1>2. (p + k) * unit = p * unit + k * unit /\ k * unit \in Int /\ p * unit \in Int /\ p + k \in Int
  BY <1>1
<1>3. (p + k) * unit <= t + k * unit /\ t + k * unit < (p + k) * unit + unit /\ t + k * unit \in Int
  <2> DEFINE a == (p + k) * unit
             b == p * unit
             e == k * unit
  <2>1. a = b + e /\ e \in Int /\ b \in Int /\ b <= t /\ t < b + unit
    BY <1>1, <1>2
  <2> HIDE DEF a, b, e
  <2>2. a <= t + e /\ t + e < a + unit /\ t + e \in Int
    BY <2>1
  <2> QED
    BY <2>2 DEF a, e
<1>4. (t + k * unit) \div unit = p + k
  BY <1>2, <1>3, DivisionIs
<1> QED
  BY <1>4 DEF p

(* A time is in a whole unit if it is divided the same.                    *)
LEMMA InWhole ==
    ASSUME NEW unit \in Nat \ {0}, NEW s \in Int, NEW t \in Int
    PROVE  In(Whole(unit, s), t) <=> t \div unit = s \div unit
<1> DEFINE a == StartOf(unit, s)
           b == StartOf(unit, t)
<1>1. /\ a \in Int /\ b \in Int /\ b <= t /\ t < b + unit
  BY Division
<1>2. In(Whole(unit, s), t) <=> a <= t /\ t <= a + unit - 1
  BY DEF In, Whole, EndOf
<1>3. t \div unit = s \div unit => a = b
  BY DEF StartOf
<1>4. a <= t /\ t < a + unit => t \div unit = s \div unit
  <2>1. s \div unit \in Int
    BY Division
  <2> QED
    BY <2>1, DivisionIs DEF StartOf
<1> HIDE DEF a, b
<1> QED
  BY <1>1, <1>2, <1>3, <1>4

(* A time that shows in one range is one point of each chart.              *)
LEMMA ShownOnce ==
    ASSUME NEW timedimension, NEW t, NEW i, Shows(timedimension, t) = {i}
    PROVE  OnceInEachChart(timedimension, t)
<1>1. ASSUME NEW lines, NEW id \in lines PROVE Cardinality(Points(lines, timedimension, id, t)) = 1
  <2>1. Points(lines, timedimension, id, t) = {<<id, i>>}
    BY DEF Points
  <2> QED
    BY <2>1, FS_Singleton
<1>2. ASSUME NEW ans \in Answers
      PROVE  /\ GetAction(ans) \in ByAction
             /\ GetStatus(ans) \in ByStatus
             /\ GetReason(ans) \in ByReason
  BY DEF GetAction, ByAction, GetStatus, ByStatus, GetReason, ByReason
<1> QED
  BY <1>1, <1>2, Zenon DEF OnceInEachChart, RegisterActivity

(* A chart of the last units shows a time of one of them once.             *)
LEMMA LastUnitsShow ==
    ASSUME NEW n \in Nat, NEW unit \in Nat \ {0}, NEW now \in Int, NEW t \in Int,
           now \div unit - (n - 1) <= t \div unit, t \div unit <= now \div unit
    PROVE  OnceInEachChart(LastUnits(n, unit, now), t)
<1> DEFINE p == now \div unit
           q == t \div unit
<1>1. p \in Int /\ q \in Int
  BY Division
<1>2. ASSUME NEW i \in 1 .. n PROVE In(LastUnits(n, unit, now)[i], t) <=> q = p - (n - i)
  <2> DEFINE k == n - i
  <2>1. LastUnits(n, unit, now)[i] = Whole(unit, now - k * unit)
    BY DEF LastUnits
  <2>2. k \in Int /\ -k \in Int
    OBVIOUS
  <2> HIDE DEF k
  <2>3. now - k * unit = now + (-k) * unit /\ now - k * unit \in Int
    BY <2>2
  <2>4. (now - k * unit) \div unit = p + (-k)
    BY <2>2, <2>3, DivisionMoves
  <2>5. In(Whole(unit, now - k * unit), t) <=> q = (now - k * unit) \div unit
    BY <2>3, InWhole
  <2>6. p + (-k) = p - (n - i)
    BY <1>1 DEF k
  <2> QED
    BY <2>1, <2>4, <2>5, <2>6
<1>3. DOMAIN LastUnits(n, unit, now) = 1 .. n
  BY DEF LastUnits
<1>4. Shows(LastUnits(n, unit, now), t) = {i \in 1 .. n : q = p - (n - i)}
  BY <1>2, <1>3 DEF Shows
<1>5. p - (n - 1) <= q /\ q <= p
  OBVIOUS
<1> HIDE DEF p, q
<1>6. {i \in 1 .. n : q = p - (n - i)} = {n - (p - q)}
  BY <1>1, <1>5
<1>7. Shows(LastUnits(n, unit, now), t) = {n - (p - q)}
  BY <1>4, <1>6
<1> QED
  BY <1>7, ShownOnce

(* The charts of the last units count what is not older.                   *)
LEMMA LastUnitsCount ==
    ASSUME NEW n \in Nat \ {0}, NEW unit \in Nat \ {0}, NEW now \in Int, NEW t \in Int,
           StartOf(unit, now) - (n - 1) * unit <= t, t <= now
    PROVE  OnceInEachChart(LastUnits(n, unit, now), t)
<1> DEFINE p == now \div unit
           k == n - 1
<1>1. p \in Int /\ p * unit \in Int /\ StartOf(unit, now) = p * unit
  BY Division DEF StartOf
<1>2. t \div unit \in Int /\ t \div unit <= p
  BY Division, DivisionGrows
<1>3. p - k <= t \div unit
  <2>1. k \in Int
    OBVIOUS
  <2>2. p * unit - k * unit <= t
    BY <1>1
  <2> HIDE DEF p, k
  <2>3. (p - k) * unit = p * unit - k * unit /\ (p - k) * unit \in Int /\ p - k \in Int
    BY <1>1, <2>1
  <2>4. (p - k) * unit < (p - k) * unit + unit /\ (p - k) * unit <= (p - k) * unit
    BY <2>3
  <2>5. ((p - k) * unit) \div unit = p - k
    BY <2>3, <2>4, DivisionIs
  <2>6. ((p - k) * unit) \div unit <= t \div unit
    BY <2>2, <2>3, DivisionGrows
  <2> QED
    BY <2>5, <2>6
<1>4. n \in Nat /\ now \div unit - (n - 1) <= t \div unit /\ t \div unit <= now \div unit
  BY <1>2, <1>3
<1> QED
  BY <1>4, LastUnitsShow, Zenon

(* The charts of the last days.                                           *)
LEMMA EveryDayCounts ==
    ASSUME StatisticsAssumption, NEW n \in Nat \ {0}, NEW from \in Int, NEW to \in Int, from <= to
    PROVE  EveryDay(LastUnits(n, Day, to), n, from, to)
<1>1. Day \in Nat \ {0}
  BY DEF StatisticsAssumption, Day
<1>2. StartOf(Day, to) \in Int /\ StartOf(Day, to) <= to
  BY <1>1, Division
<1> DEFINE first == StartOf(Day, to) - (n - 1) * Day
<1>3. first \in Int /\ first <= to
  <2>1. (n - 1) * Day \in Nat
    BY <1>1
  <2> QED
    BY <1>2, <2>1
<1> SUFFICES ASSUME NEW t \in {first, from, to}, first <= t
             PROVE  OnceInEachChart(LastUnits(n, Day, to), t)
  BY DEF EveryDay
<1>4. t \in Int /\ t <= to
  BY <1>3
<1> QED
  BY <1>1, <1>4, LastUnitsCount

(* The chart of today, hour by hour.                                      *)
LEMMA TodayCounts ==
    ASSUME StatisticsAssumption, NEW to \in Int, NEW t \in Int, StartOf(Day, to) <= t, t <= to
    PROVE  OnceInEachChart(GetTimeTodayDimension(to), t)
<1> DEFINE s == StartOf(Day, to)
           k == 24 * (to \div Day)
           n == (to - s) \div Hour + 1
<1>1. Hour \in Nat \ {0} /\ Day \in Nat \ {0}
  BY DEF StatisticsAssumption, Day
<1>2. k \in Int /\ s \in Int /\ s = k * Hour /\ s <= to
  <2>1. to \div Day \in Int /\ s \in Int /\ s <= to
    BY <1>1, Division
  <2>2. s = (to \div Day) * (24 * Hour)
    BY DEF StartOf, Day
  <2> QED
    BY <1>1, <2>1, <2>2
<1> HIDE DEF s, k
<1>3. /\ to \div Hour \in Int
      /\ to \div Hour = (to - s) \div Hour + k
      /\ (to - s) \div Hour \in Int
  <2>1. to = (to - s) + k * Hour /\ to - s \in Int
    BY <1>2
  <2>2. ((to - s) + k * Hour) \div Hour = (to - s) \div Hour + k
    BY <1>1, <1>2, <2>1, DivisionMoves
  <2> QED
    BY <1>1, <2>1, <2>2, Division
<1>4. 0 <= (to - s) \div Hour
  <2>1. 0 \div Hour = 0
    BY <1>1, DivisionIs
  <2> QED
    BY <1>1, <1>2, <2>1, DivisionGrows
<1>5. n \in Nat \ {0}
  BY <1>3, <1>4
<1>6. StartOf(Hour, to) - (n - 1) * Hour = s
  <2>1. StartOf(Hour, to) = (to \div Hour) * Hour
    BY DEF StartOf
  <2>2. n - 1 = (to - s) \div Hour
    BY <1>3
  <2> DEFINE d == (to - s) \div Hour
  <2>3. d \in Int /\ to \div Hour = d + k
    BY <1>3
  <2>4. (d + k) * Hour = d * Hour + k * Hour /\ d * Hour \in Int /\ k * Hour \in Int
    <3> HIDE DEF d
    <3> QED
      BY <1>1, <1>2, <2>3
  <2> QED
    BY <1>2, <2>1, <2>2, <2>3, <2>4
<1>7. StartOf(Hour, to) - (n - 1) * Hour <= t
  BY <1>6 DEF s
<1>8. OnceInEachChart(LastUnits(n, Hour, to), t)
  <2> HIDE DEF n
  <2> QED
    BY <1>1, <1>5, <1>7, LastUnitsCount
<1> QED
  BY <1>8 DEF GetTimeTodayDimension, s

(* The time between two is so many units, or one less.                     *)
LEMMA UnitsBetween ==
    ASSUME NEW unit \in Nat \ {0}, NEW from \in Int, NEW to \in Int, from <= to
    PROVE  /\ (to - from) \div unit \in Nat
           /\ from % unit > to % unit =>
                  (to - from) \div unit = to \div unit - from \div unit - 1
           /\ ~(from % unit > to % unit) =>
                  (to - from) \div unit = to \div unit - from \div unit
<1> DEFINE p == from \div unit
           q == to \div unit
           a == from % unit
           b == to % unit
<1>1. /\ p \in Int /\ q \in Int /\ a \in 0 .. unit - 1 /\ b \in 0 .. unit - 1
      /\ from = p * unit + a /\ to = q * unit + b
  BY Division
<1>2. (to - from) \div unit \in Nat
  <2>1. 0 \div unit = 0
    BY DivisionIs
  <2>2. (to - from) \div unit \in Int
    BY Division
  <2> QED
    BY <2>1, <2>2, DivisionGrows
<1> HIDE DEF p, q, a, b
<1>3. /\ (q - p) * unit = q * unit - p * unit
      /\ (q - p - 1) * unit = q * unit - p * unit - unit
      /\ p * unit \in Int /\ q * unit \in Int /\ q - p \in Int /\ q - p - 1 \in Int
  BY <1>1
<1>4. ASSUME a > b PROVE (to - from) \div unit = q - p - 1
  <2>1. /\ (q - p - 1) * unit <= to - from
        /\ to - from < (q - p - 1) * unit + unit
    BY <1>1, <1>3, <1>4
  <2> QED
    BY <1>3, <2>1, DivisionIs
<1>5. ASSUME ~(a > b) PROVE (to - from) \div unit = q - p
  <2>1. (q - p) * unit <= to - from /\ to - from < (q - p) * unit + unit
    BY <1>1, <1>3, <1>5
  <2> QED
    BY <1>3, <2>1, DivisionIs
<1> QED
  BY <1>2, <1>4, <1>5 DEF p, q, a, b

(* A chart for a chosen time, range by range.                              *)
LEMMA CustomCounts ==
    ASSUME StatisticsAssumption, NEW from \in Int, NEW to \in Int, from <= to, NEW t \in Int,
           NEW unit, unit = RangeC(from, to)
    PROVE  LET custom == GetCustomTimeDimension(from, to)
               Missed == from % unit > to % unit /\ t \div unit = to \div unit - 1
           IN  IF t \in from .. to /\ ~Missed
               THEN OnceInEachChart(custom, t)
               ELSE Shows(custom, t) # {} =>
                        from \div unit = to \div unit /\ t \in StartOf(unit, to) .. to
<1> DEFINE custom == GetCustomTimeDimension(from, to)
           Missed == from % unit > to % unit /\ t \div unit = to \div unit - 1
           d == (to - from) \div unit
           p == from \div unit
           q == to \div unit
           x == t \div unit
           item(i) == IF i = 1 THEN [from |-> from, to |-> EndOf(unit, from)]
                      ELSE Whole(unit, from + (i - 1) * unit)
           first == [i \in 1 .. d |-> item(i)]
           last == [from |-> StartOf(unit, to), to |-> to]
<1>1. unit \in Nat \ {0}
  BY DEF StatisticsAssumption, RangeC, Day
<1>2. /\ d \in Nat /\ p \in Int /\ q \in Int /\ x \in Int
      /\ from % unit > to % unit => d = q - p - 1
      /\ ~(from % unit > to % unit) => d = q - p
  BY <1>1, UnitsBetween, Division
<1>3. /\ t <= to => x <= q
      /\ to <= t => q <= x
      /\ from <= t => p <= x
      /\ t <= from => x <= p
      /\ p <= q
  BY <1>1, DivisionGrows
<1>4. custom = Append(first, last)
  BY DEF GetCustomTimeDimension
<1>5. /\ DOMAIN custom = 1 .. d + 1
      /\ \A i \in 1 .. d : custom[i] = item(i)
      /\ custom[d + 1] = last
  <2> HIDE DEF item, last, d, custom
  <2>1. first \in Seq({item(i) : i \in 1 .. d}) /\ Len(first) = d /\ \A i \in 1 .. d : first[i] = item(i)
    BY <1>2
  <2> HIDE DEF first
  <2> QED
    BY <1>2, <1>4, <2>1
<1>6. Shows(custom, t) \subseteq 1 .. d + 1
  <2> HIDE DEF custom, d
  <2> QED
    BY <1>5 DEF Shows
<1>7. /\ StartOf(unit, from) \in Int /\ StartOf(unit, from) <= from
      /\ StartOf(unit, to) \in Int /\ StartOf(unit, to) <= to /\ to < StartOf(unit, to) + unit
  BY <1>1, Division
<1>8. ASSUME NEW i \in 1 .. d + 1
      PROVE  In(custom[i], t) <=>
               \/ i = 1 /\ 1 <= d /\ from <= t /\ x = p
               \/ i # 1 /\ i <= d /\ x = p + i - 1
               \/ i = d + 1 /\ x = q /\ t <= to
  <2>1. CASE i = 1 /\ 1 <= d
    <3>1. custom[i] = [from |-> from, to |-> EndOf(unit, from)]
      <4> HIDE DEF custom, d, last
      <4> QED
        BY <1>2, <1>5, <2>1
    <3>2. In(custom[i], t) <=> from <= t /\ t <= EndOf(unit, from)
      BY <3>1 DEF In
    <3>3. from <= t => (t <= EndOf(unit, from) <=> In(Whole(unit, from), t))
      BY <1>1, <1>7 DEF In, Whole, EndOf
    <3>4. In(Whole(unit, from), t) <=> x = p
      BY <1>1, InWhole
    <3> HIDE DEF custom, d, p, q, x, last
    <3> QED
      BY <1>2, <2>1, <3>2, <3>3, <3>4
  <2>2. CASE i # 1 /\ i <= d
    <3> DEFINE s == from + (i - 1) * unit
    <3>1. i - 1 \in Int /\ s \in Int
      BY <1>1, <1>2
    <3>2. custom[i] = Whole(unit, s)
      <4> HIDE DEF custom, d, last
      <4> QED
        BY <1>2, <1>5, <2>2
    <3>3. s \div unit = p + (i - 1)
      BY <1>1, <3>1, DivisionMoves
    <3>4. In(Whole(unit, s), t) <=> x = s \div unit
      <4> HIDE DEF s
      <4> QED
        BY <1>1, <3>1, InWhole
    <3> HIDE DEF custom, d, p, q, x, s, last
    <3> QED
      BY <1>2, <2>2, <3>1, <3>2, <3>3, <3>4
  <2>3. CASE i = d + 1
    <3>1. custom[i] = [from |-> StartOf(unit, to), to |-> to]
      BY <1>5, <2>3
    <3>2. In(custom[i], t) <=> StartOf(unit, to) <= t /\ t <= to
      BY <3>1 DEF In
    <3>3. t <= to => (StartOf(unit, to) <= t <=> In(Whole(unit, to), t))
      BY <1>1, <1>7 DEF In, Whole, EndOf
    <3>4. In(Whole(unit, to), t) <=> x = q
      BY <1>1, InWhole
    <3> HIDE DEF custom, d, p, q, x, last
    <3> QED
      BY <1>2, <2>3, <3>2, <3>3, <3>4
  <2> HIDE DEF custom, d, p, q, x, last
  <2> QED
    BY <1>2, <2>1, <2>2, <2>3
<1>9. ASSUME NEW i \in 1 .. d + 1
      PROVE  i \in Shows(custom, t) <=>
               \/ i = 1 /\ 1 <= d /\ from <= t /\ x = p
               \/ i # 1 /\ i <= d /\ x = p + i - 1
               \/ i = d + 1 /\ x = q /\ t <= to
  <2>1. i \in Shows(custom, t) <=> In(custom[i], t)
    <3> HIDE DEF custom, d
    <3> QED
      BY <1>5 DEF Shows
  <2> HIDE DEF custom, d, p, q, x
  <2> QED
    BY <1>8, <2>1
<1>10. x = q => StartOf(unit, to) <= t
  BY <1>1, Division DEF StartOf
<1>11. Missed <=> from % unit > to % unit /\ x = q - 1
  OBVIOUS
<1> HIDE DEF custom, Missed, d, p, q, x, item, first, last
<1>12. CASE t \in from .. to /\ ~Missed
  <2>1. CASE x = q
    <3>1. ASSUME NEW i \in 1 .. d + 1 PROVE i \in Shows(custom, t) <=> i = d + 1
      BY <1>2, <1>3, <1>9, <1>12, <2>1
    <3>2. d + 1 \in 1 .. d + 1
      BY <1>2
    <3>3. Shows(custom, t) = {d + 1}
      BY <1>6, <3>1, <3>2
    <3> QED
      BY <1>12, <3>3, ShownOnce DEF custom, Missed
  <2>2. CASE x # q
    <3>1. p <= x /\ x < q /\ x - p < d
      BY <1>2, <1>3, <1>11, <1>12, <2>2
    <3>2. ASSUME NEW i \in 1 .. d + 1 PROVE i \in Shows(custom, t) <=> i = x - p + 1
      BY <1>2, <1>9, <1>12, <3>1
    <3>3. x - p + 1 \in 1 .. d + 1
      BY <1>2, <3>1
    <3>4. Shows(custom, t) = {x - p + 1}
      BY <1>6, <3>2, <3>3
    <3> QED
      BY <1>12, <3>4, ShownOnce DEF custom, Missed
  <2> QED
    BY <2>1, <2>2
<1>13. CASE ~(t \in from .. to /\ ~Missed)
  <2>1. ASSUME NEW i \in Shows(custom, t) PROVE p = q /\ t \in StartOf(unit, to) .. to
    <3>1. i \in 1 .. d + 1
      BY <1>6
    <3>2. CASE t \in from .. to /\ Missed
      BY <1>2, <1>9, <1>11, <2>1, <3>1, <3>2
    <3>3. CASE t < from
      BY <1>2, <1>3, <1>9, <1>10, <1>7, <2>1, <3>1, <3>3
    <3>4. CASE t > to
      BY <1>2, <1>3, <1>9, <2>1, <3>1, <3>4
    <3> QED
      BY <1>13, <3>2, <3>3, <3>4
  <2>2. Shows(custom, t) # {} => p = q /\ t \in StartOf(unit, to) .. to
    BY <2>1
  <2> QED
    BY <1>13, <2>2 DEF custom, Missed, p, q
<1> QED
  BY <1>12, <1>13

(* The charts count every visit once, for any length of an hour and any    *)
(* time.                                                                   *)
THEOREM ChartsCount ==
    ASSUME StatisticsAssumption, NEW from \in Int, NEW to \in Int, from <= to
    PROVE  EveryVisitCounts(from, to)
<1> DEFINE unit == RangeC(from, to)
           custom == GetCustomTimeDimension(from, to)
           Missed(t) == from % unit > to % unit /\ t \div unit = to \div unit - 1
<1>1. Hour \in Nat \ {0} /\ Day \in Nat \ {0} /\ unit \in Nat \ {0}
  BY DEF StatisticsAssumption, Day, RangeC
<1>2. \A t \in StartOf(Day, to) .. to : OnceInEachChart(GetTimeTodayDimension(to), t)
  <2>1. StartOf(Day, to) \in Int
    BY <1>1, Division
  <2> QED
    BY <2>1, TodayCounts
<1>3. EveryDay(GetTimeLast7Days(to), 7, from, to) /\ EveryDay(GetTimeLast30Days(to), 30, from, to)
  BY EveryDayCounts DEF GetTimeLast7Days, GetTimeLast30Days
<1>4. \A n \in {1, 31} : EveryDay(GetTimeThisMonth(n, to), n, from, to)
  BY EveryDayCounts DEF GetTimeThisMonth
<1>5. ASSUME NEW t \in StartOf(unit, from) - 1 .. EndOf(unit, to) + 1
      PROVE  IF t \in from .. to /\ ~Missed(t)
             THEN OnceInEachChart(custom, t)
             ELSE Shows(custom, t) # {} => from \div unit = to \div unit /\ t \in StartOf(unit, to) .. to
  <2>1. t \in Int
    BY <1>1, Division DEF EndOf
  <2> HIDE DEF unit
  <2>2. unit = RangeC(from, to)
    BY DEF unit
  <2> QED
    BY <2>1, <2>2, CustomCounts
<1> QED
  BY <1>2, <1>3, <1>4, <1>5 DEF EveryVisitCounts

-----------------------------------------------------------------------------
(* The search.                                                             *)

(* The module instance has a name of its own for the greatest of a set.    *)
LEMMA SameMax == \A s : Find!Max(s) = Max(s)
  BY DEF Find!Max, Max

(* What the first loop is at after a turn, in an index of n files.         *)
States(n) == [files : Seq(1 .. n), results : Seq(1 .. n)]

(* The list without one element.                                           *)
LEMMA Removed ==
    ASSUME NEW S, NEW s \in Seq(S), NEW i \in 1 .. Len(s)
    PROVE  /\ Find!RemoveAt(s, i) \in Seq(S)
           /\ Len(Find!RemoveAt(s, i)) = Len(s) - 1
           /\ \A j \in 1 .. Len(s) - 1 :
                 Find!RemoveAt(s, i)[j] = IF j < i THEN s[j] ELSE s[j + 1]
<1> DEFINE before == SubSeq(s, 1, i - 1)
           after == SubSeq(s, i + 1, Len(s))
<1>1. Len(s) \in Nat /\ \A j \in 1 .. Len(s) : s[j] \in S
  BY LenProperties, ElementOfSeq
<1>2. /\ before \in Seq(S) /\ Len(before) = i - 1
      /\ \A j \in 1 .. i - 1 : before[j] = s[j]
  <2>1. /\ 1 \in Int /\ i - 1 \in Int /\ \A j \in 1 .. (i - 1) : s[j] \in S
        /\ (IF 1 <= i - 1 THEN (i - 1) - 1 + 1 ELSE 0) = i - 1
        /\ (i - 1) - 1 + 1 = i - 1 /\ \A j \in 1 .. i - 1 : 1 + j - 1 = j
    BY <1>1
  <2>2. /\ SubSeq(s, 1, i - 1) \in Seq(S)
        /\ Len(SubSeq(s, 1, i - 1)) = IF 1 <= i - 1 THEN (i - 1) - 1 + 1 ELSE 0
        /\ \A j \in 1 .. (i - 1) - 1 + 1 : SubSeq(s, 1, i - 1)[j] = s[1 + j - 1]
    BY <2>1, SubSeqProperties
  <2> QED
    BY <2>1, <2>2
<1>3. /\ after \in Seq(S) /\ Len(after) = Len(s) - i
      /\ \A j \in 1 .. Len(s) - i : after[j] = s[i + j]
  <2>1. /\ i + 1 \in Int /\ Len(s) \in Int /\ \A j \in (i + 1) .. Len(s) : s[j] \in S
        /\ (IF i + 1 <= Len(s) THEN Len(s) - (i + 1) + 1 ELSE 0) = Len(s) - i
        /\ Len(s) - (i + 1) + 1 = Len(s) - i
        /\ \A j \in 1 .. Len(s) - i : (i + 1) + j - 1 = i + j
    BY <1>1
  <2>2. /\ SubSeq(s, i + 1, Len(s)) \in Seq(S)
        /\ Len(SubSeq(s, i + 1, Len(s))) = IF i + 1 <= Len(s) THEN Len(s) - (i + 1) + 1 ELSE 0
        /\ \A j \in 1 .. Len(s) - (i + 1) + 1 :
              SubSeq(s, i + 1, Len(s))[j] = s[(i + 1) + j - 1]
    <3> DEFINE m == i + 1
               l == Len(s)
    <3>1. m \in Int /\ l \in Int /\ \A j \in m .. l : s[j] \in S
      BY <2>1
    <3> HIDE DEF m, l
    <3>2. /\ SubSeq(s, m, l) \in Seq(S)
          /\ Len(SubSeq(s, m, l)) = IF m <= l THEN l - m + 1 ELSE 0
          /\ \A j \in 1 .. l - m + 1 : SubSeq(s, m, l)[j] = s[m + j - 1]
      BY <3>1, SubSeqProperties
    <3> QED
      BY <3>2 DEF m, l
  <2> QED
    BY <2>1, <2>2
<1>4. /\ before \o after \in Seq(S) /\ Len(before \o after) = Len(before) + Len(after)
      /\ \A j \in 1 .. Len(before) + Len(after) : (before \o after)[j] =
            IF j <= Len(before) THEN before[j] ELSE after[j - Len(before)]
  <2> HIDE DEF before, after
  <2> QED
    BY <1>2, <1>3, ConcatProperties
<1>5. Len(before) + Len(after) = Len(s) - 1
  <2> HIDE DEF before, after
  <2> QED
    BY <1>1, <1>2, <1>3
<1>6. ASSUME NEW j \in 1 .. Len(s) - 1
      PROVE  (before \o after)[j] = IF j < i THEN s[j] ELSE s[j + 1]
  <2> HIDE DEF before, after
  <2>1. CASE j < i
    BY <1>1, <1>2, <1>4, <1>5, <2>1
  <2>2. CASE ~(j < i)
    <3>1. j - (i - 1) \in 1 .. Len(s) - i /\ ~(j <= i - 1) /\ i + (j - (i - 1)) = j + 1
      BY <1>1, <2>2
    <3>2. (before \o after)[j] = after[j - (i - 1)]
      BY <1>2, <1>4, <1>5, <3>1
    <3>3. after[j - (i - 1)] = s[i + (j - (i - 1))]
      BY <1>3, <3>1
    <3> QED
      BY <2>2, <3>1, <3>2, <3>3
  <2> QED
    BY <2>1, <2>2
<1> HIDE DEF before, after
<1> QED
  BY <1>4, <1>5, <1>6 DEF Find!RemoveAt, before, after

(* The shape of an index of n files.                                       *)
Indexed(index, n) ==
    /\ index.matches \in [1 .. n -> BOOLEAN] /\ index.below \in 0 .. n
    /\ Len(index.matches) = n
    /\ Find!All(index) = [i \in 1 .. n |-> i]
    /\ Find!All(index) \in Seq(1 .. n) /\ Len(Find!All(index)) = n

(* Every index has one.                                                    *)
LEMMA IndexShape ==
    ASSUME NEW index \in Find!Indexes
    PROVE  \E n \in Nat : Indexed(index, n)
<1>1. PICK n \in 0 .. MaxLength : index \in [matches : [1 .. n -> BOOLEAN], below : 0 .. n]
  BY DEF Find!Indexes
<1>2. n \in Nat
  OBVIOUS
<1>3. index.matches \in [1 .. n -> BOOLEAN] /\ index.below \in 0 .. n
  BY <1>1
<1>4. Len(index.matches) = n
  BY <1>2, <1>3
<1>5. Find!All(index) = [i \in 1 .. n |-> i]
  BY <1>4 DEF Find!All
<1>6. [i \in 1 .. n |-> i] \in Seq(1 .. n) /\ Len([i \in 1 .. n |-> i]) = n
  BY <1>2
<1> QED
  BY <1>2, <1>3, <1>4, <1>5, <1>6 DEF Indexed

(* A turn leaves lists of files.                                           *)
LEMMA VisitType ==
    ASSUME NEW n \in Nat, NEW index, NEW k \in 1 .. n, NEW state \in States(n)
    PROVE  Find!Visit(index, state, k) \in States(n)
<1> DEFINE files == state.files
           results == state.results
<1>1. files \in Seq(1 .. n) /\ results \in Seq(1 .. n)
  BY DEF States
<1>2. CASE k <= Len(files) /\ index.matches[files[k]]
  <2>1. k \in 1 .. Len(files)
    BY <1>1, <1>2, LenProperties
  <2> HIDE DEF files, results
  <2>2. Find!RemoveAt(files, k) \in Seq(1 .. n)
    BY <1>1, <2>1, Removed
  <2>3. Append(results, files[k]) \in Seq(1 .. n)
    <3>1. files[k] \in 1 .. n
      BY <1>1, <2>1, ElementOfSeq
    <3> QED
      BY <1>1, <3>1
  <2> QED
    BY <1>2, <2>2, <2>3 DEF Find!Visit, States, files, results
<1>3. CASE ~(k <= Len(files) /\ index.matches[files[k]])
  BY <1>3 DEF Find!Visit
<1> QED
  BY <1>2, <1>3

(* The fold of forEach is its turns, one after the other.                  *)
LEMMA ForEachTurns ==
    ASSUME NEW n \in Nat, NEW index, Indexed(index, n)
    PROVE  \E t : /\ t[0] = [files |-> Find!All(index), results |-> <<>>]
                  /\ \A k \in 1 .. n : t[k] = Find!Visit(index, t[k - 1], k)
                  /\ Find!ForEach(index) = t[n]
<1> DEFINE start == [files |-> Find!All(index), results |-> <<>>]
           Turn(g) == [s \in SUBSET DOMAIN Find!All(index) |->
                          IF s = {} THEN start
                          ELSE Find!Visit(index, g[s \ {Find!Max(s)}], Find!All(index)[Find!Max(s)])]
           iter == CHOOSE g : g = Turn(g)
           step == [p \in States(n) \X (1 .. n) |-> Find!Visit(index, p[1], p[2])]
           t == [k \in 0 .. n |-> iter[1 .. k]]
<1>1. Find!ForEach(index) = iter[DOMAIN Find!All(index)]
  BY DEF Find!ForEach, Find!FoldLeft, Find!MapThenFoldSet
<1>2. DOMAIN Find!All(index) = 1 .. n /\ \A i \in 1 .. n : Find!All(index)[i] = i
  BY DEF Indexed
<1>3. start \in States(n) /\ step \in [States(n) \X (1 .. n) -> States(n)]
  <2>1. start \in States(n)
    BY EmptySeq DEF Indexed, States
  <2>2. \A state \in States(n), k \in 1 .. n : Find!Visit(index, state, k) \in States(n)
    BY VisitType
  <2> HIDE DEF start
  <2> QED
    BY <2>1, <2>2
<1>4. PICK g \in [SUBSET (1 .. n) -> States(n)] : \A s \in SUBSET (1 .. n) :
            g[s] = IF s = {} THEN start ELSE step[<<g[s \ {Max(s)}], Max(s)>>]
  <2> DEFINE A == States(n)
  <2>1. start \in A /\ step \in [A \X (1 .. n) -> A]
    BY <1>3
  <2> HIDE DEF step, start, A
  <2>2. \E g \in [SUBSET (1 .. n) -> A] : IsFold(g, n, start, step)
    BY <2>1, FoldExists
  <2> QED
    BY <2>2 DEF A, IsFold
<1>5. g = Turn(g)
  <2>1. ASSUME NEW s \in SUBSET (1 .. n), s # {}
        PROVE  g[s] = Find!Visit(index, g[s \ {Find!Max(s)}], Find!All(index)[Find!Max(s)])
    <3>1. Max(s) \in 1 .. n /\ g[s \ {Max(s)}] \in States(n)
      BY <1>4, <2>1, HasGreatest
    <3>2. step[<<g[s \ {Max(s)}], Max(s)>>] = Find!Visit(index, g[s \ {Max(s)}], Max(s))
      BY <3>1
    <3> HIDE DEF step
    <3> QED
      BY <1>2, <1>4, <2>1, <3>1, <3>2, SameMax
  <2> HIDE DEF start, step
  <2> QED
    BY <1>2, <1>4, <2>1
<1>6. iter = Turn(iter)
  <2> HIDE DEF Turn
  <2> QED
    BY <1>5
<1>7. t[0] = start
  <2>1. 1 .. 0 = {} /\ {} \in SUBSET (1 .. n) /\ 0 \in 0 .. n
    OBVIOUS
  <2> HIDE DEF iter, start
  <2> QED
    BY <1>2, <1>6, <2>1
<1>8. ASSUME NEW k \in 1 .. n PROVE t[k] = Find!Visit(index, t[k - 1], k)
  <2>1. /\ 1 .. k \in SUBSET (1 .. n) /\ k \in 0 .. n /\ k - 1 \in 0 .. n
        /\ 1 .. k # {} /\ Find!Max(1 .. k) = k /\ (1 .. k) \ {k} = 1 .. (k - 1)
    BY LastOfPlaces, SameMax
  <2>2. iter[1 .. k] = Find!Visit(index, iter[(1 .. k) \ {Find!Max(1 .. k)}],
                                  Find!All(index)[Find!Max(1 .. k)])
    <3> HIDE DEF iter, start
    <3> QED
      BY <1>2, <1>6, <2>1
  <2>3. iter[1 .. k] = Find!Visit(index, iter[1 .. (k - 1)], k)
    <3> HIDE DEF iter
    <3> QED
      BY <1>2, <2>1, <2>2
  <2> HIDE DEF iter
  <2> QED
    BY <2>1, <2>3
<1>9. Find!ForEach(index) = t[n]
  <2> HIDE DEF iter
  <2> QED
    BY <1>1, <1>2
<1> QED
  <2> HIDE DEF t
  <2> QED
    BY <1>7, <1>8, <1>9

(* Where the first loop is after k turns: the files are each in one of the *)
(* lists, in their order in the first; what is not visited yet has moved as*)
(* many places as there are results; and a match it was made to pass over  *)
(* follows a result.                                                       *)
Passed(index, n, k, files, results) ==
    /\ files \in Seq(1 .. n) /\ results \in Seq(1 .. n)
    /\ Len(files) + Len(results) = n
    /\ \A a, b \in 1 .. Len(files) : a < b => files[a] < files[b]
    /\ \A a, b \in 1 .. Len(results) : results[a] = results[b] => a = b
    /\ \A a \in 1 .. Len(files), b \in 1 .. Len(results) : files[a] # results[b]
    /\ \A x \in 1 .. n : \/ \E a \in 1 .. Len(files) : files[a] = x
                         \/ \E b \in 1 .. Len(results) : results[b] = x
    /\ \A b \in 1 .. Len(results) : index.matches[results[b]]
    /\ \A a \in 1 .. Len(files) : a > k => files[a] = a + Len(results)
    /\ \A a \in 1 .. Len(files) : a <= k /\ index.matches[files[a]] =>
            \E b \in 1 .. Len(results) : results[b] = files[a] - 1

(* A turn that finds no match leaves all where it is.                      *)
LEMMA PassesNoMatch ==
    ASSUME NEW n \in Nat, NEW index, NEW k \in 1 .. n, NEW files, NEW results,
           Len(files) \in Nat, Passed(index, n, k - 1, files, results),
           ~(k <= Len(files) /\ index.matches[files[k]])
    PROVE  Passed(index, n, k, files, results)
<1>1. \A a \in 1 .. Len(files) : a > k => a > k - 1
  OBVIOUS
<1>2. \A a \in 1 .. Len(files) : a <= k /\ index.matches[files[a]] => a <= k - 1
  OBVIOUS
<1>3. \A a \in 1 .. Len(files) : a > k => files[a] = a + Len(results)
  BY <1>1 DEF Passed
<1>4. \A a \in 1 .. Len(files) : a <= k /\ index.matches[files[a]] =>
            \E b \in 1 .. Len(results) : results[b] = files[a] - 1
  BY <1>2 DEF Passed
<1> QED
  BY <1>3, <1>4 DEF Passed

(* A match goes to the results, and those after it one place to the left.  *)
Moved(n, k, files, results, left, more) ==
    /\ left \in Seq(1 .. n) /\ Len(left) = Len(files) - 1
    /\ \A j \in 1 .. Len(files) - 1 : left[j] = IF j < k THEN files[j] ELSE files[j + 1]
    /\ more \in Seq(1 .. n) /\ Len(more) = Len(results) + 1
    /\ \A b \in 1 .. Len(results) : more[b] = results[b]
    /\ more[Len(results) + 1] = files[k]

(* What is promised holds of the lists after it.                           *)
LEMMA PassesMatch ==
    ASSUME NEW n \in Nat, NEW index, NEW k \in 1 .. n, NEW files, NEW results,
           Passed(index, n, k - 1, files, results),
           k \in 1 .. Len(files), index.matches[files[k]],
           NEW left, NEW more, Moved(n, k, files, results, left, more)
    PROVE  Passed(index, n, k, left, more)
<1> DEFINE f == Len(files)
           r == Len(results)
<1>1. /\ f \in Nat /\ r \in Nat /\ f + r = n /\ k \in 1 .. f
      /\ Len(left) = f - 1 /\ Len(more) = r + 1
      /\ left \in Seq(1 .. n) /\ more \in Seq(1 .. n)
  BY LenProperties DEF Passed, Moved
<1>2. /\ \A a \in 1 .. f : files[a] \in 1 .. n
      /\ \A b \in 1 .. r : results[b] \in 1 .. n
  BY ElementOfSeq DEF Passed
<1>3. \A a, b \in 1 .. f : a < b => files[a] < files[b]
  BY DEF Passed
<1>4. \A a, b \in 1 .. r : results[a] = results[b] => a = b
  BY DEF Passed
<1>5. \A a \in 1 .. f, b \in 1 .. r : files[a] # results[b]
  BY DEF Passed
<1>6. \A x \in 1 .. n : (\E a \in 1 .. f : files[a] = x) \/ (\E b \in 1 .. r : results[b] = x)
  BY DEF Passed
<1>7. \A b \in 1 .. r : index.matches[results[b]]
  BY DEF Passed
<1>8. \A a \in 1 .. f : a > k - 1 => files[a] = a + r
  BY DEF Passed
<1>9. \A a \in 1 .. f : a <= k - 1 /\ index.matches[files[a]] =>
          \E b \in 1 .. r : results[b] = files[a] - 1
  BY DEF Passed
<1>10. \A j \in 1 .. f - 1 : left[j] = IF j < k THEN files[j] ELSE files[j + 1]
  BY DEF Moved
<1>11. (\A b \in 1 .. r : more[b] = results[b]) /\ more[r + 1] = files[k]
  BY DEF Moved
<1> HIDE DEF f, r
<1>12. Len(left) + Len(more) = n
  <2>1. ASSUME NEW x \in Nat, NEW y \in Nat, x + y = n PROVE (x - 1) + (y + 1) = n
    BY <2>1
  <2>2. (f - 1) + (r + 1) = n
    BY <1>1, <2>1
  <2> QED
    BY <1>1, <2>2
<1>13. ASSUME NEW a \in 1 .. f - 1, NEW b \in 1 .. f - 1, a < b PROVE left[a] < left[b]
  <2> DEFINE c == IF a < k THEN a ELSE a + 1
             d == IF b < k THEN b ELSE b + 1
  <2>1. c \in 1 .. f /\ d \in 1 .. f /\ c < d
    BY <1>1, <1>13
  <2>2. left[a] = files[c] /\ left[b] = files[d]
    BY <1>10
  <2> HIDE DEF c, d
  <2> QED
    BY <1>3, <2>1, <2>2
<1>14. ASSUME NEW a \in 1 .. r + 1, NEW b \in 1 .. r + 1, more[a] = more[b] PROVE a = b
  <2>1. (a \in 1 .. r \/ a = r + 1) /\ (b \in 1 .. r \/ b = r + 1)
    BY <1>1
  <2>2. \A c \in 1 .. r : files[k] # results[c]
    BY <1>1, <1>5
  <2> QED
    BY <1>4, <1>11, <1>14, <2>1, <2>2
<1>15. ASSUME NEW a \in 1 .. f - 1, NEW b \in 1 .. r + 1 PROVE left[a] # more[b]
  <2> DEFINE c == IF a < k THEN a ELSE a + 1
  <2>1. c \in 1 .. f /\ (c < k \/ k < c)
    BY <1>1
  <2>2. left[a] = files[c]
    BY <1>10
  <2>3. b \in 1 .. r \/ b = r + 1
    BY <1>1
  <2> HIDE DEF c
  <2>4. files[c] # files[k]
    <3>1. files[c] < files[k] \/ files[k] < files[c]
      BY <1>1, <1>3, <2>1
    <3>2. files[c] \in Int /\ files[k] \in Int
      BY <1>1, <1>2, <2>1
    <3> QED
      BY <3>1, <3>2
  <2>5. \A e \in 1 .. r : files[c] # results[e]
    BY <1>5, <2>1
  <2> QED
    BY <1>11, <2>2, <2>3, <2>4, <2>5
<1>16. ASSUME NEW x \in 1 .. n
       PROVE  (\E a \in 1 .. f - 1 : left[a] = x) \/ (\E b \in 1 .. r + 1 : more[b] = x)
  <2>1. CASE \E b \in 1 .. r : results[b] = x
    BY <1>1, <1>11, <2>1
  <2>2. CASE \E a \in 1 .. f : files[a] = x
    <3>1. PICK a \in 1 .. f : files[a] = x
      BY <2>2
    <3>2. CASE a = k
      BY <1>1, <1>11, <3>1, <3>2
    <3>3. CASE a < k
      <4>1. a \in 1 .. f - 1 /\ left[a] = x
        BY <1>1, <1>10, <3>1, <3>3
      <4> QED
        BY <4>1
    <3>4. CASE a > k
      <4>1. a - 1 \in 1 .. f - 1 /\ ~(a - 1 < k) /\ (a - 1) + 1 = a
        BY <1>1, <3>4
      <4>2. left[a - 1] = x
        BY <1>10, <3>1, <4>1
      <4> QED
        BY <4>1, <4>2
    <3> QED
      BY <1>1, <3>2, <3>3, <3>4
  <2> QED
    BY <1>6, <2>1, <2>2
<1>17. ASSUME NEW b \in 1 .. r + 1 PROVE index.matches[more[b]]
  <2>1. b \in 1 .. r \/ b = r + 1
    BY <1>1
  <2> QED
    BY <1>7, <1>11, <2>1
<1>18. ASSUME NEW a \in 1 .. f - 1, a > k PROVE left[a] = a + (r + 1)
  <2>1. a + 1 \in 1 .. f /\ a + 1 > k - 1 /\ ~(a < k) /\ a + 1 + r = a + (r + 1)
    BY <1>1, <1>18
  <2> QED
    BY <1>8, <1>10, <2>1
<1>19. ASSUME NEW a \in 1 .. f - 1, a <= k, index.matches[left[a]]
       PROVE  \E b \in 1 .. r + 1 : more[b] = left[a] - 1
  <2>1. CASE a < k
    <3>1. a \in 1 .. f /\ a <= k - 1 /\ left[a] = files[a]
      BY <1>1, <1>10, <2>1
    <3>2. PICK b \in 1 .. r : results[b] = files[a] - 1
      BY <1>9, <1>19, <3>1
    <3>3. b \in 1 .. r + 1 /\ more[b] = left[a] - 1
      BY <1>1, <1>11, <3>1, <3>2
    <3> QED
      BY <3>3
  <2>2. CASE a = k
    <3>1. k + 1 \in 1 .. f /\ k + 1 > k - 1 /\ k > k - 1 /\ r + 1 \in 1 .. r + 1
      BY <1>1, <2>2
    <3>2. left[a] = files[k + 1]
      BY <1>10, <2>2
    <3>4. files[k + 1] = k + 1 + r /\ files[k] = k + r
      BY <1>1, <1>8, <3>1
    <3>3. more[r + 1] = left[a] - 1
      BY <1>1, <1>11, <3>2, <3>4
    <3> QED
      BY <3>1, <3>3
  <2> QED
    BY <1>1, <1>19, <2>1, <2>2
<1> QED
  BY <1>1, <1>12, <1>13, <1>14, <1>15, <1>16, <1>17, <1>18, <1>19 DEF Passed

(* A turn takes the loop one place further.                                *)
LEMMA VisitPasses ==
    ASSUME NEW n \in Nat, NEW index, NEW k \in 1 .. n,
           NEW state \in States(n), Passed(index, n, k - 1, state.files, state.results)
    PROVE  Passed(index, n, k, Find!Visit(index, state, k).files,
                  Find!Visit(index, state, k).results)
<1> DEFINE files == state.files
           results == state.results
<1>1. files \in Seq(1 .. n) /\ results \in Seq(1 .. n)
  BY DEF States
<1>2. Len(files) \in Nat
  BY <1>1, LenProperties
<1>3. CASE ~(k <= Len(files) /\ index.matches[files[k]])
  <2>1. Find!Visit(index, state, k) = state
    BY <1>3 DEF Find!Visit
  <2>2. Passed(index, n, k, files, results)
    BY <1>2, <1>3, PassesNoMatch
  <2> QED
    BY <2>1, <2>2
<1>4. CASE k <= Len(files) /\ index.matches[files[k]]
  <2> DEFINE left == Find!RemoveAt(files, k)
             more == Append(results, files[k])
  <2>1. Find!Visit(index, state, k) = [files |-> left, results |-> more]
    BY <1>4 DEF Find!Visit
  <2>2. k \in 1 .. Len(files) /\ index.matches[files[k]]
    BY <1>2, <1>4
  <2>3. Passed(index, n, k - 1, files, results)
    OBVIOUS
  <2> HIDE DEF files, results
  <2>4. /\ left \in Seq(1 .. n) /\ Len(left) = Len(files) - 1
        /\ \A j \in 1 .. Len(files) - 1 : left[j] = IF j < k THEN files[j] ELSE files[j + 1]
    BY <1>1, <2>2, Removed
  <2>5. /\ more \in Seq(1 .. n) /\ Len(more) = Len(results) + 1
        /\ \A b \in 1 .. Len(results) : more[b] = results[b]
        /\ more[Len(results) + 1] = files[k]
    <3>1. files[k] \in 1 .. n
      BY <1>1, <2>2, ElementOfSeq
    <3> QED
      BY <1>1, <3>1
  <2> HIDE DEF left, more
  <2>6. Moved(n, k, files, results, left, more)
    BY <2>4, <2>5 DEF Moved
  <2>7. Passed(index, n, k, left, more)
    BY <2>2, <2>3, <2>6, PassesMatch
  <2> QED
    BY <2>1, <2>7
<1> QED
  BY <1>3, <1>4

(* Where the first loop ends.                                              *)
LEMMA ForEachPasses ==
    ASSUME NEW n \in Nat, NEW index, Indexed(index, n)
    PROVE  /\ Find!ForEach(index) \in States(n)
           /\ Passed(index, n, n, Find!ForEach(index).files, Find!ForEach(index).results)
<1> DEFINE start == [files |-> Find!All(index), results |-> <<>>]
<1>1. start \in States(n)
  BY EmptySeq DEF States, Indexed
<1>2. Passed(index, n, 0, start.files, start.results)
  <2>1. <<>> \in Seq(1 .. n) /\ Len(<<>>) = 0
    BY EmptySeq
  <2> QED
    BY <2>1 DEF Passed, Indexed
<1>3. PICK t : /\ t[0] = start
               /\ \A k \in 1 .. n : t[k] = Find!Visit(index, t[k - 1], k)
               /\ Find!ForEach(index) = t[n]
  BY ForEachTurns
<1> DEFINE good == {k \in 0 .. n : t[k] \in States(n) /\ Passed(index, n, k, t[k].files, t[k].results)}
<1>4. 0 \in good
  <2> HIDE DEF start
  <2> QED
    BY <1>1, <1>2, <1>3
<1>5. ASSUME NEW k \in 1 .. n, k - 1 \in good PROVE k \in good
  <2>1. t[k - 1] \in States(n) /\ Passed(index, n, k - 1, t[k - 1].files, t[k - 1].results)
    BY <1>5
  <2>2. t[k] = Find!Visit(index, t[k - 1], k)
    BY <1>3
  <2>3. t[k] \in States(n)
    BY <2>1, <2>2, VisitType
  <2>4. Passed(index, n, k, t[k].files, t[k].results)
    BY <2>1, <2>2, VisitPasses
  <2> QED
    BY <2>3, <2>4
<1>6. n \in good
  <2> HIDE DEF good
  <2> QED
    BY <1>4, <1>5, Inductive
<1> QED
  BY <1>3, <1>6

-----------------------------------------------------------------------------
(* The bisection.                                                          *)

(* Where the window of the bisection may be, in a list of l files.         *)
Windows(l) == [left : 1 .. l + 1, right : 0 .. l, found : 0 .. l]

(* A turn stays inside the list, and halves a window that is not done.     *)
LEMMA NarrowInside ==
    ASSUME NEW l \in Nat, NEW index, NEW files, NEW window \in Windows(l)
    PROVE  LET next == Find!Narrow(index, files, window)
           IN  /\ next \in Windows(l)
               /\ window.found # 0 \/ window.left > window.right => next = window
               /\ window.found = 0 /\ window.left <= window.right =>
                     \/ next.found # 0 /\ index.matches[files[next.found]]
                     \/ next.found = 0 /\ next.right - next.left < window.right - window.left
<1> DEFINE mid == (window.left + window.right) \div 2
<1>1. /\ window.left \in 1 .. l + 1 /\ window.right \in 0 .. l /\ window.found \in 0 .. l
      /\ window = [left |-> window.left, right |-> window.right, found |-> window.found]
  BY DEF Windows
<1>2. CASE window.found # 0 \/ window.left > window.right
  BY <1>1, <1>2 DEF Find!Narrow
<1>3. CASE window.found = 0 /\ window.left <= window.right
  <2>1. mid \in 1 .. l /\ window.left <= mid /\ mid <= window.right
    BY <1>1, <1>3
  <2>2. Find!Narrow(index, files, window) =
            IF index.matches[files[mid]] THEN [window EXCEPT !.found = mid]
            ELSE IF files[mid] <= index.below THEN [window EXCEPT !.left = mid + 1]
            ELSE [window EXCEPT !.right = mid - 1]
    BY <1>1, <1>3 DEF Find!Narrow
  <2> HIDE DEF mid
  <2>3. CASE index.matches[files[mid]]
    BY <1>1, <1>3, <2>1, <2>2, <2>3 DEF Windows
  <2>4. CASE ~index.matches[files[mid]] /\ files[mid] <= index.below
    <3>1. Find!Narrow(index, files, window) = [window EXCEPT !.left = mid + 1]
      BY <2>2, <2>4
    <3> QED
      BY <1>1, <1>3, <2>1, <3>1 DEF Windows
  <2>5. CASE ~index.matches[files[mid]] /\ ~(files[mid] <= index.below)
    <3>1. Find!Narrow(index, files, window) = [window EXCEPT !.right = mid - 1]
      BY <2>2, <2>5
    <3> QED
      BY <1>1, <1>3, <2>1, <3>1 DEF Windows
  <2> QED
    BY <2>3, <2>4, <2>5
<1> QED
  BY <1>1, <1>2, <1>3

(* The fold of the bisection is its turns.                                 *)
LEMMA BisectTurns ==
    ASSUME NEW n \in Nat, NEW index, NEW files \in Seq(1 .. n)
    PROVE  \E t : /\ t[0] = [left |-> 1, right |-> Len(files), found |-> 0]
                  /\ \A k \in 1 .. Len(files) : t[k] = Find!Narrow(index, files, t[k - 1])
                  /\ Find!Bisect(index, files) = t[Len(files)]
<1> DEFINE l == Len(files)
           start == [left |-> 1, right |-> l, found |-> 0]
           Turn(g) == [s \in SUBSET DOMAIN files |->
                          IF s = {} THEN start
                          ELSE Find!Narrow(index, files, g[s \ {Find!Max(s)}])]
           iter == CHOOSE g : g = Turn(g)
           A == Windows(l)
           step == [p \in A \X (1 .. l) |-> Find!Narrow(index, files, p[1])]
           t == [k \in 0 .. l |-> iter[1 .. k]]
<1>1. Find!Bisect(index, files) = iter[DOMAIN files]
  BY DEF Find!Bisect, Find!FoldLeft, Find!MapThenFoldSet
<1>2. l \in Nat /\ DOMAIN files = 1 .. l
  BY LenProperties
<1>3. start \in A /\ step \in [A \X (1 .. l) -> A]
  <2> HIDE DEF l
  <2>1. start \in A
    BY <1>2 DEF Windows
  <2>2. \A window \in A : Find!Narrow(index, files, window) \in A
    BY <1>2, NarrowInside
  <2> HIDE DEF A, start
  <2> QED
    BY <2>1, <2>2
<1>4. PICK g \in [SUBSET (1 .. l) -> A] : IsFold(g, l, start, step)
  <2> HIDE DEF l, A, start, step
  <2> QED
    BY <1>2, <1>3, FoldExists
<1>5. g = Turn(g)
  <2>1. ASSUME NEW s \in SUBSET (1 .. l), s # {}
        PROVE  g[s] = Find!Narrow(index, files, g[s \ {Find!Max(s)}])
    <3> HIDE DEF l, A
    <3>1. Max(s) \in 1 .. l /\ g[s \ {Max(s)}] \in A
      BY <1>2, <1>4, <2>1, HasGreatest
    <3>2. step[<<g[s \ {Max(s)}], Max(s)>>] = Find!Narrow(index, files, g[s \ {Max(s)}])
      BY <3>1
    <3> HIDE DEF step
    <3> QED
      BY <1>4, <2>1, <3>2, SameMax DEF IsFold
  <2> HIDE DEF l, A, start, step
  <2> QED
    BY <1>2, <1>4, <2>1 DEF IsFold
<1>6. iter = Turn(iter)
  <2> HIDE DEF Turn
  <2> QED
    BY <1>5
<1> HIDE DEF l
<1>7. t[0] = start
  <2>1. 1 .. 0 = {} /\ {} \in SUBSET (1 .. l) /\ 0 \in 0 .. l
    BY <1>2
  <2> HIDE DEF iter, start
  <2> QED
    BY <1>2, <1>6, <2>1
<1>8. ASSUME NEW k \in 1 .. l PROVE t[k] = Find!Narrow(index, files, t[k - 1])
  <2>1. /\ 1 .. k \in SUBSET (1 .. l) /\ k \in 0 .. l /\ k - 1 \in 0 .. l
        /\ 1 .. k # {} /\ Find!Max(1 .. k) = k /\ (1 .. k) \ {k} = 1 .. (k - 1)
    <3>1. k \in Nat /\ k # 0 /\ 1 .. k \in SUBSET (1 .. l) /\ k \in 0 .. l /\ k - 1 \in 0 .. l
      BY <1>2
    <3> QED
      BY <3>1, LastOfPlaces, SameMax
  <2>2. iter[1 .. k] = Find!Narrow(index, files, iter[(1 .. k) \ {Find!Max(1 .. k)}])
    <3> HIDE DEF iter, start
    <3> QED
      BY <1>2, <1>6, <2>1
  <2>3. iter[1 .. k] = Find!Narrow(index, files, iter[1 .. (k - 1)])
    <3> HIDE DEF iter
    <3> QED
      BY <2>1, <2>2
  <2> HIDE DEF iter
  <2> QED
    BY <2>1, <2>3
<1>9. Find!Bisect(index, files) = t[l]
  <2> HIDE DEF iter
  <2> QED
    BY <1>1, <1>2
<1> QED
  <2> HIDE DEF t
  <2> QED
    BY <1>7, <1>8, <1>9 DEF l

(* The bisection ends: after as many turns as there are files it has found *)
(* a match, or its window is empty.                                        *)
THEOREM BisectEnds ==
    ASSUME NEW n \in Nat, NEW index, NEW files \in Seq(1 .. n)
    PROVE  LET window == Find!Bisect(index, files)
           IN  /\ window \in Windows(Len(files))
               /\ window.found = 0 => window.left > window.right
               /\ window.found # 0 => index.matches[files[window.found]]
<1> DEFINE l == Len(files)
           start == [left |-> 1, right |-> l, found |-> 0]
           Narrowed(k, window) ==
               /\ window \in Windows(l)
               /\ window.found = 0 => window.right - window.left < l - k \/ window.left > window.right
               /\ window.found # 0 => index.matches[files[window.found]]
<1>1. l \in Nat
  BY LenProperties
<1>2. PICK t : /\ t[0] = start
               /\ \A k \in 1 .. l : t[k] = Find!Narrow(index, files, t[k - 1])
               /\ Find!Bisect(index, files) = t[l]
  BY BisectTurns
<1> HIDE DEF l
<1> DEFINE good == {k \in 0 .. l : Narrowed(k, t[k])}
<1>3. 0 \in good
  BY <1>1, <1>2 DEF Windows
<1>4. ASSUME NEW k \in 1 .. l, k - 1 \in good PROVE k \in good
  <2> DEFINE window == t[k - 1]
             next == Find!Narrow(index, files, window)
  <2>1. Narrowed(k - 1, window) /\ t[k] = next
    BY <1>2, <1>4
  <2>2. /\ window.left \in Int /\ window.right \in Int
        /\ next \in Windows(l) => next.left \in Int /\ next.right \in Int
    BY <2>1 DEF Windows
  <2>3. /\ next \in Windows(l)
        /\ window.found # 0 \/ window.left > window.right => next = window
        /\ window.found = 0 /\ window.left <= window.right =>
              \/ next.found # 0 /\ index.matches[files[next.found]]
              \/ next.found = 0 /\ next.right - next.left < window.right - window.left
    BY <1>1, <2>1, NarrowInside
  <2> HIDE DEF window, next
  <2>4. CASE window.found # 0 \/ window.left > window.right
    <3>1. next = window
      BY <2>3, <2>4
    <3> QED
      BY <2>1, <2>4, <3>1
  <2>5. CASE window.found = 0 /\ window.left <= window.right
    <3>1. window.right - window.left < l - (k - 1)
      BY <2>1, <2>2, <2>5
    <3>2. CASE next.found # 0
      BY <2>1, <2>3, <2>5, <3>2
    <3>3. CASE next.found = 0
      <4>1. next.right - next.left < window.right - window.left
        BY <2>3, <2>5, <3>3
      <4>2. next.right - next.left < l - k
        BY <1>1, <2>2, <2>3, <3>1, <4>1
      <4> QED
        BY <2>1, <2>3, <3>3, <4>2
    <3> QED
      BY <3>2, <3>3
  <2> QED
    BY <2>2, <2>4, <2>5
<1>5. l \in good
  <2> HIDE DEF good
  <2>1. \A k \in 0 .. l : k \in good
    BY <1>1, <1>3, <1>4, Inductive
  <2> QED
    BY <1>1, <2>1
<1>6. Narrowed(l, t[l])
  BY <1>5
<1> QED
  BY <1>1, <1>2, <1>6 DEF l, Windows

-----------------------------------------------------------------------------
(* What is around a match.                                                 *)

(* Outwards goes to every place once.                                      *)
LEMMA OutwardsEverywhere ==
    ASSUME NEW l \in Nat, NEW mid \in 1 .. l
    PROVE  /\ \A i \in 1 .. l : Find!Outwards(mid, i) \in 1 .. l
           /\ \A i, j \in 1 .. l : Find!Outwards(mid, i) = Find!Outwards(mid, j) => i = j
           /\ \A a \in 1 .. l : \E i \in 1 .. l : Find!Outwards(mid, i) = a
<1>1. \A i \in 1 .. l : Find!Outwards(mid, i) \in 1 .. l
  BY DEF Find!Outwards
<1>2. \A i, j \in 1 .. l : Find!Outwards(mid, i) = Find!Outwards(mid, j) => i = j
  BY DEF Find!Outwards
<1>3. ASSUME NEW a \in 1 .. l PROVE \E i \in 1 .. l : Find!Outwards(mid, i) = a
  <2>1. Find!Outwards(mid, a) \in 1 .. l /\ Find!Outwards(mid, Find!Outwards(mid, a)) = a
    BY DEF Find!Outwards
  <2> QED
    BY <2>1
<1> QED
  BY <1>1, <1>2, <1>3

(* The fold is its turns.                                                  *)
LEMMA AroundTurns ==
    ASSUME NEW n \in Nat, NEW index, NEW files \in Seq(1 .. n), NEW mid \in 1 .. Len(files)
    PROVE  \E t : /\ t[0] = <<>>
                  /\ \A k \in 1 .. Len(files) :
                        t[k] = Find!Push(index, t[k - 1], files[Find!Outwards(mid, k)])
                  /\ Find!Around(index, files, mid) = t[Len(files)]
<1> DEFINE l == Len(files)
           places == [i \in 1 .. l |-> i]
           Turn(g) == [s \in SUBSET DOMAIN places |->
                          IF s = {} THEN <<>>
                          ELSE Find!Push(index, g[s \ {Find!Max(s)}],
                                         files[Find!Outwards(mid, places[Find!Max(s)])])]
           iter == CHOOSE g : g = Turn(g)
           A == Seq(1 .. n)
           step == [p \in A \X (1 .. l) |-> Find!Push(index, p[1], files[Find!Outwards(mid, p[2])])]
           t == [k \in 0 .. l |-> iter[1 .. k]]
<1>1. Find!Around(index, files, mid) = iter[DOMAIN places]
  BY DEF Find!Around, Find!FoldLeft, Find!MapThenFoldSet
<1>2. l \in Nat
  BY LenProperties
<1>3. DOMAIN places = 1 .. l /\ \A i \in 1 .. l : places[i] = i
  OBVIOUS
<1>4. <<>> \in A /\ step \in [A \X (1 .. l) -> A]
  <2>1. <<>> \in A
    BY EmptySeq
  <2>2. \A k \in 1 .. l : files[Find!Outwards(mid, k)] \in 1 .. n
    BY <1>2, OutwardsEverywhere, ElementOfSeq
  <2>3. \A results \in A, k \in 1 .. l :
            Find!Push(index, results, files[Find!Outwards(mid, k)]) \in A
    <3>1. ASSUME NEW results \in Seq(1 .. n), NEW file \in 1 .. n
          PROVE  Find!Push(index, results, file) \in Seq(1 .. n)
      <4>1. Append(results, file) \in Seq(1 .. n)
        BY <3>1
      <4>2. Find!Push(index, results, file) \in {results, Append(results, file)}
        BY DEF Find!Push
      <4> QED
        BY <3>1, <4>1, <4>2
    <3> HIDE DEF l
    <3> QED
      BY <2>2, <3>1
  <2> HIDE DEF A, l
  <2> QED
    BY <2>1, <2>3
<1>5. PICK g \in [SUBSET (1 .. l) -> A] : IsFold(g, l, <<>>, step)
  <2> HIDE DEF l, A, step
  <2> QED
    BY <1>2, <1>4, FoldExists
<1> HIDE DEF l
<1>6. g = Turn(g)
  <2>1. ASSUME NEW s \in SUBSET (1 .. l), s # {}
        PROVE  g[s] = Find!Push(index, g[s \ {Find!Max(s)}],
                                files[Find!Outwards(mid, places[Find!Max(s)])])
    <3> HIDE DEF A
    <3>1. Max(s) \in 1 .. l /\ g[s \ {Max(s)}] \in A
      BY <1>2, <1>5, <2>1, HasGreatest
    <3>2. step[<<g[s \ {Max(s)}], Max(s)>>] =
              Find!Push(index, g[s \ {Max(s)}], files[Find!Outwards(mid, Max(s))])
      BY <3>1
    <3> HIDE DEF step, places
    <3> QED
      BY <1>3, <1>5, <2>1, <3>1, <3>2, SameMax DEF IsFold
  <2> HIDE DEF A, step, places
  <2> QED
    BY <1>3, <1>5, <2>1 DEF IsFold
<1>7. iter = Turn(iter)
  <2> HIDE DEF Turn
  <2> QED
    BY <1>6
<1> HIDE DEF places
<1>8. t[0] = <<>>
  <2>1. 1 .. 0 = {} /\ {} \in SUBSET (1 .. l) /\ 0 \in 0 .. l
    BY <1>2
  <2> HIDE DEF iter
  <2> QED
    BY <1>3, <1>7, <2>1
<1>9. ASSUME NEW k \in 1 .. l
      PROVE  t[k] = Find!Push(index, t[k - 1], files[Find!Outwards(mid, k)])
  <2>1. /\ 1 .. k \in SUBSET (1 .. l) /\ k \in 0 .. l /\ k - 1 \in 0 .. l
        /\ 1 .. k # {} /\ Find!Max(1 .. k) = k /\ (1 .. k) \ {k} = 1 .. (k - 1)
    <3>1. k \in Nat /\ k # 0 /\ 1 .. k \in SUBSET (1 .. l) /\ k \in 0 .. l /\ k - 1 \in 0 .. l
      BY <1>2
    <3> QED
      BY <3>1, LastOfPlaces, SameMax
  <2>2. iter[1 .. k] = Find!Push(index, iter[(1 .. k) \ {Find!Max(1 .. k)}],
                                 files[Find!Outwards(mid, places[Find!Max(1 .. k)])])
    <3> HIDE DEF iter
    <3> QED
      BY <1>3, <1>7, <2>1
  <2>3. iter[1 .. k] = Find!Push(index, iter[1 .. (k - 1)], files[Find!Outwards(mid, k)])
    <3> HIDE DEF iter
    <3> QED
      BY <1>3, <2>1, <2>2
  <2> HIDE DEF iter
  <2> QED
    BY <2>1, <2>3
<1>10. Find!Around(index, files, mid) = t[l]
  <2> HIDE DEF iter
  <2> QED
    BY <1>1, <1>2, <1>3
<1> QED
  <2> HIDE DEF t
  <2> QED
    BY <1>8, <1>9, <1>10 DEF l

(* What the loops around a match have pushed after k turns: each match they*)
(* came to, once.                                                          *)
Pushed(index, n, files, mid, k, results) ==
    /\ results \in Seq(1 .. n)
    /\ \A b \in 1 .. Len(results) : \E i \in 1 .. k :
           results[b] = files[Find!Outwards(mid, i)] /\ index.matches[results[b]]
    /\ \A a, b \in 1 .. Len(results) : results[a] = results[b] => a = b
    /\ \A i \in 1 .. k : index.matches[files[Find!Outwards(mid, i)]] =>
           \E b \in 1 .. Len(results) : results[b] = files[Find!Outwards(mid, i)]

(* A turn pushes a file it has not come to yet.                            *)
LEMMA PushPushes ==
    ASSUME NEW n \in Nat, NEW index, NEW files, NEW mid, NEW k \in Nat, k # 0,
           NEW results, Pushed(index, n, files, mid, k - 1, results),
           files[Find!Outwards(mid, k)] \in 1 .. n,
           \A i \in 1 .. k - 1 : files[Find!Outwards(mid, i)] # files[Find!Outwards(mid, k)]
    PROVE  Pushed(index, n, files, mid, k,
                  Find!Push(index, results, files[Find!Outwards(mid, k)]))
<1> DEFINE file(i) == files[Find!Outwards(mid, i)]
           more == Append(results, file(k))
           r == Len(results)
<1>1. /\ results \in Seq(1 .. n) /\ r \in Nat
      /\ \A b \in 1 .. r : \E i \in 1 .. k - 1 : results[b] = file(i) /\ index.matches[results[b]]
      /\ \A a, b \in 1 .. r : results[a] = results[b] => a = b
      /\ \A i \in 1 .. k - 1 : index.matches[file(i)] => \E b \in 1 .. r : results[b] = file(i)
  BY LenProperties DEF Pushed
<1>2. /\ k \in 1 .. k /\ \A i \in 1 .. k - 1 : i \in 1 .. k /\ file(i) # file(k)
      /\ \A i \in 1 .. k : i \in 1 .. k - 1 \/ i = k
  OBVIOUS
<1>3. CASE ~index.matches[file(k)]
  <2>1. Find!Push(index, results, file(k)) = results
    BY <1>3 DEF Find!Push
  <2> HIDE DEF file
  <2>2. \A b \in 1 .. r : \E i \in 1 .. k : results[b] = file(i) /\ index.matches[results[b]]
    BY <1>1, <1>2
  <2>3. \A i \in 1 .. k : index.matches[file(i)] => \E b \in 1 .. r : results[b] = file(i)
    BY <1>1, <1>2, <1>3
  <2> QED
    BY <1>1, <2>1, <2>2, <2>3 DEF Pushed, file
<1>4. CASE index.matches[file(k)]
  <2>1. Find!Push(index, results, file(k)) = more
    BY <1>4 DEF Find!Push
  <2>2. file(k) \in 1 .. n
    OBVIOUS
  <2> HIDE DEF file
  <2>3. /\ more \in Seq(1 .. n) /\ Len(more) = r + 1 /\ more[r + 1] = file(k)
        /\ \A b \in 1 .. r : more[b] = results[b]
    BY <1>1, <2>2
  <2>4. /\ \A b \in 1 .. r + 1 : b \in 1 .. r \/ b = r + 1
        /\ \A b \in 1 .. r : b \in 1 .. r + 1
        /\ r + 1 \in 1 .. r + 1
    BY <1>1
  <2> HIDE DEF r, more
  <2>5. ASSUME NEW b \in 1 .. r + 1
        PROVE  \E i \in 1 .. k : more[b] = file(i) /\ index.matches[more[b]]
    <3>1. CASE b = r + 1
      BY <1>2, <1>4, <2>3, <3>1
    <3>2. CASE b \in 1 .. r
      <4>1. PICK i \in 1 .. k - 1 : results[b] = file(i) /\ index.matches[results[b]]
        BY <1>1, <3>2
      <4> QED
        BY <1>2, <2>3, <3>2, <4>1
    <3> QED
      BY <2>4, <3>1, <3>2
  <2>6. ASSUME NEW a \in 1 .. r + 1, NEW b \in 1 .. r + 1, more[a] = more[b] PROVE a = b
    <3>1. \A c \in 1 .. r : results[c] # file(k)
      BY <1>1, <1>2
    <3>2. CASE a \in 1 .. r /\ b \in 1 .. r
      BY <1>1, <2>3, <2>6, <3>2
    <3>3. CASE a = r + 1 \/ b = r + 1
      BY <2>3, <2>4, <2>6, <3>1, <3>3
    <3> QED
      BY <2>4, <3>2, <3>3
  <2>7. ASSUME NEW i \in 1 .. k, index.matches[file(i)]
        PROVE  \E b \in 1 .. r + 1 : more[b] = file(i)
    BY <1>1, <1>2, <2>3, <2>4, <2>7
  <2> QED
    BY <2>1, <2>3, <2>5, <2>6, <2>7 DEF Pushed, file
<1> QED
  BY <1>3, <1>4

(* All matches of the list, each once, are around one of them.             *)
LEMMA AroundHasAll ==
    ASSUME NEW n \in Nat, NEW index, NEW files \in Seq(1 .. n), NEW mid \in 1 .. Len(files),
           \A a, b \in 1 .. Len(files) : a < b => files[a] < files[b]
    PROVE  LET around == Find!Around(index, files, mid)
           IN  /\ around \in Seq(1 .. n)
               /\ \A b \in 1 .. Len(around) : \E a \in 1 .. Len(files) :
                     around[b] = files[a] /\ index.matches[around[b]]
               /\ \A a, b \in 1 .. Len(around) : around[a] = around[b] => a = b
               /\ \A a \in 1 .. Len(files) : index.matches[files[a]] =>
                     \E b \in 1 .. Len(around) : around[b] = files[a]
<1> DEFINE l == Len(files)
           out(i) == Find!Outwards(mid, i)
<1>1. l \in Nat /\ \A a \in 1 .. l : files[a] \in 1 .. n
  BY LenProperties, ElementOfSeq
<1>2. /\ \A i \in 1 .. l : out(i) \in 1 .. l
      /\ \A i, j \in 1 .. l : out(i) = out(j) => i = j
      /\ \A a \in 1 .. l : \E i \in 1 .. l : out(i) = a
  BY <1>1, OutwardsEverywhere
<1>3. ASSUME NEW a \in 1 .. l, NEW b \in 1 .. l, a # b PROVE files[a] # files[b]
  <2>1. a < b \/ b < a
    BY <1>1, <1>3
  <2>2. files[a] < files[b] \/ files[b] < files[a]
    BY <2>1
  <2>3. files[a] \in Int /\ files[b] \in Int
    BY <1>1
  <2> QED
    BY <2>2, <2>3
<1>4. PICK t : /\ t[0] = <<>>
               /\ \A k \in 1 .. l : t[k] = Find!Push(index, t[k - 1], files[out(k)])
               /\ Find!Around(index, files, mid) = t[l]
  BY AroundTurns
<1> DEFINE good == {k \in 0 .. l : Pushed(index, n, files, mid, k, t[k])}
<1>5. 0 \in good
  <2>1. <<>> \in Seq(1 .. n) /\ Len(<<>>) = 0
    BY EmptySeq
  <2>2. Pushed(index, n, files, mid, 0, <<>>)
    BY <2>1 DEF Pushed
  <2> HIDE DEF l
  <2> QED
    BY <1>1, <1>4, <2>2
<1>6. ASSUME NEW k \in 1 .. l, k - 1 \in good PROVE k \in good
  <2>1. k \in Nat /\ k # 0 /\ Pushed(index, n, files, mid, k - 1, t[k - 1])
    BY <1>1, <1>6
  <2>2. files[out(k)] \in 1 .. n
    BY <1>1, <1>2
  <2>3. \A i \in 1 .. k - 1 : files[out(i)] # files[out(k)]
    <3> HIDE DEF l, out
    <3>1. ASSUME NEW i \in 1 .. k - 1 PROVE files[out(i)] # files[out(k)]
      <4>1. i \in 1 .. l /\ i # k
        BY <1>1, <3>1
      <4>2. out(i) # out(k) /\ out(i) \in 1 .. l /\ out(k) \in 1 .. l
        BY <1>2, <4>1
      <4> QED
        BY <1>3, <4>2
    <3> QED
      BY <3>1
  <2>4. Pushed(index, n, files, mid, k, Find!Push(index, t[k - 1], files[out(k)]))
    BY <2>1, <2>2, <2>3, PushPushes
  <2>5. k \in 0 .. l
    OBVIOUS
  <2> QED
    BY <1>4, <2>4, <2>5
<1>7. Pushed(index, n, files, mid, l, t[l])
  <2> HIDE DEF good, l
  <2>1. \A k \in 0 .. l : k \in good
    BY <1>1, <1>5, <1>6, Inductive
  <2>2. l \in good
    BY <1>1, <2>1
  <2> QED
    BY <2>2 DEF good
<1> DEFINE around == t[l]
<1> HIDE DEF l, good, out, around
<1>8. ASSUME NEW a \in 1 .. l, index.matches[files[a]]
      PROVE  \E b \in 1 .. Len(around) : around[b] = files[a]
  <2>1. PICK i \in 1 .. l : out(i) = a
    BY <1>2
  <2>2. \E b \in 1 .. Len(around) : around[b] = files[out(i)]
    BY <1>7, <1>8, <2>1 DEF Pushed, out, around
  <2> QED
    BY <2>1, <2>2
<1>9. ASSUME NEW b \in 1 .. Len(around)
      PROVE  \E a \in 1 .. l : around[b] = files[a] /\ index.matches[around[b]]
  <2>1. PICK i \in 1 .. l : around[b] = files[out(i)] /\ index.matches[around[b]]
    BY <1>7 DEF Pushed, out, around
  <2>2. out(i) \in 1 .. l
    BY <1>2
  <2> QED
    BY <2>1, <2>2
<1>10. /\ around \in Seq(1 .. n)
       /\ \A a, b \in 1 .. Len(around) : around[a] = around[b] => a = b
  BY <1>7 DEF Pushed, around
<1>11. Find!Around(index, files, mid) = around
  BY <1>4 DEF around
<1> QED
  BY <1>8, <1>9, <1>10, <1>11 DEF l

(* Every search in every index.                                            *)
THEOREM SearchFinds ==
    ASSUME NEW index \in Find!Indexes
    PROVE  Find!SearchMissesOnlyNeighbours(index)
<1>1. PICK n \in Nat : Indexed(index, n)
  BY IndexShape
<1> DEFINE files == Find!ForEach(index).files
           first == Find!ForEach(index).results
           mid == Find!Bisect(index, files).found
           around == IF mid = 0 THEN <<>> ELSE Find!Around(index, files, mid)
           found == Find!SearchInIndex(index)
           matching == {i \in DOMAIN index.matches : index.matches[i]}
<1>2. files \in Seq(1 .. n) /\ first \in Seq(1 .. n) /\ Passed(index, n, n, files, first)
  BY <1>1, ForEachPasses DEF Passed
<1>3. mid \in 0 .. Len(files)
  BY <1>2, BisectEnds DEF Windows
<1>4. /\ Len(files) \in Nat /\ Len(first) \in Nat /\ DOMAIN first = 1 .. Len(first)
      /\ Len(files) + Len(first) = n
      /\ \A b \in 1 .. Len(first) : first[b] \in 1 .. n
  BY <1>2, LenProperties, ElementOfSeq DEF Passed
<1>5. found = first \o around
  BY <1>2, ConcatEmptySeq DEF Find!SearchInIndex
<1>6. DOMAIN index.matches = 1 .. n
  BY <1>1 DEF Indexed
<1> HIDE DEF files, first, mid, found
<1>7. /\ around \in Seq(1 .. n) /\ Len(around) \in Nat
      /\ \A b \in 1 .. Len(around) : \E a \in 1 .. Len(files) :
            around[b] = files[a] /\ index.matches[around[b]]
      /\ \A a, b \in 1 .. Len(around) : around[a] = around[b] => a = b
      /\ mid = 0 => Len(around) = 0
      /\ mid # 0 => \A a \in 1 .. Len(files) : index.matches[files[a]] =>
                        \E b \in 1 .. Len(around) : around[b] = files[a]
  <2>1. CASE mid = 0
    <3>1. around = <<>> /\ <<>> \in Seq(1 .. n) /\ Len(<<>>) = 0
      BY <2>1, EmptySeq
    <3> QED
      BY <2>1, <3>1
  <2>2. CASE mid # 0
    <3>1. mid \in 1 .. Len(files) /\ around = Find!Around(index, files, mid)
      BY <1>3, <1>4, <2>2
    <3>2. \A a, b \in 1 .. Len(files) : a < b => files[a] < files[b]
      BY <1>2 DEF Passed
    <3>3. /\ Find!Around(index, files, mid) \in Seq(1 .. n)
          /\ \A b \in 1 .. Len(Find!Around(index, files, mid)) : \E a \in 1 .. Len(files) :
                /\ Find!Around(index, files, mid)[b] = files[a]
                /\ index.matches[Find!Around(index, files, mid)[b]]
          /\ \A a, b \in 1 .. Len(Find!Around(index, files, mid)) :
                Find!Around(index, files, mid)[a] = Find!Around(index, files, mid)[b] => a = b
          /\ \A a \in 1 .. Len(files) : index.matches[files[a]] =>
                \E b \in 1 .. Len(Find!Around(index, files, mid)) :
                    Find!Around(index, files, mid)[b] = files[a]
      BY <1>2, <3>1, <3>2, AroundHasAll
    <3>4. Len(Find!Around(index, files, mid)) \in Nat
      BY <3>3, LenProperties
    <3> QED
      BY <2>2, <3>1, <3>3, <3>4
  <2> QED
    BY <2>1, <2>2
<1> HIDE DEF around
<1>8. /\ found \in Seq(1 .. n) /\ Len(found) = Len(first) + Len(around)
      /\ \A i \in 1 .. Len(first) + Len(around) :
            found[i] = IF i <= Len(first) THEN first[i] ELSE around[i - Len(first)]
  BY <1>2, <1>5, <1>7, ConcatProperties
<1>9. DOMAIN found = 1 .. Len(found) /\ Len(found) \in Nat
  BY <1>8, LenProperties
<1>10. Len(first) \in Nat /\ Len(around) \in Nat /\ Len(found) = Len(first) + Len(around)
  BY <1>4, <1>7, <1>8
<1>11. ASSUME NEW i \in 1 .. Len(found), NEW j \in 1 .. Len(found), found[i] = found[j]
       PROVE  i = j
  <2>1. ASSUME NEW a \in 1 .. Len(first), NEW b \in 1 .. Len(around) PROVE first[a] # around[b]
    <3>1. PICK c \in 1 .. Len(files) : around[b] = files[c]
      BY <1>7
    <3>2. files[c] # first[a]
      BY <1>2 DEF Passed
    <3> QED
      BY <3>1, <3>2
  <2>2. \A a, b \in 1 .. Len(first) : first[a] = first[b] => a = b
    BY <1>2 DEF Passed
  <2>3. CASE i <= Len(first) /\ j <= Len(first)
    <3>1. i \in 1 .. Len(first) /\ j \in 1 .. Len(first)
      BY <1>4, <2>3
    <3> QED
      BY <1>8, <1>11, <2>2, <2>3, <3>1
  <2>4. CASE i <= Len(first) /\ ~(j <= Len(first))
    <3>1. i \in 1 .. Len(first) /\ j - Len(first) \in 1 .. Len(around)
      BY <1>10, <2>4
    <3> QED
      BY <1>8, <1>11, <2>1, <2>4, <3>1
  <2>5. CASE ~(i <= Len(first)) /\ j <= Len(first)
    <3>1. i - Len(first) \in 1 .. Len(around) /\ j \in 1 .. Len(first)
      BY <1>10, <2>5
    <3> QED
      BY <1>8, <1>11, <2>1, <2>5, <3>1
  <2>6. CASE ~(i <= Len(first)) /\ ~(j <= Len(first))
    <3>1. i - Len(first) \in 1 .. Len(around) /\ j - Len(first) \in 1 .. Len(around)
      BY <1>10, <2>6
    <3>2. found[i] = around[i - Len(first)] /\ found[j] = around[j - Len(first)]
      BY <1>8, <1>10, <2>6
    <3>3. i - Len(first) = j - Len(first)
      BY <1>7, <1>11, <3>1, <3>2
    <3> QED
      BY <1>10, <3>3
  <2> QED
    BY <2>3, <2>4, <2>5, <2>6
<1>12. ASSUME NEW x
       PROVE  x \in Find!ToSet(found) <=>
                 \/ \E b \in 1 .. Len(first) : first[b] = x
                 \/ \E b \in 1 .. Len(around) : around[b] = x
  <2>1. x \in Find!ToSet(found) <=> \E i \in 1 .. Len(found) : found[i] = x
    BY <1>9 DEF Find!ToSet
  <2>2. ASSUME NEW i \in 1 .. Len(found), found[i] = x
        PROVE  \/ \E b \in 1 .. Len(first) : first[b] = x
               \/ \E b \in 1 .. Len(around) : around[b] = x
    <3>1. CASE i <= Len(first)
      <4>1. i \in 1 .. Len(first) /\ first[i] = x
        BY <1>4, <1>8, <2>2, <3>1
      <4> QED
        BY <4>1
    <3>2. CASE ~(i <= Len(first))
      <4>1. i - Len(first) \in 1 .. Len(around)
        BY <1>10, <3>2
      <4>2. around[i - Len(first)] = x
        BY <1>8, <1>10, <2>2, <3>2
      <4> QED
        BY <4>1, <4>2
    <3> QED
      BY <3>1, <3>2
  <2>3. ASSUME NEW b \in 1 .. Len(first), first[b] = x
        PROVE  \E i \in 1 .. Len(found) : found[i] = x
    <3>1. b \in 1 .. Len(found) /\ b <= Len(first)
      BY <1>4, <1>7, <1>8
    <3> QED
      BY <1>8, <2>3, <3>1
  <2>4. ASSUME NEW b \in 1 .. Len(around), around[b] = x
        PROVE  \E i \in 1 .. Len(found) : found[i] = x
    <3>1. /\ Len(first) + b \in 1 .. Len(found) /\ ~(Len(first) + b <= Len(first))
          /\ (Len(first) + b) - Len(first) = b
      BY <1>10
    <3>2. found[Len(first) + b] = x
      BY <1>8, <2>4, <3>1
    <3> QED
      BY <3>1, <3>2
  <2> QED
    BY <2>1, <2>2, <2>3, <2>4
<1>13. \A x : x \in Find!ToSet(first) <=> \E b \in 1 .. Len(first) : first[b] = x
  BY <1>4 DEF Find!ToSet
<1>14. Find!IsInjective(found)
  BY <1>9, <1>11 DEF Find!IsInjective
<1>15. Find!ToSet(found) \subseteq matching
  <2>1. \A b \in 1 .. Len(first) : first[b] \in 1 .. n /\ index.matches[first[b]]
    BY <1>2, <1>4 DEF Passed
  <2>2. \A b \in 1 .. Len(around) : around[b] \in 1 .. n /\ index.matches[around[b]]
    BY <1>7, ElementOfSeq
  <2> QED
    BY <1>6, <1>12, <2>1, <2>2
<1>16. ASSUME NEW x \in matching, x \notin Find!ToSet(first)
       PROVE  \E a \in 1 .. Len(files) : files[a] = x /\ index.matches[files[a]]
  <2>1. x \in 1 .. n /\ ~ \E b \in 1 .. Len(first) : first[b] = x
    BY <1>6, <1>13, <1>16
  <2>2. PICK a \in 1 .. Len(files) : files[a] = x
    BY <1>2, <2>1 DEF Passed
  <2> QED
    BY <2>2
<1>17. ASSUME Find!ToSet(found) # matching PROVE Find!ToSet(found) = Find!ToSet(first)
  <2>1. PICK x \in matching : x \notin Find!ToSet(found)
    BY <1>15, <1>17
  <2>2. x \notin Find!ToSet(first) /\ ~ \E b \in 1 .. Len(around) : around[b] = x
    BY <1>12, <1>13, <2>1
  <2>3. PICK a \in 1 .. Len(files) : files[a] = x /\ index.matches[files[a]]
    BY <1>16, <2>1, <2>2
  <2>4. Len(around) = 0
    BY <1>7, <2>2, <2>3
  <2>5. \A y : ~ \E b \in 1 .. Len(around) : around[b] = y
    BY <2>4
  <2> QED
    BY <1>12, <1>13, <2>5
<1>18. ASSUME NEW x \in matching, x \notin Find!ToSet(first) PROVE x - 1 \in Find!ToSet(first)
  <2>1. PICK a \in 1 .. Len(files) : files[a] = x /\ index.matches[files[a]]
    BY <1>16, <1>18
  <2>2. a <= n
    BY <1>4
  <2>3. \E b \in 1 .. Len(first) : first[b] = files[a] - 1
    BY <1>2, <2>1, <2>2 DEF Passed
  <2> QED
    BY <1>13, <2>1, <2>3
<1>19. \A x \in matching \ Find!ToSet(first) : x - 1 \in Find!ToSet(first)
  BY <1>18
<1> QED
  BY <1>14, <1>15, <1>17, <1>19 DEF Find!SearchMissesOnlyNeighbours, first, found

-----------------------------------------------------------------------------
(* All the parts.                                                          *)

servicesVars == <<part, input, throttleVars, adminVars, connectionVars>>

(* A behaviour of all is one of each: the steps of one leave the others    *)
(* alone.                                                                  *)
THEOREM ServicesAreAll == ServicesSpec => ThrottleSpec /\ AdminSpec /\ Spec
<1>1. ServicesInit => ThrottleInit /\ AdminInit /\ Init
  BY DEF ServicesInit
<1>2. [ServicesNext]_servicesVars =>
          [ThrottleNext]_throttleVars /\ [AdminNext]_adminVars /\ [Next]_connectionVars
  BY DEF ServicesNext, InThrottle, InAdministration, InConnections, servicesVars
<1> QED
  BY <1>1, <1>2, PTL DEF ServicesSpec, servicesVars, ThrottleSpec, AdminSpec, Spec

(* Throttle, administration and web sockets keep their types.              *)
THEOREM ServicesTypesCorrect == ServicesSpec => []TypesOK
<1>1. ServicesSpec => []ThrottleTypeOK
  BY ServicesAreAll, ThrottleTypeCorrect
<1>2. ServicesSpec => []AdminTypeOK
  BY ServicesAssumption, ServicesAreAll, AdminTypeCorrect
<1>3. ServicesSpec => []TypeOK
  BY ServicesAssumption, ServicesAreAll, TypeCorrect
<1> QED
  BY <1>1, <1>2, <1>3, PTL DEF TypesOK

(* What is promised of one part holds of all.                              *)
THEOREM ServicesKeepPromises ==
    ServicesSpec => /\ RefusesOnlyTheLocked
                    /\ OwnerStaysAdmin /\ OwnerChangesHands /\ SettingsSurvive
                    /\ []RevokedSessionHasNoConnection /\ []ForgottenWhenClosed
                    /\ OnlyUnawaitedDeletionsEndTheProcess
<1>1. ServicesSpec => RefusesOnlyTheLocked
  BY ServicesAreAll, ThrottleIsLenient
<1>2. ServicesSpec => OwnerStaysAdmin /\ OwnerChangesHands /\ SettingsSurvive
  BY ServicesAssumption, ServicesAreAll, OwnersStay, HandsChange, SettingsAreFound
<1>3. ServicesSpec => /\ []RevokedSessionHasNoConnection /\ []ForgottenWhenClosed
                      /\ OnlyUnawaitedDeletionsEndTheProcess
  BY ServicesAssumption, ServicesAreAll,
     RevokedSessionIsForgotten, ClosedSocketIsForgotten, OneRevocationIsSafe
<1> QED
  BY <1>1, <1>2, <1>3

(* The inputs of a computation are what the computation is proved for, and *)
(* stay as they are.                                                       *)
InputsOK ==
    /\ part = "access" => input \in Acc!Caller
    /\ part = "search" => input \in Find!Indexes
    /\ part = "charts" => input \in Times

(* They do not change.                                                     *)
LEMMA InputsStay == ServicesSpec => []InputsOK
<1>1. Callers \subseteq Acc!Caller
  <2>1. ScopeSets \subseteq SUBSET Acc!Scopes
    BY DEF ScopeSets, Acc!ReadingScopes, Acc!Scopes
  <2> QED
    BY <2>1 DEF Callers, Acc!Caller
<1>2. ServicesInit => InputsOK
  BY <1>1 DEF ServicesInit, InputsOK
<1>3. InputsOK /\ [ServicesNext]_servicesVars => InputsOK'
  BY DEF InputsOK, ServicesNext, InThrottle, InAdministration, InConnections, servicesVars
<1> QED
  BY <1>2, <1>3, PTL DEF ServicesSpec, servicesVars

(* Who may do what, as the run states it.                                  *)
THEOREM ReadingKeysReadOnly == ServicesSpec => []ReadingKeysChangeNothing
<1>1. InputsOK => ReadingKeysChangeNothing
  BY ReadingKeysOnlyRead DEF InputsOK, ReadingKeysChangeNothing
<1> QED
  BY <1>1, InputsStay, PTL

(* No key gets more than it has.                                           *)
THEOREM KeysStay == ServicesSpec => []KeysStayWhatTheyAre
<1>1. InputsOK => KeysStayWhatTheyAre
  BY KeysNeverGrow DEF InputsOK, KeysStayWhatTheyAre
<1> QED
  BY <1>1, InputsStay, PTL

(* Accounts and the instance are guarded.                                  *)
THEOREM AccountsGuarded == ServicesSpec => []AccountsAreGuarded
<1>1. InputsOK => AccountsAreGuarded
  BY AccountsKeepTheirGuards DEF InputsOK, AccountsAreGuarded
<1> QED
  BY <1>1, InputsStay, PTL

(* The charts count every visit.                                           *)
THEOREM ChartsAreRight == ServicesSpec => []ChartsCountEveryVisit
<1>1. InputsOK => ChartsCountEveryVisit
  <2> SUFFICES ASSUME InputsOK, part = "charts"
               PROVE  EveryVisitCounts(input.from, input.from + input.span)
    BY DEF ChartsCountEveryVisit
  <2>1. input \in Times
    BY DEF InputsOK
  <2>2. input.from \in Int /\ input.span \in Nat
    BY <2>1 DEF Times
  <2>3. input.from + input.span \in Int /\ input.from <= input.from + input.span
    BY <2>2
  <2> QED
    BY <2>2, <2>3, ServicesAssumption, ChartsCount
<1> QED
  BY <1>1, InputsStay, PTL

(* Every search finds what it must.                                        *)
THEOREM SearchesFind == ServicesSpec => []SearchMissesOnlyNeighbours
<1>1. InputsOK => SearchMissesOnlyNeighbours
  BY SearchFinds DEF InputsOK, SearchMissesOnlyNeighbours
<1> QED
  BY <1>1, InputsStay, PTL
=============================================================================
