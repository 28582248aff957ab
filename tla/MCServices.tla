------------------------------ MODULE MCServices ------------------------------
(***************************************************************************)
(* The parts that share no state with the files: the throttle of failed    *)
(* logins, the administration, the web sockets and their sessions; and the *)
(* parts that only compute: who may do what, the search and the charts,    *)
(* each checked for one input.  A behaviour is one of any of them.         *)
(***************************************************************************)
EXTENDS LoginThrottle, Administration, Connections, Statistics, TLC

CONSTANT MaxLength

VARIABLES
    part,
    input      \* of a computation

Acc == INSTANCE Access
Find == INSTANCE Search

ASSUME ServicesAssumption ==
    /\ AdministrationAssumption /\ ConnectionsAssumption
    /\ Find!SearchAssumption /\ StatisticsAssumption

-----------------------------------------------------------------------------
(* The inputs.                                                             *)

(* One scope at a time, those that read and the others, none and all.  Only*)
(* keys have scopes; a visitor is no administrator.                        *)
ScopeSets ==
    {{scope} : scope \in Acc!Scopes}
    \cup {{}, Acc!ReadingScopes, Acc!Scopes \ Acc!ReadingScopes, Acc!Scopes}

Callers ==
    {c \in [login : {"none", "login", "api"}, scopes : ScopeSets, isadmin : BOOLEAN,
            owner : Acc!People \cup {None}, target : Acc!People, admins : BOOLEAN,
            link : Acc!People \cup {None}, expired : BOOLEAN] :
        /\ c.login # "api" => c.scopes = {}
        /\ c.login = "none" => ~c.isadmin
        /\ c.isadmin => c.admins}

(* Around the limits of hours and days, two ticks an hour.                 *)
Times == [from : {1600, 1601, 1602, 1643, 1645, 1647}, span : 0 .. 5 \cup 94 .. 99 \cup 143 .. 147]

-----------------------------------------------------------------------------
ServicesInit ==
    /\ \/ part \in {"throttle", "admin", "connections"} /\ input = None
       \/ part = "access" /\ input \in Callers
       \/ part = "search" /\ input \in Find!Indexes
       \/ part = "charts" /\ input \in Times
    /\ ThrottleInit /\ AdminInit /\ Init

InThrottle == part = "throttle" /\ UNCHANGED <<part, input, adminVars, connectionVars>>

InAdministration == part = "admin" /\ UNCHANGED <<part, input, throttleVars, connectionVars>>

InConnections == part = "connections" /\ UNCHANGED <<part, input, throttleVars, adminVars>>

ServicesNext ==
    \/ InThrottle /\ ThrottleNext
    \/ InAdministration /\ AdminNext
    \/ InConnections /\ Next

ServicesSpec ==
    ServicesInit /\ [][ServicesNext]_<<part, input, throttleVars, adminVars, connectionVars>>

(* The sets of one part serve another as well: the clients are requests,   *)
(* the tasks saves, the users ids of sessions.  As no behaviour has both,  *)
(* what is symmetric in each is symmetric in all.                          *)
Symmetry == Permutations(Users) \cup Permutations(Clients) \cup Permutations(Tasks)

-----------------------------------------------------------------------------
(* Throttle, administration and web sockets keep their types.              *)
TypesOK == ThrottleTypeOK /\ AdminTypeOK /\ TypeOK

(* Api keys that may only read change nothing (JwtAuthGuard).              *)
ReadingKeysChangeNothing == part = "access" => Acc!ReadingKeysChangeNothing(input)

(* No api key gets a new one or a password (ApiKeyGuard).                  *)
KeysStayWhatTheyAre == part = "access" => Acc!KeysStayWhatTheyAre(input)

(* Accounts and the instance are changed by administrators and the owner   *)
(* only (AdminGuard, OwnerGuard, NotOwnerGuard, FirstUserGuard).           *)
AccountsAreGuarded == part = "access" => Acc!AccountsAreGuarded(input)

(* A search misses at most the neighbour of a match (searchInIndex).       *)
SearchMissesOnlyNeighbours == part = "search" => Find!SearchMissesOnlyNeighbours(input)

(* Charts count each visit once, but for one hole (getCustomTimeDimesion). *)
ChartsCountEveryVisit ==
    part = "charts" => EveryVisitCounts(input.from, input.from + input.span)
=============================================================================
