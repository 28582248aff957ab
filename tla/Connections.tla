----------------------------- MODULE Connections -----------------------------
(***************************************************************************)
(* The table of web sockets, through which users hear of changes, and the  *)
(* sessions they belong to.  A socket's session is validated while it      *)
(* connects, with several awaits; a revocation takes several more.  Both   *)
(* share the cache of sessions with the HTTP requests.                     *)
(*                                                                         *)
(* When a session expires and when its time is extended is left open here; *)
(* Sessions has the times.                                                 *)
(***************************************************************************)
EXTENDS Naturals

CONSTANTS
    Ids,        \* of sessions; a revoked one is not used again
    Clients,    \* slots for sockets and HTTP requests (a bound)
    Tasks,      \* slots for revocations at work (a bound)
    Guest,      \* the session of a socket without one
    None

(* Of the constants; None is neither of the two kinds of entry below.      *)
ConnectionsAssumption == Guest \notin Ids /\ None \notin {"current", "late"}

VARIABLES
    row,          \* the ids in the table Sessions
    sessionsCache,
    open,         \* the sockets that are connected
    shake,        \* handleConnection, or an HTTP request, at an await
    connections,
    revocation,
    alive

connectionVars == <<row, sessionsCache, open, shake, connections, revocation, alive>>

(* No part of the code: late says that a revocation of the session was at  *)
(* work during the validation, or the one that filled the cache; cut that  *)
(* the socket closed during it; twice that another revocation of the same  *)
(* session was at work, too.                                               *)
Shake == [id : Ids, socket : BOOLEAN, late : BOOLEAN, cut : BOOLEAN,
          pc : {"findUnique", "findOne", "update"}]
Connection == [id : Ids \cup {Guest}, late : BOOLEAN, cut : BOOLEAN]
Revocation == [id : Ids, awaited : BOOLEAN, twice : BOOLEAN, pc : {"count", "delete"}]

TypeOK ==
    /\ row \subseteq Ids
    /\ sessionsCache \in [Ids -> {"current", "late"} \cup {None}]
    /\ open \subseteq Clients
    /\ shake \in [Clients -> Shake \cup {None}]
    /\ connections \in [Clients -> Connection \cup {None}]
    /\ revocation \in [Tasks -> Revocation \cup {None}]
    /\ alive \in BOOLEAN

Init ==
    /\ row = Ids
    /\ sessionsCache = [i \in Ids |-> None]
    /\ open = {}
    /\ shake = [c \in Clients |-> None]
    /\ connections = [c \in Clients |-> None]
    /\ revocation = [t \in Tasks |-> None]
    /\ alive = TRUE

Revoking(i) == \E t \in Tasks : revocation[t] # None /\ revocation[t].id = i

Unused(c) == alive /\ c \notin open /\ shake[c] = None /\ connections[c] = None

-----------------------------------------------------------------------------
(* revokeSession.                                                          *)

LateShakes(i) == [c \in Clients |->
    IF shake[c] # None /\ shake[c].id = i THEN [shake[c] EXCEPT !.late = TRUE] ELSE shake[c]]

Revoke(i, awaited, shakes) ==
    /\ \E t \in Tasks :
          /\ revocation[t] = None
          /\ revocation' = [s \in Tasks |->
                 IF s = t THEN [id |-> i, awaited |-> awaited, twice |-> Revoking(i), pc |-> "count"]
                 ELSE IF revocation[s] # None /\ revocation[s].id = i
                      THEN [revocation[s] EXCEPT !.twice = TRUE] ELSE revocation[s]]
    /\ sessionsCache' = [sessionsCache EXCEPT ![i] = None]
    /\ shake' = shakes

(* A logout, or the revocation of another session.                         *)
Logout(i) ==
    /\ alive
    /\ Revoke(i, TRUE, LateShakes(i))
    /\ UNCHANGED <<row, open, connections, alive>>

(* Mutant: the sockets are not told.                                       *)
NoLogout(i) == connections

(* The listener of the logout: what is in the table of the session is      *)
(* forgotten.  The next line looks there for the socket to close, and      *)
(* throws: the socket stays open.                                          *)
EmitLogout(i) == [c \in Clients |->
    IF connections[c] # None /\ connections[c].id = i THEN None ELSE connections[c]]

(* Mutant: nobody looks whether the row is there.                          *)
CountAnyway(t) ==
    /\ revocation[t] # None /\ revocation[t].pc = "count"
    /\ revocation' = [revocation EXCEPT ![t].pc = "delete"]
    /\ connections' = EmitLogout(revocation[t].id)
    /\ UNCHANGED <<row, sessionsCache, open, shake, alive>>

Count(t) ==
    /\ revocation[t] # None /\ revocation[t].pc = "count"
    /\ IF revocation[t].id \in row
       THEN /\ revocation' = [revocation EXCEPT ![t].pc = "delete"]
            /\ connections' = EmitLogout(revocation[t].id)
       ELSE revocation' = [revocation EXCEPT ![t] = None] /\ UNCHANGED connections
    /\ UNCHANGED <<row, sessionsCache, open, shake, alive>>

(* The process ends: nothing of it is left.                                *)
Dies ==
    /\ alive' = FALSE
    /\ sessionsCache' = [i \in Ids |-> None]
    /\ open' = {}
    /\ shake' = [c \in Clients |-> None]
    /\ connections' = [c \in Clients |-> None]
    /\ revocation' = [t \in Tasks |-> None]

(* The deletion rejects when the row is gone, and whenever the database    *)
(* refuses it; the loop does not catch that, as it returns the promise.    *)
(* Who awaits the revocation answers with an error; validateSession does   *)
(* not await it.                                                           *)
Delete(t) ==
    LET cur == revocation[t]
        ended == /\ revocation' = [revocation EXCEPT ![t] = None]
                 /\ UNCHANGED <<sessionsCache, open, shake, connections, alive>>
    IN  /\ cur # None /\ cur.pc = "delete"
        /\ \/ cur.id \in row /\ row' = row \ {cur.id} /\ ended
           \/ cur.awaited /\ UNCHANGED row /\ ended
           \/ ~cur.awaited /\ UNCHANGED row /\ Dies

(* cleanSessionsCache, and changes of the user that drop his entries.      *)
CleanSessionsCache(i) ==
    /\ sessionsCache[i] # None
    /\ sessionsCache' = [sessionsCache EXCEPT ![i] = None]
    /\ UNCHANGED <<row, open, shake, connections, revocation, alive>>

Start == ~alive /\ alive' = TRUE /\ UNCHANGED <<row, sessionsCache, open, shake, connections, revocation>>

-----------------------------------------------------------------------------
(* validateSession, for a socket that connects or for a request.           *)

Registered(c, cur, i) ==
    [connections EXCEPT ![c] = IF cur.socket THEN [id |-> i, late |-> cur.late, cut |-> cur.cut] ELSE @]

(* InvalidSession: the socket is closed.                                   *)
Reject(c, cur) ==
    /\ shake' = [shake EXCEPT ![c] = None]
    /\ open' = open \ {c}
    /\ UNCHANGED <<sessionsCache, connections, revocation>>

(* The session is there: it is valid, or its time is to be extended first, *)
(* or it has expired.                                                      *)
Checked(c, cur) ==
    \/ /\ shake' = [shake EXCEPT ![c] = None]
       /\ connections' = Registered(c, cur, cur.id)
       /\ UNCHANGED <<sessionsCache, open, revocation>>
    \/ /\ shake' = [shake EXCEPT ![c] = [cur EXCEPT !.pc = "update"]]
       /\ UNCHANGED <<sessionsCache, open, connections, revocation>>
    \/ /\ Revoke(cur.id, FALSE, [LateShakes(cur.id) EXCEPT ![c] = None])
       /\ open' = open \ {c}
       /\ UNCHANGED connections

(* A socket with the token of a session; or a request.                     *)
HandleConnection(c, i, socket) ==
    LET cur == [id |-> i, socket |-> socket, late |-> Revoking(i) \/ sessionsCache[i] = "late",
                cut |-> FALSE, pc |-> "findUnique"]
    IN  /\ Unused(c)
        /\ \/ /\ sessionsCache[i] = None
              /\ shake' = [shake EXCEPT ![c] = cur]
              /\ open' = IF socket THEN open \cup {c} ELSE open
              /\ UNCHANGED <<sessionsCache, connections, revocation>>
           \/ /\ sessionsCache[i] # None
              /\ \/ /\ shake' = [shake EXCEPT ![c] = [cur EXCEPT !.pc = "update"]]
                    /\ open' = IF socket THEN open \cup {c} ELSE open
                    /\ UNCHANGED <<sessionsCache, connections, revocation>>
                 \/ /\ open' = IF socket THEN open \cup {c} ELSE open
                    /\ connections' = Registered(c, cur, i)
                    /\ UNCHANGED <<shake, sessionsCache, revocation>>
                 \/ Revoke(i, FALSE, LateShakes(i)) /\ UNCHANGED <<open, connections>>
        /\ UNCHANGED <<row, alive>>

(* A token that does not verify.                                           *)
ConnectAsGuest(c) ==
    /\ Unused(c)
    /\ open' = open \cup {c}
    /\ connections' = [connections EXCEPT ![c] = [id |-> Guest, late |-> FALSE, cut |-> FALSE]]
    /\ UNCHANGED <<row, sessionsCache, shake, revocation, alive>>

(* Without a row the answer is what the cache has by now.                  *)
FindUnique(c) ==
    LET cur == shake[c]
    IN  /\ cur # None /\ cur.pc = "findUnique"
        /\ \/ /\ cur.id \in row
              /\ shake' = [shake EXCEPT ![c].pc = "findOne"]
              /\ UNCHANGED <<open, connections, sessionsCache, revocation>>
           \/ cur.id \notin row /\ sessionsCache[cur.id] # None /\ Checked(c, [cur EXCEPT !.late = TRUE])
           \/ cur.id \notin row /\ sessionsCache[cur.id] = None /\ Reject(c, cur)
        /\ UNCHANGED <<row, alive>>

(* The user is read; the cache is filled, and the check follows.           *)
FindOne(c) ==
    LET cur == shake[c]
        entry == IF cur.late THEN "late" ELSE "current"
    IN  /\ cur # None /\ cur.pc = "findOne"
        /\ \/ /\ sessionsCache' = [sessionsCache EXCEPT ![cur.id] = entry]
              /\ \/ /\ shake' = [shake EXCEPT ![c] = None]
                    /\ connections' = Registered(c, cur, cur.id)
                 \/ shake' = [shake EXCEPT ![c].pc = "update"] /\ UNCHANGED connections
              /\ UNCHANGED <<open, revocation>>
           \/ /\ Revoke(cur.id, FALSE, [LateShakes(cur.id) EXCEPT ![c] = None])
              /\ open' = open \ {c}
              /\ UNCHANGED connections
        /\ UNCHANGED <<row, alive>>

(* The extension of a session rejects when its row is gone or the database *)
(* refuses it, which is no InvalidSession: the socket is a guest's.        *)
Update(c) ==
    LET cur == shake[c]
    IN  /\ cur # None /\ cur.pc = "update"
        /\ \E who \in {Guest} \cup ({cur.id} \cap row) : connections' = Registered(c, cur, who)
        /\ shake' = [shake EXCEPT ![c] = None]
        /\ UNCHANGED <<row, sessionsCache, open, revocation, alive>>

-----------------------------------------------------------------------------
(* What a connected socket does.                                           *)

(* "auth": the token alone decides.                                        *)
OnAuth(c, i) ==
    /\ c \in open /\ connections[c] # None
    /\ connections' = [connections EXCEPT ![c].id = i, ![c].late = TRUE]
    /\ UNCHANGED <<row, sessionsCache, open, shake, revocation, alive>>

OnLogout(c) ==
    /\ c \in open /\ connections[c] # None
    /\ connections' = [connections EXCEPT ![c].id = Guest]
    /\ UNCHANGED <<row, sessionsCache, open, shake, revocation, alive>>

(* Mutant: a guest stays in the table.                                     *)
KeepsGuests(c) ==
    IF connections[c] # None /\ connections[c].id = Guest THEN connections
    ELSE [connections EXCEPT ![c] = None]

Forgotten(c) == [connections EXCEPT ![c] = None]

(* It closes, also during the handshake, which goes on.                    *)
HandleDisconnect(c) ==
    /\ c \in open
    /\ open' = open \ {c}
    /\ connections' = Forgotten(c)
    /\ shake' = IF shake[c] = None THEN shake ELSE [shake EXCEPT ![c].cut = TRUE]
    /\ UNCHANGED <<row, sessionsCache, revocation, alive>>

Next ==
    \/ \E i \in Ids : Logout(i) \/ CleanSessionsCache(i)
    \/ \E t \in Tasks : Count(t) \/ Delete(t)
    \/ \E c \in Clients :
          \/ FindUnique(c) \/ FindOne(c) \/ Update(c)
          \/ ConnectAsGuest(c) \/ OnLogout(c) \/ HandleDisconnect(c)
          \/ \E i \in Ids : OnAuth(c, i) \/ \E socket \in BOOLEAN : HandleConnection(c, i, socket)
    \/ Start

Spec == Init /\ [][Next]_connectionVars

-----------------------------------------------------------------------------
(* A revoked session has no socket that hears of its user's files, unless  *)
(* the socket says so itself ("auth"), or was validated while the          *)
(* revocation was at work, or from a cache filled meanwhile.               *)
RevokedSessionHasNoConnection ==
    \A c \in Clients :
        connections[c] # None /\ connections[c].id \in Ids /\ ~connections[c].late
            => connections[c].id \in row

(* The table follows the sockets: what is in it is open, unless it closed  *)
(* while it was connecting, in which case it stays for good.               *)
ForgottenWhenClosed ==
    \A c \in Clients : connections[c] # None /\ c \notin open => connections[c].cut

(* A revocation ends the process only when nobody awaits it, and then only *)
(* when another one of the session overlapped it, or the database refuses  *)
(* to delete a row that is still there (revokeSession, validateSession).   *)
OnlyUnawaitedDeletionsEndTheProcess ==
    [][alive /\ ~alive' =>
           \E t \in Tasks :
               /\ revocation[t] # None /\ ~revocation[t].awaited
               /\ revocation[t].twice \/ revocation[t].id \in row]_connectionVars
=============================================================================
